--------------------------- MODULE ObjectsProofs ---------------------------
(***************************************************************************)
(* The pool gives out no block twice and loses none, and the links of the  *)
(* lists are sequences, for pools of any size and any number of lists. The *)
(* chain of free blocks and the items of a list are defined by a walk      *)
(* along the indices or the links; the proofs name the sequence that each  *)
(* walk meets, and show how every call extends or shortens it.             *)
(***************************************************************************)
EXTENDS KernelObjects, ListLemmas, FiniteSetTheorems, WellFoundedInduction

-----------------------------------------------------------------------------
(***************************************************************************)
(* Walks.                                                                  *)
(***************************************************************************)

\* What is at the next place of a list and at the one before, or none.
After(c, k, none) == IF k < Len(c) THEN c[k + 1] ELSE none
Before(c, k, none) == IF k > 1 THEN c[k - 1] ELSE none

\* A set that holds 0 and the successor of each of its numbers holds all.
LEMMA SetInduction ==
  ASSUME NEW S, 0 \in S, \A n \in Nat : n \in S => n + 1 \in S
  PROVE  Nat \subseteq S
<1> DEFINE T == Nat \ S
           R == {ss \in Nat \X Nat : ss[1] < ss[2]}
<1> SUFFICES ASSUME T # {} PROVE FALSE
  OBVIOUS
<1>1. IsWellFoundedOn(R, Nat)
  BY NatLessThanWellFounded DEF OpToRel
<1>2. T \subseteq Nat
  OBVIOUS
<1>3. \E x \in T : \A y \in T : ~ (<<y, x>> \in R)
  <2> HIDE DEF T, R
  <2> QED BY <1>1, <1>2, WFMin
<1>4. PICK x \in T : \A y \in T : ~ (<<y, x>> \in R)
  BY <1>3
<1>5. x \in Nat /\ x # 0
  OBVIOUS
<1>6. x - 1 \in Nat /\ x - 1 < x
  BY <1>5
<1>7. <<x - 1, x>> \in R
  BY <1>5, <1>6
<1>8. x - 1 \notin T
  BY <1>4, <1>7
<1>9. x - 1 \in S
  BY <1>6, <1>8
<1> QED BY <1>6, <1>9

\* The places of a list from 0 on, where 0 stands before the first one.
Places(c, none) == [n \in Nat |-> After(c, n, none)]

\* next leads from each place of the list to the next one.
Leads(next, c, none) == \A k \in 1..Len(c) : next[c[k]] = After(c, k, none)

\* The next place, when next leads from each place of the list to the next one.
LEMMA NextPlace ==
  ASSUME NEW S, NEW c \in Seq(S), NEW none, none \notin S, NEW next,
         Leads(next, c, none), NEW n \in Nat
  PROVE  Places(c, none)[n + 1] = IF Places(c, none)[n] = none THEN none
                                  ELSE next[Places(c, none)[n]]
<1>1. Len(c) \in Nat
  BY LenProperties
<1>2. Places(c, none)[n] = After(c, n, none) /\ Places(c, none)[n + 1] = After(c, n + 1, none)
  BY DEF Places
<1>3. CASE n < Len(c)
  <2>1. n + 1 \in 1..Len(c)
    BY <1>1, <1>3
  <2>2. c[n + 1] \in S
    BY <2>1, ElementOfSeq
  <2>3. After(c, n, none) = c[n + 1] /\ c[n + 1] # none
    BY <1>3, <2>2 DEF After
  <2> QED BY <1>2, <2>1, <2>3 DEF Leads
<1>4. CASE ~(n < Len(c))
  <2>1. After(c, n, none) = none /\ After(c, n + 1, none) = none
    BY <1>1, <1>4 DEF After
  <2> QED BY <1>2, <2>1
<1> QED BY <1>3, <1>4

\* at is a walk from first along next.
Walks(at, first, next, none) ==
  /\ at[0] = first
  /\ \A n \in Nat : at[n + 1] = IF at[n] = none THEN none ELSE next[at[n]]

\* A walk meets the elements of the list in order, and none from then on.
LEMMA WalkMeets ==
  ASSUME NEW S, NEW c \in Seq(S), NEW none, none \notin S, NEW next,
         Leads(next, c, none), NEW at, Walks(at, After(c, 0, none), next, none)
  PROVE  \A n \in Nat : at[n] = After(c, n, none)
<1> DEFINE w == Places(c, none)
<1>1. \A n \in Nat : w[n] = After(c, n, none)
  BY DEF Places
<1>2. ASSUME NEW n \in Nat
      PROVE  w[n + 1] = IF w[n] = none THEN none ELSE next[w[n]]
  BY NextPlace
<1> HIDE DEF w
<1> DEFINE T == {n \in Nat : at[n] = w[n]}
<1>3. 0 \in T
  BY <1>1 DEF Walks
<1>4. ASSUME NEW n \in Nat, n \in T PROVE n + 1 \in T
  <2>1. at[n] = w[n]
    BY <1>4
  <2>2. at[n + 1] = IF at[n] = none THEN none ELSE next[at[n]]
    BY DEF Walks
  <2>3. at[n + 1] = w[n + 1]
    BY <1>2, <2>1, <2>2
  <2> QED BY <2>3
<1>5. Nat \subseteq T
  <2> HIDE DEF T
  <2> QED BY <1>3, <1>4, SetInduction
<1> QED BY <1>1, <1>5

\* A list without repetitions has as many elements as places.
LEMMA InjectiveLen ==
  ASSUME NEW S, NEW c \in Seq(S), IsInjective(c)
  PROVE  IsFiniteSet(Range(c)) /\ Cardinality(Range(c)) = Len(c)
<1>1. Len(c) \in Nat /\ DOMAIN c = 1..Len(c)
  BY LenProperties
<1>2. c \in Bijection(1..Len(c), Range(c))
  <2>1. c \in [1..Len(c) -> Range(c)]
    BY <1>1, RangeOf
  <2>2. \A i, j \in 1..Len(c) : c[i] = c[j] => i = j
    BY RangeOf
  <2>3. \A x \in Range(c) : \E i \in 1..Len(c) : c[i] = x
    BY RangeOf
  <2> QED BY <2>1, <2>2, <2>3 DEF Bijection, Injection, Surjection
<1>3. IsFiniteSet(1..Len(c)) /\ Cardinality(1..Len(c)) = Len(c)
  BY <1>1, FS_Interval
<1>4. ExistsBijection(1..Len(c), Range(c))
  BY <1>2 DEF ExistsBijection
<1> QED BY <1>3, <1>4, FS_Bijection

-----------------------------------------------------------------------------
(***************************************************************************)
(* The pool.                                                               *)
(***************************************************************************)

\* c is the chain of the free blocks: it holds each block that is not handed out
\* once, and each index in the array leads to the next block of c.
ChainIs(c, list, first, size) ==
  /\ c \in Seq(Blocks)
  /\ IsInjective(c)
  /\ Range(c) = {i \in Blocks : list[i] # DetachedIdx}
  /\ Len(c) = size
  /\ first = After(c, 0, NullIdx)
  /\ Leads(list, c, NullIdx)

\* There is such a chain: this is inductive.
PoolInv ==
  /\ free_list \in [Blocks -> Blocks \union {NullIdx, DetachedIdx}]
  /\ \E c \in Seq(Blocks) : ChainIs(c, free_list, first_idx, free_size)

\* The two special indices are the index of no block.
LEMMA NoBlockIndex ==
  /\ NullIdx \notin Blocks /\ DetachedIdx \notin Blocks /\ NullIdx # DetachedIdx
  /\ IsFiniteSet(Blocks) /\ Cardinality(Blocks) = num_items
  /\ num_items \in Nat \ {0}
<1>1. num_items \in Nat \ {0} /\ Blocks = 0..(num_items - 1)
  BY PoolAssumption DEF Blocks
<1>2. IsFiniteSet(0..(num_items - 1)) /\ Cardinality(0..(num_items - 1)) = num_items
  <2>1. 0 \in Int /\ num_items - 1 \in Int /\ num_items - 1 - 0 + 1 = num_items
    BY <1>1
  <2>2. 0 <= num_items - 1
    BY <1>1
  <2> QED BY <2>1, <2>2, FS_Interval
<1> QED BY <1>1, <1>2 DEF NullIdx, DetachedIdx

\* The walk from first_idx meets the chain.
LEMMA FreeBlocksAre ==
  ASSUME NEW c \in Seq(Blocks), first_idx = After(c, 0, NullIdx), Leads(free_list, c, NullIdx)
  PROVE  \A n \in Nat : FreeBlock[n] = After(c, n, NullIdx)
<1> DEFINE w == Places(c, NullIdx)
<1>1. ASSUME NEW n \in Nat
      PROVE  w[n + 1] = IF w[n] = NullIdx THEN NullIdx ELSE free_list[w[n]]
  BY NextPlace, NoBlockIndex
<1>2. w[0] = first_idx
  BY DEF Places
<1>3. w = [n \in Nat |-> w[n]]
  BY DEF Places
<1> HIDE DEF w
<1>4. ASSUME NEW n \in Nat
      PROVE  w[n] = IF n = 0 THEN first_idx
                    ELSE IF w[n - 1] = NullIdx THEN NullIdx ELSE free_list[w[n - 1]]
  <2>1. CASE n = 0
    BY <1>2, <2>1
  <2>2. CASE n # 0
    <3>1. n - 1 \in Nat /\ (n - 1) + 1 = n
      BY <2>2
    <3>2. w[(n - 1) + 1] = IF w[n - 1] = NullIdx THEN NullIdx ELSE free_list[w[n - 1]]
      BY <1>1, <3>1
    <3> QED BY <2>2, <3>1, <3>2
  <2> QED BY <2>1, <2>2
<1>5. w = [n \in Nat |-> IF n = 0 THEN first_idx
                         ELSE IF w[n - 1] = NullIdx THEN NullIdx ELSE free_list[w[n - 1]]]
  BY <1>3, <1>4
<1>6. FreeBlock = [n \in Nat |-> IF n = 0 THEN first_idx
                                 ELSE IF FreeBlock[n - 1] = NullIdx THEN NullIdx
                                      ELSE free_list[FreeBlock[n - 1]]]
  BY <1>5 DEF FreeBlock
<1> DEFINE at == FreeBlock
<1>7. at[0] = first_idx
  BY <1>6
<1>8. ASSUME NEW n \in Nat
      PROVE  at[n + 1] = IF at[n] = NullIdx THEN NullIdx ELSE free_list[at[n]]
  <2>1. n + 1 \in Nat /\ n + 1 # 0 /\ (n + 1) - 1 = n
    OBVIOUS
  <2> QED BY <1>6, <2>1
<1> HIDE DEF at
<1>9. Walks(at, After(c, 0, NullIdx), free_list, NullIdx)
  BY <1>7, <1>8 DEF Walks
<1>10. \A n \in Nat : at[n] = After(c, n, NullIdx)
  BY <1>9, WalkMeets, NoBlockIndex
<1> QED BY <1>10 DEF at

\* A chain is all that FreeListComplete asks for.
LEMMA ChainIsComplete ==
  ASSUME PoolInv
  PROVE  FreeListComplete
<1>1. PICK c \in Seq(Blocks) : ChainIs(c, free_list, first_idx, free_size)
  BY DEF PoolInv
<1>2. \A n \in Nat : FreeBlock[n] = After(c, n, NullIdx)
  BY <1>1, FreeBlocksAre DEF ChainIs
<1>3. /\ IsFiniteSet(Range(c)) /\ Cardinality(Range(c)) = Len(c)
      /\ Len(c) \in Nat
      /\ Range(c) \subseteq Blocks
      /\ \A x : x \in Range(c) <=> \E i \in 1..Len(c) : c[i] = x
  BY <1>1, InjectiveLen, LenProperties, RangeOf DEF ChainIs
<1>4. Len(c) <= num_items
  BY <1>3, NoBlockIndex, FS_Subset
<1> DEFINE chain == {FreeBlock[n] : n \in 0..(num_items - 1)} \ {NullIdx}
<1>5. chain = Range(c)
  <2>1. ASSUME NEW x \in chain PROVE x \in Range(c)
    <3>1. PICK n \in 0..(num_items - 1) : x = FreeBlock[n] /\ x # NullIdx
      BY <2>1
    <3>2. n \in Nat /\ x = After(c, n, NullIdx)
      BY <1>2, <3>1, NoBlockIndex
    <3>3. n + 1 \in 1..Len(c) /\ x = c[n + 1]
      BY <1>3, <3>1, <3>2 DEF After
    <3> QED BY <1>3, <3>3
  <2>2. ASSUME NEW x \in Range(c) PROVE x \in chain
    <3>1. PICK i \in 1..Len(c) : c[i] = x
      BY <1>3
    <3>2. i - 1 \in 0..(num_items - 1) /\ i - 1 \in Nat /\ i - 1 < Len(c) /\ (i - 1) + 1 = i
      BY <1>3, <1>4, NoBlockIndex
    <3>3. FreeBlock[i - 1] = x
      BY <1>2, <3>1, <3>2 DEF After
    <3>4. x # NullIdx
      BY <1>3, NoBlockIndex
    <3> QED BY <3>2, <3>3, <3>4
  <2> QED BY <2>1, <2>2
<1>6. FreeBlock[num_items] = NullIdx
  BY <1>2, <1>3, <1>4, NoBlockIndex DEF After
<1>7. Range(c) = Blocks \ Detached /\ Len(c) = free_size
  BY <1>1 DEF ChainIs, Detached
<1> HIDE DEF chain
<1>8. chain = Blocks \ Detached /\ free_size = Cardinality(chain)
  BY <1>3, <1>5, <1>7
<1> QED BY <1>6, <1>8 DEF FreeListComplete, chain

\* At the start the blocks are chained in order.
LEMMA PoolInitInv ==
  ASSUME PoolInit
  PROVE  PoolInv
<1> DEFINE c == [k \in 1..num_items |-> k - 1]
<1>1. num_items \in Nat \ {0} /\ Blocks = 0..(num_items - 1)
  BY NoBlockIndex DEF Blocks
<1>2. c \in Seq(Blocks) /\ Len(c) = num_items /\ \A k \in 1..num_items : c[k] = k - 1
  <2>1. \A k \in 1..num_items : k - 1 \in Blocks
    BY <1>1
  <2>2. c \in [1..num_items -> Blocks]
    BY <2>1
  <2>3. c \in Seq(Blocks)
    BY <1>1, <2>2, IsASeq
  <2>4. Len(c) = num_items
    BY <1>1, <2>2, <2>3, LenProperties
  <2> QED BY <2>3, <2>4
<1> HIDE DEF c
<1>3. IsInjective(c)
  BY <1>1, <1>2, RangeOf
<1>4. \A i \in Blocks : free_list[i] = (IF i = num_items - 1 THEN NullIdx ELSE i + 1)
  BY DEF PoolInit
<1>5. \A i \in Blocks : free_list[i] # DetachedIdx
  BY <1>1, <1>4 DEF NullIdx, DetachedIdx
<1>6. Range(c) = {i \in Blocks : free_list[i] # DetachedIdx}
  <2>1. ASSUME NEW i \in Blocks PROVE i \in Range(c)
    <3>1. i + 1 \in 1..num_items /\ c[i + 1] = i
      BY <1>1, <1>2
    <3> QED BY <1>2, <3>1, RangeOf
  <2>2. Range(c) \subseteq Blocks
    BY <1>2, RangeOf
  <2> QED BY <1>5, <2>1, <2>2
<1>7. first_idx = After(c, 0, NullIdx) /\ free_size = Len(c)
  BY <1>1, <1>2 DEF After, PoolInit
<1>8. Leads(free_list, c, NullIdx)
  <2> SUFFICES ASSUME NEW k \in 1..num_items
               PROVE  free_list[c[k]] = After(c, k, NullIdx)
    BY <1>2 DEF Leads
  <2>1. c[k] = k - 1 /\ k - 1 \in Blocks /\ (k < num_items => c[k + 1] = k)
    BY <1>1, <1>2
  <2> QED BY <1>1, <1>2, <1>4, <2>1 DEF After
<1>9. free_list \in [Blocks -> Blocks \union {NullIdx, DetachedIdx}]
  BY <1>1 DEF PoolInit
<1> QED BY <1>2, <1>3, <1>6, <1>7, <1>8, <1>9 DEF PoolInv, ChainIs

\* GetBlock takes the head of the chain.
LEMMA GetBlockStep ==
  ASSUME PoolInv, NEW i \in Blocks, GetBlock(i)
  PROVE  /\ PoolInv'
         /\ i \notin Detached
         /\ Detached' = Detached \union {i}
<1>1. PICK c \in Seq(Blocks) : ChainIs(c, free_list, first_idx, free_size)
  BY DEF PoolInv
<1>2. /\ i = After(c, 0, NullIdx) /\ i # NullIdx
      /\ IsInjective(c)
      /\ Range(c) = {j \in Blocks : free_list[j] # DetachedIdx}
      /\ Len(c) = free_size
      /\ Leads(free_list, c, NullIdx)
      /\ free_list \in [Blocks -> Blocks \union {NullIdx, DetachedIdx}]
      /\ first_idx' = free_list[i]
      /\ free_list' = [free_list EXCEPT ![i] = DetachedIdx]
      /\ free_size' = free_size - 1
  BY <1>1 DEF ChainIs, GetBlock, PoolInv
<1>3. Len(c) \in Nat /\ 0 < Len(c) /\ i = c[1] /\ c # <<>>
  BY <1>2, LenProperties, EmptySeq DEF After
<1> DEFINE t == Tail(c)
<1>4. /\ t \in Seq(Blocks)
      /\ Len(t) = Len(c) - 1
      /\ Range(c) = Range(t) \union {i}
      /\ IsInjective(t)
      /\ i \notin Range(t)
      /\ \A k \in 1..Len(t) : t[k] = c[k + 1]
  <2>1. Head(c) = i /\ \A k \in 1..Len(t) : t[k] = c[k + 1]
    BY <1>3, HeadTailProperties
  <2> QED BY <1>2, <1>3, <2>1, TailRange
<1> HIDE DEF t
<1>5. \A k \in 0..Len(t) : After(t, k, NullIdx) = After(c, k + 1, NullIdx)
  <2> TAKE k \in 0..Len(t)
  <2>1. CASE k < Len(t)
    <3>1. k + 1 \in 1..Len(t) /\ k + 1 < Len(c)
      BY <1>3, <1>4, <2>1
    <3> QED BY <1>4, <2>1, <3>1 DEF After
  <2>2. CASE ~(k < Len(t))
    <3>1. ~(k + 1 < Len(c))
      BY <1>3, <1>4, <2>2
    <3> QED BY <2>2, <3>1 DEF After
  <2> QED BY <2>1, <2>2
<1>6. first_idx' = After(t, 0, NullIdx)
  <2>1. 1 \in 1..Len(c) /\ 0 \in 0..Len(t)
    BY <1>3, <1>4
  <2>2. free_list[c[1]] = After(c, 1, NullIdx) /\ After(t, 0, NullIdx) = After(c, 0 + 1, NullIdx)
    BY <1>2, <1>5, <2>1 DEF Leads
  <2> QED BY <1>2, <1>3, <2>2
<1>7. Leads(free_list', t, NullIdx)
  <2> SUFFICES ASSUME NEW k \in 1..Len(t)
               PROVE  free_list'[t[k]] = After(t, k, NullIdx)
    BY DEF Leads
  <2>1. /\ k + 1 \in 1..Len(c) /\ k \in 0..Len(t)
        /\ t[k] = c[k + 1] /\ t[k] # i /\ t[k] \in Blocks
    BY <1>3, <1>4, RangeOf
  <2>2. free_list[c[k + 1]] = After(c, k + 1, NullIdx)
    BY <1>2, <2>1 DEF Leads
  <2> QED BY <1>2, <1>5, <2>1, <2>2
<1>8. \A j \in Blocks : free_list'[j] = IF j = i THEN DetachedIdx ELSE free_list[j]
  BY <1>2
<1>9. Range(t) = {j \in Blocks : free_list'[j] # DetachedIdx}
  BY <1>2, <1>4, <1>8
<1>10. Len(t) = free_size'
  BY <1>2, <1>4
<1>11. ChainIs(t, free_list', first_idx', free_size')
  BY <1>4, <1>6, <1>7, <1>9, <1>10 DEF ChainIs
<1>12. free_list' \in [Blocks -> Blocks \union {NullIdx, DetachedIdx}]
  BY <1>2
<1>13. PoolInv'
  BY <1>4, <1>11, <1>12 DEF PoolInv
<1>14. i \in Range(c)
  BY <1>4
<1>15. i \notin Detached /\ Detached' = Detached \union {i}
  BY <1>2, <1>8, <1>14 DEF Detached
<1> QED BY <1>13, <1>15

\* ReleaseBlock puts a block that was handed out in front of the chain.
LEMMA ReleaseBlockStep ==
  ASSUME PoolInv, NEW offset \in Int, ReleaseBlock(offset)
  PROVE  /\ PoolInv'
         /\ \E i \in Detached : offset = i * item_size /\ Detached' = Detached \ {i}
<1>1. PICK c \in Seq(Blocks) : ChainIs(c, free_list, first_idx, free_size)
  BY DEF PoolInv
<1> DEFINE i == offset \div item_size
<1>2. /\ i \in Blocks
      /\ free_list[i] = DetachedIdx
      /\ free_list' = [free_list EXCEPT ![i] = first_idx]
      /\ first_idx' = i
      /\ free_size' = free_size + 1
  BY DEF ReleaseBlock, Releasable
<1>3. offset = i * item_size
  <2>1. offset % item_size = 0 /\ item_size \in Nat \ {0}
    BY PoolAssumption DEF ReleaseBlock, Releasable
  <2> QED BY <2>1
<1> HIDE DEF i
<1>4. /\ IsInjective(c)
      /\ Range(c) = {j \in Blocks : free_list[j] # DetachedIdx}
      /\ Len(c) = free_size
      /\ first_idx = After(c, 0, NullIdx)
      /\ Leads(free_list, c, NullIdx)
      /\ free_list \in [Blocks -> Blocks \union {NullIdx, DetachedIdx}]
      /\ Len(c) \in Nat
  BY <1>1, LenProperties DEF ChainIs, PoolInv
<1> DEFINE u == <<i>> \o c
<1>5. /\ u \in Seq(Blocks)
      /\ Len(u) = Len(c) + 1
      /\ Range(u) = Range(c) \union {i}
      /\ IsInjective(u)
      /\ u[1] = i
      /\ \A k \in 1..Len(c) : u[k + 1] = c[k]
  <2>1. i \notin Range(c)
    BY <1>2, <1>4
  <2>2. u \in Seq(Blocks) /\ Range(u) = Range(c) \union {i} /\ IsInjective(u)
    BY <1>2, <1>4, <2>1, PushRange
  <2>3. <<i>> \in Seq(Blocks) /\ Len(<<i>>) = 1 /\ <<i>>[1] = i
    BY <1>2
  <2>4. Len(u) = 1 + Len(c) /\ \A k \in 1..Len(u) : u[k] = IF k <= 1 THEN <<i>>[k] ELSE c[k - 1]
    BY <2>3, ConcatProperties
  <2>5. 1 \in 1..Len(u) /\ \A k \in 1..Len(c) : k + 1 \in 1..Len(u) /\ ~(k + 1 <= 1) /\ (k + 1) - 1 = k
    BY <1>4, <2>4
  <2> HIDE DEF u
  <2>6. u[1] = i
    BY <2>3, <2>4, <2>5
  <2>7. \A k \in 1..Len(c) : u[k + 1] = c[k]
    BY <2>4, <2>5
  <2> QED BY <1>4, <2>2, <2>4, <2>6, <2>7
<1> HIDE DEF u
<1>6. \A k \in 0..Len(c) : After(u, k + 1, NullIdx) = After(c, k, NullIdx)
  <2> TAKE k \in 0..Len(c)
  <2>1. CASE k < Len(c)
    <3>1. k + 1 \in 1..Len(c) /\ k + 1 < Len(u)
      BY <1>4, <1>5, <2>1
    <3>2. u[(k + 1) + 1] = c[k + 1]
      BY <1>5, <3>1
    <3> QED BY <2>1, <3>1, <3>2 DEF After
  <2>2. CASE ~(k < Len(c))
    <3>1. ~(k + 1 < Len(u))
      BY <1>4, <1>5, <2>2
    <3> QED BY <2>2, <3>1 DEF After
  <2> QED BY <2>1, <2>2
<1>7. first_idx' = After(u, 0, NullIdx)
  BY <1>2, <1>4, <1>5 DEF After
<1>8. Leads(free_list', u, NullIdx)
  <2> SUFFICES ASSUME NEW k \in 1..Len(u)
               PROVE  free_list'[u[k]] = After(u, k, NullIdx)
    BY DEF Leads
  <2>1. CASE k = 1
    <3>1. 0 \in 0..Len(c) /\ 0 + 1 = 1
      BY <1>4
    <3>2. After(u, 1, NullIdx) = first_idx
      BY <1>4, <1>6, <3>1
    <3> QED BY <1>2, <1>4, <1>5, <2>1, <3>2
  <2>2. CASE k # 1
    <3>1. k - 1 \in 1..Len(c) /\ k - 1 \in 0..Len(c) /\ (k - 1) + 1 = k
      BY <1>4, <1>5, <2>2
    <3>2. u[k] = c[k - 1] /\ After(u, k, NullIdx) = After(c, k - 1, NullIdx)
      BY <1>5, <1>6, <3>1
    <3>3. free_list[c[k - 1]] = After(c, k - 1, NullIdx)
      BY <1>4, <3>1 DEF Leads
    <3>4. c[k - 1] \in Range(c) /\ c[k - 1] \in Blocks
      BY <3>1, RangeOf
    <3>5. c[k - 1] # i
      BY <1>2, <1>4, <3>4
    <3> QED BY <1>2, <1>4, <3>2, <3>3, <3>4, <3>5
  <2> QED BY <2>1, <2>2
<1>9. first_idx \in Blocks \union {NullIdx}
  <2>1. 0 < Len(c) => 1 \in 1..Len(c)
    BY <1>4
  <2> QED BY <1>4, <2>1, ElementOfSeq DEF After
<1>10. \A j \in Blocks : free_list'[j] = IF j = i THEN first_idx ELSE free_list[j]
  BY <1>4, <1>2
<1>11. first_idx # DetachedIdx
  BY <1>9, NoBlockIndex
<1>12. Range(u) = {j \in Blocks : free_list'[j] # DetachedIdx}
  BY <1>2, <1>4, <1>5, <1>10, <1>11
<1>13. ChainIs(u, free_list', first_idx', free_size')
  BY <1>2, <1>4, <1>5, <1>7, <1>8, <1>12 DEF ChainIs
<1>14. free_list' \in [Blocks -> Blocks \union {NullIdx, DetachedIdx}]
  BY <1>2, <1>4, <1>9
<1>15. PoolInv'
  BY <1>5, <1>13, <1>14 DEF PoolInv
<1>16. i \in Detached /\ Detached' = Detached \ {i}
  BY <1>2, <1>10, <1>11 DEF Detached
<1> QED BY <1>3, <1>15, <1>16

-----------------------------------------------------------------------------
(***************************************************************************)
(* Places of a sequence that grows or shrinks by one element.              *)
(***************************************************************************)

\* u is a followed by b, that have m and n elements.
Joined(u, a, b, m, n) ==
  /\ Len(u) = m + n
  /\ \A k \in 1..(m + n) : u[k] = IF k <= m THEN a[k] ELSE b[k - m]

\* The elements of two sequences in a row.
LEMMA ConcatElements ==
  ASSUME NEW S, NEW a \in Seq(S), NEW b \in Seq(S)
  PROVE  a \o b \in Seq(S) /\ Joined(a \o b, a, b, Len(a), Len(b))
  BY ConcatProperties DEF Joined

\* u is s with x between the places p and p + 1.
Inserted(u, s, p, x) ==
  /\ Len(u) = Len(s) + 1
  /\ \A k \in 1..(Len(s) + 1) : u[k] = IF k <= p THEN s[k]
                                       ELSE IF k = p + 1 THEN x ELSE s[k - 1]

\* The elements of a sequence after an insertion.
LEMMA InsertElements ==
  ASSUME NEW S, NEW s \in Seq(S), NEW x \in S, NEW p \in 0..Len(s)
  PROVE  /\ InsertAt(s, p + 1, x) \in Seq(S)
         /\ Inserted(InsertAt(s, p + 1, x), s, p, x)
<1> DEFINE a == SubSeq(s, 1, p)
           b == SubSeq(s, p + 1, Len(s))
           e == <<x>>
<1>1. Len(s) \in Nat /\ p \in Nat /\ p <= Len(s) /\ \A k \in 1..Len(s) : s[k] \in S
  BY LenProperties, ElementOfSeq
<1>2. a \in Seq(S) /\ Len(a) = p /\ \A k \in 1..p : a[k] = s[k]
  <2>1. \A k \in 1..p : s[k] \in S
    BY <1>1
  <2>2. 1 \in Int /\ p \in Int
    BY <1>1
  <2>3. /\ a \in Seq(S)
        /\ Len(a) = IF 1 <= p THEN p - 1 + 1 ELSE 0
        /\ \A k \in 1..(p - 1 + 1) : a[k] = s[1 + k - 1]
    BY <2>1, <2>2, SubSeqProperties
  <2> HIDE DEF a
  <2>4. Len(a) = p
    BY <1>1, <2>3
  <2>5. ASSUME NEW k \in 1..p PROVE a[k] = s[k]
    BY <1>1, <2>3
  <2> QED BY <2>3, <2>4, <2>5
<1>3. b \in Seq(S) /\ Len(b) = Len(s) - p /\ \A k \in 1..(Len(s) - p) : b[k] = s[p + k]
  <2>1. \A k \in (p + 1)..Len(s) : s[k] \in S
    BY <1>1
  <2>2. p + 1 \in Int /\ Len(s) \in Int
    BY <1>1
  <2>3. /\ b \in Seq(S)
        /\ Len(b) = IF p + 1 <= Len(s) THEN Len(s) - (p + 1) + 1 ELSE 0
        /\ \A k \in 1..(Len(s) - (p + 1) + 1) : b[k] = s[p + 1 + k - 1]
    BY <2>1, <2>2, SubSeqProperties
  <2> HIDE DEF b
  <2>4. Len(b) = Len(s) - p
    BY <1>1, <2>3
  <2>5. ASSUME NEW k \in 1..(Len(s) - p) PROVE b[k] = s[p + k]
    BY <1>1, <2>3
  <2> QED BY <2>3, <2>4, <2>5
<1>4. e \in Seq(S) /\ Len(e) = 1 /\ e[1] = x
  OBVIOUS
<1>5. InsertAt(s, p + 1, x) = a \o e \o b
  <2>1. (p + 1) - 1 = p
    BY <1>1
  <2>2. InsertAt(s, p + 1, x) = SubSeq(s, 1, (p + 1) - 1) \o <<x>> \o SubSeq(s, p + 1, Len(s))
    BY Zenon DEF InsertAt
  <2> QED BY <2>1, <2>2
<1> HIDE DEF a, b, e
<1> DEFINE ae == a \o e
           u == ae \o b
<1>6. /\ ae \in Seq(S) /\ Len(ae) = p + 1
      /\ \A k \in 1..(p + 1) : ae[k] = IF k <= p THEN a[k] ELSE e[k - p]
  <2>1. ae \in Seq(S) /\ Joined(ae, a, e, Len(a), Len(e))
    BY <1>2, <1>4, ConcatElements
  <2> QED BY <1>2, <1>4, <2>1 DEF Joined
<1> HIDE DEF ae
<1>7. /\ u \in Seq(S) /\ Len(u) = p + 1 + (Len(s) - p)
      /\ \A k \in 1..(p + 1 + (Len(s) - p)) : u[k] = IF k <= p + 1 THEN ae[k] ELSE b[k - (p + 1)]
  <2>1. u \in Seq(S) /\ Joined(u, ae, b, Len(ae), Len(b))
    BY <1>3, <1>6, ConcatElements
  <2> QED BY <1>3, <1>6, <2>1 DEF Joined
<1> HIDE DEF u
<1>8. InsertAt(s, p + 1, x) = u /\ Len(u) = Len(s) + 1
  BY <1>1, <1>5, <1>7 DEF u, ae
<1>9. ASSUME NEW k \in 1..(Len(s) + 1)
      PROVE  u[k] = IF k <= p THEN s[k] ELSE IF k = p + 1 THEN x ELSE s[k - 1]
  <2>1. k \in 1..(p + 1 + (Len(s) - p))
    BY <1>1
  <2>2. u[k] = IF k <= p + 1 THEN ae[k] ELSE b[k - (p + 1)]
    BY <1>7, <2>1
  <2>3. CASE k <= p
    <3>1. k \in 1..p /\ k \in 1..(p + 1)
      BY <1>1, <2>3
    <3> QED BY <1>1, <1>2, <1>6, <2>2, <2>3, <3>1
  <2>4. CASE k = p + 1
    <3>1. k \in 1..(p + 1) /\ k - p = 1 /\ ~(k <= p)
      BY <1>1, <2>4
    <3> QED BY <1>4, <1>6, <2>2, <2>4, <3>1
  <2>5. CASE ~(k <= p + 1)
    <3>1. k - (p + 1) \in 1..(Len(s) - p) /\ p + (k - (p + 1)) = k - 1 /\ ~(k <= p) /\ k # p + 1
      BY <1>1, <2>5
    <3> QED BY <1>3, <2>2, <2>5, <3>1
  <2> QED BY <1>1, <2>3, <2>4, <2>5
<1>10. Inserted(u, s, p, x)
  BY <1>8, <1>9 DEF Inserted
<1> QED BY <1>7, <1>8, <1>10

\* The elements of a sequence after a removal.
LEMMA RemoveElements ==
  ASSUME NEW S, NEW s \in Seq(S), NEW j \in 1..Len(s)
  PROVE  \A k \in 1..(Len(s) - 1) :
           RemoveAt(s, j)[k] = IF k < j THEN s[k] ELSE s[k + 1]
<1> DEFINE a == SubSeq(s, 1, j - 1)
           b == SubSeq(s, j + 1, Len(s))
           u == a \o b
<1>1. Len(s) \in Nat /\ j \in Nat /\ 1 <= j /\ j <= Len(s) /\ \A k \in 1..Len(s) : s[k] \in S
  BY LenProperties, ElementOfSeq
<1>2. a \in Seq(S) /\ Len(a) = j - 1 /\ \A k \in 1..(j - 1) : a[k] = s[k]
  <2>1. \A k \in 1..(j - 1) : s[k] \in S
    BY <1>1
  <2>2. 1 \in Int /\ j - 1 \in Int
    BY <1>1
  <2>3. /\ a \in Seq(S)
        /\ Len(a) = IF 1 <= j - 1 THEN (j - 1) - 1 + 1 ELSE 0
        /\ \A k \in 1..((j - 1) - 1 + 1) : a[k] = s[1 + k - 1]
    BY <2>1, <2>2, SubSeqProperties
  <2> HIDE DEF a
  <2>4. Len(a) = j - 1
    BY <1>1, <2>3
  <2>5. ASSUME NEW k \in 1..(j - 1) PROVE a[k] = s[k]
    BY <1>1, <2>3
  <2> QED BY <2>3, <2>4, <2>5
<1>3. b \in Seq(S) /\ Len(b) = Len(s) - j /\ \A k \in 1..(Len(s) - j) : b[k] = s[j + k]
  <2>1. \A k \in (j + 1)..Len(s) : s[k] \in S
    BY <1>1
  <2>2. j + 1 \in Int /\ Len(s) \in Int
    BY <1>1
  <2>3. /\ b \in Seq(S)
        /\ Len(b) = IF j + 1 <= Len(s) THEN Len(s) - (j + 1) + 1 ELSE 0
        /\ \A k \in 1..(Len(s) - (j + 1) + 1) : b[k] = s[j + 1 + k - 1]
    BY <2>1, <2>2, SubSeqProperties
  <2> HIDE DEF b
  <2>4. Len(b) = Len(s) - j
    BY <1>1, <2>3
  <2>5. ASSUME NEW k \in 1..(Len(s) - j) PROVE b[k] = s[j + k]
    BY <1>1, <2>3
  <2> QED BY <2>3, <2>4, <2>5
<1> HIDE DEF a, b
<1>4. /\ Len(u) = (j - 1) + (Len(s) - j)
      /\ \A k \in 1..((j - 1) + (Len(s) - j)) : u[k] = IF k <= j - 1 THEN a[k] ELSE b[k - (j - 1)]
  <2>1. Joined(u, a, b, Len(a), Len(b))
    BY <1>2, <1>3, ConcatElements
  <2> QED BY <1>2, <1>3, <2>1 DEF Joined
<1> HIDE DEF u
<1>5. RemoveAt(s, j) = u
  BY DEF RemoveAt, u, a, b
<1>6. ASSUME NEW k \in 1..(Len(s) - 1)
      PROVE  u[k] = IF k < j THEN s[k] ELSE s[k + 1]
  <2>1. k \in 1..((j - 1) + (Len(s) - j))
    BY <1>1
  <2>2. u[k] = IF k <= j - 1 THEN a[k] ELSE b[k - (j - 1)]
    BY <1>4, <2>1
  <2>3. CASE k < j
    <3>1. k \in 1..(j - 1) /\ k <= j - 1
      BY <1>1, <2>3
    <3> QED BY <1>2, <2>2, <2>3, <3>1
  <2>4. CASE ~(k < j)
    <3>1. k - (j - 1) \in 1..(Len(s) - j) /\ j + (k - (j - 1)) = k + 1 /\ ~(k <= j - 1)
      BY <1>1, <2>4
    <3> QED BY <1>3, <2>2, <2>4, <3>1
  <2> QED BY <2>3, <2>4
<1> QED BY <1>5, <1>6

\* Inserting an element that is not there keeps the places distinct.
LEMMA InsertRange ==
  ASSUME NEW S, NEW s \in Seq(S), NEW x \in S, NEW p \in 0..Len(s),
         IsInjective(s), x \notin Range(s)
  PROVE  /\ IsInjective(InsertAt(s, p + 1, x))
         /\ Range(InsertAt(s, p + 1, x)) = Range(s) \union {x}
<1> DEFINE u == InsertAt(s, p + 1, x)
<1>1. /\ Len(s) \in Nat /\ p \in Nat /\ p <= Len(s)
      /\ \A y : y \in Range(s) <=> \E i \in 1..Len(s) : s[i] = y
      /\ \A i, j \in 1..Len(s) : s[i] = s[j] => i = j
  BY LenProperties, RangeOf
<1>2. /\ u \in Seq(S)
      /\ Len(u) = Len(s) + 1
      /\ \A k \in 1..(Len(s) + 1) : u[k] = IF k <= p THEN s[k]
                                           ELSE IF k = p + 1 THEN x ELSE s[k - 1]
  <2>1. u \in Seq(S) /\ Inserted(u, s, p, x)
    BY InsertElements
  <2> QED BY <2>1 DEF Inserted
<1> HIDE DEF u
\* the place in s of each place of u but the new one
<1> DEFINE from == [k \in 1..(Len(s) + 1) |-> IF k <= p THEN k ELSE k - 1]
<1>3. ASSUME NEW k \in 1..(Len(s) + 1), k # p + 1
      PROVE  from[k] \in 1..Len(s) /\ u[k] = s[from[k]] /\ u[k] # x
  <2>1. from[k] \in 1..Len(s)
    BY <1>1, <1>3
  <2>2. u[k] = s[from[k]]
    BY <1>1, <1>2, <1>3
  <2> QED BY <1>1, <2>1, <2>2
<1>4. \A k, m \in 1..(Len(s) + 1) : k # p + 1 /\ m # p + 1 /\ from[k] = from[m] => k = m
  BY <1>1
<1> HIDE DEF from
<1>5. p + 1 \in 1..(Len(s) + 1) /\ u[p + 1] = x
  BY <1>1, <1>2
<1>6. IsInjective(u)
  <2> SUFFICES ASSUME NEW k \in 1..(Len(s) + 1), NEW m \in 1..(Len(s) + 1), u[k] = u[m]
               PROVE  k = m
    BY <1>2, RangeOf
  <2>1. CASE k = p + 1 \/ m = p + 1
    BY <1>3, <1>5, <2>1
  <2>2. CASE k # p + 1 /\ m # p + 1
    <3>1. s[from[k]] = s[from[m]] /\ from[k] \in 1..Len(s) /\ from[m] \in 1..Len(s)
      BY <1>3, <2>2
    <3>2. from[k] = from[m]
      BY <1>1, <3>1
    <3> QED BY <1>4, <2>2, <3>2
  <2> QED BY <2>1, <2>2
<1>7. ASSUME NEW y \in Range(u) PROVE y \in Range(s) \union {x}
  <2>1. PICK k \in 1..(Len(s) + 1) : u[k] = y
    BY <1>2, <1>7, RangeOf
  <2> QED BY <1>1, <1>3, <1>5, <2>1
<1>8. ASSUME NEW y \in Range(s) PROVE y \in Range(u)
  <2>1. PICK k \in 1..Len(s) : s[k] = y
    BY <1>1
  <2>2. CASE k <= p
    <3>1. k \in 1..(Len(s) + 1) /\ u[k] = y
      BY <1>1, <1>2, <2>1, <2>2
    <3> QED BY <1>2, <3>1, RangeOf
  <2>3. CASE ~(k <= p)
    <3>1. k + 1 \in 1..(Len(s) + 1) /\ ~(k + 1 <= p) /\ k + 1 # p + 1 /\ (k + 1) - 1 = k
      BY <1>1, <2>3
    <3>2. u[k + 1] = y
      BY <1>2, <2>1, <3>1
    <3> QED BY <1>2, <3>1, <3>2, RangeOf
  <2> QED BY <2>2, <2>3
<1>9. x \in Range(u)
  BY <1>2, <1>5, RangeOf
<1> QED BY <1>6, <1>7, <1>8, <1>9 DEF u

-----------------------------------------------------------------------------
(***************************************************************************)
(* The lists.                                                              *)
(***************************************************************************)

ItemOrNull == Items \union {NULL}
LinkType == [prev : ItemOrNull, next : ItemOrNull]

\* The links that List_insert leaves: i stands between prev and next.
InsertedLinks(links, prev, i, next) ==
  [j \in Items |-> [prev |-> IF j = i THEN prev ELSE IF j = next THEN i ELSE links[j].prev,
                    next |-> IF j = i THEN next ELSE IF j = prev THEN i ELSE links[j].next]]

\* The assignments of List_insert amount to this, whatever the neighbours are.
LEMMA InsertLinks ==
  ASSUME NEW links \in [Items -> LinkType], NEW i \in Items,
         NEW prev \in ItemOrNull, NEW next \in ItemOrNull, prev # i, next # i
  PROVE  SetPrev(SetNext([links EXCEPT ![i] = [prev |-> prev, next |-> next]], prev, i), next, i)
           = InsertedLinks(links, prev, i, next)
<1>1. \A j \in Items : links[j] \in LinkType
  OBVIOUS
<1> DEFINE own == [links EXCEPT ![i] = [prev |-> prev, next |-> next]]
           mid == SetNext(own, prev, i)
           fin == SetPrev(mid, next, i)
<1>2. /\ own \in [Items -> LinkType]
      /\ \A j \in Items : own[j] = IF j = i THEN [prev |-> prev, next |-> next] ELSE links[j]
  BY DEF LinkType
<1> HIDE DEF own
<1>3. /\ mid \in [Items -> LinkType]
      /\ \A j \in Items : mid[j] = [prev |-> own[j].prev,
                                    next |-> IF j = prev THEN i ELSE own[j].next]
  <2>1. CASE prev = NULL
    <3>1. mid = own /\ \A j \in Items : j # prev
      BY <2>1, ListAssumption DEF SetNext
    <3> QED BY <1>2, <3>1 DEF LinkType
  <2>2. CASE prev # NULL
    <3>1. mid = [own EXCEPT ![prev].next = i] /\ prev \in Items
      BY <2>2 DEF SetNext, ItemOrNull
    <3> QED BY <1>2, <3>1 DEF LinkType, ItemOrNull
  <2> QED BY <2>1, <2>2
<1> HIDE DEF mid
<1>4. /\ fin \in [Items -> LinkType]
      /\ \A j \in Items : fin[j] = [prev |-> IF j = next THEN i ELSE mid[j].prev,
                                    next |-> mid[j].next]
  <2>1. CASE next = NULL
    <3>1. fin = mid /\ \A j \in Items : j # next
      BY <2>1, ListAssumption DEF SetPrev
    <3> QED BY <1>3, <3>1 DEF LinkType
  <2>2. CASE next # NULL
    <3>1. fin = [mid EXCEPT ![next].prev = i] /\ next \in Items
      BY <2>2 DEF SetPrev, ItemOrNull
    <3> QED BY <1>3, <3>1 DEF LinkType, ItemOrNull
  <2> QED BY <2>1, <2>2
<1> HIDE DEF fin
<1>5. ASSUME NEW j \in Items PROVE fin[j] = InsertedLinks(links, prev, i, next)[j]
  BY <1>2, <1>3, <1>4 DEF InsertedLinks
<1>6. fin = InsertedLinks(links, prev, i, next)
  BY <1>4, <1>5 DEF InsertedLinks
<1> QED BY <1>6 DEF fin, mid, own

\* The links that List_detach leaves: prev and next are neighbours.
DetachedLinks(links, prev, i, next) ==
  [j \in Items |-> IF j = i THEN Unlinked
                   ELSE [prev |-> IF j = next THEN prev ELSE links[j].prev,
                         next |-> IF j = prev THEN next ELSE links[j].next]]

\* The assignments of List_detach amount to this, whatever the neighbours are.
LEMMA DetachLinks ==
  ASSUME NEW links \in [Items -> LinkType], NEW i \in Items,
         NEW prev \in ItemOrNull, NEW next \in ItemOrNull
  PROVE  [SetPrev(SetNext(links, prev, next), next, prev) EXCEPT ![i] = Unlinked]
           = DetachedLinks(links, prev, i, next)
<1>1. \A j \in Items : links[j] \in LinkType
  OBVIOUS
<1> DEFINE mid == SetNext(links, prev, next)
           rest == SetPrev(mid, next, prev)
<1>2. /\ mid \in [Items -> LinkType]
      /\ \A j \in Items : mid[j] = [prev |-> links[j].prev,
                                    next |-> IF j = prev THEN next ELSE links[j].next]
  <2>1. CASE prev = NULL
    <3>1. mid = links /\ \A j \in Items : j # prev
      BY <2>1, ListAssumption DEF SetNext
    <3> QED BY <1>1, <3>1 DEF LinkType
  <2>2. CASE prev # NULL
    <3>1. mid = [links EXCEPT ![prev].next = next] /\ prev \in Items
      BY <2>2 DEF SetNext, ItemOrNull
    <3> QED BY <1>1, <3>1 DEF LinkType, ItemOrNull
  <2> QED BY <2>1, <2>2
<1> HIDE DEF mid
<1>3. /\ rest \in [Items -> LinkType]
      /\ \A j \in Items : rest[j] = [prev |-> IF j = next THEN prev ELSE mid[j].prev,
                                     next |-> mid[j].next]
  <2>1. CASE next = NULL
    <3>1. rest = mid /\ \A j \in Items : j # next
      BY <2>1, ListAssumption DEF SetPrev
    <3> QED BY <1>2, <3>1 DEF LinkType
  <2>2. CASE next # NULL
    <3>1. rest = [mid EXCEPT ![next].prev = prev] /\ next \in Items
      BY <2>2 DEF SetPrev, ItemOrNull
    <3> QED BY <1>2, <3>1 DEF LinkType, ItemOrNull
  <2> QED BY <2>1, <2>2
<1> HIDE DEF rest
<1> DEFINE fin == [rest EXCEPT ![i] = Unlinked]
<1>4. ASSUME NEW j \in Items PROVE fin[j] = DetachedLinks(links, prev, i, next)[j]
  BY <1>2, <1>3 DEF DetachedLinks
<1>5. fin = DetachedLinks(links, prev, i, next)
  BY <1>3, <1>4 DEF DetachedLinks
<1> QED BY <1>5 DEF rest, mid

\* The head h and the links are those of a list with the items c in order.
ListIs(c, h, links) ==
  /\ c \in Seq(Items)
  /\ IsInjective(c)
  /\ h = [first |-> After(c, 0, NULL), last |-> Before(c, Len(c) + 1, NULL), size |-> Len(c)]
  /\ \A k \in 1..Len(c) : links[c[k]] = [prev |-> Before(c, k, NULL),
                                         next |-> After(c, k, NULL)]

\* No object is on two of the lists s, and one that is on none is unlinked.
ListsAre(s, heads, links) ==
  /\ s \in [Lists -> Seq(Items)]
  /\ heads = [l \in Lists |-> heads[l]]
  /\ links \in [Items -> LinkType]
  /\ \A l \in Lists : ListIs(s[l], heads[l], links)
  /\ \A l, m \in Lists : l # m => Range(s[l]) \intersect Range(s[m]) = {}
  /\ \A i \in Items : (\A l \in Lists : i \notin Range(s[l])) => links[i] = Unlinked

\* The walk from the head of a list meets its items, so Contents is that list.
LEMMA ContentsAre ==
  \A s : ListsAre(s, head, link) =>
    \A l \in Lists : /\ Contents(l) = s[l]
                     /\ ItemAt(l)[Cardinality(Items)] = NULL
                     /\ OnList(l) = Range(s[l])
<1> SUFFICES ASSUME NEW s, ListsAre(s, head, link), NEW l \in Lists
             PROVE  /\ Contents(l) = s[l]
                    /\ ItemAt(l)[Cardinality(Items)] = NULL
                    /\ OnList(l) = Range(s[l])
  OBVIOUS
<1> DEFINE c == s[l]
           next == [i \in Items |-> link[i].next]
           size == Cardinality(Items)
<1>1. ListIs(c, head[l], link)
  BY DEF ListsAre
<1>2. /\ c \in Seq(Items) /\ IsInjective(c)
      /\ head[l].first = After(c, 0, NULL)
      /\ \A k \in 1..Len(c) : link[c[k]].next = After(c, k, NULL)
      /\ Len(c) \in Nat
      /\ \A k \in 1..Len(c) : c[k] \in Items
  <2> HIDE DEF c
  <2>1. /\ c \in Seq(Items) /\ IsInjective(c)
        /\ head[l].first = After(c, 0, NULL)
    BY <1>1 DEF ListIs
  <2>2. ASSUME NEW k \in 1..Len(c) PROVE link[c[k]].next = After(c, k, NULL)
    <3>1. link[c[k]] = [prev |-> Before(c, k, NULL), next |-> After(c, k, NULL)]
      BY <1>1 DEF ListIs
    <3> QED BY <3>1
  <2> QED BY <2>1, <2>2, LenProperties, ElementOfSeq
<1> HIDE DEF c
<1>3. Leads(next, c, NULL)
  BY <1>2 DEF Leads
<1>4. NULL \notin Items /\ IsFiniteSet(Items)
  BY ListAssumption
<1>5. size \in Nat /\ Len(c) <= size
  <2>1. Range(c) \subseteq Items /\ Cardinality(Range(c)) = Len(c)
    BY <1>2, InjectiveLen, RangeOf
  <2> QED BY <1>4, <2>1, FS_Subset, FS_CardinalityType
<1> HIDE DEF size
<1> DEFINE w == Places(c, NULL)
<1>6. \A n \in Nat : w[n] = After(c, n, NULL)
  BY DEF Places
<1>7. w = [n \in Nat |-> w[n]]
  BY DEF Places
<1>8. \A n \in Nat : w[n] \in Items \union {NULL}
  <2> SUFFICES ASSUME NEW n \in Nat PROVE After(c, n, NULL) \in Items \union {NULL}
    BY <1>6
  <2>1. n < Len(c) => n + 1 \in 1..Len(c)
    BY <1>2
  <2> QED BY <1>2, <2>1 DEF After
<1>9. ASSUME NEW n \in Nat
      PROVE  w[n + 1] = IF w[n] = NULL THEN NULL ELSE next[w[n]]
  <2> HIDE DEF next
  <2> QED BY <1>2, <1>3, <1>4, NextPlace
<1> HIDE DEF w
<1>10. ASSUME NEW n \in Nat
       PROVE  w[n] = IF n = 0 THEN head[l].first
                     ELSE IF w[n - 1] = NULL THEN NULL ELSE link[w[n - 1]].next
  <2>1. CASE n = 0
    BY <1>2, <1>6, <2>1
  <2>2. CASE n # 0
    <3>1. n - 1 \in Nat /\ (n - 1) + 1 = n
      BY <2>2
    <3>2. w[(n - 1) + 1] = IF w[n - 1] = NULL THEN NULL ELSE next[w[n - 1]]
      BY <1>9, <3>1
    <3> QED BY <1>8, <2>2, <3>1, <3>2
  <2> QED BY <2>1, <2>2
<1>11. w = [n \in Nat |-> IF n = 0 THEN head[l].first
                          ELSE IF w[n - 1] = NULL THEN NULL ELSE link[w[n - 1]].next]
  BY <1>7, <1>10
<1>12. ItemAt(l) = [n \in Nat |-> IF n = 0 THEN head[l].first
                                  ELSE IF ItemAt(l)[n - 1] = NULL THEN NULL
                                       ELSE link[ItemAt(l)[n - 1]].next]
  BY <1>11 DEF ItemAt
<1> DEFINE at == ItemAt(l)
           T == {n \in Nat : at[n] = w[n]}
<1>13. 0 \in T
  BY <1>2, <1>6, <1>12
<1>14. ASSUME NEW n \in Nat, n \in T PROVE n + 1 \in T
  <2>1. n + 1 \in Nat /\ n + 1 # 0 /\ (n + 1) - 1 = n
    OBVIOUS
  <2>2. at[n + 1] = IF at[n] = NULL THEN NULL ELSE link[at[n]].next
    BY <1>12, <2>1
  <2>3. w[n + 1] = IF w[n] = NULL THEN NULL ELSE link[w[n]].next
    BY <1>10, <2>1
  <2> QED BY <1>14, <2>1, <2>2, <2>3
<1>15. Nat \subseteq T
  <2> HIDE DEF T
  <2> QED BY <1>13, <1>14, SetInduction
<1> HIDE DEF at
<1>16. \A n \in Nat : at[n] = After(c, n, NULL)
  BY <1>6, <1>15
<1> HIDE DEF T
<1>17. at[size] = NULL
  BY <1>2, <1>5, <1>16 DEF After
<1>18. ASSUME NEW m \in 1..size
       PROVE  /\ at[m - 1] # NULL <=> m \in 1..Len(c)
              /\ m \in 1..Len(c) => at[m - 1] = c[m]
  <2>1. m - 1 \in Nat /\ (m - 1) + 1 = m /\ (m - 1 < Len(c) <=> m \in 1..Len(c))
    BY <1>2, <1>5
  <2>2. at[m - 1] = IF m \in 1..Len(c) THEN c[m] ELSE NULL
    BY <1>16, <2>1 DEF After
  <2> QED BY <1>2, <1>4, <2>2
<1>19. {m \in 1..size : at[m - 1] # NULL} = 1..Len(c)
  <2>1. 1..Len(c) \subseteq 1..size
    BY <1>2, <1>5
  <2> QED BY <1>18, <2>1
<1>20. Contents(l) = [n \in 1..Len(c) |-> at[n - 1]]
  BY <1>19, Zenon DEF Contents, at, size
<1>21. [n \in 1..Len(c) |-> at[n - 1]] = [n \in 1..Len(c) |-> c[n]]
  <2>1. \A n \in 1..Len(c) : n \in 1..size
    BY <1>2, <1>5
  <2> QED BY <1>18, <2>1
<1>22. c = [n \in 1..Len(c) |-> c[n]]
  BY <1>2, LenProperties
<1>23. Contents(l) = c
  BY <1>20, <1>21, <1>22
<1>24. OnList(l) = Range(c)
  BY <1>2, <1>23, LenProperties DEF OnList, Range
<1> QED BY <1>17, <1>23, <1>24 DEF c, at, size

\* The same holds of the next state.
LEMMA ContentsAreNext ==
  (\A s : ListsAre(s, head, link) =>
    \A l \in Lists : /\ Contents(l) = s[l]
                     /\ ItemAt(l)[Cardinality(Items)] = NULL
                     /\ OnList(l) = Range(s[l]))'
BY ContentsAre, PTL

\* Well-formed lists are what ListsWellFormed asks for.
LEMMA ListsAreGood ==
  ASSUME NEW s, ListsAre(s, head, link)
  PROVE  ListsWellFormed
<1> SUFFICES ASSUME NEW l \in Lists
             PROVE  LET items == Contents(l)
                        n == Len(items)
                    IN  /\ ItemAt(l)[Cardinality(Items)] = NULL
                        /\ head[l].size = n
                        /\ head[l].last = IF n = 0 THEN NULL ELSE items[n]
                        /\ \A k \in 1..n :
                             link[items[k]].prev = IF k = 1 THEN NULL ELSE items[k - 1]
  BY DEF ListsWellFormed
<1> DEFINE c == s[l]
<1>1. Contents(l) = c /\ ItemAt(l)[Cardinality(Items)] = NULL
  BY ContentsAre
<1>2. ListIs(c, head[l], link)
  BY DEF ListsAre
<1> HIDE DEF c
<1>3. Len(c) \in Nat
  BY <1>2, LenProperties DEF ListIs
<1>4. head[l].size = Len(c) /\ head[l].last = Before(c, Len(c) + 1, NULL)
  BY <1>2 DEF ListIs
<1>5. head[l].last = IF Len(c) = 0 THEN NULL ELSE c[Len(c)]
  BY <1>3, <1>4 DEF Before
<1>6. ASSUME NEW k \in 1..Len(c)
      PROVE  link[c[k]].prev = IF k = 1 THEN NULL ELSE c[k - 1]
  <2>1. link[c[k]] = [prev |-> Before(c, k, NULL), next |-> After(c, k, NULL)]
    BY <1>2 DEF ListIs
  <2> QED BY <1>3, <2>1 DEF Before
<1> QED BY <1>1, <1>4, <1>5, <1>6

\* The neighbours of the place between p and p + 1 are items of the list or none.
LEMMA Neighbours ==
  ASSUME NEW c \in Seq(Items), IsInjective(c), NEW p \in 0..Len(c)
  PROVE  /\ Before(c, p + 1, NULL) = (IF p >= 1 THEN c[p] ELSE NULL)
         /\ Before(c, p + 1, NULL) \in Range(c) \union {NULL}
         /\ After(c, p, NULL) \in Range(c) \union {NULL}
         /\ Before(c, p + 1, NULL) = NULL <=> p = 0
         /\ After(c, p, NULL) = NULL <=> p = Len(c)
         /\ \A k \in 1..Len(c) : c[k] = Before(c, p + 1, NULL) <=> k = p
         /\ \A k \in 1..Len(c) : c[k] = After(c, p, NULL) <=> k = p + 1
<1>1. /\ Len(c) \in Nat /\ p \in Nat /\ p <= Len(c)
      /\ \A k \in 1..Len(c) : c[k] \in Range(c) /\ c[k] # NULL
      /\ \A k, m \in 1..Len(c) : c[k] = c[m] => k = m
  <2>1. \A k \in 1..Len(c) : c[k] \in Range(c) /\ c[k] \in Items
    BY RangeOf, ElementOfSeq
  <2> QED BY <2>1, LenProperties, RangeOf, ListAssumption
<1>2. Before(c, p + 1, NULL) = (IF p >= 1 THEN c[p] ELSE NULL)
  BY <1>1 DEF Before
<1>3. After(c, p, NULL) = (IF p < Len(c) THEN c[p + 1] ELSE NULL)
  BY DEF After
<1>4. p >= 1 => p \in 1..Len(c)
  BY <1>1
<1>5. p < Len(c) => p + 1 \in 1..Len(c)
  BY <1>1
<1> QED BY <1>1, <1>2, <1>3, <1>4, <1>5

\* The head of a list after List_insert.
InsertedHead(h, prev, i, next) ==
  [first |-> IF prev = NULL THEN i ELSE h.first,
   last  |-> IF next = NULL THEN i ELSE h.last,
   size  |-> h.size + 1]

\* List_insert puts the item at its place of the list.
LEMMA InsertListIs ==
  ASSUME NEW c, NEW h, NEW links \in [Items -> LinkType], ListIs(c, h, links),
         NEW i \in Items, i \notin Range(c), NEW p \in 0..Len(c),
         NEW prev, NEW next, prev = Before(c, p + 1, NULL), next = After(c, p, NULL)
  PROVE  ListIs(InsertAt(c, p + 1, i), InsertedHead(h, prev, i, next),
                InsertedLinks(links, prev, i, next))
<1> DEFINE u == InsertAt(c, p + 1, i)
           new == InsertedLinks(links, prev, i, next)
<1>1. /\ c \in Seq(Items) /\ IsInjective(c)
      /\ h = [first |-> After(c, 0, NULL), last |-> Before(c, Len(c) + 1, NULL), size |-> Len(c)]
      /\ \A k \in 1..Len(c) : links[c[k]] = [prev |-> Before(c, k, NULL),
                                             next |-> After(c, k, NULL)]
  BY DEF ListIs
<1>2. /\ Len(c) \in Nat /\ p \in Nat /\ p <= Len(c)
      /\ \A k \in 1..Len(c) : c[k] \in Items /\ c[k] # i
      /\ i # NULL
  BY <1>1, LenProperties, ElementOfSeq, RangeOf, ListAssumption
<1>3. /\ u \in Seq(Items) /\ IsInjective(u)
      /\ Len(u) = Len(c) + 1
      /\ \A k \in 1..(Len(c) + 1) : u[k] = IF k <= p THEN c[k]
                                           ELSE IF k = p + 1 THEN i ELSE c[k - 1]
  <2>1. c \in Seq(Items) /\ IsInjective(c)
    BY <1>1
  <2>2. /\ u \in Seq(Items)
        /\ Len(u) = Len(c) + 1
        /\ \A k \in 1..(Len(c) + 1) : u[k] = IF k <= p THEN c[k]
                                             ELSE IF k = p + 1 THEN i ELSE c[k - 1]
    <3>1. u \in Seq(Items) /\ Inserted(u, c, p, i)
      BY <2>1, InsertElements
    <3> QED BY <3>1 DEF Inserted
  <2>3. IsInjective(u)
    BY <2>1, InsertRange
  <2> QED BY <2>2, <2>3
<1>4. /\ prev = (IF p >= 1 THEN c[p] ELSE NULL)
      /\ prev = NULL <=> p = 0
      /\ next = NULL <=> p = Len(c)
      /\ \A k \in 1..Len(c) : c[k] = prev <=> k = p
      /\ \A k \in 1..Len(c) : c[k] = next <=> k = p + 1
  BY <1>1, Neighbours
<1>5. next = (IF p < Len(c) THEN c[p + 1] ELSE NULL)
  BY DEF After
<1> HIDE DEF u
<1>6. \A j \in Items :
        new[j] = [prev |-> IF j = i THEN prev ELSE IF j = next THEN i ELSE links[j].prev,
                  next |-> IF j = i THEN next ELSE IF j = prev THEN i ELSE links[j].next]
  BY DEF InsertedLinks
<1> HIDE DEF new
<1>7. \A k \in 1..Len(c) : /\ links[c[k]].prev = IF k > 1 THEN c[k - 1] ELSE NULL
                           /\ links[c[k]].next = IF k < Len(c) THEN c[k + 1] ELSE NULL
  <2> TAKE k \in 1..Len(c)
  <2>1. links[c[k]] = [prev |-> Before(c, k, NULL), next |-> After(c, k, NULL)]
    BY <1>1
  <2> QED BY <2>1 DEF Before, After
<1>8. ASSUME NEW k \in 1..Len(u)
      PROVE  new[u[k]] = [prev |-> Before(u, k, NULL), next |-> After(u, k, NULL)]
  <2>1. k \in 1..(Len(c) + 1)
    BY <1>3
  <2>2. CASE k <= p
    <3>1. k \in 1..Len(c) /\ u[k] = c[k] /\ k # p + 1 /\ k < Len(u)
      BY <1>2, <1>3, <2>1, <2>2
    <3>2. new[u[k]] = [prev |-> links[c[k]].prev, next |-> IF k = p THEN i ELSE links[c[k]].next]
      BY <1>2, <1>4, <1>6, <3>1
    <3>3. links[c[k]].prev = Before(u, k, NULL)
      <4>1. CASE k > 1
        <5>1. k - 1 \in 1..(Len(c) + 1) /\ k - 1 <= p
          BY <1>2, <2>1, <2>2, <4>1
        <5>2. u[k - 1] = c[k - 1]
          BY <1>3, <5>1
        <5> QED BY <1>7, <3>1, <4>1, <5>2 DEF Before
      <4> QED BY <1>7, <3>1, <4>1 DEF Before
    <3>4. (IF k = p THEN i ELSE links[c[k]].next) = After(u, k, NULL)
      <4>1. k + 1 \in 1..(Len(c) + 1) /\ (k = p => ~(k + 1 <= p)) /\ (k # p => k + 1 <= p)
        BY <1>2, <2>1, <2>2
      <4>2. u[k + 1] = IF k = p THEN i ELSE c[k + 1]
        BY <1>3, <4>1
      <4>3. k # p => k < Len(c)
        BY <1>2, <2>2
      <4> QED BY <1>7, <3>1, <4>2, <4>3 DEF After
    <3> QED BY <3>2, <3>3, <3>4
  <2>3. CASE k = p + 1
    <3>1. u[k] = i /\ ~(k <= p)
      BY <1>2, <1>3, <2>1, <2>3
    <3>2. new[u[k]] = [prev |-> prev, next |-> next]
      BY <1>6, <3>1
    <3>3. prev = Before(u, k, NULL)
      <4>1. p >= 1 => p \in 1..(Len(c) + 1) /\ p <= p
        BY <1>2
      <4>2. p >= 1 => u[p] = c[p]
        BY <1>3, <4>1
      <4>3. k - 1 = p /\ (k > 1 <=> p >= 1)
        BY <1>2, <2>3
      <4> QED BY <1>4, <4>2, <4>3 DEF Before
    <3>4. next = After(u, k, NULL)
      <4>1. p < Len(c) => k + 1 \in 1..(Len(c) + 1) /\ ~(k + 1 <= p) /\ k + 1 # p + 1
        BY <1>2, <2>3
      <4>2. k + 1 - 1 = p + 1 /\ (p < Len(c) <=> k < Len(u))
        BY <1>2, <1>3, <2>3
      <4>3. p < Len(c) => u[k + 1] = c[p + 1]
        BY <1>3, <4>1, <4>2
      <4> QED BY <1>5, <4>2, <4>3 DEF After
    <3> QED BY <3>2, <3>3, <3>4
  <2>4. CASE k > p + 1
    <3>1. /\ k - 1 \in 1..Len(c) /\ ~(k <= p) /\ k # p + 1 /\ k - 1 # p
          /\ (k - 1 = p + 1 <=> k = p + 2) /\ k > 1
      BY <1>2, <2>1, <2>4
    <3>2. u[k] = c[k - 1]
      BY <1>3, <2>1, <3>1
    <3>3. new[u[k]] = [prev |-> IF k = p + 2 THEN i ELSE links[c[k - 1]].prev,
                       next |-> links[c[k - 1]].next]
      <4>1. c[k - 1] \in Items /\ c[k - 1] # i /\ c[k - 1] # prev /\ (c[k - 1] = next <=> k = p + 2)
        BY <1>2, <1>4, <3>1
      <4> QED BY <1>6, <3>2, <4>1
    <3>4. (IF k = p + 2 THEN i ELSE links[c[k - 1]].prev) = Before(u, k, NULL)
      <4>1. /\ k - 1 \in 1..(Len(c) + 1) /\ ~(k - 1 <= p) /\ (k - 1 = p + 1 <=> k = p + 2)
            /\ (k # p + 2 => k - 1 > 1) /\ k - 1 - 1 = k - 2
        BY <1>2, <2>1, <2>4
      <4>2. u[k - 1] = IF k = p + 2 THEN i ELSE c[k - 1 - 1]
        BY <1>3, <4>1
      <4>3. links[c[k - 1]].prev = IF k - 1 > 1 THEN c[k - 1 - 1] ELSE NULL
        BY <1>7, <3>1
      <4> QED BY <3>1, <4>1, <4>2, <4>3 DEF Before
    <3>5. links[c[k - 1]].next = After(u, k, NULL)
      <4>1. /\ (k < Len(u) <=> k - 1 < Len(c)) /\ k - 1 + 1 = k
            /\ (k < Len(u) => k + 1 \in 1..(Len(c) + 1))
            /\ ~(k + 1 <= p) /\ k + 1 # p + 1 /\ k + 1 - 1 = k
        BY <1>2, <1>3, <2>1, <2>4
      <4>2. k < Len(u) => u[k + 1] = c[k]
        BY <1>3, <4>1
      <4>3. links[c[k - 1]].next = IF k - 1 < Len(c) THEN c[k - 1 + 1] ELSE NULL
        BY <1>7, <3>1
      <4> QED BY <4>1, <4>2, <4>3 DEF After
    <3> QED BY <3>3, <3>4, <3>5
  <2> QED BY <1>2, <2>1, <2>2, <2>3, <2>4
<1>9. (IF prev = NULL THEN i ELSE h.first) = After(u, 0, NULL)
  <2>1. 1 \in 1..(Len(c) + 1) /\ (p = 0 => ~(1 <= p)) /\ (p # 0 => 1 <= p) /\ 0 < Len(u) /\ 0 + 1 = 1
    BY <1>2, <1>3
  <2>2. u[1] = IF p = 0 THEN i ELSE c[1]
    BY <1>3, <2>1
  <2>3. p # 0 => h.first = c[1]
    BY <1>1, <1>2 DEF After
  <2> QED BY <1>4, <2>1, <2>2, <2>3 DEF After
<1>10. (IF next = NULL THEN i ELSE h.last) = Before(u, Len(u) + 1, NULL)
  <2> DEFINE n == Len(c) + 1
  <2>1. /\ n \in 1..n /\ ~(n <= p) /\ (n = p + 1 <=> p = Len(c)) /\ n - 1 = Len(c)
        /\ n + 1 > 1 /\ n + 1 - 1 = n /\ Len(u) = n
    BY <1>2, <1>3
  <2>2. u[n] = IF p = Len(c) THEN i ELSE c[Len(c)]
    BY <1>3, <2>1
  <2>3. p # Len(c) => h.last = c[Len(c)]
    <3>1. p # Len(c) => Len(c) + 1 > 1 /\ Len(c) + 1 - 1 = Len(c)
      BY <1>2
    <3>2. h.last = Before(c, Len(c) + 1, NULL)
      BY <1>1
    <3> QED BY <3>1, <3>2 DEF Before
  <2> HIDE DEF n
  <2> QED BY <1>4, <2>1, <2>2, <2>3 DEF Before
<1>11. h.size + 1 = Len(u)
  BY <1>1, <1>3
<1>12. InsertedHead(h, prev, i, next)
         = [first |-> After(u, 0, NULL), last |-> Before(u, Len(u) + 1, NULL), size |-> Len(u)]
  BY <1>9, <1>10, <1>11 DEF InsertedHead
<1> QED BY <1>3, <1>8, <1>12 DEF ListIs, u, new

\* The head of a list after List_detach.
DetachedHead(h, prev, i, next) ==
  [first |-> IF i = h.first THEN next ELSE h.first,
   last  |-> IF i = h.last THEN prev ELSE h.last,
   size  |-> h.size - 1]

\* List_detach takes the item out of its place of the list.
LEMMA DetachListIs ==
  ASSUME NEW c, NEW h, NEW links \in [Items -> LinkType], ListIs(c, h, links),
         NEW j \in 1..Len(c), NEW i, i = c[j],
         NEW prev, NEW next, prev = Before(c, j, NULL), next = After(c, j, NULL)
  PROVE  ListIs(RemoveAt(c, j), DetachedHead(h, prev, i, next),
                DetachedLinks(links, prev, i, next))
<1> DEFINE r == RemoveAt(c, j)
           new == DetachedLinks(links, prev, i, next)
<1>1. /\ c \in Seq(Items) /\ IsInjective(c)
      /\ h = [first |-> After(c, 0, NULL), last |-> Before(c, Len(c) + 1, NULL), size |-> Len(c)]
      /\ \A k \in 1..Len(c) : links[c[k]] = [prev |-> Before(c, k, NULL),
                                             next |-> After(c, k, NULL)]
  BY DEF ListIs
<1>2. /\ Len(c) \in Nat /\ j \in Nat /\ 1 <= j /\ j <= Len(c)
      /\ \A k \in 1..Len(c) : c[k] \in Items /\ c[k] # NULL
      /\ \A k, m \in 1..Len(c) : c[k] = c[m] => k = m
  <2>1. c \in Seq(Items) /\ IsInjective(c)
    BY <1>1
  <2>2. \A k \in 1..Len(c) : c[k] \in Items /\ c[k] # NULL
    BY <2>1, ElementOfSeq, ListAssumption
  <2> QED BY <2>1, <2>2, LenProperties, RangeOf
<1>3. /\ r \in Seq(Items) /\ IsInjective(r)
      /\ Len(r) = Len(c) - 1
      /\ \A k \in 1..(Len(c) - 1) : r[k] = IF k < j THEN c[k] ELSE c[k + 1]
  <2>1. c \in Seq(Items) /\ IsInjective(c)
    BY <1>1
  <2>2. r \in Seq(Items) /\ IsInjective(r) /\ Len(r) = Len(c) - 1
    BY <2>1, RemoveAtRange
  <2>3. \A k \in 1..(Len(c) - 1) : r[k] = IF k < j THEN c[k] ELSE c[k + 1]
    BY <2>1, RemoveElements
  <2> QED BY <2>2, <2>3
<1>4. prev = (IF j > 1 THEN c[j - 1] ELSE NULL) /\ next = (IF j < Len(c) THEN c[j + 1] ELSE NULL)
  BY DEF Before, After
<1>5. ASSUME NEW k \in 1..Len(c)
      PROVE  (c[k] = prev <=> k = j - 1) /\ (c[k] = next <=> k = j + 1) /\ (c[k] = i <=> k = j)
  <2>1. j > 1 => j - 1 \in 1..Len(c)
    BY <1>2
  <2>2. j < Len(c) => j + 1 \in 1..Len(c)
    BY <1>2
  <2>3. c[k] = prev <=> k = j - 1
    BY <1>2, <1>4, <2>1
  <2>4. c[k] = next <=> k = j + 1
    BY <1>2, <1>4, <2>2
  <2>5. c[k] = i <=> k = j
    BY <1>2
  <2> QED BY <2>3, <2>4, <2>5
<1> HIDE DEF r
<1>6. \A x \in Items :
        x # i => new[x] = [prev |-> IF x = next THEN prev ELSE links[x].prev,
                           next |-> IF x = prev THEN next ELSE links[x].next]
  BY DEF DetachedLinks
<1> HIDE DEF new
<1>7. \A k \in 1..Len(c) : /\ links[c[k]].prev = IF k > 1 THEN c[k - 1] ELSE NULL
                           /\ links[c[k]].next = IF k < Len(c) THEN c[k + 1] ELSE NULL
  <2> TAKE k \in 1..Len(c)
  <2>1. links[c[k]] = [prev |-> Before(c, k, NULL), next |-> After(c, k, NULL)]
    BY <1>1
  <2> QED BY <2>1 DEF Before, After
<1>8. ASSUME NEW k \in 1..Len(r)
      PROVE  new[r[k]] = [prev |-> Before(r, k, NULL), next |-> After(r, k, NULL)]
  <2>1. k \in 1..(Len(c) - 1)
    BY <1>3
  <2>2. CASE k < j
    <3>1. k \in 1..Len(c) /\ r[k] = c[k] /\ k # j + 1 /\ k # j
      BY <1>2, <1>3, <2>1, <2>2
    <3>2. new[r[k]] = [prev |-> links[c[k]].prev,
                       next |-> IF k = j - 1 THEN next ELSE links[c[k]].next]
      BY <1>2, <1>5, <1>6, <3>1
    <3>3. links[c[k]].prev = Before(r, k, NULL)
      <4>1. k > 1 => k - 1 \in 1..(Len(c) - 1) /\ k - 1 < j
        BY <1>2, <2>1, <2>2
      <4>2. k > 1 => r[k - 1] = c[k - 1]
        BY <1>3, <4>1
      <4> QED BY <1>7, <3>1, <4>2 DEF Before
    <3>4. (IF k = j - 1 THEN next ELSE links[c[k]].next) = After(r, k, NULL)
      <4>1. /\ k < Len(r) => k + 1 \in 1..(Len(c) - 1)
            /\ k = j - 1 => k + 1 = j /\ ~(k + 1 < j) /\ (k < Len(r) <=> j < Len(c))
            /\ k # j - 1 => k + 1 < j /\ k < Len(r) /\ k < Len(c)
        BY <1>2, <1>3, <2>1, <2>2
      <4>2. k < Len(r) => r[k + 1] = IF k = j - 1 THEN c[j + 1] ELSE c[k + 1]
        BY <1>3, <4>1
      <4>3. CASE k = j - 1
        BY <1>4, <4>1, <4>2, <4>3 DEF After
      <4>4. CASE k # j - 1
        BY <1>7, <3>1, <4>1, <4>2, <4>4 DEF After
      <4> QED BY <4>3, <4>4
    <3> QED BY <3>2, <3>3, <3>4
  <2>3. CASE ~(k < j)
    <3>1. k + 1 \in 1..Len(c) /\ r[k] = c[k + 1] /\ k + 1 # j - 1 /\ k + 1 # j /\ (k + 1 = j + 1 <=> k = j)
      BY <1>2, <1>3, <2>1, <2>3
    <3>2. new[r[k]] = [prev |-> IF k = j THEN prev ELSE links[c[k + 1]].prev,
                       next |-> links[c[k + 1]].next]
      BY <1>2, <1>5, <1>6, <3>1
    <3>3. (IF k = j THEN prev ELSE links[c[k + 1]].prev) = Before(r, k, NULL)
      <4>1. /\ k > 1 => k - 1 \in 1..(Len(c) - 1)
            /\ k = j => k - 1 < j
            /\ k # j => k > 1 /\ ~(k - 1 < j) /\ k - 1 + 1 = k /\ k + 1 > 1 /\ k + 1 - 1 = k
        BY <1>2, <2>1, <2>3
      <4>2. k > 1 => r[k - 1] = IF k = j THEN c[j - 1] ELSE c[k]
        BY <1>3, <4>1
      <4>3. CASE k = j
        BY <1>4, <4>2, <4>3 DEF Before
      <4>4. CASE k # j
        <5>1. links[c[k + 1]].prev = c[k]
          BY <1>7, <3>1, <4>1, <4>4
        <5> QED BY <4>1, <4>2, <4>4, <5>1 DEF Before
      <4> QED BY <4>3, <4>4
    <3>4. links[c[k + 1]].next = After(r, k, NULL)
      <4>1. /\ k < Len(r) => k + 1 \in 1..(Len(c) - 1)
            /\ ~(k + 1 < j) /\ (k < Len(r) <=> k + 1 < Len(c))
        BY <1>2, <1>3, <2>1, <2>3
      <4>2. k < Len(r) => r[k + 1] = c[k + 1 + 1]
        BY <1>3, <4>1
      <4>3. links[c[k + 1]].next = IF k + 1 < Len(c) THEN c[k + 1 + 1] ELSE NULL
        BY <1>7, <3>1
      <4> QED BY <4>1, <4>2, <4>3 DEF After
    <3> QED BY <3>2, <3>3, <3>4
  <2> QED BY <2>2, <2>3
<1>9. (IF i = h.first THEN next ELSE h.first) = After(r, 0, NULL)
  <2>1. h.first = c[1] /\ 1 \in 1..Len(c)
    BY <1>1, <1>2 DEF After
  <2>2. i = h.first <=> j = 1
    BY <1>2, <2>1
  <2>3. /\ 0 < Len(r) => 1 \in 1..(Len(c) - 1) /\ 0 + 1 = 1
        /\ j = 1 => ~(1 < j) /\ (0 < Len(r) <=> j < Len(c))
        /\ j # 1 => 1 < j /\ 0 < Len(r)
    BY <1>2, <1>3
  <2>4. 0 < Len(r) => r[1] = IF j = 1 THEN c[j + 1] ELSE c[1]
    BY <1>3, <2>3
  <2> QED BY <1>4, <2>1, <2>2, <2>3, <2>4 DEF After
<1>10. (IF i = h.last THEN prev ELSE h.last) = Before(r, Len(r) + 1, NULL)
  <2> DEFINE n == Len(c) - 1
  <2>1. h.last = c[Len(c)] /\ Len(c) \in 1..Len(c)
    <3>1. Len(c) + 1 > 1 /\ Len(c) + 1 - 1 = Len(c)
      BY <1>2
    <3>2. h.last = Before(c, Len(c) + 1, NULL)
      BY <1>1
    <3> QED BY <1>2, <3>1, <3>2 DEF Before
  <2>2. i = h.last <=> j = Len(c)
    BY <1>2, <2>1
  <2>3. /\ Len(r) = n /\ n + 1 - 1 = n /\ (n + 1 > 1 <=> n >= 1)
        /\ n >= 1 => n \in 1..(Len(c) - 1)
        /\ j = Len(c) => n < j /\ n = j - 1 /\ (n >= 1 <=> j > 1)
        /\ j # Len(c) => ~(n < j) /\ n >= 1 /\ n + 1 = Len(c)
    BY <1>2, <1>3
  <2>4. n >= 1 => r[n] = IF j = Len(c) THEN c[j - 1] ELSE c[Len(c)]
    BY <1>3, <2>3
  <2> HIDE DEF n
  <2> QED BY <1>4, <2>1, <2>2, <2>3, <2>4 DEF Before
<1>11. h.size - 1 = Len(r)
  BY <1>1, <1>3
<1>12. DetachedHead(h, prev, i, next)
         = [first |-> After(r, 0, NULL), last |-> Before(r, Len(r) + 1, NULL), size |-> Len(r)]
  BY <1>9, <1>10, <1>11 DEF DetachedHead
<1> QED BY <1>3, <1>8, <1>12 DEF ListIs, r, new

\* When one list changes, and no links but those of its items, the others are
\* still lists.
LEMMA OneListChanges ==
  ASSUME NEW s, NEW heads, NEW links, ListsAre(s, heads, links), NEW l \in Lists,
         NEW u, NEW h, NEW new \in [Items -> LinkType], ListIs(u, h, new),
         \A m \in Lists \ {l} : Range(u) \intersect Range(s[m]) = {},
         \A j \in Items : j \notin Range(s[l]) \union Range(u) => new[j] = links[j],
         \A j \in Range(s[l]) \ Range(u) : new[j] = Unlinked
  PROVE  ListsAre([s EXCEPT ![l] = u], [heads EXCEPT ![l] = h], new)
<1> DEFINE t == [s EXCEPT ![l] = u]
           heads2 == [heads EXCEPT ![l] = h]
<1>1. /\ s \in [Lists -> Seq(Items)]
      /\ heads = [m \in Lists |-> heads[m]]
      /\ \A m \in Lists : ListIs(s[m], heads[m], links)
      /\ \A m, n \in Lists : m # n => Range(s[m]) \intersect Range(s[n]) = {}
      /\ \A i \in Items : (\A m \in Lists : i \notin Range(s[m])) => links[i] = Unlinked
  BY DEF ListsAre
<1>2. u \in Seq(Items)
  BY DEF ListIs
<1>3. t \in [Lists -> Seq(Items)] /\ \A m \in Lists : t[m] = IF m = l THEN u ELSE s[m]
  BY <1>1, <1>2
<1>4. /\ heads2 = [m \in Lists |-> heads2[m]]
      /\ \A m \in Lists : heads2[m] = IF m = l THEN h ELSE heads[m]
  <2>1. heads2 = [m \in Lists |-> IF m = l THEN h ELSE heads[m]]
    BY <1>1
  <2> HIDE DEF heads2
  <2> QED BY <2>1
<1> HIDE DEF t, heads2
<1>5. ASSUME NEW m \in Lists PROVE ListIs(t[m], heads2[m], new)
  <2>1. CASE m = l
    BY <1>3, <1>4, <2>1
  <2>2. CASE m # l
    <3> DEFINE c == s[m]
    <3>1. ListIs(c, heads[m], links)
      BY <1>1
    <3>2. Range(c) \intersect (Range(s[l]) \union Range(u)) = {}
      BY <1>1, <2>2
    <3>3. t[m] = c /\ heads2[m] = heads[m]
      BY <1>3, <1>4, <2>2
    <3> HIDE DEF c
    <3>4. c \in Seq(Items)
      BY <3>1 DEF ListIs
    <3>5. ASSUME NEW k \in 1..Len(c) PROVE new[c[k]] = links[c[k]]
      BY <3>2, <3>4, RangeOf, ElementOfSeq
    <3> QED BY <3>1, <3>3, <3>5 DEF ListIs
  <2> QED BY <2>1, <2>2
<1>6. \A m, n \in Lists : m # n => Range(t[m]) \intersect Range(t[n]) = {}
  BY <1>1, <1>3
<1>7. ASSUME NEW i \in Items, \A m \in Lists : i \notin Range(t[m])
      PROVE  new[i] = Unlinked
  <2>1. i \notin Range(u) /\ \A m \in Lists : m # l => i \notin Range(s[m])
    BY <1>3, <1>7
  <2>2. CASE i \in Range(s[l])
    BY <2>1, <2>2
  <2>3. CASE i \notin Range(s[l])
    BY <1>1, <2>1, <2>3
  <2> QED BY <2>2, <2>3
<1>8. ListsAre(t, heads2, new)
  BY <1>3, <1>4, <1>5, <1>6, <1>7 DEF ListsAre
<1> QED BY <1>8 DEF t, heads2

\* List_insert of an object that is on no list puts it at a place of its list.
LEMMA ListInsertStep ==
  ASSUME NEW s, ListsAre(s, head, link), NEW l \in Lists, NEW i \in Items,
         \A m \in Lists : i \notin Range(s[m]),
         NEW prev \in Range(s[l]) \union {NULL}, List_insert(l, prev, i)
  PROVE  \E p \in 0..Len(s[l]) :
           ListsAre([s EXCEPT ![l] = InsertAt(s[l], p + 1, i)], head', link')
<1> DEFINE c == s[l]
           next == IF prev = NULL THEN head[l].first ELSE link[prev].next
<1>1. ListIs(c, head[l], link) /\ c \in Seq(Items) /\ link \in [Items -> LinkType]
  BY DEF ListsAre, ListIs
<1>2. link' = SetPrev(SetNext([link EXCEPT ![i] = [prev |-> prev, next |-> next]], prev, i), next, i)
  BY DEF List_insert
<1>3. head' = [head EXCEPT ![l] = InsertedHead(head[l], prev, i, next)]
  <2>1. head = [m \in Lists |-> head[m]]
    BY DEF ListsAre
  <2> HIDE DEF next
  <2>2. head' = [head EXCEPT ![l] = [first |-> IF prev = NULL THEN i ELSE @.first,
                                     last  |-> IF next = NULL THEN i ELSE @.last,
                                     size  |-> @.size + 1]]
    BY DEF List_insert, next
  <2> QED BY <2>1, <2>2 DEF InsertedHead
<1>4. i \notin Range(c) /\ prev \in Range(c) \union {NULL}
  OBVIOUS
<1> HIDE DEF c
<1>5. Len(c) \in Nat /\ IsInjective(c) /\ Range(c) \subseteq Items /\ NULL \notin Items
  BY <1>1, LenProperties, RangeOf, ListAssumption DEF ListIs
<1>6. PICK p \in 0..Len(c) : prev = Before(c, p + 1, NULL)
  <2>1. CASE prev = NULL
    <3>1. 0 \in 0..Len(c) /\ Before(c, 0 + 1, NULL) = NULL
      BY <1>5 DEF Before
    <3> QED BY <2>1, <3>1
  <2>2. CASE prev # NULL
    <3>1. PICK k \in 1..Len(c) : c[k] = prev
      BY <1>1, <1>4, <2>2, RangeOf
    <3>2. k \in 0..Len(c) /\ k >= 1
      BY <1>5
    <3>3. Before(c, k + 1, NULL) = c[k]
      BY <1>1, <1>5, <3>2, Neighbours
    <3> QED BY <3>1, <3>2, <3>3
  <2> QED BY <2>1, <2>2
<1>7. next = After(c, p, NULL)
  <2>1. prev = (IF p >= 1 THEN c[p] ELSE NULL) /\ (prev = NULL <=> p = 0)
    BY <1>1, <1>5, <1>6, Neighbours
  <2>2. CASE p = 0
    BY <1>1, <2>1, <2>2 DEF ListIs
  <2>3. CASE p # 0
    <3>1. p \in 1..Len(c) /\ p >= 1
      BY <1>5, <2>3
    <3>2. link[c[p]] = [prev |-> Before(c, p, NULL), next |-> After(c, p, NULL)]
      BY <1>1, <3>1 DEF ListIs
    <3> QED BY <2>1, <2>3, <3>1, <3>2
  <2> QED BY <2>2, <2>3
<1> HIDE DEF next
<1>8. /\ prev \in ItemOrNull /\ next \in ItemOrNull /\ prev # i /\ next # i
      /\ next \in Range(c) \union {NULL}
  <2>1. next \in Range(c) \union {NULL}
    BY <1>1, <1>5, <1>7, Neighbours
  <2> QED BY <1>4, <1>5, <2>1 DEF ItemOrNull
<1> DEFINE u == InsertAt(c, p + 1, i)
           new == InsertedLinks(link, prev, i, next)
           h == InsertedHead(head[l], prev, i, next)
<1>9. link' = new
  BY <1>1, <1>2, <1>8, InsertLinks
<1>10. ListIs(u, h, new)
  BY <1>1, <1>4, <1>6, <1>7, InsertListIs
<1>11. Range(u) = Range(c) \union {i}
  BY <1>1, <1>4, <1>5, InsertRange
<1>12. /\ new \in [Items -> LinkType]
       /\ \A j \in Items : j \notin Range(c) \union {i} => new[j] = link[j]
  <2>1. \A j \in Items : link[j] \in LinkType
    BY <1>1
  <2>2. new \in [Items -> LinkType]
    BY <1>8, <2>1 DEF InsertedLinks, LinkType, ItemOrNull
  <2>3. ASSUME NEW j \in Items, j \notin Range(c) \union {i} PROVE new[j] = link[j]
    <3>1. j # i /\ j # prev /\ j # next
      BY <1>4, <1>5, <1>8, <2>3
    <3>2. new[j] = [prev |-> link[j].prev, next |-> link[j].next]
      BY <3>1 DEF InsertedLinks
    <3> QED BY <2>1, <3>2 DEF LinkType
  <2> QED BY <2>2, <2>3
<1>13. \A m \in Lists \ {l} : Range(u) \intersect Range(s[m]) = {}
  <2>1. \A m \in Lists \ {l} : Range(c) \intersect Range(s[m]) = {}
    BY DEF ListsAre, c
  <2> QED BY <1>11, <2>1
<1> HIDE DEF u, new, h
<1>14. ListsAre([s EXCEPT ![l] = u], [head EXCEPT ![l] = h], new)
  <2>1. \A j \in Items : j \notin Range(s[l]) \union Range(u) => new[j] = link[j]
    BY <1>11, <1>12 DEF c
  <2>2. \A j \in Range(s[l]) \ Range(u) : new[j] = Unlinked
    BY <1>11 DEF c
  <2> QED BY <1>10, <1>12, <1>13, <2>1, <2>2, OneListChanges
<1>15. ListsAre([s EXCEPT ![l] = u], head', link')
  BY <1>3, <1>9, <1>14 DEF h
<1> QED BY <1>15 DEF u, c

\* List_detach of an item takes it out of its list.
LEMMA ListDetachStep ==
  ASSUME NEW s, ListsAre(s, head, link), NEW l \in Lists, NEW j \in 1..Len(s[l]),
         List_detach(l, s[l][j])
  PROVE  ListsAre([s EXCEPT ![l] = RemoveAt(s[l], j)], head', link')
<1> DEFINE c == s[l]
           i == c[j]
           prev == link[i].prev
           next == link[i].next
<1>1. ListIs(c, head[l], link) /\ c \in Seq(Items) /\ link \in [Items -> LinkType]
  BY DEF ListsAre, ListIs
<1>2. link' = [SetPrev(SetNext(link, prev, next), next, prev) EXCEPT ![i] = Unlinked]
  BY DEF List_detach
<1>3. head' = [head EXCEPT ![l] = DetachedHead(head[l], prev, i, next)]
  <2>1. head = [m \in Lists |-> head[m]]
    BY DEF ListsAre
  <2>2. head' = [head EXCEPT ![l] = [first |-> IF i = @.first THEN next ELSE @.first,
                                     last  |-> IF i = @.last THEN prev ELSE @.last,
                                     size  |-> @.size - 1]]
    BY DEF List_detach
  <2> HIDE DEF c, i, prev, next
  <2> QED BY <2>1, <2>2 DEF DetachedHead
<1>4. j \in 1..Len(c)
  OBVIOUS
<1> HIDE DEF c
<1>5. Len(c) \in Nat /\ IsInjective(c) /\ Range(c) \subseteq Items /\ i \in Items
  BY <1>1, <1>4, LenProperties, RangeOf, ElementOfSeq DEF ListIs
<1>6. prev = Before(c, j, NULL) /\ next = After(c, j, NULL)
  <2>1. link[i] = [prev |-> Before(c, j, NULL), next |-> After(c, j, NULL)]
    BY <1>1, <1>4 DEF ListIs
  <2> QED BY <2>1
<1>7. /\ prev \in Range(c) \union {NULL} /\ next \in Range(c) \union {NULL}
      /\ prev \in ItemOrNull /\ next \in ItemOrNull
  <2>1. j - 1 \in 0..Len(c) /\ (j - 1) + 1 = j
    BY <1>4, <1>5
  <2>2. Before(c, j, NULL) \in Range(c) \union {NULL}
    BY <1>1, <1>5, <2>1, Neighbours
  <2>3. j \in 0..Len(c)
    BY <1>4, <1>5
  <2>4. After(c, j, NULL) \in Range(c) \union {NULL}
    BY <1>1, <1>5, <2>3, Neighbours
  <2> QED BY <1>5, <1>6, <2>2, <2>4 DEF ItemOrNull
<1> HIDE DEF prev, next
<1> DEFINE r == RemoveAt(c, j)
           new == DetachedLinks(link, prev, i, next)
           h == DetachedHead(head[l], prev, i, next)
<1>8. link' = new
  <2> HIDE DEF i
  <2> QED BY <1>1, <1>2, <1>5, <1>7, DetachLinks
<1>9. ListIs(r, h, new)
  BY <1>1, <1>4, <1>6, DetachListIs
<1>10. Range(r) = Range(c) \ {i}
  BY <1>1, <1>4, <1>5, RemoveAtRange
<1>11. i \in Range(c) /\ NULL \notin Items
  BY <1>1, <1>4, RangeOf, ListAssumption
<1> HIDE DEF i
<1>12. /\ new \in [Items -> LinkType]
       /\ \A x \in Items : x \notin Range(c) => new[x] = link[x]
       /\ new[i] = Unlinked
  <2>1. \A x \in Items : link[x] \in LinkType
    BY <1>1
  <2>2. new \in [Items -> LinkType]
    BY <1>7, <2>1 DEF DetachedLinks, LinkType, ItemOrNull, Unlinked
  <2>3. ASSUME NEW x \in Items, x \notin Range(c) PROVE new[x] = link[x]
    <3>1. x # i /\ x # prev /\ x # next
      BY <1>7, <1>11, <2>3
    <3>2. new[x] = [prev |-> link[x].prev, next |-> link[x].next]
      BY <3>1 DEF DetachedLinks
    <3> QED BY <2>1, <3>2 DEF LinkType
  <2>4. new[i] = Unlinked
    BY <1>5 DEF DetachedLinks
  <2> QED BY <2>2, <2>3, <2>4
<1>13. \A m \in Lists \ {l} : Range(r) \intersect Range(s[m]) = {}
  <2>1. \A m \in Lists \ {l} : Range(c) \intersect Range(s[m]) = {}
    BY DEF ListsAre, c
  <2> QED BY <1>10, <2>1
<1> HIDE DEF r, new, h
<1>14. ListsAre([s EXCEPT ![l] = r], [head EXCEPT ![l] = h], new)
  <2>1. \A x \in Items : x \notin Range(s[l]) \union Range(r) => new[x] = link[x]
    BY <1>12 DEF c
  <2>2. \A x \in Range(s[l]) \ Range(r) : new[x] = Unlinked
    BY <1>10, <1>12 DEF c
  <2> QED BY <1>9, <1>12, <1>13, <2>1, <2>2, OneListChanges
<1>15. ListsAre([s EXCEPT ![l] = r], head', link')
  BY <1>3, <1>8, <1>14 DEF h
<1> QED BY <1>15 DEF r, c

\* The alloc functions clear the links of the block they get, which is on no list
\* and so has no links to lose.
LEMMA ClearStep ==
  ASSUME NEW s, ListsAre(s, head, link), NEW i \in Items,
         \A m \in Lists : i \notin Range(s[m])
  PROVE  [link EXCEPT ![i] = Unlinked] = link
<1>1. link \in [Items -> LinkType] /\ link[i] = Unlinked
  BY DEF ListsAre
<1> QED BY <1>1

-----------------------------------------------------------------------------
(***************************************************************************)
(* The objects.                                                            *)
(***************************************************************************)

\* Only blocks that are handed out are on the lists s.
ObjectsAre(s) ==
  /\ ListsAre(s, head, link)
  /\ \A l \in Lists : Range(s[l]) \subseteq Detached

\* The pool and the lists have to be right together: the pool gives no block that
\* is on a list, so the links that are cleared are of no list.
ObjectsInv == PoolInv /\ \E s : ObjectsAre(s)

\* The objects on the lists s.
LEMMA ListedAre ==
  ASSUME NEW s, ObjectsAre(s)
  PROVE  /\ \A i : i \in Listed <=> \E l \in Lists : i \in Range(s[l])
         /\ Listed \subseteq Detached
         /\ \A l \in Lists : Contents(l) = s[l] /\ OnList(l) = Range(s[l])
<1>1. \A l \in Lists : Contents(l) = s[l] /\ OnList(l) = Range(s[l])
  BY ContentsAre DEF ObjectsAre
<1> QED BY <1>1 DEF Listed, ObjectsAre

\* At the start the lists are empty.
LEMMA ObjectsInitInv ==
  ASSUME ObjectsInit
  PROVE  PoolInv /\ ObjectsAre([l \in Lists |-> <<>>])
<1> DEFINE s == [l \in Lists |-> <<>>]
<1>1. PoolInv
  BY PoolInitInv DEF ObjectsInit
<1>2. s \in [Lists -> Seq(Items)] /\ \A l \in Lists : s[l] = <<>> /\ Range(s[l]) = {}
  BY EmptyRange
<1>3. /\ head = [l \in Lists |-> [first |-> NULL, last |-> NULL, size |-> 0]]
      /\ link = [i \in Items |-> Unlinked]
  BY DEF ObjectsInit, ListInit
<1>4. link \in [Items -> LinkType]
  BY <1>3 DEF Unlinked, LinkType, ItemOrNull
<1>5. ListIs(<<>>, [first |-> NULL, last |-> NULL, size |-> 0], link)
  BY EmptyRange, EmptySeq DEF ListIs, After, Before
<1> HIDE DEF s
<1>6. ListsAre(s, head, link)
  BY <1>2, <1>3, <1>4, <1>5 DEF ListsAre
<1> QED BY <1>1, <1>2, <1>6 DEF ObjectsAre, s

\* What a call does to the lists: nothing, or one item more or one less.
ListsChange(s, t) ==
  \/ t = s
  \/ \E l \in Lists, i \in Items : \E p \in 0..Len(s[l]) :
       /\ \A m \in Lists : i \notin Range(s[m])
       /\ t = [s EXCEPT ![l] = InsertAt(s[l], p + 1, i)]
  \/ \E l \in Lists : \E j \in 1..Len(s[l]) : t = [s EXCEPT ![l] = RemoveAt(s[l], j)]

\* Every call keeps the invariant, and changes at most one list by one item.
LEMMA ObjectsStep ==
  ASSUME PoolInv, NEW s, ObjectsAre(s), [ObjectsNext]_objectVars
  PROVE  PoolInv' /\ \E t : ObjectsAre(t)' /\ ListsChange(s, t)
<1>1. /\ s \in [Lists -> Seq(Items)]
      /\ ListsAre(s, head, link)
      /\ \A l \in Lists : Range(s[l]) \subseteq Detached
      /\ \A l, m \in Lists : l # m => Range(s[l]) \intersect Range(s[m]) = {}
  BY DEF ObjectsAre, ListsAre
<1>2. /\ \A i : i \in Listed <=> \E l \in Lists : i \in Range(s[l])
      /\ \A l \in Lists : OnList(l) = Range(s[l])
  BY ListedAre
<1>3. Items = Blocks
  BY ObjectsAssumption
<1>4. ASSUME UNCHANGED poolVars PROVE PoolInv' /\ Detached' = Detached
  BY <1>4 DEF poolVars, PoolInv, Detached
<1>5. ASSUME UNCHANGED listVars, PoolInv', \A l \in Lists : Range(s[l]) \subseteq Detached'
      PROVE  PoolInv' /\ \E t : ObjectsAre(t)' /\ ListsChange(s, t)
  <2>1. head' = head /\ link' = link
    BY <1>5 DEF listVars
  <2>2. ObjectsAre(s)'
    BY <1>1, <1>5, <2>1 DEF ObjectsAre
  <2> QED BY <1>5, <2>2 DEF ListsChange
<1>6. ASSUME NEW i \in Items, Alloc(i)
      PROVE  PoolInv' /\ \E t : ObjectsAre(t)' /\ ListsChange(s, t)
  <2>1. GetBlock(i) /\ link' = [link EXCEPT ![i] = Unlinked] /\ head' = head
    BY <1>6 DEF Alloc
  <2>2. PoolInv' /\ i \notin Detached /\ Detached' = Detached \union {i}
    BY <1>3, <2>1, GetBlockStep
  <2>3. link' = link
    BY <1>1, <2>1, <2>2, ClearStep
  <2> QED BY <1>1, <1>5, <2>1, <2>2, <2>3 DEF listVars
<1>7. ASSUME AllocFails
      PROVE  PoolInv' /\ \E t : ObjectsAre(t)' /\ ListsChange(s, t)
  <2>1. UNCHANGED poolVars /\ UNCHANGED listVars
    BY <1>7 DEF AllocFails, GetBlockNone
  <2> QED BY <1>1, <1>4, <1>5, <2>1
<1>8. ASSUME NEW l \in Lists, NEW i \in Items, Insert(l, i)
      PROVE  PoolInv' /\ \E t : ObjectsAre(t)' /\ ListsChange(s, t)
  <2>1. /\ i \in Detached \ Listed
        /\ \E prev \in OnList(l) \union {NULL} : List_insert(l, prev, i)
        /\ UNCHANGED poolVars
    BY <1>8 DEF Insert
  <2>2. PICK prev \in Range(s[l]) \union {NULL} : List_insert(l, prev, i)
    BY <1>2, <2>1
  <2>3. \A m \in Lists : i \notin Range(s[m])
    BY <1>2, <2>1
  <2>4. PICK p \in 0..Len(s[l]) :
          ListsAre([s EXCEPT ![l] = InsertAt(s[l], p + 1, i)], head', link')
    BY <1>1, <2>2, <2>3, ListInsertStep
  <2> DEFINE u == InsertAt(s[l], p + 1, i)
             t == [s EXCEPT ![l] = u]
  <2>5. Range(u) = Range(s[l]) \union {i}
    <3> DEFINE c == s[l]
    <3>1. c \in Seq(Items) /\ IsInjective(c) /\ i \notin Range(c) /\ p \in 0..Len(c)
      BY <1>1, <2>3 DEF ListsAre, ListIs
    <3> HIDE DEF c
    <3>2. Range(InsertAt(c, p + 1, i)) = Range(c) \union {i}
      BY <3>1, InsertRange
    <3> QED BY <3>2 DEF c
  <2> HIDE DEF u
  <2>6. \A m \in Lists : t[m] = IF m = l THEN u ELSE s[m]
    BY <1>1
  <2>7. ListsAre(t, head', link')
    BY <2>4 DEF u
  <2>8. PoolInv' /\ Detached' = Detached
    BY <1>4, <2>1
  <2>9. ListsChange(s, t)
    BY <2>3 DEF ListsChange, u
  <2> HIDE DEF t
  <2>10. \A m \in Lists : Range(t[m]) \subseteq Detached'
    BY <1>1, <2>1, <2>5, <2>6, <2>8
  <2>11. ObjectsAre(t)'
    BY <2>7, <2>10 DEF ObjectsAre
  <2> QED BY <2>8, <2>9, <2>11
<1>9. ASSUME NEW l \in Lists, NEW i \in Items, Detach(l, i)
      PROVE  PoolInv' /\ \E t : ObjectsAre(t)' /\ ListsChange(s, t)
  <2>1. i \in Range(s[l]) /\ List_detach(l, i) /\ UNCHANGED poolVars
    BY <1>2, <1>9 DEF Detach
  <2>2. s[l] \in Seq(Items) /\ IsInjective(s[l])
    BY <1>1 DEF ListsAre, ListIs
  <2>3. PICK j \in 1..Len(s[l]) : s[l][j] = i
    BY <2>1, <2>2, RangeOf
  <2> DEFINE r == RemoveAt(s[l], j)
             t == [s EXCEPT ![l] = r]
  <2>4. ListsAre(t, head', link')
    BY <1>1, <2>1, <2>3, ListDetachStep
  <2>5. Range(r) \subseteq Range(s[l])
    <3> DEFINE c == s[l]
    <3>1. c \in Seq(Items) /\ IsInjective(c) /\ j \in 1..Len(c)
      BY <2>2
    <3> HIDE DEF c
    <3>2. Range(RemoveAt(c, j)) = Range(c) \ {c[j]}
      BY <3>1, RemoveAtRange
    <3> QED BY <3>2 DEF c
  <2>6. PoolInv' /\ Detached' = Detached
    BY <1>4, <2>1
  <2>7. ListsChange(s, t)
    BY DEF ListsChange
  <2> HIDE DEF r
  <2>8. \A m \in Lists : t[m] = IF m = l THEN r ELSE s[m]
    BY <1>1
  <2> HIDE DEF t
  <2>9. \A m \in Lists : Range(t[m]) \subseteq Detached'
    BY <1>1, <2>5, <2>6, <2>8
  <2>10. ObjectsAre(t)'
    BY <2>4, <2>9 DEF ObjectsAre
  <2> QED BY <2>6, <2>7, <2>10
<1>10. ASSUME NEW offset \in Offsets, Free(offset)
       PROVE  PoolInv' /\ \E t : ObjectsAre(t)' /\ ListsChange(s, t)
  <2>1. /\ \A i \in Listed : offset # i * item_size
        /\ ReleaseBlock(offset) \/ ReleaseRefused(offset)
        /\ UNCHANGED listVars
        /\ offset \in Int
    BY <1>10, ObjectsAssumption DEF Free
  <2>2. CASE ReleaseBlock(offset)
    <3>1. PoolInv' /\ \E i \in Detached : offset = i * item_size /\ Detached' = Detached \ {i}
      BY <2>1, <2>2, ReleaseBlockStep
    <3>2. PICK i \in Detached : offset = i * item_size /\ Detached' = Detached \ {i}
      BY <3>1
    <3>3. i \notin Listed
      BY <2>1, <3>2
    <3>4. \A l \in Lists : Range(s[l]) \subseteq Detached'
      BY <1>1, <1>2, <3>2, <3>3
    <3> QED BY <1>5, <2>1, <3>1, <3>4
  <2>3. CASE ReleaseRefused(offset)
    <3>1. UNCHANGED poolVars
      BY <2>3 DEF ReleaseRefused
    <3> QED BY <1>1, <1>4, <1>5, <2>1, <3>1
  <2> QED BY <2>1, <2>2, <2>3
<1>11. ASSUME UNCHANGED objectVars
       PROVE  PoolInv' /\ \E t : ObjectsAre(t)' /\ ListsChange(s, t)
  <2>1. UNCHANGED poolVars /\ UNCHANGED listVars
    BY <1>11 DEF objectVars
  <2> QED BY <1>1, <1>4, <1>5, <2>1
<1> QED BY <1>6, <1>7, <1>8, <1>9, <1>10, <1>11 DEF ObjectsNext

\* Every call keeps the pool and the lists in order together.
THEOREM ObjectsInvariant == ObjectsSpec => []ObjectsInv
<1>1. ObjectsInit => ObjectsInv
  BY ObjectsInitInv DEF ObjectsInv
<1>2. ObjectsInv /\ [ObjectsNext]_objectVars => ObjectsInv'
  <2> SUFFICES ASSUME ObjectsInv, [ObjectsNext]_objectVars PROVE ObjectsInv'
    OBVIOUS
  <2>1. PICK s : ObjectsAre(s)
    BY DEF ObjectsInv
  <2>2. PoolInv' /\ \E t : ObjectsAre(t)' /\ ListsChange(s, t)
    BY <2>1, ObjectsStep DEF ObjectsInv
  <2> QED BY <2>2 DEF ObjectsInv
<1> QED BY <1>1, <1>2, PTL DEF ObjectsSpec

\* The pool keeps its chain of free blocks whole whatever its callers release: a
\* wrong pointer, one released before, or an old one to a block that was given out
\* again. The last is accepted, and harms its owner but not the chain.
THEOREM PoolAlone == PoolSpec => []FreeListComplete
<1>1. PoolInit => PoolInv
  BY PoolInitInv
<1>2. PoolInv /\ [PoolNext]_poolVars => PoolInv'
  <2> SUFFICES ASSUME PoolInv, [PoolNext]_poolVars PROVE PoolInv'
    OBVIOUS
  <2>1. ASSUME NEW i \in Blocks, GetBlock(i) PROVE PoolInv'
    BY <2>1, GetBlockStep
  <2>2. ASSUME NEW offset \in Int, ReleaseBlock(offset) PROVE PoolInv'
    BY <2>2, ReleaseBlockStep
  <2>3. CASE UNCHANGED poolVars
    BY <2>3 DEF PoolInv, poolVars
  <2> QED BY <2>1, <2>2, <2>3 DEF PoolNext, GetBlockNone, ReleaseRefused
<1>3. PoolInv => FreeListComplete
  BY ChainIsComplete
<1> QED BY <1>1, <1>2, <1>3, PTL DEF PoolSpec

\* No block is in the chain of free blocks twice, none is lost and size counts
\* them, while objects are allocated, used and freed.
THEOREM PoolComplete == ObjectsSpec => []FreeListComplete
<1>1. ObjectsInv => FreeListComplete
  BY ChainIsComplete DEF ObjectsInv
<1> QED BY <1>1, ObjectsInvariant, PTL

\* The lists can be walked from both ends and their sizes are right, while objects
\* come, go from one list to another, and are freed.
THEOREM ListsStayWellFormed == ObjectsSpec => []ListsWellFormed
<1>1. ObjectsInv => ListsWellFormed
  BY ListsAreGood DEF ObjectsInv, ObjectsAre
<1> QED BY <1>1, ObjectsInvariant, PTL

\* List_insert never refuses an object that is on no list: the error branches of
\* the handlers after it are dead.
THEOREM InsertNeverRefuses == ObjectsSpec => []InsertAccepted
<1>1. ObjectsInv => InsertAccepted
  <2> SUFFICES ASSUME NEW s, ObjectsAre(s), NEW i \in Detached \ Listed
               PROVE  link[i] = Unlinked
    BY DEF ObjectsInv, InsertAccepted
  <2>1. i \in Items /\ \A l \in Lists : i \notin Range(s[l])
    BY ListedAre, ObjectsAssumption DEF Detached
  <2> QED BY <2>1 DEF ObjectsAre, ListsAre
<1> QED BY <1>1, ObjectsInvariant, PTL

\* As long as no object on a list is freed, the pool gives out no block that is on
\* one, also after a release of a pointer whose block is free already.
THEOREM BlocksAreNotShared == ObjectsSpec => NoBlockShared
<1>1. ObjectsInv => [\A i \in Items : Alloc(i) => i \notin Listed]_objectVars
  <2> SUFFICES ASSUME ObjectsInv, NEW i \in Items, Alloc(i) PROVE i \notin Listed
    OBVIOUS
  <2>1. PICK s : ObjectsAre(s)
    BY DEF ObjectsInv
  <2>2. i \notin Detached
    BY GetBlockStep, ObjectsAssumption DEF ObjectsInv, Alloc
  <2> QED BY <2>1, <2>2, ListedAre
<1> QED BY <1>1, ObjectsInvariant, PTL DEF ObjectsSpec, NoBlockShared

\* The items of all lists, the value of Abstract!contents.
AllContents == [l \in Lists |-> Contents(l)]

\* It is the sequences of the invariant.
LEMMA AllContentsAre ==
  ASSUME NEW s, ObjectsAre(s)
  PROVE  AllContents = s
<1>1. s = [l \in Lists |-> s[l]]
  BY DEF ObjectsAre, ListsAre
<1>2. \A l \in Lists : Contents(l) = s[l]
  BY ListedAre
<1> QED BY <1>1, <1>2 DEF AllContents

\* It is so in the next state too.
LEMMA AllContentsAreNext == (\A s : ObjectsAre(s) => AllContents = s)'
<1>1. \A s : ObjectsAre(s) => AllContents = s
  BY AllContentsAre
<1> QED BY <1>1, PTL

\* Each change of the lists is a step of the abstract ones.
LEMMA ChangesRefine ==
  ASSUME NEW s, ObjectsAre(s), AllContents = s, AllContents' # s, ListsChange(s, AllContents')
  PROVE  Abstract!Next
<1> DEFINE t == AllContents'
<1>1. s \in [Lists -> Seq(Items)]
  BY DEF ObjectsAre, ListsAre
<1>2. [l \in Lists |-> Contents(l)] = s /\ [l \in Lists |-> Contents(l)]' = t
  BY DEF AllContents
<1>3. ASSUME NEW l \in Lists, NEW i \in Items, NEW p \in 0..Len(s[l]),
             \A m \in Lists : i \notin Range(s[m]),
             t = [s EXCEPT ![l] = InsertAt(s[l], p + 1, i)]
      PROVE  Abstract!Next
  <2>1. i \notin UNION {Range(s[m]) : m \in Lists}
    BY <1>3
  <2>2. /\ \A c : Abstract!Range(c) = Range(c)
        /\ \A c, k, x : Abstract!InsertAt(c, k, x) = InsertAt(c, k, x)
    BY DEF Abstract!Range, Range, Abstract!InsertAt, InsertAt
  <2>3. t = [s EXCEPT ![l] = Abstract!InsertAt(s[l], p + 1, i)]
    BY <1>3, <2>2
  <2>4. i \notin Abstract!Placed
    <3>1. Abstract!Placed = UNION {Abstract!Range(s[m]) : m \in Lists}
      BY <1>2 DEF Abstract!Placed
    <3> QED BY <2>1, <2>2, <3>1
  <2>5. Abstract!Insert(l, p + 1, i)
    BY <1>2, <2>3, <2>4 DEF Abstract!Insert
  <2>6. p + 1 \in 1..(Len(s[l]) + 1)
    BY <1>1, LenProperties
  <2> QED BY <1>2, <2>5, <2>6 DEF Abstract!Next
<1>4. ASSUME NEW l \in Lists, NEW j \in 1..Len(s[l]), t = [s EXCEPT ![l] = RemoveAt(s[l], j)]
      PROVE  Abstract!Next
  <2>1. Abstract!Detach(l, j)
    <3>1. \A c, k : Abstract!RemoveAt(c, k) = RemoveAt(c, k)
      BY DEF Abstract!RemoveAt, RemoveAt
    <3>2. t = [s EXCEPT ![l] = Abstract!RemoveAt(s[l], j)]
      BY <1>4, <3>1
    <3> QED BY <1>2, <3>2 DEF Abstract!Detach
  <2>2. j \in DOMAIN s[l]
    BY <1>1, LenProperties
  <2> QED BY <1>2, <2>1, <2>2 DEF Abstract!Next
<1> QED BY <1>3, <1>4 DEF ListsChange

\* The linked lists implement sequences: every call changes at most one list, and
\* by one item at one place.
THEOREM ListsImplement == ObjectsSpec => ImplementsLists
<1>1. ObjectsInit => Abstract!Init
  <2> SUFFICES ASSUME ObjectsInit PROVE Abstract!Init
    OBVIOUS
  <2>1. AllContents = [l \in Lists |-> <<>>]
    BY ObjectsInitInv, AllContentsAre
  <2> QED BY <2>1 DEF AllContents, Abstract!Init
<1>2. ObjectsInv /\ [ObjectsNext]_objectVars => [Abstract!Next]_([l \in Lists |-> Contents(l)])
  <2> SUFFICES ASSUME ObjectsInv, [ObjectsNext]_objectVars, AllContents' # AllContents
               PROVE  Abstract!Next
    BY DEF AllContents
  <2>1. PICK s : ObjectsAre(s)
    BY DEF ObjectsInv
  <2>2. PICK t : ObjectsAre(t)' /\ ListsChange(s, t)
    BY <2>1, ObjectsStep DEF ObjectsInv
  <2>3. AllContents = s /\ AllContents' = t
    BY <2>1, <2>2, AllContentsAre, AllContentsAreNext
  <2> QED BY <2>1, <2>2, <2>3, ChangesRefine
<1> QED BY <1>1, <1>2, ObjectsInvariant, PTL DEF ObjectsSpec, ImplementsLists, Abstract!Spec

=============================================================================
