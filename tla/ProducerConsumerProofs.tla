----------------------- MODULE ProducerConsumerProofs -----------------------
(***************************************************************************)
(* The children of the test program exclude each other, lose no unit and   *)
(* read what was written in its order, for any number of children, cells   *)
(* and iterations.                                                         *)
(***************************************************************************)
EXTENDS ProducerConsumer, ListLemmas, FiniteSetTheorems

-----------------------------------------------------------------------------
(***************************************************************************)
(* The indices turn around the buffer.                                     *)
(***************************************************************************)

\* What a remainder is.
LEMMA Division ==
  ASSUME NEW a \in Nat, NEW n \in Nat \ {0}
  PROVE  /\ a \div n \in Nat
         /\ a % n \in 0..(n - 1)
         /\ a = n * (a \div n) + (a % n)
  OBVIOUS

\* Only one number below n is a remainder.
LEMMA RemainderUnique ==
  ASSUME NEW n \in Nat \ {0}, NEW b \in Int, NEW c \in Int,
         NEW r \in 0..(n - 1), NEW t \in 0..(n - 1), n * b + r = n * c + t
  PROVE  r = t /\ b = c
<1>1. CASE b = c
  BY <1>1
<1>2. CASE b < c
  <2>1. c - b - 1 \in Nat /\ n * (c - b - 1) \in Nat
    BY <1>2
  <2>2. n * (c - b) = n * (c - b - 1) + n
    BY <1>2
  <2>3. n * (c - b) = r - t
    OBVIOUS
  <2> QED BY <2>1, <2>2, <2>3
<1>3. CASE c < b
  <2>1. b - c - 1 \in Nat /\ n * (b - c - 1) \in Nat
    BY <1>3
  <2>2. n * (b - c) = n * (b - c - 1) + n
    BY <1>3
  <2>3. n * (b - c) = t - r
    OBVIOUS
  <2> QED BY <2>1, <2>2, <2>3
<1> QED BY <1>1, <1>2, <1>3

\* Division with a remainder names the remainder.
LEMMA RemainderIs ==
  ASSUME NEW a \in Nat, NEW n \in Nat \ {0}, NEW b \in Nat, NEW r \in 0..(n - 1),
         a = n * b + r
  PROVE  a % n = r
  BY Division, RemainderUnique

\* An index that moves by one stays the remainder of its count.
LEMMA IndexAdvances ==
  ASSUME NEW a \in Nat, NEW n \in Nat \ {0}
  PROVE  ((a % n) + 1) % n = (a + 1) % n
<1>1. PICK b \in Nat, r \in 0..(n - 1) : a = n * b + r /\ a % n = r
  BY Division
<1> PICK c \in Nat : c = a + 1
  OBVIOUS
<1>2. CASE r + 1 < n
  <2>1. c = n * b + (r + 1) /\ r + 1 = n * 0 + (r + 1) /\ r + 1 \in 0..(n - 1)
    BY <1>1, <1>2
  <2>2. c % n = r + 1
    BY <2>1, RemainderIs
  <2>3. (r + 1) % n = r + 1
    BY <2>1, RemainderIs
  <2> QED BY <1>1, <2>2, <2>3
<1>3. CASE r + 1 = n
  <2>1. c = n * (b + 1) + 0 /\ n = n * 1 + 0 /\ 0 \in 0..(n - 1) /\ b + 1 \in Nat
    BY <1>1, <1>3
  <2>2. c % n = 0
    BY <2>1, RemainderIs
  <2>3. n % n = 0
    BY <2>1, RemainderIs
  <2> QED BY <1>1, <1>3, <2>2, <2>3
<1> QED BY <1>2, <1>3

\* Fewer than n steps lead to another cell.
LEMMA CellsDiffer ==
  ASSUME NEW a \in Nat, NEW b \in Nat, NEW n \in Nat \ {0}, a < b, b < a + n
  PROVE  a % n # b % n
<1> SUFFICES ASSUME a % n = b % n PROVE FALSE
  OBVIOUS
<1> DEFINE r == a % n
           c == a \div n
           d == b \div n
<1>1. /\ c \in Nat /\ r \in 0..(n - 1) /\ a = n * c + r
      /\ d \in Nat /\ b = n * d + r
  BY Division
<1> HIDE DEF r, c, d
<1>2. CASE d <= c
  <2>1. c - d \in Nat /\ n * (c - d) \in Nat
    BY <1>1, <1>2
  <2> QED BY <1>1, <2>1
<1>3. CASE d > c
  <2>1. d - c - 1 \in Nat /\ n * (d - c - 1) \in Nat
    BY <1>1, <1>3
  <2> QED BY <1>1, <2>1
<1> QED BY <1>1, <1>2, <1>3

-----------------------------------------------------------------------------
(***************************************************************************)
(* The inductive invariant.                                                *)
(***************************************************************************)

Points == {"take", "guard", "access", "advance", "release", "give", "close", "exit"}

\* The types of the variables of the test program.
ClientTypes ==
  /\ exists \subseteq SemIds
  /\ value \in [SemIds -> Nat]
  /\ queue \in [SemIds -> Seq(Procs)]
  /\ handle \in [Handles -> Handle \union {NULL}]
  /\ buffer \in [0..(BUFFER_LENGTH - 1) -> Nat]
  /\ write_index \in 0..(BUFFER_LENGTH - 1)
  /\ read_index \in 0..(BUFFER_LENGTH - 1)
  /\ var \in Nat \ {0}
  /\ pc \in [Procs -> Points]
  /\ i \in [Procs -> Nat]
  /\ taken \in Seq(Nat)

\* A child uses the handles it opened, and they keep their semaphores alive.
HandlesOpen ==
  \A p \in Procs, s \in SemIds :
    /\ handle[<<p, s>>] # NULL => handle[<<p, s>>] = [owner |-> p, sem |-> s] /\ s \in exists
    /\ pc[p] \notin {"close", "exit"} => handle[<<p, s>>] # NULL

Waiters(s) == Range(queue[s])

\* A child waits once, for its unit or for its guard, and has gone on to the
\* point behind the wait.
QueuedFor ==
  \A s \in SemIds :
    /\ IsInjective(queue[s])
    /\ \A p \in Waiters(s) : \/ s = Takes(p) /\ pc[p] = "guard"
                             \/ s = Guards(p) /\ pc[p] = "access"

\* A guard is a binary semaphore, and it is taken while a child is inside.
GuardsBusy ==
  /\ value[READ] <= 1
  /\ value[WRITE] <= 1
  /\ \A p \in Procs : Inside(p) =>
       /\ value[Guards(p)] = 0
       /\ \A q \in Procs : Inside(q) /\ Guards(q) = Guards(p) => q = p

\* The values that were read and passed by the read index, and those that were
\* written and not passed yet.
ReaderAdvances == \E p \in Procs : ~Writes(p) /\ pc[p] = "advance"
ReadCount == Len(taken) - (IF ReaderAdvances THEN 1 ELSE 0)
Filled == (var - 1) - ReadCount

\* The children that have a filled cell, and those that have a free one.
FilledHands ==
  {p \in Holders : pc[p] \in IF Writes(p) THEN {"release", "give"}
                                          ELSE {"guard", "access", "advance"}}
FreeHands ==
  {p \in Holders : pc[p] \in IF Writes(p) THEN {"guard", "access", "advance"}
                                          ELSE {"release", "give"}}

\* The units count the cells that are in nobody's hands.
CellsCounted ==
  {EMPTY, FULL} \subseteq exists =>
    /\ value[EMPTY] + Cardinality(FilledHands) = Filled
    /\ value[FULL] + Cardinality(FreeHands) = BUFFER_LENGTH - Filled

\* The filled cells are those between the indices, and hold their values.
BufferHolds ==
  /\ ReadCount \in Nat
  /\ Filled \in 0..BUFFER_LENGTH
  /\ write_index = (var - 1) % BUFFER_LENGTH
  /\ read_index = ReadCount % BUFFER_LENGTH
  /\ \A k \in (ReadCount + 1)..(var - 1) : buffer[(k - 1) % BUFFER_LENGTH] = k
  /\ \A p \in Procs : Writes(p) /\ pc[p] = "advance" => buffer[write_index] = var

\* All parts together are inductive: the counts of the units need the guards
\* (one reader at a time is between its access and its advance), the contents
\* of the buffer need the counts.
ClientInv ==
  /\ ClientTypes
  /\ HandlesOpen
  /\ QueuedFor
  /\ GuardsBusy
  /\ CellsCounted
  /\ BufferHolds
  /\ InOrder

-----------------------------------------------------------------------------
(***************************************************************************)
(* The semaphores of the program and who waits for them.                   *)
(***************************************************************************)

\* Each child uses three different semaphores, none of them twice.
LEMMA SemaphoresOf ==
  ASSUME NEW p \in Procs
  PROVE  /\ Takes(p) \in SemIds /\ Gives(p) \in SemIds /\ Guards(p) \in SemIds
         /\ Takes(p) \in {EMPTY, FULL} /\ Gives(p) \in {EMPTY, FULL}
         /\ Guards(p) \in {READ, WRITE}
         /\ Takes(p) # Gives(p)
         /\ \A q \in Procs : /\ Guards(p) # Takes(q)
                             /\ Guards(p) # Gives(q)
                             /\ Guards(p) = Guards(q) <=> (Writes(p) <=> Writes(q))
                             /\ Takes(p) = Takes(q) <=> (Writes(p) <=> Writes(q))
                             /\ Takes(p) = Gives(q) <=> (Writes(p) <=> ~Writes(q))
  BY ProducerConsumerAssumption DEF Takes, Gives, Guards, EMPTY, FULL, READ, WRITE

\* The places in a queue and the elements of its range.
LEMMA RangeMember ==
  ASSUME NEW q, NEW p
  PROVE  p \in Range(q) <=> \E k \in DOMAIN q : q[k] = p
  BY DEF Range

\* A child is queued when it waits for some semaphore. It is inside when it is
\* past the wait on its guard and does not wait there.
LEMMA InsideIs ==
  /\ \A p : Queued(p) <=> \E s \in SemIds : p \in Waiters(s)
  /\ QueuedFor => \A p \in Procs :
       Inside(p) <=> /\ pc[p] \in {"access", "advance", "release"}
                     /\ p \notin Waiters(Guards(p))
<1>1. \A p : Queued(p) <=> \E s \in SemIds : p \in Waiters(s)
  BY RangeMember DEF Queued, Waiters
<1>2. ASSUME QueuedFor, NEW p \in Procs
      PROVE  Inside(p) <=> /\ pc[p] \in {"access", "advance", "release"}
                           /\ p \notin Waiters(Guards(p))
  BY <1>1, <1>2, SemaphoresOf DEF QueuedFor, Inside
<1> QED BY <1>1, <1>2

\* The same in the next state.
LEMMA InsideIsNext ==
  /\ \A p : Queued(p)' <=> \E s \in SemIds : p \in Waiters(s)'
  /\ QueuedFor' => \A p \in Procs :
       Inside(p)' <=> /\ pc'[p] \in {"access", "advance", "release"}
                      /\ p \notin Waiters(Guards(p))'
<1>1. \A p : Queued(p)' <=> \E s \in SemIds : p \in Waiters(s)'
  BY RangeMember DEF Queued, Waiters
<1>2. ASSUME QueuedFor', NEW p \in Procs
      PROVE  Inside(p)' <=> /\ pc'[p] \in {"access", "advance", "release"}
                            /\ p \notin Waiters(Guards(p))'
  BY <1>1, <1>2, SemaphoresOf DEF QueuedFor, Inside
<1> QED BY <1>1, <1>2

\* A child holds a cell when it is past the wait for its unit and does not wait
\* there.
LEMMA HoldersAre ==
  /\ Holders = {p \in Procs :
       /\ pc[p] \in {"guard", "access", "advance", "release", "give"}
       /\ p \notin Waiters(Takes(p))}
  /\ Holders' = {p \in Procs :
       /\ pc'[p] \in {"guard", "access", "advance", "release", "give"}
       /\ p \notin Waiters(Takes(p))'}
  BY RangeMember DEF Holders, Waiters

\* A child that is not done has all its handles, and all semaphores exist.
LEMMA StandingChild ==
  ASSUME ClientInv, NEW p \in Procs, pc[p] \notin {"close", "exit"}
  PROVE  /\ SemIds \subseteq exists
         /\ \A s \in SemIds : /\ <<p, s>> \in Handles
                              /\ handle[<<p, s>>] # NULL
                              /\ handle[<<p, s>>].owner = p
                              /\ handle[<<p, s>>].sem = s
<1>1. \A s \in SemIds : /\ <<p, s>> \in Handles
                         /\ handle[<<p, s>>] = [owner |-> p, sem |-> s]
                         /\ handle[<<p, s>>] # NULL
                         /\ s \in exists
  BY ProducerConsumerAssumption DEF ClientInv, HandlesOpen
<1>2. \A s \in SemIds : handle[<<p, s>>].owner = p /\ handle[<<p, s>>].sem = s
  <2> TAKE s \in SemIds
  <2> DEFINE h == handle[<<p, s>>]
  <2>1. h = [owner |-> p, sem |-> s]
    BY <1>1
  <2> HIDE DEF h
  <2>2. h.owner = p /\ h.sem = s
    BY <2>1
  <2> QED BY <2>2 DEF h
<1> QED BY <1>1, <1>2

\* A wait takes a unit or puts the child into the queue.
LEMMA WaitEffect ==
  ASSUME ClientInv, NEW p \in Procs, pc[p] \notin {"close", "exit"},
         NEW s \in SemIds, Wait(<<p, s>>)
  PROVE  /\ ~Queued(p)
         /\ UNCHANGED <<exists, handle>>
         /\ value' \in [SemIds -> Nat]
         /\ queue' \in [SemIds -> Seq(Procs)]
         /\ \A t \in SemIds \ {s} : value'[t] = value[t] /\ queue'[t] = queue[t]
         /\ IsInjective(queue'[s])
         /\ \/ /\ value[s] > 0
               /\ value'[s] = value[s] - 1
               /\ queue'[s] = queue[s]
            \/ /\ value[s] = 0
               /\ value'[s] = value[s]
               /\ Waiters(s)' = Waiters(s) \union {p}
<1>1. /\ ~Queued(p) /\ UNCHANGED <<exists, handle>>
      /\ \/ /\ value[s] > 0
            /\ value' = [value EXCEPT ![s] = @ - 1]
            /\ UNCHANGED queue
         \/ /\ value[s] = 0
            /\ queue' = [queue EXCEPT ![s] = Append(@, p)]
            /\ UNCHANGED value
  <2>1. handle[<<p, s>>].owner = p /\ handle[<<p, s>>].sem = s
    BY StandingChild
  <2> QED BY <2>1, InsideIs DEF Wait
<1>2. /\ value \in [SemIds -> Nat]
      /\ queue \in [SemIds -> Seq(Procs)]
      /\ IsInjective(queue[s])
  BY DEF ClientInv, ClientTypes, QueuedFor
<1>3. p \notin Range(queue[s])
  BY <1>1, InsideIs DEF Waiters
<1>4. /\ Append(queue[s], p) \in Seq(Procs)
      /\ Range(Append(queue[s], p)) = Range(queue[s]) \union {p}
      /\ IsInjective(Append(queue[s], p))
  <2> DEFINE q == queue[s]
  <2>1. q \in Seq(Procs) /\ IsInjective(q) /\ p \notin Range(q)
    BY <1>2, <1>3
  <2> HIDE DEF q
  <2>2. /\ Append(q, p) \in Seq(Procs)
        /\ Range(Append(q, p)) = Range(q) \union {p}
        /\ IsInjective(Append(q, p))
    BY <2>1, AppendRange
  <2> QED BY <2>2 DEF q
<1>5. CASE /\ value[s] > 0
           /\ value' = [value EXCEPT ![s] = @ - 1]
           /\ UNCHANGED queue
  BY <1>1, <1>2, <1>5 DEF Waiters
<1>6. CASE /\ value[s] = 0
           /\ queue' = [queue EXCEPT ![s] = Append(@, p)]
           /\ UNCHANGED value
  BY <1>1, <1>2, <1>4, <1>6 DEF Waiters
<1> QED BY <1>1, <1>5, <1>6

\* A post gives the unit to the first child of the queue or keeps it.
LEMMA PostEffect ==
  ASSUME ClientInv, NEW p \in Procs, pc[p] \notin {"close", "exit"},
         NEW s \in SemIds, Post(<<p, s>>)
  PROVE  /\ ~Queued(p)
         /\ UNCHANGED <<exists, handle>>
         /\ value' \in [SemIds -> Nat]
         /\ queue' \in [SemIds -> Seq(Procs)]
         /\ \A t \in SemIds \ {s} : value'[t] = value[t] /\ queue'[t] = queue[t]
         /\ IsInjective(queue'[s])
         /\ \/ /\ value'[s] = value[s]
               /\ \E h \in Procs : /\ h \in Waiters(s)
                                   /\ Waiters(s)' = Waiters(s) \ {h}
            \/ /\ Waiters(s) = {}
               /\ value'[s] = value[s] + 1
               /\ queue'[s] = queue[s]
<1>1. /\ ~Queued(p) /\ UNCHANGED <<exists, handle>>
      /\ \/ /\ queue[s] # <<>>
            /\ queue' = [queue EXCEPT ![s] = Tail(@)]
            /\ UNCHANGED value
         \/ /\ queue[s] = <<>>
            /\ value' = [value EXCEPT ![s] = @ + 1]
            /\ UNCHANGED queue
  <2>1. handle[<<p, s>>].owner = p /\ handle[<<p, s>>].sem = s
    BY StandingChild
  <2> QED BY <2>1, InsideIs DEF Post
<1>2. /\ value \in [SemIds -> Nat]
      /\ queue \in [SemIds -> Seq(Procs)]
      /\ IsInjective(queue[s])
  BY DEF ClientInv, ClientTypes, QueuedFor
<1>3. CASE /\ queue[s] # <<>>
           /\ queue' = [queue EXCEPT ![s] = Tail(@)]
           /\ UNCHANGED value
  <2> DEFINE q == queue[s]
             h == Head(q)
  <2>1. q \in Seq(Procs) /\ q # <<>> /\ IsInjective(q)
    BY <1>2, <1>3
  <2> HIDE DEF q
  <2>2. /\ h \in Procs
        /\ Tail(q) \in Seq(Procs)
        /\ Range(q) = Range(Tail(q)) \union {h}
        /\ IsInjective(Tail(q))
        /\ h \notin Range(Tail(q))
    BY <2>1, TailRange
  <2> HIDE DEF h
  <2>3. h \in Range(q) /\ Range(Tail(q)) = Range(q) \ {h}
    BY <2>2
  <2>4. queue'[s] = Tail(q) /\ queue' \in [SemIds -> Seq(Procs)]
    BY <1>2, <1>3, <2>2 DEF q
  <2>5. \A t \in SemIds \ {s} : value'[t] = value[t] /\ queue'[t] = queue[t]
    BY <1>2, <1>3
  <2>6. h \in Waiters(s) /\ Waiters(s)' = Waiters(s) \ {h}
    BY <2>3, <2>4 DEF Waiters, q
  <2> QED BY <1>1, <1>2, <1>3, <2>2, <2>4, <2>5, <2>6
<1>4. CASE /\ queue[s] = <<>>
           /\ value' = [value EXCEPT ![s] = @ + 1]
           /\ UNCHANGED queue
  BY <1>1, <1>2, <1>4, EmptyRange DEF Waiters
<1> QED BY <1>1, <1>3, <1>4

-----------------------------------------------------------------------------
(***************************************************************************)
(* What the steps have in common.                                          *)
(***************************************************************************)

\* One child moves, and it is in no queue.
LEMMA GoesEffect ==
  ASSUME ClientInv, NEW p \in Procs, NEW from, NEW to \in Points, Goes(p, from, to)
  PROVE  /\ pc[p] = from
         /\ \A s \in SemIds : p \notin Waiters(s)
         /\ pc' \in [Procs -> Points]
         /\ pc'[p] = to
         /\ \A q \in Procs \ {p} : pc'[q] = pc[q]
  BY InsideIs DEF Goes, ClientInv, ClientTypes

\* A child that goes on without closing keeps its handles.
LEMMA HandlesStay ==
  ASSUME ClientInv, NEW p \in Procs, NEW from, NEW to \in Points, Goes(p, from, to),
         from \notin {"close", "exit"}, UNCHANGED <<exists, handle>>
  PROVE  HandlesOpen'
<1>1. exists' = exists /\ handle' = handle
  OBVIOUS
<1>2. \A q \in Procs : pc'[q] \notin {"close", "exit"} => pc[q] \notin {"close", "exit"}
  BY GoesEffect
<1> QED BY <1>1, <1>2 DEF ClientInv, HandlesOpen

\* A queue that nobody enters holds those that are still behind their wait.
LEMMA QueuesStay ==
  ASSUME ClientInv, NEW p \in Procs, NEW from, NEW to \in Points, Goes(p, from, to),
         \A s \in SemIds : IsInjective(queue'[s]) /\ Waiters(s)' \subseteq Waiters(s)
  PROVE  QueuedFor'
<1> SUFFICES ASSUME NEW s \in SemIds, NEW q \in Waiters(s)'
             PROVE  \/ s = Takes(q) /\ pc'[q] = "guard"
                    \/ s = Guards(q) /\ pc'[q] = "access"
  BY DEF QueuedFor
<1>1. q \in Waiters(s) /\ q \in Procs
  BY RangeOf DEF ClientInv, ClientTypes, Waiters
<1>2. q # p /\ pc'[q] = pc[q]
  BY <1>1, GoesEffect
<1> QED BY <1>1, <1>2 DEF ClientInv, QueuedFor

\* The buffer does not change where no child accesses it or moves an index.
LEMMA BufferStays ==
  ASSUME ClientInv, NEW p \in Procs, NEW from, NEW to \in Points, Goes(p, from, to),
         from # "advance", to # "advance", UNCHANGED sharedVars
  PROVE  /\ Filled' = Filled
         /\ BufferHolds'
         /\ InOrder'
<1>1. ReaderAdvances' = ReaderAdvances
  BY GoesEffect DEF ReaderAdvances
<1>2. UNCHANGED <<buffer, write_index, read_index, var, taken>>
  BY DEF sharedVars
<1>3. ReadCount' = ReadCount /\ Filled' = Filled
  BY <1>1, <1>2 DEF ReadCount, Filled
<1>4. \A q \in Procs : Writes(q) /\ pc'[q] = "advance" => pc[q] = "advance"
  BY GoesEffect
<1>5. BufferHolds'
  BY <1>2, <1>3, <1>4 DEF ClientInv, BufferHolds
<1>6. InOrder'
  BY <1>2 DEF ClientInv, InOrder
<1> QED BY <1>3, <1>5, <1>6

\* The children that hold a cell can be counted.
LEMMA HandsFinite ==
  /\ IsFiniteSet(FilledHands) /\ Cardinality(FilledHands) \in Nat
  /\ IsFiniteSet(FreeHands) /\ Cardinality(FreeHands) \in Nat
<1>1. FilledHands \subseteq Procs /\ FreeHands \subseteq Procs
  BY DEF FilledHands, FreeHands, Holders
<1> QED BY <1>1, FS_Subset, FS_CardinalityType, ProducerConsumerAssumption

\* Which children have a filled cell, and which a free one.
LEMMA HandsAre ==
  /\ \A q \in Procs :
       /\ q \in FilledHands <=> /\ q \in Holders
                                /\ IF Writes(q) THEN pc[q] \in {"release", "give"}
                                   ELSE pc[q] \in {"guard", "access", "advance"}
       /\ q \in FreeHands <=> /\ q \in Holders
                              /\ IF Writes(q) THEN pc[q] \in {"guard", "access", "advance"}
                                 ELSE pc[q] \in {"release", "give"}
       /\ q \in FilledHands' <=> /\ q \in Holders'
                                 /\ IF Writes(q) THEN pc'[q] \in {"release", "give"}
                                    ELSE pc'[q] \in {"guard", "access", "advance"}
       /\ q \in FreeHands' <=> /\ q \in Holders'
                               /\ IF Writes(q) THEN pc'[q] \in {"guard", "access", "advance"}
                                  ELSE pc'[q] \in {"release", "give"}
  /\ FilledHands \subseteq Procs /\ FreeHands \subseteq Procs
  /\ FilledHands' \subseteq Procs /\ FreeHands' \subseteq Procs
  BY DEF FilledHands, FreeHands, Holders

\* The counts, as long as a child works.
LEMMA CellsNow ==
  ASSUME ClientInv, NEW p \in Procs, pc[p] \notin {"close", "exit"}
  PROVE  /\ value[EMPTY] \in Nat /\ value[FULL] \in Nat
         /\ Filled \in Int
         /\ BUFFER_LENGTH \in Nat \ {0}
         /\ value[EMPTY] + Cardinality(FilledHands) = Filled
         /\ value[FULL] + Cardinality(FreeHands) = BUFFER_LENGTH - Filled
<1>1. EMPTY \in SemIds /\ FULL \in SemIds
  BY ProducerConsumerAssumption
<1>2. value[EMPTY] \in Nat /\ value[FULL] \in Nat
  BY <1>1 DEF ClientInv, ClientTypes
<1>3. Filled \in Int /\ BUFFER_LENGTH \in Nat \ {0}
  BY ProducerConsumerAssumption DEF ClientInv, BufferHolds
<1>4. {EMPTY, FULL} \subseteq exists
  BY <1>1, StandingChild
<1> QED BY <1>2, <1>3, <1>4 DEF ClientInv, CellsCounted

-----------------------------------------------------------------------------
(***************************************************************************)
(* The wait for a unit.                                                    *)
(***************************************************************************)

\* A child takes a unit and holds its cell, or waits and holds none.
LEMMA TakeHands ==
  ASSUME ClientInv, NEW p \in Procs, Take(p)
  PROVE  \/ /\ value[Takes(p)] > 0
            /\ value'[Takes(p)] = value[Takes(p)] - 1
            /\ p \notin Holders
            /\ FilledHands' = IF Writes(p) THEN FilledHands ELSE FilledHands \union {p}
            /\ FreeHands' = IF Writes(p) THEN FreeHands \union {p} ELSE FreeHands
         \/ /\ value'[Takes(p)] = value[Takes(p)]
            /\ FilledHands' = FilledHands
            /\ FreeHands' = FreeHands
<1>1. Goes(p, "take", "guard") /\ "guard" \in Points /\ Wait(<<p, Takes(p)>>)
  BY DEF Take, Points
<1>2. /\ pc[p] = "take" /\ pc'[p] = "guard"
      /\ p \notin Waiters(Takes(p))
      /\ \A q \in Procs \ {p} : pc'[q] = pc[q]
  BY <1>1, GoesEffect, SemaphoresOf
<1>3. \A t \in SemIds \ {Takes(p)} : Waiters(t)' = Waiters(t)
  BY <1>1, <1>2, WaitEffect, SemaphoresOf DEF Waiters
<1>4. \/ /\ value[Takes(p)] > 0
         /\ value'[Takes(p)] = value[Takes(p)] - 1
         /\ Waiters(Takes(p))' = Waiters(Takes(p))
      \/ /\ value'[Takes(p)] = value[Takes(p)]
         /\ Waiters(Takes(p))' = Waiters(Takes(p)) \union {p}
  BY <1>1, <1>2, WaitEffect, SemaphoresOf DEF Waiters
<1>5. \A q \in Procs \ {p} : Takes(q) \in SemIds /\ (q \in Waiters(Takes(q))' <=> q \in Waiters(Takes(q)))
  BY <1>3, <1>4, SemaphoresOf
<1>6. \A q \in Procs \ {p} : q \in Holders' <=> q \in Holders
  BY <1>2, <1>5, HoldersAre
<1>7. p \notin Holders /\ (p \in Holders' <=> p \notin Waiters(Takes(p))')
  BY <1>2, HoldersAre
<1>8. /\ \A q \in Procs \ {p} : /\ q \in FilledHands' <=> q \in FilledHands
                                /\ q \in FreeHands' <=> q \in FreeHands
      /\ p \notin FilledHands /\ p \notin FreeHands
      /\ p \in FilledHands' <=> p \in Holders' /\ ~Writes(p)
      /\ p \in FreeHands' <=> p \in Holders' /\ Writes(p)
  BY <1>2, <1>6, <1>7, HandsAre
<1>9. CASE Waiters(Takes(p))' = Waiters(Takes(p)) \union {p}
  BY <1>2, <1>4, <1>7, <1>8, <1>9, HandsAre
<1>10. CASE Waiters(Takes(p))' = Waiters(Takes(p))
  <2>1. p \in Holders' /\ value[Takes(p)] > 0 /\ value'[Takes(p)] = value[Takes(p)] - 1
    BY <1>2, <1>4, <1>7, <1>10
  <2>2. FilledHands' = IF Writes(p) THEN FilledHands ELSE FilledHands \union {p}
    BY <1>8, <2>1, HandsAre
  <2>3. FreeHands' = IF Writes(p) THEN FreeHands \union {p} ELSE FreeHands
    BY <1>8, <2>1, HandsAre
  <2> QED BY <1>7, <2>1, <2>2, <2>3
<1> QED BY <1>4, <1>9, <1>10

\* The wait for a unit preserves the invariant.
LEMMA TakeStep ==
  ASSUME ClientInv, NEW p \in Procs, Take(p)
  PROVE  ClientInv'
<1>1. /\ Goes(p, "take", "guard") /\ "guard" \in Points /\ Wait(<<p, Takes(p)>>)
      /\ UNCHANGED <<buffer, write_index, read_index, var, taken, i>> /\ UNCHANGED sharedVars
  BY DEF Take, Points, sharedVars
<1>2. /\ pc[p] = "take" /\ pc'[p] = "guard"
      /\ \A s \in SemIds : p \notin Waiters(s)
      /\ pc' \in [Procs -> Points]
      /\ \A q \in Procs \ {p} : pc'[q] = pc[q]
  BY <1>1, GoesEffect
<1>3. /\ UNCHANGED <<exists, handle>>
      /\ value' \in [SemIds -> Nat]
      /\ queue' \in [SemIds -> Seq(Procs)]
      /\ \A t \in SemIds \ {Takes(p)} : value'[t] = value[t] /\ queue'[t] = queue[t]
      /\ IsInjective(queue'[Takes(p)])
      /\ Waiters(Takes(p))' \subseteq Waiters(Takes(p)) \union {p}
  BY <1>1, <1>2, WaitEffect, SemaphoresOf DEF Waiters
<1>4. ClientTypes'
  BY <1>1, <1>2, <1>3 DEF ClientInv, ClientTypes
<1>5. HandlesOpen'
  BY <1>1, <1>3, HandlesStay
<1>6. QueuedFor'
  <2> SUFFICES ASSUME NEW s \in SemIds
               PROVE  /\ IsInjective(queue'[s])
                      /\ \A q \in Waiters(s)' : \/ s = Takes(q) /\ pc'[q] = "guard"
                                                \/ s = Guards(q) /\ pc'[q] = "access"
    BY DEF QueuedFor
  <2>1. IsInjective(queue'[s])
    BY <1>3 DEF ClientInv, QueuedFor
  <2>2. ASSUME NEW q \in Waiters(s)', q # p
        PROVE  \/ s = Takes(q) /\ pc'[q] = "guard"
               \/ s = Guards(q) /\ pc'[q] = "access"
    <3>1. q \in Waiters(s)
      BY <1>3, <2>2 DEF Waiters
    <3>2. q \in Procs
      BY <3>1, RangeOf DEF ClientInv, ClientTypes, Waiters
    <3> QED BY <1>2, <2>2, <3>1, <3>2 DEF ClientInv, QueuedFor
  <2>3. ASSUME p \in Waiters(s)' PROVE s = Takes(p) /\ pc'[p] = "guard"
    BY <1>2, <1>3, <2>3 DEF Waiters
  <2> QED BY <2>1, <2>2, <2>3
<1>7. \A q \in Procs : /\ Inside(q)' <=> Inside(q)
                       /\ Guards(q) \in SemIds /\ value'[Guards(q)] = value[Guards(q)]
  <2> TAKE q \in Procs
  <2>1. /\ Guards(q) \in SemIds
        /\ value'[Guards(q)] = value[Guards(q)]
        /\ Waiters(Guards(q))' = Waiters(Guards(q))
    BY <1>3, SemaphoresOf DEF Waiters
  <2> QED BY <1>2, <1>6, <2>1, InsideIs, InsideIsNext DEF ClientInv
<1>8. GuardsBusy'
  <2>1. value'[READ] = value[READ] /\ value'[WRITE] = value[WRITE]
    <3>1. READ \in SemIds \ {EMPTY, FULL} /\ WRITE \in SemIds \ {EMPTY, FULL}
      BY ProducerConsumerAssumption DEF EMPTY, FULL, READ, WRITE
    <3> QED BY <1>3, <3>1, SemaphoresOf
  <2> QED BY <1>7, <2>1 DEF ClientInv, GuardsBusy
<1>9. Filled' = Filled /\ BufferHolds' /\ InOrder'
  BY <1>1, BufferStays
<1>10. CellsCounted'
  <2>1. /\ value'[EMPTY] + Cardinality(FilledHands)' = Filled
        /\ value'[FULL] + Cardinality(FreeHands)' = BUFFER_LENGTH - Filled
    <3>1. EMPTY \in SemIds /\ FULL \in SemIds /\ EMPTY # FULL
      BY ProducerConsumerAssumption DEF EMPTY, FULL
    <3>2. Takes(p) = IF Writes(p) THEN FULL ELSE EMPTY
      BY DEF Takes
    <3>3. /\ p \notin Holders => p \notin FilledHands /\ p \notin FreeHands
          /\ Cardinality(FilledHands \union {p}) =
               IF p \in FilledHands THEN Cardinality(FilledHands) ELSE Cardinality(FilledHands) + 1
          /\ Cardinality(FreeHands \union {p}) =
               IF p \in FreeHands THEN Cardinality(FreeHands) ELSE Cardinality(FreeHands) + 1
          /\ Cardinality(FilledHands) \in Nat /\ Cardinality(FreeHands) \in Nat
      BY HandsFinite, HandsAre, FS_AddElement
    <3>4. CASE Writes(p)
      <4>1. value'[EMPTY] = value[EMPTY]
        BY <1>3, <3>1, <3>2, <3>4
      <4>2. FilledHands' = FilledHands
        BY <3>4, TakeHands
      <4>3. \/ /\ value'[FULL] = value[FULL] - 1
               /\ Cardinality(FreeHands)' = Cardinality(FreeHands) + 1
            \/ /\ value'[FULL] = value[FULL]
               /\ Cardinality(FreeHands)' = Cardinality(FreeHands)
        BY <3>2, <3>3, <3>4, TakeHands
      <4> QED BY <1>2, <3>3, <4>1, <4>2, <4>3, CellsNow
    <3>5. CASE ~Writes(p)
      <4>1. value'[FULL] = value[FULL]
        BY <1>3, <3>1, <3>2, <3>5
      <4>2. FreeHands' = FreeHands
        BY <3>5, TakeHands
      <4>3. \/ /\ value'[EMPTY] = value[EMPTY] - 1
               /\ Cardinality(FilledHands)' = Cardinality(FilledHands) + 1
            \/ /\ value'[EMPTY] = value[EMPTY]
               /\ Cardinality(FilledHands)' = Cardinality(FilledHands)
        BY <3>2, <3>3, <3>5, TakeHands
      <4> QED BY <1>2, <3>3, <4>1, <4>2, <4>3, CellsNow
    <3> QED BY <3>4, <3>5
  <2> QED BY <1>9, <2>1 DEF CellsCounted
<1> QED BY <1>4, <1>5, <1>6, <1>8, <1>9, <1>10 DEF ClientInv

-----------------------------------------------------------------------------
(***************************************************************************)
(* The wait and the post on the guard.                                     *)
(***************************************************************************)

\* A step between two points where a child holds the same kind of cell, and at
\* which nobody's wait for a unit ends or begins, leaves the cells where they are.
LEMMA CellsStay ==
  ASSUME ClientInv, NEW p \in Procs, NEW from, NEW to \in Points, Goes(p, from, to),
         \/ {from, to} \subseteq {"guard", "access", "advance"}
         \/ {from, to} \subseteq {"release", "give"},
         \A q \in Procs : Waiters(Takes(q))' = Waiters(Takes(q)),
         \A s \in {EMPTY, FULL} : value'[s] = value[s],
         UNCHANGED exists, Filled' = Filled
  PROVE  CellsCounted'
<1>1. /\ pc[p] = from /\ pc'[p] = to
      /\ \A q \in Procs \ {p} : pc'[q] = pc[q]
      /\ p \notin Waiters(Takes(p))
  BY GoesEffect, SemaphoresOf
<1>2. \A q \in Procs : q \in Holders' <=> q \in Holders
  BY <1>1, HoldersAre
<1>3. \A q \in Procs : /\ q \in FilledHands' <=> q \in FilledHands
                       /\ q \in FreeHands' <=> q \in FreeHands
  BY <1>1, <1>2, HandsAre
<1>4. FilledHands' = FilledHands /\ FreeHands' = FreeHands
  BY <1>3, HandsAre
<1> QED BY <1>4 DEF ClientInv, CellsCounted

\* A guard that is free has nobody inside, and whoever waits for one waits at
\* the access.
LEMMA GuardFacts ==
  ASSUME ClientInv, NEW p \in Procs
  PROVE  /\ value[Guards(p)] \in {0, 1}
         /\ \A h \in Waiters(Guards(p)) : /\ h \in Procs
                                          /\ Guards(h) = Guards(p)
                                          /\ pc[h] = "access"
<1>1. Guards(p) \in {READ, WRITE} /\ Guards(p) \in SemIds
  BY SemaphoresOf
<1>2. value[Guards(p)] \in {0, 1}
  BY <1>1 DEF ClientInv, ClientTypes, GuardsBusy
<1>3. ASSUME NEW h \in Waiters(Guards(p))
      PROVE  h \in Procs /\ Guards(h) = Guards(p) /\ pc[h] = "access"
  <2>1. h \in Procs
    BY <1>1, RangeOf DEF ClientInv, ClientTypes, Waiters
  <2> QED BY <1>1, <1>3, <2>1, SemaphoresOf DEF ClientInv, QueuedFor
<1> QED BY <1>2, <1>3

\* The wait on the guard preserves the invariant.
LEMMA GuardStep ==
  ASSUME ClientInv, NEW p \in Procs, Guard(p)
  PROVE  ClientInv'
<1>1. /\ Goes(p, "guard", "access") /\ "access" \in Points /\ Wait(<<p, Guards(p)>>)
      /\ UNCHANGED <<buffer, write_index, read_index, var, taken, i>> /\ UNCHANGED sharedVars
  BY DEF Guard, Points, sharedVars
<1>2. /\ pc[p] = "guard" /\ pc'[p] = "access"
      /\ \A s \in SemIds : p \notin Waiters(s)
      /\ pc' \in [Procs -> Points]
      /\ \A q \in Procs \ {p} : pc'[q] = pc[q]
  BY <1>1, GoesEffect
<1>3. /\ UNCHANGED <<exists, handle>>
      /\ value' \in [SemIds -> Nat]
      /\ queue' \in [SemIds -> Seq(Procs)]
      /\ \A t \in SemIds \ {Guards(p)} : value'[t] = value[t] /\ queue'[t] = queue[t]
      /\ IsInjective(queue'[Guards(p)])
      /\ \/ /\ value[Guards(p)] > 0
            /\ value'[Guards(p)] = value[Guards(p)] - 1
            /\ Waiters(Guards(p))' = Waiters(Guards(p))
         \/ /\ value[Guards(p)] = 0
            /\ value'[Guards(p)] = 0
            /\ Waiters(Guards(p))' = Waiters(Guards(p)) \union {p}
  BY <1>1, <1>2, WaitEffect, SemaphoresOf DEF Waiters
<1>4. ClientTypes'
  BY <1>1, <1>2, <1>3 DEF ClientInv, ClientTypes
<1>5. HandlesOpen'
  BY <1>1, <1>3, HandlesStay
<1>6. QueuedFor'
  <2> SUFFICES ASSUME NEW s \in SemIds
               PROVE  /\ IsInjective(queue'[s])
                      /\ \A q \in Waiters(s)' : \/ s = Takes(q) /\ pc'[q] = "guard"
                                                \/ s = Guards(q) /\ pc'[q] = "access"
    BY DEF QueuedFor
  <2>1. IsInjective(queue'[s])
    BY <1>3 DEF ClientInv, QueuedFor
  <2>2. ASSUME NEW q \in Waiters(s)', q # p
        PROVE  \/ s = Takes(q) /\ pc'[q] = "guard"
               \/ s = Guards(q) /\ pc'[q] = "access"
    <3>1. q \in Waiters(s)
      BY <1>3, <2>2 DEF Waiters
    <3>2. q \in Procs
      BY <3>1, RangeOf DEF ClientInv, ClientTypes, Waiters
    <3> QED BY <1>2, <2>2, <3>1, <3>2 DEF ClientInv, QueuedFor
  <2>3. ASSUME p \in Waiters(s)' PROVE s = Guards(p) /\ pc'[p] = "access"
    BY <1>2, <1>3, <2>3 DEF Waiters
  <2> QED BY <2>1, <2>2, <2>3
<1>7. \A q \in Procs \ {p} :
        /\ Inside(q)' <=> Inside(q)
        /\ Guards(q) # Guards(p) => value'[Guards(q)] = value[Guards(q)]
  <2> TAKE q \in Procs \ {p}
  <2>1. /\ Guards(q) \in SemIds
        /\ Guards(q) # Guards(p) => /\ value'[Guards(q)] = value[Guards(q)]
                                    /\ Waiters(Guards(q))' = Waiters(Guards(q))
    BY <1>3, SemaphoresOf DEF Waiters
  <2>2. q \in Waiters(Guards(q))' <=> q \in Waiters(Guards(q))
    BY <1>3, <2>1
  <2> QED BY <1>2, <1>6, <2>1, <2>2, InsideIs, InsideIsNext DEF ClientInv
<1>8. /\ Inside(p)' => p \notin Waiters(Guards(p))'
      /\ ~Inside(p)
  BY <1>2, <1>6, InsideIsNext DEF Inside
<1>9. GuardsBusy'
  <2>1. value'[READ] <= 1 /\ value'[WRITE] <= 1
    <3>1. \A s \in {READ, WRITE} : s \in SemIds /\ value[s] \in Nat /\ value[s] <= 1
      BY ProducerConsumerAssumption DEF ClientInv, ClientTypes, GuardsBusy
    <3>2. value'[Guards(p)] <= 1
      BY <1>3, GuardFacts
    <3>3. \A s \in {READ, WRITE} : value'[s] <= 1
      BY <1>3, <3>1, <3>2
    <3> QED BY <3>3
  <2>2. value'[Guards(p)] = 0
    BY <1>3, GuardFacts
  <2>3. ASSUME NEW q \in Procs, Inside(q)'
        PROVE  /\ value'[Guards(q)] = 0
               /\ \A r \in Procs : Inside(r)' /\ Guards(r) = Guards(q) => r = q
    <3>1. \A r \in Procs : Inside(r) =>
             /\ value[Guards(r)] = 0
             /\ \A o \in Procs : Inside(o) /\ Guards(o) = Guards(r) => o = r
      BY DEF ClientInv, GuardsBusy
    <3>2. Inside(p)' => value[Guards(p)] > 0
      BY <1>3, <1>8
    <3>3. CASE q = p
      BY <1>7, <2>2, <2>3, <3>1, <3>2, <3>3, GuardFacts
    <3>4. CASE q # p
      BY <1>7, <2>2, <2>3, <3>1, <3>2, <3>4, GuardFacts
    <3> QED BY <3>3, <3>4
  <2> QED BY <2>1, <2>3 DEF GuardsBusy
<1>10. Filled' = Filled /\ BufferHolds' /\ InOrder'
  BY <1>1, BufferStays
<1>11. CellsCounted'
  <2>1. \A s \in {EMPTY, FULL} : s \in SemIds \ {Guards(p)}
    BY SemaphoresOf, ProducerConsumerAssumption DEF EMPTY, FULL, READ, WRITE
  <2>2. \A q \in Procs : Takes(q) \in SemIds \ {Guards(p)}
    BY SemaphoresOf
  <2>3. \A s \in {EMPTY, FULL} : value'[s] = value[s]
    BY <1>3, <2>1
  <2>4. \A q \in Procs : Waiters(Takes(q))' = Waiters(Takes(q))
    BY <1>3, <2>2 DEF Waiters
  <2> QED BY <1>1, <1>3, <1>10, <2>3, <2>4, CellsStay
<1> QED BY <1>4, <1>5, <1>6, <1>9, <1>10, <1>11 DEF ClientInv

\* The post on the guard preserves the invariant.
LEMMA ReleaseStep ==
  ASSUME ClientInv, NEW p \in Procs, Release(p)
  PROVE  ClientInv'
<1>1. /\ Goes(p, "release", "give") /\ "give" \in Points /\ Post(<<p, Guards(p)>>)
      /\ UNCHANGED <<buffer, write_index, read_index, var, taken, i>> /\ UNCHANGED sharedVars
  BY DEF Release, Points, sharedVars
<1>2. /\ pc[p] = "release" /\ pc'[p] = "give"
      /\ \A s \in SemIds : p \notin Waiters(s)
      /\ pc' \in [Procs -> Points]
      /\ \A q \in Procs \ {p} : pc'[q] = pc[q]
  BY <1>1, GoesEffect
<1>3. /\ UNCHANGED <<exists, handle>>
      /\ value' \in [SemIds -> Nat]
      /\ queue' \in [SemIds -> Seq(Procs)]
      /\ \A t \in SemIds \ {Guards(p)} : value'[t] = value[t] /\ queue'[t] = queue[t]
      /\ IsInjective(queue'[Guards(p)])
      /\ \/ /\ value'[Guards(p)] = value[Guards(p)]
            /\ \E h \in Procs : /\ h \in Waiters(Guards(p))
                                /\ Waiters(Guards(p))' = Waiters(Guards(p)) \ {h}
         \/ /\ Waiters(Guards(p)) = {}
            /\ value'[Guards(p)] = value[Guards(p)] + 1
            /\ Waiters(Guards(p))' = Waiters(Guards(p))
  BY <1>1, <1>2, PostEffect, SemaphoresOf DEF Waiters
<1>4. ClientTypes'
  BY <1>1, <1>2, <1>3 DEF ClientInv, ClientTypes
<1>5. HandlesOpen'
  BY <1>1, <1>3, HandlesStay
<1>6. QueuedFor'
  <2>1. \A s \in SemIds : IsInjective(queue'[s]) /\ Waiters(s)' \subseteq Waiters(s)
    BY <1>3 DEF ClientInv, QueuedFor, Waiters
  <2> QED BY <1>1, <2>1, QueuesStay
<1>7. /\ Inside(p) /\ ~Inside(p)'
      /\ value[Guards(p)] = 0
      /\ \A q \in Procs : Inside(q) /\ Guards(q) = Guards(p) => q = p
  <2>1. Inside(p)
    BY <1>2, InsideIs, SemaphoresOf DEF ClientInv
  <2>2. ~Inside(p)'
    BY <1>2 DEF Inside
  <2> QED BY <2>1, <2>2 DEF ClientInv, GuardsBusy
<1>8. \A q \in Procs : Guards(q) # Guards(p) =>
        /\ Inside(q)' <=> Inside(q)
        /\ value'[Guards(q)] = value[Guards(q)]
  <2> TAKE q \in Procs
  <2> HAVE Guards(q) # Guards(p)
  <2>1. /\ Guards(q) \in SemIds
        /\ value'[Guards(q)] = value[Guards(q)]
        /\ Waiters(Guards(q))' = Waiters(Guards(q))
    BY <1>3, SemaphoresOf DEF Waiters
  <2> QED BY <1>2, <1>6, <2>1, InsideIs, InsideIsNext DEF ClientInv
<1>9. \A q \in Procs : Inside(q)' /\ Guards(q) = Guards(p) =>
        /\ q \in Waiters(Guards(p)) /\ q \notin Waiters(Guards(p))'
  <2> TAKE q \in Procs
  <2> HAVE Inside(q)' /\ Guards(q) = Guards(p)
  <2>1. q # p /\ ~Inside(q)
    BY <1>7
  <2>2. /\ pc[q] \in {"access", "advance", "release"}
        /\ q \notin Waiters(Guards(q))'
    BY <1>2, <1>6, <2>1, InsideIsNext
  <2> QED BY <2>1, <2>2, InsideIs DEF ClientInv
<1>10. GuardsBusy'
  <2>1. value'[READ] <= 1 /\ value'[WRITE] <= 1
    <3>1. \A s \in {READ, WRITE} : s \in SemIds /\ value[s] \in Nat /\ value[s] <= 1
      BY ProducerConsumerAssumption DEF ClientInv, ClientTypes, GuardsBusy
    <3>2. \A s \in {READ, WRITE} : value'[s] <= 1
      BY <1>3, <1>7, <3>1
    <3> QED BY <3>2
  <2>2. ASSUME NEW q \in Procs, Inside(q)', Guards(q) = Guards(p)
        PROVE  /\ value'[Guards(q)] = 0
               /\ \A r \in Procs : Inside(r)' /\ Guards(r) = Guards(q) => r = q
    BY <1>3, <1>7, <1>9, <2>2
  <2>3. ASSUME NEW q \in Procs, Inside(q)', Guards(q) # Guards(p)
        PROVE  /\ value'[Guards(q)] = 0
               /\ \A r \in Procs : Inside(r)' /\ Guards(r) = Guards(q) => r = q
    BY <1>8, <2>3 DEF ClientInv, GuardsBusy
  <2> QED BY <2>1, <2>2, <2>3 DEF GuardsBusy
<1>11. Filled' = Filled /\ BufferHolds' /\ InOrder'
  BY <1>1, BufferStays
<1>12. CellsCounted'
  <2>1. \A s \in {EMPTY, FULL} : s \in SemIds \ {Guards(p)}
    BY SemaphoresOf, ProducerConsumerAssumption DEF EMPTY, FULL, READ, WRITE
  <2>2. \A q \in Procs : Takes(q) \in SemIds \ {Guards(p)}
    BY SemaphoresOf
  <2>3. \A s \in {EMPTY, FULL} : value'[s] = value[s]
    BY <1>3, <2>1
  <2>4. \A q \in Procs : Waiters(Takes(q))' = Waiters(Takes(q))
    BY <1>3, <2>2 DEF Waiters
  <2> QED BY <1>1, <1>3, <1>11, <2>3, <2>4, CellsStay
<1> QED BY <1>4, <1>5, <1>6, <1>10, <1>11, <1>12 DEF ClientInv

-----------------------------------------------------------------------------
(***************************************************************************)
(* The access to the buffer and the move of the index.                     *)
(***************************************************************************)

\* Between the wait and the post on the guard a child is alone with its index:
\* no other one of its kind is before the move of the index.
LEMMA AloneInside ==
  ASSUME ClientInv, NEW p \in Procs, pc[p] \in {"access", "advance"}, ~Queued(p)
  PROVE  \A q \in Procs : pc[q] = "advance" /\ (Writes(q) <=> Writes(p)) => q = p
<1> SUFFICES ASSUME NEW q \in Procs, pc[q] = "advance", Writes(q) <=> Writes(p)
             PROVE  q = p
  OBVIOUS
<1>1. Inside(p)
  BY DEF Inside
<1>2. Guards(q) = Guards(p) /\ Guards(q) \in SemIds /\ Guards(q) # Takes(q)
  BY SemaphoresOf
<1>3. q \notin Waiters(Guards(q))
  BY <1>2 DEF ClientInv, QueuedFor
<1>4. Inside(q)
  BY <1>3, InsideIs DEF ClientInv
<1> QED BY <1>1, <1>2, <1>4 DEF ClientInv, GuardsBusy

\* A child that stands at the buffer holds a cell of its kind: there is a filled
\* one for a reader and a free one for a writer.
LEMMA CellInHand ==
  ASSUME ClientInv, NEW p \in Procs, pc[p] \in {"access", "advance"}, ~Queued(p)
  PROVE  /\ Filled \in 0..BUFFER_LENGTH
         /\ p \in Holders
         /\ Writes(p) => p \in FreeHands /\ Filled < BUFFER_LENGTH
         /\ ~Writes(p) => p \in FilledHands /\ Filled > 0
<1>1. p \in Holders
  BY InsideIs, HoldersAre, SemaphoresOf
<1>2. /\ Writes(p) => p \in FreeHands
      /\ ~Writes(p) => p \in FilledHands
  BY <1>1, HandsAre
<1>3. /\ p \in FreeHands => Cardinality(FreeHands) # 0
      /\ p \in FilledHands => Cardinality(FilledHands) # 0
  BY HandsFinite, FS_EmptySet
<1>4. Filled \in 0..BUFFER_LENGTH
  BY DEF ClientInv, BufferHolds
<1> QED BY <1>1, <1>2, <1>3, <1>4, HandsFinite, CellsNow

\* The steps inside the critical section leave the semaphores alone, and
\* everyone inside who is inside.
LEMMA InsideSteps ==
  ASSUME ClientInv, NEW p \in Procs, NEW from, NEW to \in Points, Goes(p, from, to),
         {from, to} \subseteq {"access", "advance", "release"},
         UNCHANGED absVars
  PROVE  HandlesOpen' /\ QueuedFor' /\ GuardsBusy'
<1>1. UNCHANGED <<exists, value, queue, handle>>
  BY DEF absVars
<1>2. /\ pc[p] = from /\ pc'[p] = to
      /\ \A s \in SemIds : p \notin Waiters(s)
      /\ \A q \in Procs \ {p} : pc'[q] = pc[q]
  BY GoesEffect
<1>3. HandlesOpen'
  BY <1>1, HandlesStay
<1>4. QueuedFor'
  <2>1. \A s \in SemIds : IsInjective(queue'[s]) /\ Waiters(s)' \subseteq Waiters(s)
    BY <1>1 DEF ClientInv, QueuedFor, Waiters
  <2> QED BY <2>1, QueuesStay
<1>5. \A q \in Procs : Inside(q)' <=> Inside(q)
  <2> TAKE q \in Procs
  <2>1. Waiters(Guards(q))' = Waiters(Guards(q))
    BY <1>1 DEF Waiters
  <2> QED BY <1>2, <1>4, <2>1, InsideIs, InsideIsNext, SemaphoresOf DEF ClientInv
<1>6. GuardsBusy'
  BY <1>1, <1>5 DEF ClientInv, GuardsBusy
<1> QED BY <1>3, <1>4, <1>6

\* The access to the buffer preserves the invariant.
LEMMA AccessStep ==
  ASSUME ClientInv, NEW p \in Procs, Access(p)
  PROVE  ClientInv'
<1>1. /\ Goes(p, "access", "advance") /\ "advance" \in Points /\ ~Queued(p)
      /\ UNCHANGED absVars
      /\ UNCHANGED <<exists, value, queue, handle, write_index, read_index, var, i>>
      /\ \/ /\ Writes(p)
            /\ buffer' = [buffer EXCEPT ![write_index] = var]
            /\ UNCHANGED taken
         \/ /\ ~Writes(p)
            /\ taken' = Append(taken, buffer[read_index])
            /\ UNCHANGED buffer
  BY DEF Access, Points, absVars, Goes
<1>2. /\ pc[p] = "access" /\ pc'[p] = "advance"
      /\ pc' \in [Procs -> Points]
      /\ \A q \in Procs \ {p} : pc'[q] = pc[q]
  BY <1>1, GoesEffect
<1>3. /\ buffer \in [0..(BUFFER_LENGTH - 1) -> Nat]
      /\ write_index \in 0..(BUFFER_LENGTH - 1)
      /\ read_index \in 0..(BUFFER_LENGTH - 1)
      /\ var \in Nat \ {0}
      /\ taken \in Seq(Nat)
      /\ Len(taken) \in Nat
  BY LenProperties DEF ClientInv, ClientTypes
<1>4. /\ buffer' \in [0..(BUFFER_LENGTH - 1) -> Nat]
      /\ taken' \in Seq(Nat)
  <2>1. CASE Writes(p)
    BY <1>1, <1>3, <2>1
  <2>2. CASE ~Writes(p)
    <3>1. PICK v \in Nat : v = buffer[read_index]
      BY <1>3
    <3>2. Append(taken, v) \in Seq(Nat)
      BY <1>3, AppendProperties
    <3> QED BY <1>1, <1>3, <2>2, <3>1, <3>2
  <2> QED BY <2>1, <2>2
<1>5. ClientTypes'
  BY <1>1, <1>2, <1>4 DEF ClientInv, ClientTypes
<1>6. HandlesOpen' /\ QueuedFor' /\ GuardsBusy'
  BY <1>1, InsideSteps
<1>7. /\ ReadCount' = ReadCount /\ Filled' = Filled
      /\ ~Writes(p) => Len(taken) = ReadCount
  <2>1. CASE Writes(p)
    <3>1. ReaderAdvances' = ReaderAdvances
      BY <1>2, <2>1 DEF ReaderAdvances
    <3>2. taken' = taken /\ var' = var
      BY <1>1, <2>1
    <3> QED BY <2>1, <3>1, <3>2 DEF ReadCount, Filled
  <2>2. CASE ~Writes(p)
    <3>1. ~ReaderAdvances /\ ReaderAdvances'
      BY <1>1, <1>2, <2>2, AloneInside DEF ReaderAdvances
    <3>2. Len(taken') = Len(taken) + 1 /\ var' = var
      BY <1>1, <1>3, <2>2, AppendProperties
    <3> QED BY <1>3, <3>1, <3>2 DEF ReadCount, Filled
  <2> QED BY <2>1, <2>2
<1>8. CellsCounted'
  <2>1. /\ \A q \in Procs : Waiters(Takes(q))' = Waiters(Takes(q))
        /\ \A s \in {EMPTY, FULL} : value'[s] = value[s]
    BY <1>1 DEF Waiters
  <2> QED BY <1>1, <1>7, <2>1, CellsStay
<1>9. /\ ReadCount \in Nat /\ Filled \in 0..BUFFER_LENGTH
      /\ Filled = (var - 1) - ReadCount
      /\ write_index = (var - 1) % BUFFER_LENGTH
      /\ read_index = ReadCount % BUFFER_LENGTH
      /\ \A k \in (ReadCount + 1)..(var - 1) : buffer[(k - 1) % BUFFER_LENGTH] = k
      /\ \A q \in Procs : Writes(q) /\ pc[q] = "advance" => buffer[write_index] = var
      /\ BUFFER_LENGTH \in Nat \ {0}
  BY ProducerConsumerAssumption DEF ClientInv, BufferHolds, Filled
<1>10. \A k \in (ReadCount + 1)..(var - 1) : buffer'[(k - 1) % BUFFER_LENGTH] = k
  <2> TAKE k \in (ReadCount + 1)..(var - 1)
  <2>1. buffer[(k - 1) % BUFFER_LENGTH] = k
    BY <1>9
  <2>2. CASE Writes(p)
    <3>1. Filled < BUFFER_LENGTH
      BY <1>1, <1>2, <2>2, CellInHand
    <3>2. k - 1 \in Nat /\ var - 1 \in Nat /\ k - 1 < var - 1 /\ var - 1 < k - 1 + BUFFER_LENGTH
      BY <1>3, <1>9, <3>1
    <3>3. /\ (k - 1) % BUFFER_LENGTH # write_index
          /\ (k - 1) % BUFFER_LENGTH \in 0..(BUFFER_LENGTH - 1)
      BY <1>9, <3>2, CellsDiffer, Division
    <3> QED BY <1>1, <1>3, <2>1, <2>2, <3>3
  <2>3. CASE ~Writes(p)
    BY <1>1, <2>1, <2>3
  <2> QED BY <2>2, <2>3
<1>11. \A q \in Procs : Writes(q) /\ pc'[q] = "advance" => buffer'[write_index] = var
  BY <1>1, <1>2, <1>3, <1>9
<1>12. BufferHolds'
  BY <1>1, <1>7, <1>9, <1>10, <1>11 DEF BufferHolds
<1>13. InOrder'
  <2>1. CASE Writes(p)
    BY <1>1, <2>1 DEF ClientInv, InOrder
  <2>2. CASE ~Writes(p)
    <3>1. /\ Len(taken') = Len(taken) + 1
          /\ \A k \in 1..Len(taken) : taken'[k] = taken[k]
          /\ taken'[Len(taken) + 1] = buffer[read_index]
          /\ DOMAIN taken = 1..Len(taken)
          /\ DOMAIN taken' = 1..Len(taken')
      BY <1>1, <1>3, <1>4, <2>2, AppendProperties, LenProperties
    <3>2. Filled > 0
      BY <1>1, <1>2, <2>2, CellInHand
    <3>3. ReadCount + 1 \in (ReadCount + 1)..(var - 1)
      BY <1>3, <1>9, <3>2
    <3>4. buffer[read_index] = ReadCount + 1
      <4>1. buffer[(ReadCount + 1 - 1) % BUFFER_LENGTH] = ReadCount + 1
        BY <1>9, <3>3
      <4>2. ReadCount + 1 - 1 = ReadCount
        BY <1>9
      <4> QED BY <1>9, <4>1, <4>2
    <3>5. Len(taken) = ReadCount
      BY <1>7, <2>2
    <3>6. \A k \in 1..Len(taken) : taken[k] = k
      BY <3>1 DEF ClientInv, InOrder
    <3> QED BY <1>3, <3>1, <3>4, <3>5, <3>6 DEF InOrder
  <2> QED BY <2>1, <2>2
<1> QED BY <1>5, <1>6, <1>8, <1>12, <1>13 DEF ClientInv

\* The move of the index preserves the invariant.
LEMMA AdvanceStep ==
  ASSUME ClientInv, NEW p \in Procs, Advance(p)
  PROVE  ClientInv'
<1>1. /\ Goes(p, "advance", "release") /\ "release" \in Points /\ ~Queued(p)
      /\ UNCHANGED absVars
      /\ UNCHANGED <<exists, value, queue, handle, buffer, taken, i>>
      /\ \/ /\ Writes(p)
            /\ write_index' = (write_index + 1) % BUFFER_LENGTH
            /\ var' = var + 1
            /\ UNCHANGED read_index
         \/ /\ ~Writes(p)
            /\ read_index' = (read_index + 1) % BUFFER_LENGTH
            /\ UNCHANGED <<write_index, var>>
  BY DEF Advance, Points, absVars, Goes
<1>2. /\ pc[p] = "advance" /\ pc'[p] = "release"
      /\ pc' \in [Procs -> Points]
      /\ \A s \in SemIds : p \notin Waiters(s)
      /\ \A q \in Procs \ {p} : pc'[q] = pc[q]
  BY <1>1, GoesEffect
<1>3. /\ write_index \in 0..(BUFFER_LENGTH - 1)
      /\ read_index \in 0..(BUFFER_LENGTH - 1)
      /\ var \in Nat \ {0}
      /\ taken \in Seq(Nat)
      /\ Len(taken) \in Nat
      /\ BUFFER_LENGTH \in Nat \ {0}
  BY LenProperties, ProducerConsumerAssumption DEF ClientInv, ClientTypes
<1>4. /\ write_index' \in 0..(BUFFER_LENGTH - 1)
      /\ read_index' \in 0..(BUFFER_LENGTH - 1)
      /\ var' \in Nat \ {0}
  <2>1. /\ (write_index + 1) % BUFFER_LENGTH \in 0..(BUFFER_LENGTH - 1)
        /\ (read_index + 1) % BUFFER_LENGTH \in 0..(BUFFER_LENGTH - 1)
    BY <1>3, Division
  <2> QED BY <1>1, <1>3, <2>1
<1>5. ClientTypes'
  BY <1>1, <1>2, <1>4 DEF ClientInv, ClientTypes
<1>6. HandlesOpen' /\ QueuedFor' /\ GuardsBusy'
  BY <1>1, InsideSteps
<1>7. /\ ReadCount \in Nat /\ Filled \in 0..BUFFER_LENGTH
      /\ Filled = (var - 1) - ReadCount
      /\ write_index = (var - 1) % BUFFER_LENGTH
      /\ read_index = ReadCount % BUFFER_LENGTH
      /\ \A k \in (ReadCount + 1)..(var - 1) : buffer[(k - 1) % BUFFER_LENGTH] = k
      /\ \A q \in Procs : Writes(q) /\ pc[q] = "advance" => buffer[write_index] = var
  BY DEF ClientInv, BufferHolds, Filled
<1>8. /\ Writes(p) => ReadCount' = ReadCount /\ Filled' = Filled + 1
      /\ ~Writes(p) => ReadCount' = ReadCount + 1 /\ Filled' = Filled - 1
  <2>1. CASE Writes(p)
    <3>1. ReaderAdvances' = ReaderAdvances
      BY <1>2, <2>1 DEF ReaderAdvances
    <3>2. taken' = taken /\ var' = var + 1
      BY <1>1, <2>1
    <3>3. ReadCount' = ReadCount
      BY <3>1, <3>2 DEF ReadCount
    <3> QED BY <1>3, <1>7, <2>1, <3>2, <3>3 DEF Filled
  <2>2. CASE ~Writes(p)
    <3>1. ReaderAdvances /\ ~ReaderAdvances'
      BY <1>1, <1>2, <2>2, AloneInside DEF ReaderAdvances
    <3>2. taken' = taken /\ var' = var
      BY <1>1, <2>2
    <3>3. ReadCount' = ReadCount + 1
      BY <1>3, <3>1, <3>2 DEF ReadCount
    <3> QED BY <1>3, <1>7, <2>2, <3>2, <3>3 DEF Filled
  <2> QED BY <2>1, <2>2
<1>9. CellsCounted'
  <2>1. \A q \in Procs : q \in Holders' <=> q \in Holders
    <3>1. \A q \in Procs : Waiters(Takes(q))' = Waiters(Takes(q))
      BY <1>1 DEF Waiters
    <3> QED BY <1>2, <3>1, HoldersAre
  <2>2. p \in Holders
    BY <1>1, <1>2, CellInHand
  <2>3. \A q \in Procs \ {p} : /\ q \in FilledHands' <=> q \in FilledHands
                               /\ q \in FreeHands' <=> q \in FreeHands
    BY <1>2, <2>1, HandsAre
  <2>4. value'[EMPTY] = value[EMPTY] /\ value'[FULL] = value[FULL]
    BY <1>1
  <2>5. /\ Cardinality(FilledHands \union {p}) =
             IF p \in FilledHands THEN Cardinality(FilledHands) ELSE Cardinality(FilledHands) + 1
        /\ Cardinality(FreeHands \union {p}) =
             IF p \in FreeHands THEN Cardinality(FreeHands) ELSE Cardinality(FreeHands) + 1
        /\ Cardinality(FilledHands \ {p}) =
             IF p \in FilledHands THEN Cardinality(FilledHands) - 1 ELSE Cardinality(FilledHands)
        /\ Cardinality(FreeHands \ {p}) =
             IF p \in FreeHands THEN Cardinality(FreeHands) - 1 ELSE Cardinality(FreeHands)
    BY HandsFinite, FS_AddElement, FS_RemoveElement
  <2>6. CASE Writes(p)
    <3>1. /\ p \in FreeHands /\ p \notin FreeHands'
          /\ p \notin FilledHands /\ p \in FilledHands'
      BY <1>2, <2>1, <2>2, <2>6, HandsAre
    <3>2. FreeHands' = FreeHands \ {p} /\ FilledHands' = FilledHands \union {p}
      BY <2>3, <3>1, HandsAre
    <3>3. /\ Cardinality(FreeHands)' = Cardinality(FreeHands) - 1
          /\ Cardinality(FilledHands)' = Cardinality(FilledHands) + 1
      BY <2>5, <3>1, <3>2
    <3>4. Filled' = Filled + 1
      BY <1>8, <2>6
    <3>5. /\ value'[EMPTY] + Cardinality(FilledHands)' = Filled'
          /\ value'[FULL] + Cardinality(FreeHands)' = BUFFER_LENGTH - Filled'
      BY <1>2, <2>4, <3>3, <3>4, CellsNow, HandsFinite
    <3> QED BY <3>5 DEF CellsCounted
  <2>7. CASE ~Writes(p)
    <3>1. /\ p \notin FreeHands /\ p \in FreeHands'
          /\ p \in FilledHands /\ p \notin FilledHands'
      BY <1>2, <2>1, <2>2, <2>7, HandsAre
    <3>2. FreeHands' = FreeHands \union {p} /\ FilledHands' = FilledHands \ {p}
      BY <2>3, <3>1, HandsAre
    <3>3. /\ Cardinality(FreeHands)' = Cardinality(FreeHands) + 1
          /\ Cardinality(FilledHands)' = Cardinality(FilledHands) - 1
      BY <2>5, <3>1, <3>2
    <3>4. Filled' = Filled - 1
      BY <1>8, <2>7
    <3>5. /\ value'[EMPTY] + Cardinality(FilledHands)' = Filled'
          /\ value'[FULL] + Cardinality(FreeHands)' = BUFFER_LENGTH - Filled'
      BY <1>2, <2>4, <3>3, <3>4, CellsNow, HandsFinite
    <3> QED BY <3>5 DEF CellsCounted
  <2> QED BY <2>6, <2>7
<1>10. BufferHolds'
  <2>1. CASE Writes(p)
    <3>1. /\ ReadCount' = ReadCount /\ Filled' = Filled + 1
          /\ var' = var + 1 /\ buffer' = buffer
          /\ write_index' = (write_index + 1) % BUFFER_LENGTH
          /\ read_index' = read_index
      BY <1>1, <1>8, <2>1
    <3>2. Filled < BUFFER_LENGTH
      BY <1>1, <1>2, <2>1, CellInHand
    <3>3. write_index' = (var' - 1) % BUFFER_LENGTH
      <4>1. (((var - 1) % BUFFER_LENGTH) + 1) % BUFFER_LENGTH = (var - 1 + 1) % BUFFER_LENGTH
        <5>1. var - 1 \in Nat
          BY <1>3
        <5> QED BY <1>3, <5>1, IndexAdvances
      <4>2. var - 1 + 1 = var' - 1
        BY <1>3, <3>1
      <4> QED BY <1>7, <3>1, <4>1, <4>2
    <3>4. ASSUME NEW k \in (ReadCount + 1)..var
          PROVE  buffer[(k - 1) % BUFFER_LENGTH] = k
      <4>1. CASE k = var
        BY <1>2, <1>7, <2>1, <4>1
      <4>2. CASE k # var
        <5>1. k \in (ReadCount + 1)..(var - 1)
          BY <1>3, <1>7, <4>2
        <5> QED BY <1>7, <5>1
      <4> QED BY <4>1, <4>2
    <3>5. var' - 1 = var
      BY <1>3, <3>1
    <3>6. \A q \in Procs : Writes(q) => pc'[q] # "advance"
      BY <1>1, <1>2, <2>1, AloneInside
    <3>7. Filled' \in 0..BUFFER_LENGTH
      BY <1>3, <1>7, <3>1, <3>2
    <3> QED BY <1>7, <3>1, <3>3, <3>4, <3>5, <3>6, <3>7 DEF BufferHolds
  <2>2. CASE ~Writes(p)
    <3>1. /\ ReadCount' = ReadCount + 1 /\ Filled' = Filled - 1
          /\ UNCHANGED <<var, buffer, write_index>>
          /\ read_index' = (read_index + 1) % BUFFER_LENGTH
      BY <1>1, <1>8, <2>2
    <3>2. Filled > 0
      BY <1>1, <1>2, <2>2, CellInHand
    <3>3. read_index' = ReadCount' % BUFFER_LENGTH
      BY <1>3, <1>7, <3>1, IndexAdvances
    <3>4. ASSUME NEW k \in (ReadCount' + 1)..(var - 1)
          PROVE  buffer[(k - 1) % BUFFER_LENGTH] = k
      <4>1. k \in (ReadCount + 1)..(var - 1)
        BY <1>3, <1>7, <3>1
      <4> QED BY <1>7, <4>1
    <3>5. \A q \in Procs : Writes(q) /\ pc'[q] = "advance" => pc[q] = "advance"
      BY <1>2
    <3>6. Filled' \in 0..BUFFER_LENGTH /\ ReadCount' \in Nat
      BY <1>3, <1>7, <3>1, <3>2
    <3> QED BY <1>7, <3>1, <3>3, <3>4, <3>5, <3>6 DEF BufferHolds
  <2> QED BY <2>1, <2>2
<1>11. InOrder'
  BY <1>1 DEF ClientInv, InOrder
<1> QED BY <1>5, <1>6, <1>9, <1>10, <1>11 DEF ClientInv

-----------------------------------------------------------------------------
(***************************************************************************)
(* The post on the unit, and the end of a child.                           *)
(***************************************************************************)

\* A unit goes back: the cell is kept as a unit, or the first child that waits
\* for one holds it from now on.
LEMMA GiveHands ==
  ASSUME ClientInv, NEW p \in Procs, Give(p)
  PROVE  LET mine   == IF Writes(p) THEN FilledHands ELSE FreeHands
             others == IF Writes(p) THEN FreeHands ELSE FilledHands
             mineNext   == IF Writes(p) THEN FilledHands' ELSE FreeHands'
             othersNext == IF Writes(p) THEN FreeHands' ELSE FilledHands'
         IN  /\ othersNext = others
             /\ p \in mine
             /\ \/ /\ value'[Gives(p)] = value[Gives(p)] + 1
                   /\ mineNext = mine \ {p}
                \/ /\ value'[Gives(p)] = value[Gives(p)]
                   /\ \E h \in Procs \ {p} : h \notin mine /\ mineNext = (mine \ {p}) \union {h}
<1>1. PICK to \in {"take", "close"} :
        Goes(p, "give", to) /\ to \in Points /\ Post(<<p, Gives(p)>>)
  BY DEF Give, Points
<1>2. /\ pc[p] = "give" /\ pc'[p] \in {"take", "close"}
      /\ \A s \in SemIds : p \notin Waiters(s)
      /\ \A q \in Procs \ {p} : pc'[q] = pc[q]
  BY <1>1, GoesEffect
<1>3. /\ \A t \in SemIds \ {Gives(p)} : Waiters(t)' = Waiters(t)
      /\ \/ /\ value'[Gives(p)] = value[Gives(p)]
            /\ \E h \in Procs : /\ h \in Waiters(Gives(p))
                                /\ Waiters(Gives(p))' = Waiters(Gives(p)) \ {h}
         \/ /\ value'[Gives(p)] = value[Gives(p)] + 1
            /\ Waiters(Gives(p))' = Waiters(Gives(p))
  BY <1>1, <1>2, PostEffect, SemaphoresOf DEF Waiters
<1>4. p \in Holders /\ p \notin Holders'
  BY <1>2, HoldersAre, SemaphoresOf
<1>5. /\ p \in FilledHands <=> Writes(p)
      /\ p \in FreeHands <=> ~Writes(p)
      /\ p \notin FilledHands' /\ p \notin FreeHands'
  BY <1>2, <1>4, HandsAre
<1>6. CASE /\ value'[Gives(p)] = value[Gives(p)] + 1
           /\ Waiters(Gives(p))' = Waiters(Gives(p))
  <2>1. \A q \in Procs \ {p} : q \in Holders' <=> q \in Holders
    <3>1. \A q \in Procs : Waiters(Takes(q))' = Waiters(Takes(q))
      BY <1>3, <1>6, SemaphoresOf
    <3> QED BY <1>2, <3>1, HoldersAre
  <2>2. \A q \in Procs \ {p} : /\ q \in FilledHands' <=> q \in FilledHands
                               /\ q \in FreeHands' <=> q \in FreeHands
    BY <1>2, <2>1, HandsAre
  <2>3. CASE Writes(p)
    <3>1. FreeHands' = FreeHands /\ FilledHands' = FilledHands \ {p}
      BY <1>5, <2>2, <2>3, HandsAre
    <3> QED BY <1>5, <1>6, <2>3, <3>1
  <2>4. CASE ~Writes(p)
    <3>1. FilledHands' = FilledHands /\ FreeHands' = FreeHands \ {p}
      BY <1>5, <2>2, <2>4, HandsAre
    <3> QED BY <1>5, <1>6, <2>4, <3>1
  <2> QED BY <2>3, <2>4
<1>7. ASSUME value'[Gives(p)] = value[Gives(p)],
             NEW h \in Procs, h \in Waiters(Gives(p)),
             Waiters(Gives(p))' = Waiters(Gives(p)) \ {h}
      PROVE  LET mine   == IF Writes(p) THEN FilledHands ELSE FreeHands
                 others == IF Writes(p) THEN FreeHands ELSE FilledHands
                 mineNext   == IF Writes(p) THEN FilledHands' ELSE FreeHands'
                 othersNext == IF Writes(p) THEN FreeHands' ELSE FilledHands'
             IN  /\ othersNext = others
                 /\ p \in mine
                 /\ \E g \in Procs \ {p} : g \notin mine /\ mineNext = (mine \ {p}) \union {g}
  <2>1. /\ h # p
        /\ Gives(p) = Takes(h)
        /\ pc[h] = "guard" /\ pc'[h] = "guard"
        /\ Writes(h) <=> ~Writes(p)
    <3>1. h # p
      BY <1>2, <1>7, SemaphoresOf
    <3>2. Gives(p) = Takes(h) /\ pc[h] = "guard"
      BY <1>7, SemaphoresOf DEF ClientInv, QueuedFor
    <3> QED BY <1>2, <3>1, <3>2, SemaphoresOf
  <2>2. h \notin Holders /\ h \in Holders'
    BY <1>7, <2>1, HoldersAre
  <2>3. /\ h \notin FilledHands /\ h \notin FreeHands
        /\ h \in FilledHands' <=> Writes(p)
        /\ h \in FreeHands' <=> ~Writes(p)
    BY <2>1, <2>2, HandsAre
  <2>4. \A q \in Procs \ {p, h} : q \in Holders' <=> q \in Holders
    <3>1. \A q \in Procs \ {p, h} : q \in Waiters(Takes(q))' <=> q \in Waiters(Takes(q))
      BY <1>3, <1>7, SemaphoresOf
    <3> QED BY <1>2, <3>1, HoldersAre
  <2>5. \A q \in Procs \ {p, h} : /\ q \in FilledHands' <=> q \in FilledHands
                                  /\ q \in FreeHands' <=> q \in FreeHands
    BY <1>2, <2>4, HandsAre
  <2>6. CASE Writes(p)
    <3>1. FreeHands' = FreeHands /\ FilledHands' = (FilledHands \ {p}) \union {h}
      BY <1>5, <2>3, <2>5, <2>6, HandsAre
    <3> QED BY <1>5, <2>1, <2>3, <2>6, <3>1
  <2>7. CASE ~Writes(p)
    <3>1. FilledHands' = FilledHands /\ FreeHands' = (FreeHands \ {p}) \union {h}
      BY <1>5, <2>3, <2>5, <2>7, HandsAre
    <3> QED BY <1>5, <2>1, <2>3, <2>7, <3>1
  <2> QED BY <2>6, <2>7
<1> QED BY <1>3, <1>6, <1>7

\* The post on the unit preserves the invariant.
LEMMA GiveStep ==
  ASSUME ClientInv, NEW p \in Procs, Give(p)
  PROVE  ClientInv'
<1>1. PICK to \in {"take", "close"} :
        Goes(p, "give", to) /\ to \in Points /\ Post(<<p, Gives(p)>>)
  BY DEF Give, Points
<1>2. /\ pc[p] = "give" /\ pc'[p] = to
      /\ \A s \in SemIds : p \notin Waiters(s)
      /\ pc' \in [Procs -> Points]
      /\ \A q \in Procs \ {p} : pc'[q] = pc[q]
  BY <1>1, GoesEffect
<1>3. /\ UNCHANGED <<exists, handle>>
      /\ value' \in [SemIds -> Nat]
      /\ queue' \in [SemIds -> Seq(Procs)]
      /\ \A t \in SemIds \ {Gives(p)} : value'[t] = value[t] /\ queue'[t] = queue[t]
      /\ IsInjective(queue'[Gives(p)])
      /\ Waiters(Gives(p))' \subseteq Waiters(Gives(p))
  BY <1>1, <1>2, PostEffect, SemaphoresOf DEF Waiters
<1>4. /\ UNCHANGED <<buffer, write_index, read_index, var, taken>> /\ UNCHANGED sharedVars
      /\ i' = [i EXCEPT ![p] = @ + 1]
  BY DEF Give, sharedVars
<1>5. ClientTypes'
  BY <1>2, <1>3, <1>4 DEF ClientInv, ClientTypes
<1>6. HandlesOpen'
  BY <1>1, <1>3, HandlesStay
<1>7. QueuedFor'
  <2>1. \A s \in SemIds : IsInjective(queue'[s]) /\ Waiters(s)' \subseteq Waiters(s)
    BY <1>3 DEF ClientInv, QueuedFor, Waiters
  <2> QED BY <1>1, <2>1, QueuesStay
<1>8. GuardsBusy'
  <2>1. \A q \in Procs : /\ Inside(q)' <=> Inside(q)
                         /\ value'[Guards(q)] = value[Guards(q)]
    <3> TAKE q \in Procs
    <3>1. /\ Guards(q) \in SemIds
          /\ value'[Guards(q)] = value[Guards(q)]
          /\ Waiters(Guards(q))' = Waiters(Guards(q))
      BY <1>3, SemaphoresOf DEF Waiters
    <3> QED BY <1>2, <1>7, <3>1, InsideIs, InsideIsNext DEF ClientInv
  <2>2. value'[READ] = value[READ] /\ value'[WRITE] = value[WRITE]
    <3>1. READ \in SemIds \ {EMPTY, FULL} /\ WRITE \in SemIds \ {EMPTY, FULL}
      BY ProducerConsumerAssumption DEF EMPTY, FULL, READ, WRITE
    <3> QED BY <1>3, <3>1, SemaphoresOf
  <2> QED BY <2>1, <2>2 DEF ClientInv, GuardsBusy
<1>9. Filled' = Filled /\ BufferHolds' /\ InOrder'
  BY <1>1, <1>4, BufferStays
<1>10. CellsCounted'
  <2>1. EMPTY \in SemIds /\ FULL \in SemIds /\ EMPTY # FULL
    BY ProducerConsumerAssumption DEF EMPTY, FULL
  <2>2. CASE Writes(p)
    <3>1. Gives(p) = EMPTY
      BY <2>2 DEF Gives
    <3>2. value'[FULL] = value[FULL]
      BY <1>3, <2>1, <3>1
    <3>3. /\ FreeHands' = FreeHands
          /\ p \in FilledHands
          /\ \/ /\ value'[EMPTY] = value[EMPTY] + 1
                /\ FilledHands' = FilledHands \ {p}
             \/ /\ value'[EMPTY] = value[EMPTY]
                /\ \E h \in Procs \ {p} : /\ h \notin FilledHands
                                          /\ FilledHands' = (FilledHands \ {p}) \union {h}
      BY <2>2, <3>1, GiveHands
    <3>4. /\ IsFiniteSet(FilledHands \ {p})
          /\ Cardinality(FilledHands \ {p}) = Cardinality(FilledHands) - 1
      BY <3>3, HandsFinite, FS_RemoveElement
    <3>5. \A h : h \notin FilledHands =>
            Cardinality((FilledHands \ {p}) \union {h}) = Cardinality(FilledHands) - 1 + 1
      BY <3>4, FS_AddElement
    <3>6. value'[EMPTY] + Cardinality(FilledHands)' = value[EMPTY] + Cardinality(FilledHands)
      <4>1. \/ /\ value'[EMPTY] = value[EMPTY] + 1
               /\ Cardinality(FilledHands)' = Cardinality(FilledHands) - 1
            \/ /\ value'[EMPTY] = value[EMPTY]
               /\ Cardinality(FilledHands)' = Cardinality(FilledHands) - 1 + 1
        BY <3>3, <3>4, <3>5
      <4>2. value[EMPTY] \in Nat /\ Cardinality(FilledHands) \in Nat
        BY <1>2, CellsNow, HandsFinite
      <4> QED BY <4>1, <4>2
    <3> QED BY <1>2, <1>9, <3>2, <3>3, <3>6, CellsNow DEF CellsCounted
  <2>3. CASE ~Writes(p)
    <3>1. Gives(p) = FULL
      BY <2>3 DEF Gives
    <3>2. value'[EMPTY] = value[EMPTY]
      BY <1>3, <2>1, <3>1
    <3>3. /\ FilledHands' = FilledHands
          /\ p \in FreeHands
          /\ \/ /\ value'[FULL] = value[FULL] + 1
                /\ FreeHands' = FreeHands \ {p}
             \/ /\ value'[FULL] = value[FULL]
                /\ \E h \in Procs \ {p} : /\ h \notin FreeHands
                                          /\ FreeHands' = (FreeHands \ {p}) \union {h}
      BY <2>3, <3>1, GiveHands
    <3>4. /\ IsFiniteSet(FreeHands \ {p})
          /\ Cardinality(FreeHands \ {p}) = Cardinality(FreeHands) - 1
      BY <3>3, HandsFinite, FS_RemoveElement
    <3>5. \A h : h \notin FreeHands =>
            Cardinality((FreeHands \ {p}) \union {h}) = Cardinality(FreeHands) - 1 + 1
      BY <3>4, FS_AddElement
    <3>6. value'[FULL] + Cardinality(FreeHands)' = value[FULL] + Cardinality(FreeHands)
      <4>1. \/ /\ value'[FULL] = value[FULL] + 1
               /\ Cardinality(FreeHands)' = Cardinality(FreeHands) - 1
            \/ /\ value'[FULL] = value[FULL]
               /\ Cardinality(FreeHands)' = Cardinality(FreeHands) - 1 + 1
        BY <3>3, <3>4, <3>5
      <4>2. value[FULL] \in Nat /\ Cardinality(FreeHands) \in Nat
        BY <1>2, CellsNow, HandsFinite
      <4> QED BY <4>1, <4>2
    <3> QED BY <1>2, <1>9, <3>2, <3>3, <3>6, CellsNow DEF CellsCounted
  <2> QED BY <2>2, <2>3
<1> QED BY <1>5, <1>6, <1>7, <1>8, <1>9, <1>10 DEF ClientInv

\* The close of a handle preserves the invariant.
LEMMA CloseStep ==
  ASSUME ClientInv, NEW p \in Procs, CloseNext(p)
  PROVE  ClientInv'
<1>1. PICK s \in SemIds, to \in {"close", "exit"} :
        /\ handle[<<p, s>>] # NULL
        /\ Goes(p, "close", to) /\ to \in Points
        /\ Close(<<p, s>>)
  BY DEF CloseNext, Points
<1>2. /\ pc[p] = "close" /\ pc'[p] = to
      /\ pc' \in [Procs -> Points]
      /\ \A q \in Procs \ {p} : pc'[q] = pc[q]
  BY <1>1, GoesEffect
<1>3. /\ <<p, s>> \in Handles
      /\ handle[<<p, s>>].sem = s
  <2> DEFINE h == handle[<<p, s>>]
  <2>1. h = [owner |-> p, sem |-> s] /\ <<p, s>> \in Handles
    BY <1>1, ProducerConsumerAssumption DEF ClientInv, HandlesOpen
  <2> HIDE DEF h
  <2>2. h.sem = s
    BY <2>1
  <2> QED BY <2>1, <2>2 DEF h
<1>4. /\ UNCHANGED queue
      /\ handle' = [handle EXCEPT ![<<p, s>>] = NULL]
      /\ \/ /\ \A g \in Handles \ {<<p, s>>} : handle[g] # NULL => handle[g].sem # s
            /\ exists' = exists \ {s}
            /\ value' = [value EXCEPT ![s] = 0]
         \/ UNCHANGED <<exists, value>>
  BY <1>1, <1>3 DEF Close
<1>5. UNCHANGED <<buffer, write_index, read_index, var, taken, i>> /\ UNCHANGED sharedVars
  BY DEF CloseNext, sharedVars
<1>6. /\ exists \subseteq SemIds
      /\ value \in [SemIds -> Nat]
      /\ queue \in [SemIds -> Seq(Procs)]
      /\ handle \in [Handles -> Handle \union {NULL}]
  BY DEF ClientInv, ClientTypes
<1>7. ClientTypes'
  <2>1. exists' \subseteq SemIds /\ value' \in [SemIds -> Nat]
    BY <1>4, <1>6
  <2>2. queue' \in [SemIds -> Seq(Procs)] /\ handle' \in [Handles -> Handle \union {NULL}]
    BY <1>4, <1>6
  <2> QED BY <1>2, <1>5, <2>1, <2>2 DEF ClientInv, ClientTypes
<1>8. HandlesOpen'
  <2> SUFFICES ASSUME NEW q \in Procs, NEW t \in SemIds
               PROVE  /\ handle'[<<q, t>>] # NULL =>
                           handle'[<<q, t>>] = [owner |-> q, sem |-> t] /\ t \in exists'
                      /\ pc'[q] \notin {"close", "exit"} => handle'[<<q, t>>] # NULL
    BY DEF HandlesOpen
  <2>1. /\ <<q, t>> \in Handles
        /\ handle[<<q, t>>] # NULL => /\ handle[<<q, t>>] = [owner |-> q, sem |-> t]
                                      /\ t \in exists
        /\ pc[q] \notin {"close", "exit"} => handle[<<q, t>>] # NULL
    BY ProducerConsumerAssumption DEF ClientInv, HandlesOpen
  <2>2. CASE <<q, t>> = <<p, s>>
    BY <1>2, <1>4, <1>6, <2>1, <2>2
  <2>3. CASE <<q, t>> # <<p, s>>
    <3> DEFINE h == handle[<<q, t>>]
    <3>1. handle'[<<q, t>>] = h
      BY <1>4, <1>6, <2>1, <2>3
    <3>2. h # NULL => h = [owner |-> q, sem |-> t] /\ t \in exists
      BY <2>1
    <3>3. pc'[q] \notin {"close", "exit"} => h # NULL
      BY <1>2, <2>1
    <3>4. h # NULL /\ t = s => exists' = exists
      <4>1. h # NULL /\ (\A g \in Handles \ {<<p, s>>} : handle[g] # NULL => handle[g].sem # s)
              => h.sem # s
        BY <2>1, <2>3
      <4> HIDE DEF h
      <4>2. h # NULL => h.sem = t
        BY <3>2
      <4> QED BY <1>4, <4>1, <4>2
    <3>5. h # NULL => t \in exists'
      BY <1>4, <3>2, <3>4
    <3> QED BY <3>1, <3>2, <3>3, <3>5
  <2> QED BY <2>2, <2>3
<1>9. QueuedFor'
  <2>1. \A t \in SemIds : IsInjective(queue'[t]) /\ Waiters(t)' \subseteq Waiters(t)
    BY <1>4 DEF ClientInv, QueuedFor, Waiters
  <2> QED BY <1>1, <2>1, QueuesStay
<1>10. GuardsBusy'
  <2>1. \A q \in Procs : Inside(q)' <=> Inside(q)
    <3> TAKE q \in Procs
    <3>1. Waiters(Guards(q))' = Waiters(Guards(q))
      BY <1>4 DEF Waiters
    <3> QED BY <1>2, <1>9, <3>1, InsideIs, InsideIsNext DEF ClientInv
  <2>2. \A t \in SemIds : value'[t] = 0 \/ value'[t] = value[t]
    BY <1>4, <1>6
  <2>3. READ \in SemIds /\ WRITE \in SemIds /\ \A q \in Procs : Guards(q) \in SemIds
    BY SemaphoresOf, ProducerConsumerAssumption
  <2>4. value'[READ] <= 1 /\ value'[WRITE] <= 1
    BY <2>2, <2>3 DEF ClientInv, GuardsBusy
  <2> QED BY <2>1, <2>2, <2>3, <2>4 DEF ClientInv, GuardsBusy
<1>11. Filled' = Filled /\ BufferHolds' /\ InOrder'
  BY <1>1, <1>5, BufferStays
<1>12. CellsCounted'
  <2> SUFFICES ASSUME {EMPTY, FULL} \subseteq exists'
               PROVE  /\ value'[EMPTY] + Cardinality(FilledHands)' = Filled
                      /\ value'[FULL] + Cardinality(FreeHands)' = BUFFER_LENGTH - Filled
    BY <1>11 DEF CellsCounted
  <2>1. /\ {EMPTY, FULL} \subseteq exists
        /\ value'[EMPTY] = value[EMPTY] /\ value'[FULL] = value[FULL]
    BY <1>4, <1>6
  <2>2. \A q \in Procs : q \in Holders' <=> q \in Holders
    <3>1. \A q \in Procs : Waiters(Takes(q))' = Waiters(Takes(q))
      BY <1>4 DEF Waiters
    <3> QED BY <1>2, <3>1, HoldersAre
  <2>3. \A q \in Procs : /\ q \in FilledHands' <=> q \in FilledHands
                         /\ q \in FreeHands' <=> q \in FreeHands
    BY <1>2, <2>2, HandsAre
  <2>4. FilledHands' = FilledHands /\ FreeHands' = FreeHands
    BY <2>3, HandsAre
  <2> QED BY <2>1, <2>4 DEF ClientInv, CellsCounted
<1> QED BY <1>7, <1>8, <1>9, <1>10, <1>11, <1>12 DEF ClientInv

-----------------------------------------------------------------------------
(***************************************************************************)
(* The theorems.                                                           *)
(***************************************************************************)

\* The invariant holds at the start.
LEMMA ClientInitInv == ClientInit => ClientInv
<1> SUFFICES ASSUME ClientInit PROVE ClientInv
  OBVIOUS
<1>1. /\ EMPTY \in SemIds /\ FULL \in SemIds /\ READ \in SemIds /\ WRITE \in SemIds
      /\ EMPTY # FULL /\ READ \notin {EMPTY, FULL} /\ WRITE \notin {EMPTY, FULL}
      /\ BUFFER_LENGTH \in Nat \ {0}
  BY ProducerConsumerAssumption DEF EMPTY, FULL, READ, WRITE
<1>2. /\ value \in [SemIds -> Nat]
      /\ value[EMPTY] = 0 /\ value[FULL] = BUFFER_LENGTH
      /\ value[READ] = 1 /\ value[WRITE] = 1
  BY <1>1 DEF ClientInit, InitialCount
<1>3. handle \in [Handles -> Handle \union {NULL}]
  <2>1. \A h \in Handles : h[1] \in Procs /\ h[2] \in SemIds
    BY ProducerConsumerAssumption
  <2> QED BY <2>1 DEF ClientInit, Handle
<1>4. ClientTypes
  BY <1>1, <1>2, <1>3, EmptySeq DEF ClientInit, ClientTypes, Points
<1>5. HandlesOpen
  <2> SUFFICES ASSUME NEW p \in Procs, NEW s \in SemIds
               PROVE  /\ handle[<<p, s>>] = [owner |-> p, sem |-> s]
                      /\ handle[<<p, s>>] # NULL
                      /\ s \in exists
    BY DEF HandlesOpen
  <2>1. PICK h \in Handles : h = <<p, s>> /\ h[1] = p /\ h[2] = s
    <3>1. <<p, s>> \in Handles
      BY ProducerConsumerAssumption
    <3>2. <<p, s>>[1] = p /\ <<p, s>>[2] = s
      OBVIOUS
    <3> QED BY <3>1, <3>2
  <2>2. handle[h] = [owner |-> p, sem |-> s] /\ s \in exists
    BY <2>1 DEF ClientInit
  <2>3. [owner |-> p, sem |-> s] # NULL
    BY ProducerConsumerAssumption DEF Handle
  <2> QED BY <2>1, <2>2, <2>3
<1>6. \A s \in SemIds : queue[s] = <<>> /\ Waiters(s) = {}
  BY EmptyRange DEF ClientInit, Waiters
<1>7. QueuedFor
  BY <1>6, EmptyRange DEF QueuedFor
<1>8. \A p \in Procs : pc[p] = "take"
  BY DEF ClientInit
<1>9. GuardsBusy
  BY <1>2, <1>8 DEF GuardsBusy, Inside
<1>10. FilledHands = {} /\ FreeHands = {}
  BY <1>8 DEF FilledHands, FreeHands, Holders
<1>11. ~ReaderAdvances /\ Len(taken) = 0
  BY <1>8 DEF ReaderAdvances, ClientInit
<1>12. ReadCount = 0 /\ Filled = 0 /\ var = 1
  <2>1. ReadCount = 0
    <3> DEFINE n == IF ReaderAdvances THEN 1 ELSE 0
    <3>1. n = 0
      BY <1>11
    <3> HIDE DEF n
    <3>2. Len(taken) - n = 0
      BY <1>11, <3>1
    <3> QED BY <3>2 DEF ReadCount, n
  <2>2. var = 1
    BY DEF ClientInit
  <2> QED BY <2>1, <2>2 DEF Filled
<1>13. CellsCounted
  BY <1>1, <1>2, <1>10, <1>12, FS_EmptySet DEF CellsCounted
<1>14. BufferHolds
  <2>1. 0 % BUFFER_LENGTH = 0
    BY <1>1
  <2>2. \A k \in (ReadCount + 1)..(var - 1) : FALSE
    BY <1>12
  <2>3. write_index = 0 /\ read_index = 0 /\ var - 1 = 0
    BY <1>12 DEF ClientInit
  <2> QED BY <1>1, <1>8, <1>12, <2>1, <2>2, <2>3 DEF BufferHolds
<1>15. InOrder
  BY DEF ClientInit, InOrder
<1> QED BY <1>4, <1>5, <1>7, <1>9, <1>13, <1>14, <1>15 DEF ClientInv

\* Every step of the program preserves the invariant.
LEMMA ClientNextInv == ClientInv /\ [ClientNext]_pcVars => ClientInv'
<1> SUFFICES ASSUME ClientInv, [ClientNext]_pcVars PROVE ClientInv'
  OBVIOUS
<1>1. CASE ClientNext
  <2>1. PICK p \in Procs : childFunction(p)
    BY <1>1 DEF ClientNext
  <2>2. CASE Take(p)
    BY <2>2, TakeStep
  <2>3. CASE Guard(p)
    BY <2>3, GuardStep
  <2>4. CASE Access(p)
    BY <2>4, AccessStep
  <2>5. CASE Advance(p)
    BY <2>5, AdvanceStep
  <2>6. CASE Release(p)
    BY <2>6, ReleaseStep
  <2>7. CASE Give(p)
    BY <2>7, GiveStep
  <2>8. CASE CloseNext(p)
    BY <2>8, CloseStep
  <2> QED BY <2>1, <2>2, <2>3, <2>4, <2>5, <2>6, <2>7, <2>8 DEF childFunction
<1>2. CASE UNCHANGED pcVars
  <2>1. /\ UNCHANGED <<exists, value, queue, handle>>
        /\ UNCHANGED <<buffer, write_index, read_index, var, taken, pc, i>>
    BY <1>2 DEF pcVars, absVars, sharedVars
  <2>2. \A p \in Procs : Inside(p)' <=> Inside(p)
    BY <2>1 DEF Inside, Queued
  <2>3. Holders' = Holders
    BY <2>1 DEF Holders
  <2>4. FilledHands' = FilledHands /\ FreeHands' = FreeHands
    BY <2>1, <2>3 DEF FilledHands, FreeHands
  <2>5. ReadCount' = ReadCount /\ Filled' = Filled
    BY <2>1 DEF ReadCount, Filled, ReaderAdvances
  <2>6. ClientTypes' /\ HandlesOpen' /\ QueuedFor' /\ InOrder'
    BY <2>1 DEF ClientInv, ClientTypes, HandlesOpen, QueuedFor, Waiters, InOrder
  <2>7. GuardsBusy'
    BY <2>1, <2>2 DEF ClientInv, GuardsBusy
  <2>8. CellsCounted'
    BY <2>1, <2>4, <2>5 DEF ClientInv, CellsCounted
  <2>9. BufferHolds'
    BY <2>1, <2>5 DEF ClientInv, BufferHolds
  <2> QED BY <2>6, <2>7, <2>8, <2>9 DEF ClientInv
<1> QED BY <1>1, <1>2

\* The invariant of the test program.
THEOREM ClientInvariant == ClientSpec => []ClientInv
  BY ClientInitInv, ClientNextInv, PTL DEF ClientSpec

\* childFunction of disastrOS_test.c, whose wait and post on WRITE and READ
\* enclose the use of the index: two writers are never between them at one time,
\* nor two readers.
THEOREM ClientsExclude == ClientSpec => []MutualExclusion
<1>1. ClientInv => MutualExclusion
  BY SemaphoresOf DEF ClientInv, GuardsBusy, MutualExclusion
<1> QED BY <1>1, ClientInvariant, PTL

\* The circular buffer of disastrOS_test.c: the readers get the values in the
\* order in which they were written, each one once, although a reader and a
\* writer use the buffer at one time.
THEOREM ValuesInOrder == ClientSpec => []InOrder
<1>1. ClientInv => InOrder
  BY DEF ClientInv
<1> QED BY <1>1, ClientInvariant, PTL

\* The units of EMPTY and FULL and the cells in the hands of the children are
\* as many as the buffer has cells, as long as both semaphores exist.
THEOREM UnitsAreConserved == ClientSpec => []UnitsConserved
<1>1. ClientInv => UnitsConserved
  <2> SUFFICES ASSUME ClientInv, {EMPTY, FULL} \subseteq exists
               PROVE  value[EMPTY] + value[FULL] + Cardinality(Holders) = BUFFER_LENGTH
    BY DEF UnitsConserved
  <2>1. Holders = FilledHands \union FreeHands /\ FilledHands \intersect FreeHands = {}
    BY DEF FilledHands, FreeHands, Holders
  <2>2. Cardinality(Holders) = Cardinality(FilledHands) + Cardinality(FreeHands)
    BY <2>1, HandsFinite, FS_Union, FS_EmptySet
  <2>3. EMPTY \in SemIds /\ FULL \in SemIds /\ BUFFER_LENGTH \in Nat
    BY ProducerConsumerAssumption
  <2>4. value[EMPTY] \in Nat /\ value[FULL] \in Nat /\ Filled \in Int
    BY <2>3 DEF ClientInv, ClientTypes, BufferHolds
  <2> QED BY <2>2, <2>3, <2>4, HandsFinite DEF ClientInv, CellsCounted
<1> QED BY <1>1, ClientInvariant, PTL

=============================================================================
