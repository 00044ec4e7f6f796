----------------------------- MODULE ListLemmas -----------------------------
(***************************************************************************)
(* What the list operations of the kernel do to the elements of a list: a  *)
(* list is a sequence, and the invariants speak of its range and of whether*)
(* an element occurs in it twice.                                          *)
(***************************************************************************)
EXTENDS Integers, Sequences, SequencesExt, SequenceTheorems, TLAPS

\* The elements of a list are the values at its places.
LEMMA RangeOf ==
  ASSUME NEW S, NEW s \in Seq(S)
  PROVE  /\ \A x : x \in Range(s) <=> \E i \in 1..Len(s) : s[i] = x
         /\ IsInjective(s) <=> \A i, j \in 1..Len(s) : s[i] = s[j] => i = j
         /\ Range(s) \subseteq S
  BY LenProperties DEF Range, IsInjective

\* A list without elements.
LEMMA EmptyRange ==
  /\ Range(<<>>) = {}
  /\ IsInjective(<<>>)
  BY DEF Range, IsInjective

\* Only the empty list has no elements.
LEMMA RangeEmpty ==
  ASSUME NEW S, NEW s \in Seq(S)
  PROVE  Range(s) = {} <=> s = <<>>
<1>1. Len(s) \in Nat /\ (s = <<>> <=> Len(s) = 0)
  BY LenProperties, EmptySeq
<1>2. \A x : x \in Range(s) <=> \E i \in 1..Len(s) : s[i] = x
  BY RangeOf
<1>3. Len(s) # 0 => 1 \in 1..Len(s)
  BY <1>1
<1> QED BY <1>1, <1>2, <1>3

\* List_insert at the tail adds one element.
LEMMA AppendRange ==
  ASSUME NEW S, NEW s \in Seq(S), NEW x \in S
  PROVE  /\ Append(s, x) \in Seq(S)
         /\ Len(Append(s, x)) = Len(s) + 1
         /\ Range(Append(s, x)) = Range(s) \union {x}
         /\ IsInjective(s) /\ x \notin Range(s) => IsInjective(Append(s, x))
<1> DEFINE t == Append(s, x)
<1>1. /\ t \in Seq(S)
      /\ Len(s) \in Nat
      /\ Len(t) = Len(s) + 1
      /\ \A i \in 1..Len(s) : t[i] = s[i]
      /\ t[Len(s) + 1] = x
  BY AppendProperties, LenProperties
<1> HIDE DEF t
<1>2. \A i \in 1..Len(t) : i \in 1..Len(s) \/ i = Len(s) + 1
  BY <1>1
<1>3. Range(t) = Range(s) \union {x}
  <2>1. \A y : y \in Range(t) <=> \E i \in 1..Len(t) : t[i] = y
    BY <1>1, RangeOf
  <2>2. \A y : y \in Range(s) <=> \E i \in 1..Len(s) : s[i] = y
    BY RangeOf
  <2>3. 1..Len(t) = 1..Len(s) \union {Len(s) + 1}
    BY <1>1
  <2> QED BY <1>1, <2>1, <2>2, <2>3
<1>4. ASSUME IsInjective(s), x \notin Range(s) PROVE IsInjective(t)
  <2> SUFFICES ASSUME NEW i \in 1..Len(t), NEW j \in 1..Len(t), t[i] = t[j]
               PROVE  i = j
    BY <1>1, RangeOf
  <2>1. \A k \in 1..Len(s) : s[k] \in Range(s)
    BY RangeOf
  <2> QED BY <1>1, <1>2, <1>4, <2>1, RangeOf
<1> QED BY <1>1, <1>3, <1>4 DEF t

\* List_detach of the head removes one element.
LEMMA TailRange ==
  ASSUME NEW S, NEW s \in Seq(S), s # <<>>
  PROVE  /\ Head(s) \in S
         /\ Tail(s) \in Seq(S)
         /\ Len(Tail(s)) = Len(s) - 1
         /\ Range(s) = Range(Tail(s)) \union {Head(s)}
         /\ IsInjective(s) => IsInjective(Tail(s)) /\ Head(s) \notin Range(Tail(s))
<1> DEFINE t == Tail(s)
<1>1. /\ Len(s) \in Nat \ {0}
      /\ Head(s) = s[1]
      /\ Head(s) \in S
      /\ t \in Seq(S)
      /\ Len(t) = Len(s) - 1
      /\ \A i \in 1..Len(t) : t[i] = s[i + 1]
  BY HeadTailProperties, EmptySeq
<1> HIDE DEF t
<1>2. \A i \in 1..Len(s) : i = 1 \/ (i - 1 \in 1..Len(t) /\ t[i - 1] = s[i])
  BY <1>1
<1>3. \A i \in 1..Len(t) : i + 1 \in 1..Len(s) /\ i + 1 # 1
  BY <1>1
<1>4. 1 \in 1..Len(s)
  BY <1>1
<1>5. Range(s) = Range(t) \union {Head(s)}
  <2>1. \A y : y \in Range(t) <=> \E i \in 1..Len(t) : t[i] = y
    BY <1>1, RangeOf
  <2>2. \A y : y \in Range(s) <=> \E i \in 1..Len(s) : s[i] = y
    BY RangeOf
  <2>3. Range(s) \subseteq Range(t) \union {Head(s)}
    BY <1>1, <1>2, <2>1, <2>2
  <2>4. Range(t) \union {Head(s)} \subseteq Range(s)
    BY <1>1, <1>3, <1>4, <2>1, <2>2
  <2> QED BY <2>3, <2>4
<1>6. ASSUME IsInjective(s) PROVE IsInjective(t) /\ Head(s) \notin Range(t)
  <2>1. \A i, j \in 1..Len(s) : s[i] = s[j] => i = j
    BY <1>6, RangeOf
  <2>2. \A i, j \in 1..Len(t) : t[i] = t[j] => i = j
    BY <1>1, <1>3, <2>1
  <2>3. \A i \in 1..Len(t) : t[i] # Head(s)
    BY <1>1, <1>3, <1>4, <2>1
  <2> QED BY <1>1, <2>2, <2>3, RangeOf
<1> QED BY <1>1, <1>5, <1>6 DEF t

\* One list in front of another.
LEMMA ConcatRange ==
  ASSUME NEW S, NEW s \in Seq(S), NEW t \in Seq(S)
  PROVE  /\ s \o t \in Seq(S)
         /\ Range(s \o t) = Range(s) \union Range(t)
         /\ IsInjective(s) /\ IsInjective(t) /\ Range(s) \intersect Range(t) = {}
              => IsInjective(s \o t)
<1> DEFINE u == s \o t
<1>1. /\ u \in Seq(S)
      /\ Len(s) \in Nat
      /\ Len(t) \in Nat
      /\ Len(u) = Len(s) + Len(t)
      /\ \A i \in 1..Len(u) : u[i] = IF i <= Len(s) THEN s[i] ELSE t[i - Len(s)]
  BY ConcatProperties, LenProperties
<1> HIDE DEF u
<1>2. \A i \in 1..Len(u) :
        \/ i \in 1..Len(s) /\ u[i] = s[i]
        \/ i - Len(s) \in 1..Len(t) /\ u[i] = t[i - Len(s)]
  BY <1>1
<1>3. \A i \in 1..Len(s) : i \in 1..Len(u) /\ u[i] = s[i]
  BY <1>1
<1>4. \A i \in 1..Len(t) : i + Len(s) \in 1..Len(u) /\ u[i + Len(s)] = t[i]
  BY <1>1
<1>5. /\ \A y : y \in Range(s) <=> \E i \in 1..Len(s) : s[i] = y
      /\ \A y : y \in Range(t) <=> \E i \in 1..Len(t) : t[i] = y
      /\ \A y : y \in Range(u) <=> \E i \in 1..Len(u) : u[i] = y
  BY <1>1, RangeOf
<1>6. Range(u) = Range(s) \union Range(t)
  <2>1. Range(u) \subseteq Range(s) \union Range(t)
    BY <1>2, <1>5
  <2>2. Range(s) \subseteq Range(u)
    BY <1>3, <1>5
  <2>3. Range(t) \subseteq Range(u)
    BY <1>4, <1>5
  <2> QED BY <2>1, <2>2, <2>3
<1>7. ASSUME IsInjective(s), IsInjective(t), Range(s) \intersect Range(t) = {}
      PROVE  IsInjective(u)
  <2> SUFFICES ASSUME NEW i \in 1..Len(u), NEW j \in 1..Len(u), u[i] = u[j]
               PROVE  i = j
    BY <1>1, RangeOf
  <2>1. /\ \A k, m \in 1..Len(s) : s[k] = s[m] => k = m
        /\ \A k, m \in 1..Len(t) : t[k] = t[m] => k = m
    BY <1>7, RangeOf
  <2>2. \A k \in 1..Len(s), m \in 1..Len(t) : s[k] # t[m]
    BY <1>5, <1>7
  <2>3. /\ \/ i \in 1..Len(s) /\ u[i] = s[i]
           \/ i - Len(s) \in 1..Len(t) /\ u[i] = t[i - Len(s)]
        /\ \/ j \in 1..Len(s) /\ u[j] = s[j]
           \/ j - Len(s) \in 1..Len(t) /\ u[j] = t[j - Len(s)]
    BY <1>2
  <2>4. CASE i \in 1..Len(s) /\ u[i] = s[i]
    BY <2>1, <2>2, <2>3, <2>4
  <2>5. CASE i - Len(s) \in 1..Len(t) /\ u[i] = t[i - Len(s)]
    <3>1. j - Len(s) \in 1..Len(t) /\ u[j] = t[j - Len(s)]
      BY <2>2, <2>3, <2>5
    <3>2. i - Len(s) = j - Len(s)
      BY <2>1, <2>5, <3>1
    <3> QED BY <1>1, <3>2
  <2> QED BY <2>3, <2>4, <2>5
<1> QED BY <1>1, <1>6, <1>7 DEF u

\* List_detach of any element closes the gap.
LEMMA RemoveAtRange ==
  ASSUME NEW S, NEW s \in Seq(S), NEW k \in 1..Len(s)
  PROVE  /\ RemoveAt(s, k) \in Seq(S)
         /\ Len(RemoveAt(s, k)) = Len(s) - 1
         /\ IsInjective(s) => /\ IsInjective(RemoveAt(s, k))
                              /\ Range(RemoveAt(s, k)) = Range(s) \ {s[k]}
<1> DEFINE a == SubSeq(s, 1, k - 1)
           b == SubSeq(s, k + 1, Len(s))
<1>1. Len(s) \in Nat /\ \A i \in 1..Len(s) : s[i] \in S
  BY LenProperties, ElementOfSeq
<1>2. /\ a \in Seq(S)
      /\ Len(a) = k - 1
      /\ \A i \in 1..(k - 1) : a[i] = s[i]
  <2>1. \A i \in 1..(k - 1) : s[i] \in S
    BY <1>1
  <2> QED BY <1>1, <2>1, SubSeqProperties
<1>3. /\ b \in Seq(S)
      /\ Len(b) = Len(s) - k
      /\ \A i \in 1..(Len(s) - k) : b[i] = s[k + i]
  <2>1. \A i \in (k + 1)..Len(s) : s[i] \in S
    BY <1>1
  <2> QED BY <1>1, <2>1, SubSeqProperties
<1> HIDE DEF a, b
<1>4. /\ a \o b \in Seq(S)
      /\ Len(a \o b) = Len(s) - 1
      /\ Range(a \o b) = Range(a) \union Range(b)
  <2>1. Len(a \o b) = Len(a) + Len(b)
    BY <1>2, <1>3, ConcatProperties
  <2>2. a \o b \in Seq(S) /\ Range(a \o b) = Range(a) \union Range(b)
    BY <1>2, <1>3, ConcatRange
  <2> QED BY <1>1, <1>2, <1>3, <2>1, <2>2
<1>5. ASSUME IsInjective(s)
      PROVE  IsInjective(a \o b) /\ Range(a \o b) = Range(s) \ {s[k]}
  <2>1. /\ \A y : y \in Range(s) <=> \E i \in 1..Len(s) : s[i] = y
        /\ \A y : y \in Range(a) <=> \E i \in 1..Len(a) : a[i] = y
        /\ \A y : y \in Range(b) <=> \E i \in 1..Len(b) : b[i] = y
    BY <1>2, <1>3, RangeOf
  <2>2. \A i, j \in 1..Len(s) : s[i] = s[j] => i = j
    BY <1>5, RangeOf
  <2>3. \A y \in Range(a) : \E i \in 1..Len(s) : i < k /\ s[i] = y
    BY <1>1, <1>2, <2>1
  <2>4. \A y \in Range(b) : \E i \in 1..Len(s) : i > k /\ s[i] = y
    <3> TAKE y \in Range(b)
    <3>1. PICK i \in 1..(Len(s) - k) : b[i] = y
      BY <1>3, <2>1
    <3>2. k + i \in 1..Len(s) /\ k + i > k /\ s[k + i] = y
      BY <1>1, <1>3, <3>1
    <3> QED BY <3>2
  <2>5. \A i \in 1..Len(s) : i < k => s[i] \in Range(a)
    BY <1>1, <1>2, <2>1
  <2>6. \A i \in 1..Len(s) : i > k => s[i] \in Range(b)
    <3> TAKE i \in 1..Len(s)
    <3> HAVE i > k
    <3>1. i - k \in 1..Len(b) /\ b[i - k] = s[i]
      BY <1>1, <1>3
    <3> QED BY <2>1, <3>1
  <2>7. Range(a) \intersect Range(b) = {}
    BY <2>2, <2>3, <2>4
  <2>8. IsInjective(a)
    BY <1>1, <1>2, <2>2, RangeOf
  <2>9. IsInjective(b)
    <3> SUFFICES ASSUME NEW i \in 1..Len(b), NEW j \in 1..Len(b), b[i] = b[j]
                 PROVE  i = j
      BY <1>3, RangeOf
    <3>1. k + i \in 1..Len(s) /\ k + j \in 1..Len(s) /\ s[k + i] = s[k + j]
      BY <1>1, <1>3
    <3> QED BY <2>2, <3>1
  <2>10. Range(a) \union Range(b) \subseteq Range(s) \ {s[k]}
    BY <2>1, <2>2, <2>3, <2>4
  <2>11. Range(s) \ {s[k]} \subseteq Range(a) \union Range(b)
    <3> SUFFICES ASSUME NEW y \in Range(s), y # s[k]
                 PROVE  y \in Range(a) \union Range(b)
      OBVIOUS
    <3>1. PICK i \in 1..Len(s) : s[i] = y
      BY <2>1
    <3>2. i < k \/ i > k
      BY <1>1, <3>1
    <3> QED BY <2>5, <2>6, <3>1, <3>2
  <2> QED BY <1>2, <1>3, <1>4, <2>7, <2>8, <2>9, <2>10, <2>11, ConcatRange
<1> QED BY <1>4, <1>5 DEF RemoveAt, a, b

\* A list with one element put in front.
LEMMA PushRange ==
  ASSUME NEW S, NEW s \in Seq(S), NEW x \in S
  PROVE  /\ <<x>> \o s \in Seq(S)
         /\ Range(<<x>> \o s) = Range(s) \union {x}
         /\ IsInjective(s) /\ x \notin Range(s) => IsInjective(<<x>> \o s)
<1>1. /\ <<x>> \in Seq(S)
      /\ Range(<<x>>) = {x}
      /\ IsInjective(<<x>>)
  BY DEF Range, IsInjective
<1> HIDE DEF Range
<1>2. /\ <<x>> \o s \in Seq(S)
      /\ Range(<<x>> \o s) = Range(<<x>>) \union Range(s)
      /\ IsInjective(<<x>>) /\ IsInjective(s) /\ Range(<<x>>) \intersect Range(s) = {}
           => IsInjective(<<x>> \o s)
  BY <1>1, ConcatRange
<1> QED BY <1>1, <1>2

=============================================================================
