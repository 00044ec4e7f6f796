------------------------------ MODULE ListSpec ------------------------------
(***************************************************************************)
(* What the linked lists of disastrOS promise: ordered lists of objects,   *)
(* no object on two of them or twice on one.                               *)
(***************************************************************************)
EXTENDS Integers, Sequences, FiniteSets, SequencesExt

CONSTANTS
  Lists,  \* the lists
  Items   \* the objects

VARIABLE contents  \* the objects of each list, in order

Init == contents = [l \in Lists |-> <<>>]

Placed == UNION {Range(contents[l]) : l \in Lists}

\* The object takes the k-th place of l.
Insert(l, k, item) ==
  /\ item \notin Placed
  /\ contents' = [contents EXCEPT ![l] = InsertAt(@, k, item)]

Detach(l, k) == contents' = [contents EXCEPT ![l] = RemoveAt(@, k)]

Next ==
  \E l \in Lists :
    \/ \E k \in 1..(Len(contents[l]) + 1), item \in Items : Insert(l, k, item)
    \/ \E k \in DOMAIN contents[l] : Detach(l, k)

Spec == Init /\ [][Next]_contents

=============================================================================
