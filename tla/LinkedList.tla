----------------------------- MODULE LinkedList -----------------------------
(***************************************************************************)
(* The doubly linked lists of the kernel. The links are the first field of *)
(* each object, so an object is on one list at a time. List_insert and     *)
(* List_detach do not search: they trust their caller that the previous    *)
(* item is on the list, that the item is on it, or on none.                *)
(***************************************************************************)
EXTENDS Integers, Sequences, FiniteSets

CONSTANTS
  Lists,  \* the list heads
  Items,  \* the objects
  NULL    \* the null pointer

ASSUME ListAssumption ==
  /\ IsFiniteSet(Items)
  /\ NULL \notin Items

VARIABLES
  head,  \* ListHead: first, last and size
  link   \* ListItem: prev and next

listVars == <<head, link>>

Unlinked == [prev |-> NULL, next |-> NULL]

ListInit ==
  /\ head = [l \in Lists |-> [first |-> NULL, last |-> NULL, size |-> 0]]
  /\ link = [i \in Items |-> Unlinked]

\* The links after p->next = v, and after p->prev = v: nothing for a null p.
SetNext(links, p, v) == IF p = NULL THEN links ELSE [links EXCEPT ![p].next = v]
SetPrev(links, p, v) == IF p = NULL THEN links ELSE [links EXCEPT ![p].prev = v]

\* Insert item after prev, or at the front for a null prev. The code refuses an
\* item that still has a neighbour.
List_insert_NoBackLink(l, prev, item) == \* a bug: the next item's prev stays
  LET next == IF prev = NULL THEN head[l].first ELSE link[prev].next
  IN  /\ link[item] = Unlinked
      /\ link' = SetNext([link EXCEPT ![item] = [prev |-> prev, next |-> next]], prev, item)
      /\ head' = [head EXCEPT ![l] =
                   [first |-> IF prev = NULL THEN item ELSE @.first,
                    last  |-> IF next = NULL THEN item ELSE @.last,
                    size  |-> @.size + 1]]
List_insert(l, prev, item) ==
  LET next == IF prev = NULL THEN head[l].first ELSE link[prev].next
      own  == [link EXCEPT ![item] = [prev |-> prev, next |-> next]]
  IN  /\ link[item] = Unlinked
      /\ link' = SetPrev(SetNext(own, prev, item), next, item)
      /\ head' = [head EXCEPT ![l] =
                   [first |-> IF prev = NULL THEN item ELSE @.first,
                    last  |-> IF next = NULL THEN item ELSE @.last,
                    size  |-> @.size + 1]]

List_detach_KeepsLinks(l, item) == \* a bug: the item keeps its old links
  LET prev == link[item].prev
      next == link[item].next
  IN  /\ link' = SetPrev(SetNext(link, prev, next), next, prev)
      /\ head' = [head EXCEPT ![l] =
                   [first |-> IF item = @.first THEN next ELSE @.first,
                    last  |-> IF item = @.last THEN prev ELSE @.last,
                    size  |-> @.size - 1]]
List_detach_KeepsLast(l, item) == \* a bug: does not move the end of the list
  LET prev == link[item].prev
      next == link[item].next
      rest == SetPrev(SetNext(link, prev, next), next, prev)
  IN  /\ link' = [rest EXCEPT ![item] = Unlinked]
      /\ head' = [head EXCEPT ![l].first = IF item = @ THEN next ELSE @,
                              ![l].size = @ - 1]
List_detach(l, item) ==
  LET prev == link[item].prev
      next == link[item].next
      rest == SetPrev(SetNext(link, prev, next), next, prev)
  IN  /\ link' = [rest EXCEPT ![item] = Unlinked]
      /\ head' = [head EXCEPT ![l] =
                   [first |-> IF item = @.first THEN next ELSE @.first,
                    last  |-> IF item = @.last THEN prev ELSE @.last,
                    size  |-> @.size - 1]]

-----------------------------------------------------------------------------
\* The item that is reached from the head of l in n steps, or NULL.
ItemAt(l) ==
  LET at[n \in Nat] ==
        IF n = 0 THEN head[l].first
        ELSE IF at[n - 1] = NULL THEN NULL ELSE link[at[n - 1]].next
  IN  at

\* The items of l as a program meets them that follows next from the head.
Contents(l) ==
  [n \in {m \in 1..Cardinality(Items) : ItemAt(l)[m - 1] # NULL} |-> ItemAt(l)[n - 1]]

OnList(l) == {Contents(l)[n] : n \in DOMAIN Contents(l)}
Listed == UNION {OnList(l) : l \in Lists}

\* A list can be walked from either end and its size is right: prev is the
\* converse of next, and first, last and size agree with the items. The kernel
\* appends after last, and frees a semaphore by the size of its two lists.
ListsWellFormed ==
  \A l \in Lists :
    LET items == Contents(l)
        n == Len(items)
    IN  /\ ItemAt(l)[Cardinality(Items)] = NULL
        /\ head[l].size = n
        /\ head[l].last = IF n = 0 THEN NULL ELSE items[n]
        /\ \A k \in 1..n :
             link[items[k]].prev = IF k = 1 THEN NULL ELSE items[k - 1]

=============================================================================
