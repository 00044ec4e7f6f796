--------------------------- MODULE KernelObjects ---------------------------
(***************************************************************************)
(* The life of a kernel object: PCB, timer, semaphore, descriptor. Each is *)
(* a block of a pool that begins with its links. It is allocated, moves    *)
(* between lists, spends time on none, as the running PCB does, and is     *)
(* freed. Here the handlers are taken apart into their calls, in any order *)
(* that keeps their two rules: insert or free only an object of your own   *)
(* that is on no list, and detach it only from the list it is on.          *)
(***************************************************************************)
EXTENDS PoolAllocator, LinkedList

CONSTANT Offsets  \* the pointers that are given back, as offsets

ASSUME ObjectsAssumption ==
  /\ Items = Blocks
  /\ Offsets \subseteq Int

objectVars == <<poolVars, listVars>>

ObjectsInit == PoolInit /\ ListInit

\* The alloc functions clear the links of the block they get.
Alloc(i) ==
  /\ GetBlock(i)
  /\ link' = [link EXCEPT ![i] = Unlinked]
  /\ UNCHANGED head

AllocFails == GetBlockNone /\ UNCHANGED listVars

\* An object on no list goes to a list, after any of its items or in front.
Insert(l, i) ==
  /\ i \in Detached \ Listed
  /\ \E prev \in OnList(l) \union {NULL} : List_insert(l, prev, i)
  /\ UNCHANGED poolVars

Detach(l, i) ==
  /\ i \in OnList(l)
  /\ List_detach(l, i)
  /\ UNCHANGED poolVars

\* Nobody frees an object that is on a list; any other pointer is given back.
\* This is the handlers' rule and not the pool's: PoolAllocator_releaseBlock would
\* accept an old pointer to a block that was given out again and is on a list.
Free(offset) ==
  /\ \A i \in Listed : offset # i * item_size
  /\ ReleaseBlock(offset) \/ ReleaseRefused(offset)
  /\ UNCHANGED listVars

ObjectsNext ==
  \/ \E i \in Items : Alloc(i)
  \/ AllocFails
  \/ \E l \in Lists, i \in Items : Insert(l, i) \/ Detach(l, i)
  \/ \E offset \in Offsets : Free(offset)

ObjectsSpec == ObjectsInit /\ [][ObjectsNext]_objectVars

-----------------------------------------------------------------------------
\* List_insert never refuses an object that is on no list, because List_detach
\* clears the links. The handlers go on with half of their work done when it
\* refuses, or drop the object: their error branches are dead for this reason.
InsertAccepted == \A i \in Detached \ Listed : link[i] = Unlinked

\* As long as no object on a list is freed, the pool gives out no block that is on
\* one: it would be two objects, and its new owner would clear the links. So a
\* release of what is free already must not chain a block twice, to be given out
\* twice later. (The pool cannot tell an old pointer to a block that was given out
\* again: that the handlers release no such pointer, the rule of Free, is up to
\* OnePlaceEach, DescriptorsConsistent, ResourcesConsistent and ReapedByOwner.)
NoBlockShared == [][\A i \in Items : Alloc(i) => i \notin Listed]_objectVars

\* The linked lists are sequences.
Abstract == INSTANCE ListSpec WITH contents <- [l \in Lists |-> Contents(l)]
ImplementsLists == Abstract!Spec

=============================================================================
