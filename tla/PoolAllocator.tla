--------------------------- MODULE PoolAllocator ---------------------------
(***************************************************************************)
(* The allocator behind every object of the kernel: a buffer of num_items  *)
(* blocks of item_size bytes, and an array of indices that chains the free *)
(* blocks. A block is named by its index; a pointer is its offset from the *)
(* start of the buffer.                                                    *)
(***************************************************************************)
EXTENDS Integers, FiniteSets

CONSTANTS
  num_items,  \* the number of blocks
  item_size   \* the bytes of a block

ASSUME PoolAssumption ==
  /\ num_items \in Nat \ {0}
  /\ item_size \in Nat \ {0}

VARIABLES
  free_list,  \* the index of the next free block, or NullIdx, or DetachedIdx
  first_idx,  \* the first free block, or NullIdx
  free_size   \* PoolAllocator.size, the number of free blocks

poolVars == <<free_list, first_idx, free_size>>

NullIdx     == -1
DetachedIdx == -2
Blocks == 0..(num_items - 1)

PoolInit ==
  /\ free_list = [i \in Blocks |-> IF i = num_items - 1 THEN NullIdx ELSE i + 1]
  /\ first_idx = 0
  /\ free_size = num_items

\* The first free block is handed out.
GetBlock(i) ==
  /\ first_idx = i
  /\ i # NullIdx
  /\ first_idx' = free_list[i]
  /\ free_list' = [free_list EXCEPT ![i] = DetachedIdx]
  /\ free_size' = free_size - 1

\* The pool is empty: the call returns a null pointer.
GetBlockNone == first_idx = NullIdx /\ UNCHANGED poolVars

\* The pointer is one that the allocator handed out and has not got back.
Releasable_Twice(offset) == \* a bug: takes a block that is free already
  /\ offset % item_size = 0
  /\ offset \div item_size \in Blocks
Releasable(offset) ==
  /\ offset % item_size = 0
  /\ offset \div item_size \in Blocks
  /\ free_list[offset \div item_size] = DetachedIdx

\* The block becomes the first free one.
ReleaseBlock_LosesList(offset) == \* a bug: forgets the other free blocks
  LET idx == offset \div item_size
  IN  /\ Releasable(offset)
      /\ free_list' = [free_list EXCEPT ![idx] = NullIdx]
      /\ first_idx' = idx
      /\ free_size' = free_size + 1
ReleaseBlock(offset) ==
  LET idx == offset \div item_size
  IN  /\ Releasable(offset)
      /\ free_list' = [free_list EXCEPT ![idx] = first_idx]
      /\ first_idx' = idx
      /\ free_size' = free_size + 1

\* UnalignedFree, OutOfRange or DoubleFree.
ReleaseRefused(offset) == ~Releasable(offset) /\ UNCHANGED poolVars

\* The pool alone, with callers that release any pointer at any time: one that was
\* released before, also when its block was given out again in between.
PoolNext ==
  \/ \E i \in Blocks : GetBlock(i)
  \/ GetBlockNone
  \/ \E offset \in Int : ReleaseBlock(offset) \/ ReleaseRefused(offset)
PoolSpec == PoolInit /\ [][PoolNext]_poolVars

-----------------------------------------------------------------------------
Detached == {i \in Blocks : free_list[i] = DetachedIdx}

\* The block that is reached from first_idx in n steps, or NullIdx.
FreeBlock[n \in Nat] ==
  IF n = 0 THEN first_idx
  ELSE IF FreeBlock[n - 1] = NullIdx THEN NullIdx ELSE free_list[FreeBlock[n - 1]]

\* The chain of free blocks has no loop and misses none: it visits exactly the
\* blocks that are not handed out, each of them once, and size counts them. No
\* block is then given out again before it is given back, and none is lost.
FreeListComplete ==
  LET chain == {FreeBlock[n] : n \in 0..(num_items - 1)} \ {NullIdx}
  IN  /\ chain = Blocks \ Detached
      /\ free_size = Cardinality(chain)
      /\ FreeBlock[num_items] = NullIdx

=============================================================================
