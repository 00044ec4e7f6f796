-------------------------- MODULE MCKernelObjects --------------------------
(* A small instance of the kernel objects for TLC. *)
EXTENDS KernelObjects

MCLists == {"ready", "waiting"}
MCItems == 0..3
\* Every block, a pointer between two blocks, one before and one after the pool.
MCOffsets == {-2, 0, 1, 2, 4, 6, 8}

=============================================================================
