---------------------------- MODULE MCProcesses ----------------------------
(* A small instance of the processes for TLC. *)
EXTENDS Processes

CONSTANTS p0, p1, p2, p3

MCProcs == {p0, p1, p2, p3}
MCWaitPids == {0, 2}

\* The PCBs are interchangeable.
MCSymmetry == Permutations(MCProcs)

=============================================================================
