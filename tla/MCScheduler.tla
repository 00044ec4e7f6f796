---------------------------- MODULE MCScheduler ----------------------------
(* A small instance of the scheduler for TLC. *)
EXTENDS Scheduler

CONSTANTS p1, p2, p3, p4

MCProcs == {p1, p2, p3, p4}
MCSleepTimes == {0, 1, 2}

=============================================================================
