---------------------------- MODULE MCSemaphores ----------------------------
(* Small instances of the semaphores for TLC. *)
EXTENDS Semaphores

CONSTANTS p1, p2, p3, idle, d1, d2, d3

MCTwo == {p1, p2}
MCThree == {p1, p2, p3}
MCTwoWithIdle == {p1, p2, idle}
MCThreeWithIdle == {p1, p2, p3, idle}
MCIdle == {idle}
MCDescs3 == {d1, d2, d3}
MCOneSem == {1}
MCTwoSems == {1, 2}
MCThreeSems == {1, 2, 3}
MCThreeSemsAndWrong == {-1, 1, 2, 3}
MCZero == {0}
MCNegative == {-1, 0}
MCOneTick == {1}
MCFds == {0, 1}
MCFd0 == {0}

\* The processes and the pool blocks are interchangeable.
MCSymmetry == Permutations(MCThree) \union Permutations(MCDescs3)

\* What the future of a state depends on, and the invariants read: a return
\* value is read by its process only, and only for the number to use next, which
\* the process may choose here; the number of a call is read by nobody.
MCView == <<schedVars, fault, semVars, [p \in Procs |-> syscall[p] = NoCall]>>

\* Every worker has opened semaphore 1, with the counter 0, and has returned:
\* a state of SemSpec. The run that starts here follows what comes after it.
MCHolder == [p \in MCThree |-> CASE p = p1 -> d1 [] p = p2 -> d2 [] p = p3 -> d3]
MCOpened ==
  /\ Init
  /\ semaphores = {1}
  /\ count = [s \in SemIds |-> 0]
  /\ descriptors = [s \in SemIds |-> Descs]
  /\ waiting_descriptors = [s \in SemIds |-> <<>>]
  /\ sem_descriptors = [p \in Procs |-> IF p \in Idle THEN <<>> ELSE <<MCHolder[p]>>]
  /\ last_sem_fd = [p \in Procs |-> IF p \in Idle THEN 0 ELSE 1]
  /\ descriptor = [d \in Descs |-> [pcb |-> CHOOSE p \in MCThree : MCHolder[p] = d,
                                    fd |-> 0, sem |-> 1]]
MCOpenedSpec == MCOpened /\ [][SemNext]_allVars /\ SemFairness

=============================================================================
