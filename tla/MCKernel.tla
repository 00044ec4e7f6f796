------------------------------ MODULE MCKernel ------------------------------
(* A small instance of the whole kernel for TLC. *)
EXTENDS Kernel

CONSTANTS p0, p1, p2, d1, d2, r1, r2, f1, f2

MCProcs == {p0, p1, p2}
MCOneTick == {1}
MCAnyChild == {0}
MCSemDescs == {d1, d2}
MCResDescs == {r1, r2}
MCResIds == {f1, f2}
MCOne == {1}
MCZero == {0}
MCFds == {0}
\* Find a resource; DSOS_WRITE, which creates one; and DSOS_EXCL.
MCModes == {0, 3, 4}

\* The PCBs, the blocks of each pool and the resource ids are interchangeable.
MCSymmetry == Permutations(MCProcs) \union Permutations(MCSemDescs)
              \union Permutations(MCResDescs) \union Permutations(MCResIds)

\* Bound of the model: no more than three descriptors are in use.
MCFewOpen ==
  Cardinality(FreeDescs) + Cardinality({d \in ResDescs : res_descriptor[d] = NULL}) > 0

\* What the future of a state depends on, and the invariants read. A return
\* value is read by its process only, the number of a call only while the process
\* is blocked in it, a pid by nobody as long as all wait for any child, and
\* the parent and the next numbers of a dead process are set anew before they
\* are read.
MCDead == zombie_list \union Range(free_pcbs)
MCView ==
  <<schedVars, fault, init_pcb, last_pid, children, zombie_list, free_pcbs, free_ptrs,
    semaphores, count, descriptors, waiting_descriptors, sem_descriptors, descriptor,
    resource_type, res_descriptors, pcb_descriptors, res_descriptor,
    [p \in Procs \ MCDead |-> <<parent[p], last_sem_fd[p], last_fd[p]>>],
    [p \in Procs |-> IF p \in waiting_list THEN syscall[p].num
                     ELSE IF syscall[p] = NoCall THEN "user" ELSE "kernel"]>>

=============================================================================
