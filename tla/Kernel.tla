------------------------------- MODULE Kernel -------------------------------
(***************************************************************************)
(* The whole kernel: processes that come and go, with their semaphores and *)
(* resources, on one scheduler. What is new here is where the parts meet:  *)
(*                                                                         *)
(*  - PCB_alloc clears the resource descriptors of the PCB it gives out,   *)
(*    and the next descriptor numbers, but not the semaphore descriptors;  *)
(*  - exit frees the resource descriptors of the process only if it frees  *)
(*    the PCB as well, and the semaphore descriptors never;                *)
(*  - when the last process that is awake goes to sleep, the trap returns  *)
(*    into main_context, and the system starts again over its old lists.   *)
(***************************************************************************)
EXTENDS Processes, Semaphores, Resources

kernelVars == <<vars, treeVars, semVars, resVars>>

KernelInit == ProcInit /\ NoSemaphores /\ NoResources

-----------------------------------------------------------------------------
(***************************************************************************)
(* The blocks that PCB_alloc gives out, and the first process.             *)
(***************************************************************************)

\* PCB_alloc gives out the block p: what it does to the descriptors.
AllocDescriptors_NoSemaphores(p) ==  \* a bug: drops the old list, closes nothing
  /\ pcb_descriptors' = [pcb_descriptors EXCEPT ![p] = <<>>]
  /\ last_fd' = [last_fd EXCEPT ![p] = 0]
  /\ last_sem_fd' = [last_sem_fd EXCEPT ![p] = 0]
  /\ sem_descriptors' = [sem_descriptors EXCEPT ![p] = <<>>]
  /\ UNCHANGED <<semaphores, count, descriptors, waiting_descriptors,
                 descriptor, resource_type, res_descriptors, res_descriptor>>
AllocDescriptors(p) ==
  /\ pcb_descriptors' = [pcb_descriptors EXCEPT ![p] = <<>>]
  /\ last_fd' = [last_fd EXCEPT ![p] = 0]
  /\ last_sem_fd' = [last_sem_fd EXCEPT ![p] = 0]
  /\ UNCHANGED <<semaphores, count, descriptors, waiting_descriptors,
                 sem_descriptors, descriptor,
                 resource_type, res_descriptors, res_descriptor>>

\* The lists of the system were initialised before main_context was saved, and
\* keep what they hold when it runs again.
SystemLists_Init ==  \* a bug: main_context is saved before the lists are initialised
  /\ waiting_list' = {}
  /\ timer_list' = <<>>
  /\ UNCHANGED ready_list
SystemLists == UNCHANGED <<ready_list, waiting_list, timer_list>>

\* main_context runs again after a trap that left no process: a new init gets
\* the cpu, on the first free PCB. With no free PCB, PCB_alloc meets the null
\* pointer.
Restart ==
  /\ ~fault
  /\ running = NULL
  /\ last_pid < MaxPid
  /\ \/ LET p == Head(free_pcbs)
        IN  /\ free_pcbs # <<>>
            /\ free_pcbs' = Tail(free_pcbs)
            /\ running' = p
            /\ init_pcb' = p
            /\ pid' = [pid EXCEPT ![p] = last_pid]
            /\ last_pid' = last_pid + 1
            /\ parent' = [parent EXCEPT ![p] = NULL]
            /\ children' = [children EXCEPT ![p] = <<>>]
            /\ status' = [status EXCEPT ![p] = "Running"]
            /\ syscall' = [syscall EXCEPT ![p] = NoCall]
            /\ AllocDescriptors(p)
            /\ SystemLists
            /\ UNCHANGED <<syscall_retvalue, fault, zombie_list, free_ptrs>>
     \/ /\ free_pcbs = <<>>
        /\ Crash
        /\ UNCHANGED <<syscall, treeVars, semVars, resVars>>

-----------------------------------------------------------------------------
(***************************************************************************)
(* spawn and exit.                                                         *)
(***************************************************************************)

KernelSpawn(p) ==
  /\ Spawn(p)
  /\ IF fault' THEN UNCHANGED <<semVars, resVars>>
               ELSE AllocDescriptors(Head(free_pcbs))

\* A waiting parent has taken p: the PCB is free, and its resources go.
ReleaseResources_First(p) ==  \* a bug: releases the first descriptor only
  /\ FreeDescriptors({pcb_descriptors[p][i] : i \in DOMAIN pcb_descriptors[p] \intersect {1}})
  /\ pcb_descriptors' = [pcb_descriptors EXCEPT ![p] = <<>>]
  /\ UNCHANGED <<resource_type, last_fd>>
ReleaseResources(p) ==
  /\ FreeDescriptors(Range(pcb_descriptors[p]))
  /\ pcb_descriptors' = [pcb_descriptors EXCEPT ![p] = <<>>]
  /\ UNCHANGED <<resource_type, last_fd>>

KernelExit(p) ==
  /\ Exit(p)
  /\ UNCHANGED semVars
  /\ IF p \in Range(free_pcbs') THEN ReleaseResources(p) ELSE UNCHANGED resVars

-----------------------------------------------------------------------------
KernelNext ==
  \/ Next /\ UNCHANGED <<treeVars, semVars, resVars>>
  \/ Restart
  \/ \E p \in Procs :
       \/ KernelSpawn(p)
       \/ KernelExit(p)
       \/ \E c \in WaitPids : Wait(p, c) /\ UNCHANGED <<semVars, resVars>>
       \/ SemaphoreCall(p) /\ UNCHANGED <<treeVars, resVars>>
       \/ ResourceCall(p) /\ UNCHANGED <<treeVars, semVars>>

KernelSpec == KernelInit /\ [][KernelNext]_kernelVars

-----------------------------------------------------------------------------
(***************************************************************************)
(* Properties.                                                             *)
(***************************************************************************)

WaitCallers == {p \in waiting_list : syscall[p].num = "WAIT"}

\* The waiting list is shared by three ways to block, each with a way of its
\* own to find whom it wakes: the timers, the queues of the semaphores, and the
\* parent pointer of a process that exits. Each blocked process is in exactly
\* one of these ways, and in one place of one queue, so that none of the three
\* wakes a process that waits for another. (Whether there is still somebody to
\* end the wait for a child is the question of WaitCanEnd.)
BlockedForOneReason ==
  /\ waiting_list = TimerProcs \union SemWaiters \union WaitCallers
  /\ TimerProcs \intersect SemWaiters = {}
  /\ WaitCallers \intersect (TimerProcs \union SemWaiters) = {}
  /\ QueuedOnce

\* The resource descriptors in use that no process has on its list.
LostDescriptors ==
  {d \in ResDescs : /\ res_descriptor[d] # NULL
                    /\ d \notin UNION {Range(pcb_descriptors[p]) : p \in Procs}}

\* The free PCB p is given out.
GivenOut(p) == p \in Range(free_pcbs) /\ p \notin Range(free_pcbs')

\* A descriptor is lost, and its resource can never be destroyed, only when
\* PCB_alloc clears the list of its holder's PCB; and a PCB is free with
\* descriptors on its list only if a zombie had it: the exit to a waiting parent
\* releases them, the exit to a zombie, which disastrOS_exit.c:74 would have do the
\* same, keeps them, and wait frees the PCB with them.
LostOnlyByReuse ==
  [][/\ \A d \in LostDescriptors' \ LostDescriptors :
          \E p \in Procs : GivenOut(p) /\ d \in Range(pcb_descriptors[p])
     /\ \A p \in Range(free_pcbs') \ Range(free_pcbs) :
          p \in zombie_list \/ pcb_descriptors'[p] = <<>>]_kernelVars

-----------------------------------------------------------------------------
(***************************************************************************)
(* What a document says, and the code does not do. A run finds it violated.*)
(***************************************************************************)

\* README.txt:138-139: on success semOpen returns a number that is not negative.
\* A process that closed a descriptor which its PCB had when it was given out
\* has the next number -1, and takes the answer of its next semOpen for an error.
SemOpenNotNegative ==
  [][\A d \in Descs : descriptor[d] = NULL /\ descriptor'[d] # NULL
       => syscall_retvalue'[descriptor'[d].pcb] >= 0]_kernelVars

=============================================================================
