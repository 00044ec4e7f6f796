----------------------------- MODULE Semaphores -----------------------------
(***************************************************************************)
(* The semaphores of disastrOS on top of its scheduler: semOpen, semClose, *)
(* semWait and semPost, the list of semaphores, the descriptors each       *)
(* process holds and the queue of the descriptors that wait.               *)
(*                                                                         *)
(* A SemDescriptor and its SemDescriptorPtr are one object here: the two   *)
(* pools have the same size, and both blocks are taken and given back in   *)
(* the same handler. A semaphore is known by its id: SemaphoreList_byId    *)
(* keeps the ids of the list distinct, and DescriptorsConsistent shows     *)
(* that no descriptor outlives its semaphore.                              *)
(***************************************************************************)
EXTENDS Scheduler

CONSTANTS
  SemIds,         \* the semaphore ids in use, none negative
  OpenIds,        \* the ids passed to semOpen: of SemIds, or negative
  InitCounts,     \* the counters given to semOpen: the code takes any int
  Fds,            \* the file descriptors passed to the calls
  Descs,          \* the blocks of the two descriptor pools
  MaxSemaphores,  \* MAX_NUM_SEMAPHORES, the size of the semaphore pool
  MaxCount        \* bound of the model: no post on a semaphore that has it

SemDescriptor == [pcb : Procs, fd : Int, sem : SemIds]

ASSUME SemaphoresAssumption ==
  /\ SemIds \subseteq Nat
  /\ OpenIds \subseteq Int /\ OpenIds \intersect Nat \subseteq SemIds
  /\ InitCounts \subseteq Int
  /\ Fds \subseteq Int
  /\ IsFiniteSet(Descs) /\ NULL \notin Descs
  /\ NULL \notin SemDescriptor /\ NULL \notin [owner : Procs, sem : SemIds]
  /\ MaxSemaphores \in Nat
  /\ MaxCount \in Nat

VARIABLES
  semaphores,           \* the ids of the semaphores in semaphores_list
  count,                \* Semaphore.count, 0 outside the list
  descriptors,          \* Semaphore.descriptors: nothing reads their order
  waiting_descriptors,  \* Semaphore.waiting_descriptors, the first come first
  sem_descriptors,      \* PCB.sem_descriptors, in the order of the list
  last_sem_fd,          \* PCB.last_sem_fd
  descriptor            \* the content of each pool block, NULL when free

semVars == <<semaphores, count, descriptors, waiting_descriptors,
             sem_descriptors, last_sem_fd, descriptor>>
allVars == <<vars, semVars>>

DSOS_EWRONG_ID     == -14
DSOS_ESEM_ALLOC    == -15
DSOS_ESEM_DES_ALLOC == -16
DSOS_ESEM_DES_LIST == -19

\* No semaphore is open.
NoSemaphores ==
  /\ semaphores = {}
  /\ count = [s \in SemIds |-> 0]
  /\ descriptors = [s \in SemIds |-> {}]
  /\ waiting_descriptors = [s \in SemIds |-> <<>>]
  /\ sem_descriptors = [p \in Procs |-> <<>>]
  /\ last_sem_fd = [p \in Procs |-> 0]
  /\ descriptor = [d \in Descs |-> NULL]

SemInit == Init /\ NoSemaphores

-----------------------------------------------------------------------------
(***************************************************************************)
(* Helpers of the handlers.                                                *)
(***************************************************************************)

\* The i-th descriptor of p is the one SemDescriptorList_byFd returns for fd.
ByFd(p, fd, i) ==
  /\ i \in DOMAIN sem_descriptors[p]
  /\ descriptor[sem_descriptors[p][i]].fd = fd
  /\ \A j \in 1..(i - 1) : descriptor[sem_descriptors[p][j]].fd # fd

\* The process has no such descriptor: the call fails and changes nothing.
UnknownFd(p, fd) ==
  /\ \A i \in DOMAIN sem_descriptors[p] : ~ByFd(p, fd, i)
  /\ Answer(p, DSOS_ESEM_DES_LIST)
  /\ UNCHANGED semVars

-----------------------------------------------------------------------------
(***************************************************************************)
(* semOpen.                                                                *)
(***************************************************************************)

\* The semaphore is in the list after this: found there, or new.
SemaphoreReady_AnyId(id, counter) ==  \* a bug: takes a negative id
  /\ id \in semaphores \/ Cardinality(semaphores) < MaxSemaphores
  /\ semaphores' = semaphores \union {id}
  /\ count' = IF id \in semaphores THEN count ELSE [count EXCEPT ![id] = counter]
SemaphoreReady_Again(id, counter) ==  \* a bug: a later open sets the counter again
  /\ id >= 0
  /\ id \in semaphores \/ Cardinality(semaphores) < MaxSemaphores
  /\ semaphores' = semaphores \union {id}
  /\ count' = [count EXCEPT ![id] = counter]
SemaphoreReady(id, counter) ==
  /\ id >= 0
  /\ id \in semaphores \/ Cardinality(semaphores) < MaxSemaphores
  /\ semaphores' = semaphores \union {id}
  /\ count' = IF id \in semaphores THEN count ELSE [count EXCEPT ![id] = counter]

SemOpenWrongId(p, id) ==
  /\ id < 0
  /\ Answer(p, DSOS_EWRONG_ID)
  /\ UNCHANGED semVars

SemOpenNoSemaphore(p, id) ==
  /\ id >= 0
  /\ id \notin semaphores
  /\ Cardinality(semaphores) >= MaxSemaphores
  /\ Answer(p, DSOS_ESEM_ALLOC)
  /\ UNCHANGED semVars

\* A free block: which one the pool gives is of no account to anybody.
FreeDescs == {d \in Descs : descriptor[d] = NULL}

\* The descriptor pool is empty. A semaphore made for this call stays.
SemOpenNoDescriptor(p, id, counter) ==
  /\ FreeDescs = {}
  /\ SemaphoreReady(id, counter)
  /\ Answer(p, DSOS_ESEM_DES_ALLOC)
  /\ UNCHANGED <<descriptors, waiting_descriptors, sem_descriptors,
                 last_sem_fd, descriptor>>

SemOpenDescriptor_SameFd(p, id, counter) ==  \* a bug: last_sem_fd stays
  /\ SemaphoreReady(id, counter)
  /\ \E d \in FreeDescs :
       LET fd == last_sem_fd[p]
       IN  /\ descriptor' = [descriptor EXCEPT ![d] = [pcb |-> p, fd |-> fd, sem |-> id]]
           /\ sem_descriptors' = [sem_descriptors EXCEPT ![p] = Append(@, d)]
           /\ descriptors' = [descriptors EXCEPT ![id] = @ \union {d}]
           /\ Answer(p, fd)
  /\ UNCHANGED <<waiting_descriptors, last_sem_fd>>
SemOpenDescriptor(p, id, counter) ==
  /\ SemaphoreReady(id, counter)
  /\ \E d \in FreeDescs :
       LET fd == last_sem_fd[p]
       IN  /\ descriptor' = [descriptor EXCEPT ![d] = [pcb |-> p, fd |-> fd, sem |-> id]]
           /\ sem_descriptors' = [sem_descriptors EXCEPT ![p] = Append(@, d)]
           /\ descriptors' = [descriptors EXCEPT ![id] = @ \union {d}]
           /\ last_sem_fd' = [last_sem_fd EXCEPT ![p] = fd + 1]
           /\ Answer(p, fd)
  /\ UNCHANGED waiting_descriptors

SemOpen(p, id, counter) ==
  /\ Syscall(p, "SEMOPEN", id)
  /\ \/ SemOpenWrongId(p, id)
     \/ SemOpenNoSemaphore(p, id)
     \/ SemOpenNoDescriptor(p, id, counter)
     \/ SemOpenDescriptor(p, id, counter)

-----------------------------------------------------------------------------
(***************************************************************************)
(* semClose.                                                               *)
(***************************************************************************)

\* The last descriptor of s went: the semaphore leaves the list, and with it
\* its count. A semaphore with waiters stays.
ReleaseSemaphore_Waited(s) ==  \* a bug: frees a semaphore that has waiters
  LET unused == descriptors'[s] = {}
  IN  /\ semaphores' = IF unused THEN semaphores \ {s} ELSE semaphores
      /\ count' = IF unused THEN [count EXCEPT ![s] = 0] ELSE count
ReleaseSemaphore(s) ==
  LET unused == descriptors'[s] = {} /\ waiting_descriptors[s] = <<>>
  IN  /\ semaphores' = IF unused THEN semaphores \ {s} ELSE semaphores
      /\ count' = IF unused THEN [count EXCEPT ![s] = 0] ELSE count

SemCloseFound(p, fd) ==
  \E i \in DOMAIN sem_descriptors[p] :
    LET d == sem_descriptors[p][i]
        s == descriptor[d].sem
    IN  /\ ByFd(p, fd, i)
        /\ sem_descriptors' = [sem_descriptors EXCEPT ![p] = RemoveAt(@, i)]
        /\ descriptors' = [descriptors EXCEPT ![s] = @ \ {d}]
        /\ descriptor' = [descriptor EXCEPT ![d] = NULL]
        /\ ReleaseSemaphore(s)
        /\ last_sem_fd' = [last_sem_fd EXCEPT ![p] = @ - 1]
        /\ Answer(p, 0)
        /\ UNCHANGED waiting_descriptors

SemClose(p, fd) ==
  /\ Syscall(p, "SEMCLOSE", fd)
  /\ UnknownFd(p, fd) \/ SemCloseFound(p, fd)

-----------------------------------------------------------------------------
(***************************************************************************)
(* semWait.                                                                *)
(***************************************************************************)

\* A unit is there: the process goes on.
SemWaitTake_Last(p, d) ==  \* a bug: takes the unit below the last one
  /\ count[descriptor[d].sem] >= 0
  /\ count' = [count EXCEPT ![descriptor[d].sem] = @ - 1]
  /\ Answer(p, 0)
  /\ UNCHANGED <<descriptors, waiting_descriptors>>
SemWaitTake(p, d) ==
  /\ count[descriptor[d].sem] > 0
  /\ count' = [count EXCEPT ![descriptor[d].sem] = @ - 1]
  /\ Answer(p, 0)
  /\ UNCHANGED <<descriptors, waiting_descriptors>>

\* The descriptor moves from the active ones to the end of the queue.
JoinQueue_First(s, d) ==  \* a bug: the last comer is served first
  /\ descriptors' = [descriptors EXCEPT ![s] = @ \ {d}]
  /\ waiting_descriptors' = [waiting_descriptors EXCEPT ![s] = <<d>> \o @]
JoinQueue(s, d) ==
  /\ descriptors' = [descriptors EXCEPT ![s] = @ \ {d}]
  /\ waiting_descriptors' = [waiting_descriptors EXCEPT ![s] = Append(@, d)]

\* No unit is there: p waits, and the return value 0 goes to the process that
\* runs next, whatever call that process is in.
SemWaitBlock(p, d) ==
  LET s == descriptor[d].sem
  IN  /\ count[s] <= 0
      /\ count' = [count EXCEPT ![s] = @ - 1]
      /\ JoinQueue(s, d)
      /\ Block(p)
      /\ RunNext
      /\ syscall_retvalue' = [syscall_retvalue EXCEPT ![running'] = 0]
      /\ UNCHANGED <<timer_list, fault>>

\* No unit and no ready process: List_detach gets the null head of the list.
SemWaitNobodyReady(p, d) ==
  /\ count[descriptor[d].sem] <= 0
  /\ ready_list = <<>>
  /\ Crash
  /\ UNCHANGED <<count, descriptors, waiting_descriptors>>

SemWait(p, fd) ==
  /\ Syscall(p, "SEMWAIT", fd)
  /\ \/ UnknownFd(p, fd)
     \/ /\ \E i \in DOMAIN sem_descriptors[p] :
             LET d == sem_descriptors[p][i]
             IN  /\ ByFd(p, fd, i)
                 /\ SemWaitTake(p, d) \/ SemWaitBlock(p, d) \/ SemWaitNobodyReady(p, d)
        /\ UNCHANGED <<semaphores, sem_descriptors, last_sem_fd, descriptor>>

-----------------------------------------------------------------------------
(***************************************************************************)
(* semPost.                                                                *)
(***************************************************************************)

\* Nobody waits: the unit is kept.
SemPostKeep_Early(p, d) ==  \* a bug: compares the new count with < 0, not <= 0
  /\ count[descriptor[d].sem] >= -1
  /\ count' = [count EXCEPT ![descriptor[d].sem] = @ + 1]
  /\ Answer(p, 0)
  /\ UNCHANGED <<descriptors, waiting_descriptors>>
SemPostKeep(p, d) ==
  /\ count[descriptor[d].sem] >= 0
  /\ count' = [count EXCEPT ![descriptor[d].sem] = @ + 1]
  /\ Answer(p, 0)
  /\ UNCHANGED <<descriptors, waiting_descriptors>>

\* The first descriptor of the queue is active again.
LeaveQueue_Stays(s) ==  \* a bug: the descriptor is read, not detached
  /\ descriptors' = [descriptors EXCEPT ![s] = @ \union {Head(waiting_descriptors[s])}]
  /\ UNCHANGED waiting_descriptors
LeaveQueue(s) ==
  /\ descriptors' = [descriptors EXCEPT ![s] = @ \union {Head(waiting_descriptors[s])}]
  /\ waiting_descriptors' = [waiting_descriptors EXCEPT ![s] = Tail(@)]

\* A blocked process goes to the end of the ready list.
Unblock_StaysBlocked(p) ==  \* a bug: p stays on the waiting list
  /\ status' = [status EXCEPT ![p] = "Ready"]
  /\ ready_list' = EnqueueReady(ready_list, p)
  /\ UNCHANGED waiting_list
Unblock_NoStatus(p) ==  \* a bug: the status still says Waiting
  /\ waiting_list' = waiting_list \ {p}
  /\ ready_list' = EnqueueReady(ready_list, p)
  /\ UNCHANGED status
Unblock(p) ==
  /\ status' = [status EXCEPT ![p] = "Ready"]
  /\ waiting_list' = waiting_list \ {p}
  /\ ready_list' = EnqueueReady(ready_list, p)

\* The first process in the queue becomes ready; its unit is spent at once.
SemPostWake(p, d) ==
  LET s == descriptor[d].sem
  IN  /\ count[s] < 0
      /\ waiting_descriptors[s] # <<>>
      /\ count' = [count EXCEPT ![s] = @ + 1]
      /\ LeaveQueue(s)
      /\ Unblock(descriptor[Head(waiting_descriptors[s])].pcb)
      /\ syscall_retvalue' = [syscall_retvalue EXCEPT ![p] = 0]
      /\ UNCHANGED <<running, timer_list, fault>>

\* The count is below zero and nobody waits, after semOpen took a negative
\* counter: List_detach gets the null head of the queue.
SemPostNobodyWaits_AtZero(p, d) ==  \* a bug: looks for a waiter at count 0
  /\ count[descriptor[d].sem] <= 0
  /\ waiting_descriptors[descriptor[d].sem] = <<>>
  /\ Crash
  /\ UNCHANGED <<count, descriptors, waiting_descriptors>>
SemPostNobodyWaits(p, d) ==
  /\ count[descriptor[d].sem] < 0
  /\ waiting_descriptors[descriptor[d].sem] = <<>>
  /\ Crash
  /\ UNCHANGED <<count, descriptors, waiting_descriptors>>

SemPost(p, fd) ==
  /\ Syscall(p, "SEMPOST", fd)
  /\ \/ UnknownFd(p, fd)
     \/ /\ \E i \in DOMAIN sem_descriptors[p] :
             LET d == sem_descriptors[p][i]
             IN  /\ ByFd(p, fd, i)
                 /\ count[descriptor[d].sem] < MaxCount
                 /\ SemPostKeep(p, d) \/ SemPostWake(p, d) \/ SemPostNobodyWaits(p, d)
        /\ UNCHANGED <<semaphores, sem_descriptors, last_sem_fd, descriptor>>

-----------------------------------------------------------------------------
(***************************************************************************)
(* The system: the scheduler's steps leave the semaphores alone.           *)
(***************************************************************************)

SemaphoreCall(p) ==
  \/ \E id \in OpenIds, c \in InitCounts : SemOpen(p, id, c)
  \/ \E fd \in Fds : SemClose(p, fd) \/ SemWait(p, fd) \/ SemPost(p, fd)

SemNext ==
  \/ Next /\ UNCHANGED semVars
  \/ \E p \in Procs \ Idle : SemaphoreCall(p)

\* Only the interval timer is sure to go on.
SemFairness == WF_allVars(TimerInterrupt /\ UNCHANGED semVars)

SemSpec == SemInit /\ [][SemNext]_allVars
SemFairSpec == SemSpec /\ SemFairness

-----------------------------------------------------------------------------
(***************************************************************************)
(* Invariants and the promise.                                             *)
(***************************************************************************)

\* Every variable holds values of its type, the scheduler's as well.
SemTypeOK ==
  /\ TypeOK
  /\ semaphores \subseteq SemIds
  /\ count \in [SemIds -> Int]
  /\ descriptors \in [SemIds -> SUBSET Descs]
  /\ waiting_descriptors \in [SemIds -> Seq(Descs)]
  /\ sem_descriptors \in [Procs -> Seq(Descs)]
  /\ last_sem_fd \in [Procs -> Int]
  /\ descriptor \in [Descs -> SemDescriptor \union {NULL}]

OpenOn(s) == {d \in Descs : descriptor[d] # NULL /\ descriptor[d].sem = s}

\* No list of the kernel holds a descriptor that went back to its pool, and no
\* descriptor outlives its semaphore: each one is in the list of its process,
\* once, and in exactly one of the two lists of its semaphore. The code keeps
\* these pointers by hand in semOpen, semClose, semWait and semPost.
DescriptorsConsistent ==
  /\ \A p \in Procs :
       /\ IsInjective(sem_descriptors[p])
       /\ Range(sem_descriptors[p]) =
            {d \in Descs : descriptor[d] # NULL /\ descriptor[d].pcb = p}
  /\ \A s \in SemIds :
       /\ IsInjective(waiting_descriptors[s])
       /\ descriptors[s] \intersect Range(waiting_descriptors[s]) = {}
       /\ descriptors[s] \union Range(waiting_descriptors[s]) = OpenOn(s)
       /\ s \notin semaphores => OpenOn(s) = {}

\* The counter below zero is the number of the processes in the queue, and
\* with a unit left nobody waits: no wake-up is lost and none is given twice.
\* (With counters that are not negative when semOpen takes them.)
CountMatchesWaiters ==
  \A s \in SemIds :
    Len(waiting_descriptors[s]) = IF count[s] < 0 THEN -count[s] ELSE 0

\* Whatever counters semOpen takes, no more processes wait than the counter
\* says: with a negative first counter there may be fewer, and semPost then
\* looks for a waiter that is not there, but a waiter is never overlooked.
WaitersWithinCount ==
  \A s \in SemIds :
    waiting_descriptors[s] # <<>> => Len(waiting_descriptors[s]) <= -count[s]

WaiterOf(s) == [i \in DOMAIN waiting_descriptors[s] |->
                  descriptor[waiting_descriptors[s][i]].pcb]
SemWaiters == UNION {Range(WaiterOf(s)) : s \in SemIds}

\* Nobody is queued twice, on one semaphore or on two.
QueuedOnce ==
  \A s \in SemIds :
    /\ IsInjective(WaiterOf(s))
    /\ \A t \in SemIds \ {s} : Range(WaiterOf(s)) \intersect Range(WaiterOf(t)) = {}

\* A blocked process waits for one thing: its timer, or one semaphore, where
\* it is queued once. Nobody is blocked with nothing to wake it, and nobody
\* who runs can be woken: semPost would move it while it is on the ready list.
BlockedOnce ==
  /\ waiting_list = TimerProcs \union SemWaiters
  /\ TimerProcs \intersect SemWaiters = {}
  /\ QueuedOnce

\* last_sem_fd, which semOpen uses as the next number, is the number of the
\* descriptors that the process holds, whichever one semClose closes: it does not
\* go below zero, and no number does. That is so for processes that begin with
\* no descriptor, as all do here. One whose PCB was used before may inherit
\* some that its last_sem_fd does not count (SemOpenNotNegative in Kernel).
FdsCounted ==
  /\ \A p \in Procs : last_sem_fd[p] = Len(sem_descriptors[p])
  /\ \A d \in Descs : descriptor[d] # NULL => descriptor[d].fd >= 0

\* No handler dereferences a null pointer, as long as one process never blocks
\* and no counter is negative: the test program spawns sleeperFunction so that
\* the ready list is never empty when a process sleeps or waits.
NoFault == ~fault

\* The semaphores keep the promise of SemaphoreSpec, in the order in which the
\* processes came, whatever the scheduler and the timers do.
Abstract == INSTANCE SemaphoreSpec WITH
  InitCounts <- {IF c > 0 THEN c ELSE 0 : c \in InitCounts},
  Handles <- Descs,
  exists  <- semaphores,
  value   <- [s \in SemIds |-> IF count[s] > 0 THEN count[s] ELSE 0],
  queue   <- [s \in SemIds |-> WaiterOf(s)],
  handle  <- [d \in Descs |->
                IF descriptor[d] = NULL THEN NULL
                ELSE [owner |-> descriptor[d].pcb, sem |-> descriptor[d].sem]]
Implements == Abstract!Spec

\* A process in the queue of a semaphore whose queue keeps moving gets the cpu
\* again: later waiters do not overtake it, and nothing keeps it on the ready
\* list after that.
QueueMoves(s) ==
  []<><<Len(waiting_descriptors'[s]) < Len(waiting_descriptors[s])>>_allVars
WaiterServed ==
  \A s \in SemIds, p \in Procs :
    QueueMoves(s) => (p \in Range(WaiterOf(s)) ~> running = p)

-----------------------------------------------------------------------------
(***************************************************************************)
(* What the documents and the comments say, and the code does not do. Each *)
(* one is checked by a run that finds it violated.                         *)
(***************************************************************************)

Returning(p, num) == syscall[p].num = num /\ syscall'[p] = NoCall

\* Relazione.txt:20: semWait returns 0 when all went well. internal_semWait
\* gives the 0 to the process that runs next; the one that waited returns what
\* an earlier call left in its PCB.
SemWaitReturnsZero ==
  [][\A p \in Procs : Returning(p, "SEMWAIT") =>
       syscall_retvalue[p] \in {0, DSOS_ESEM_DES_LIST}]_allVars

\* Relazione.txt:19: semWait decrements the semaphore of the given descriptor.
\* A descriptor must then name one semaphore of the process; semClose gives
\* numbers back that are still in use.
FdNamesOneSemaphore ==
  \A d, e \in Descs :
    /\ descriptor[d] # NULL
    /\ descriptor[e] # NULL
    /\ descriptor[d].pcb = descriptor[e].pcb
    /\ descriptor[d].fd = descriptor[e].fd
    => descriptor[d].sem = descriptor[e].sem

=============================================================================
