-------------------------- MODULE SemaphoresProofs --------------------------
(***************************************************************************)
(* The semaphores lose no descriptor, no waiter and no wake-up, for any    *)
(* number of processes, semaphores and pool blocks.                        *)
(***************************************************************************)
EXTENDS QueueLemmas, SchedulerProofs

\* All invariants together are inductive: that a running process is in no queue
\* needs the lists of the scheduler, and the lists need BlockedOnce, so that
\* semPost moves a process that is really blocked.
SemInv ==
  /\ SchedulerInv
  /\ SemTypes
  /\ DescriptorsConsistent
  /\ FdsCounted
  /\ WaitersWithinCount
  /\ BlockedOnce

\* The same with the lists of the scheduler apart from the queues, now and in the
\* next state.
LEMMA SemInvIs ==
  /\ SemInv <=> /\ SchedulerInv /\ QueueInv /\ FdsCounted
                /\ waiting_list = TimerProcs \union SemWaiters
                /\ TimerProcs \intersect SemWaiters = {}
  /\ SemInv' <=> /\ SchedulerInv' /\ QueueInv' /\ FdsCounted'
                 /\ waiting_list' = TimerProcs' \union SemWaiters'
                 /\ TimerProcs' \intersect SemWaiters' = {}
  BY DEF SemInv, QueueInv, BlockedOnce

-----------------------------------------------------------------------------
(***************************************************************************)
(* What the invariant says of a process that runs.                         *)
(***************************************************************************)

\* The running process stands in no queue.
LEMMA RunningIsNotQueued ==
  ASSUME SemInv, NEW p \in Procs, running = p
  PROVE  p \notin waiting_list /\ p \notin TimerProcs /\ p \notin SemWaiters
  BY DEF SemInv, SchedulerInv, OnOneList, BlockedOnce

\* What byFd finds for the running process is such a descriptor.
LEMMA CallerDescriptor ==
  ASSUME SemInv, NEW p \in Procs, running = p, NEW i \in DOMAIN sem_descriptors[p]
  PROVE  \E d \in Descs, s \in SemIds :
           /\ d = sem_descriptors[p][i]
           /\ i \in 1..Len(sem_descriptors[p])
           /\ Caller(p, d, s)
  BY SemInvIs, RunningIsNotQueued, CallerIs

\* A call that leaves the lists of the scheduler alone.
LEMMA QuietScheduler ==
  ASSUME SchedulerInv, UNCHANGED schedVars,
         syscall' \in [Procs -> [num : SyscallNums, arg : Int]],
         syscall_retvalue' \in [Procs -> Int],
         fault' \in BOOLEAN
  PROVE  SchedulerInv' /\ TimerProcs' = TimerProcs
  BY DEF SchedulerInv, TypeOK, OnOneList, StatusMatchesLists, TimersSorted, TimerProcs, schedVars

\* The handler answers the caller, or follows a null pointer.
LEMMA AnswerOrCrash ==
  ASSUME SchedulerInv, NEW p \in Procs, NEW num \in SyscallNums, NEW arg \in Int,
         Syscall(p, num, arg),
         Crash \/ \E v \in Int : Answer(p, v)
  PROVE  SchedulerInv' /\ TimerProcs' = TimerProcs /\ UNCHANGED schedVars
<1>1. syscall' \in [Procs -> [num : SyscallNums, arg : Int]]
  BY SyscallType DEF SchedulerInv, TypeOK
<1>2. UNCHANGED schedVars
  BY DEF Crash, Answer
<1>3. syscall_retvalue' \in [Procs -> Int] /\ fault' \in BOOLEAN
  BY DEF Crash, Answer, SchedulerInv, TypeOK
<1> QED BY <1>1, <1>2, <1>3, QuietScheduler

\* The invariant after a call that moves nobody.
LEMMA QuietCall ==
  ASSUME SemInv, NEW p \in Procs, NEW num \in SyscallNums, NEW arg \in Int,
         Syscall(p, num, arg),
         Crash \/ \E v \in Int : Answer(p, v),
         QueueInv', SemWaiters' = SemWaiters, FdsCounted'
  PROVE  SemInv'
<1>1. SchedulerInv' /\ TimerProcs' = TimerProcs /\ UNCHANGED schedVars
  BY AnswerOrCrash DEF SemInv
<1>2. UNCHANGED waiting_list
  BY <1>1 DEF schedVars
<1> QED BY <1>1, <1>2, SemInvIs

-----------------------------------------------------------------------------
(***************************************************************************)
(* The calls, one after the other, with the lists of the scheduler.        *)
(***************************************************************************)

\* A call that fails, or that follows a null pointer, changes no semaphore.
LEMMA FailedCall ==
  ASSUME SemInv, NEW p \in Procs, NEW num \in SyscallNums, NEW arg \in Int,
         Syscall(p, num, arg),
         Crash \/ \E v \in Int : Answer(p, v),
         UNCHANGED semVars
  PROVE  SemInv'
<1>1. QueueInv' /\ SemWaiters' = SemWaiters /\ FdsCounted'
  BY SemInvIs, FailedKeepsQueues
<1> QED BY <1>1, QuietCall

\* A call that changes a counter only: no unit is taken that is not there, and
\* none is kept while somebody waits.
LEMMA CountCall ==
  ASSUME SemInv, NEW p \in Procs, NEW num \in SyscallNums, NEW arg \in Int,
         Syscall(p, num, arg),
         \E v \in Int : Answer(p, v),
         NEW s \in SemIds, count[s] >= 0, NEW n \in Int,
         count' = [count EXCEPT ![s] = n],
         UNCHANGED <<semaphores, descriptors, waiting_descriptors,
                     sem_descriptors, last_sem_fd, descriptor>>
  PROVE  SemInv'
<1>1. QueueInv' /\ SemWaiters' = SemWaiters /\ FdsCounted'
  BY SemInvIs, CountKeepsQueues
<1> QED BY <1>1, QuietCall

\* semOpen with no descriptor left.
LEMMA OpenNoDescriptorStep ==
  ASSUME SemInv, NEW p \in Procs, NEW id \in OpenIds, NEW c \in InitCounts,
         Syscall(p, "SEMOPEN", id), SemOpenNoDescriptor(p, id, c)
  PROVE  SemInv'
<1>1. id \in Int /\ DSOS_ESEM_DES_ALLOC \in Int /\ "SEMOPEN" \in SyscallNums
  BY SemaphoresAssumption DEF DSOS_ESEM_DES_ALLOC, SyscallNums
<1>2. /\ QueueInv' /\ SemWaiters' = SemWaiters /\ FdsCounted'
      /\ Answer(p, DSOS_ESEM_DES_ALLOC)
  BY SemInvIs, NoDescriptorKeepsQueues
<1> QED BY <1>1, <1>2, QuietCall

\* semOpen with a descriptor to give.
LEMMA OpenDescriptorStep ==
  ASSUME SemInv, NEW p \in Procs, NEW id \in OpenIds, NEW c \in InitCounts,
         Syscall(p, "SEMOPEN", id), SemOpenDescriptor(p, id, c)
  PROVE  SemInv'
<1>1. id \in Int /\ "SEMOPEN" \in SyscallNums
  BY SemaphoresAssumption DEF SyscallNums
<1>2. /\ QueueInv' /\ SemWaiters' = SemWaiters /\ FdsCounted'
      /\ \E v \in Int : Answer(p, v)
  BY SemInvIs, OpenKeepsQueues
<1> QED BY <1>1, <1>2, QuietCall

\* semClose of a descriptor of the caller.
LEMMA CloseStep ==
  ASSUME SemInv, NEW p \in Procs, NEW fd \in Fds,
         Syscall(p, "SEMCLOSE", fd), SemCloseFound(p, fd)
  PROVE  SemInv'
<1>1. running = p /\ p \notin SemWaiters
  BY RunningIsNotQueued DEF Syscall
<1>2. fd \in Int /\ 0 \in Int /\ "SEMCLOSE" \in SyscallNums
  BY SemaphoresAssumption DEF SyscallNums
<1>3. QueueInv' /\ SemWaiters' = SemWaiters /\ FdsCounted' /\ Answer(p, 0)
  BY <1>1, SemInvIs, CloseKeepsQueues
<1> QED BY <1>2, <1>3, QuietCall

\* semWait with no unit left: the process joins the queue and goes to the waiting
\* list, and had no other reason to be there.
LEMMA WaitBlockStep ==
  ASSUME SemInv, NEW p \in Procs, NEW fd \in Fds, NEW d \in Descs, NEW s \in SemIds,
         Caller(p, d, s), Syscall(p, "SEMWAIT", fd), SemWaitBlock(p, d),
         UNCHANGED <<semaphores, sem_descriptors, last_sem_fd, descriptor>>
  PROVE  SemInv'
<1>1. running = p
  BY DEF Caller
<1>2. p \notin waiting_list /\ p \notin TimerProcs /\ p \notin SemWaiters
  BY <1>1, RunningIsNotQueued
<1>3. /\ QueueInv' /\ FdsCounted'
      /\ SemWaiters' = SemWaiters \union {p}
  BY <1>2, SemInvIs, BlockKeepsQueues
<1>4. /\ Block(p)
      /\ RunNext
      /\ syscall_retvalue' = [syscall_retvalue EXCEPT ![running'] = 0]
      /\ UNCHANGED <<timer_list, fault>>
  BY DEF SemWaitBlock
<1>5. SchedulerInv' /\ waiting_list' = waiting_list \union {p} /\ TimerProcs' = TimerProcs
  <2> USE SchedulerInvParts
  <2>1. ListsInv' /\ waiting_list' = waiting_list \union {p} /\ running' \in Procs
    BY <1>1, <1>4, ListsBlock DEF SemInv, RunNext
  <2>2. TimersInv' /\ TimerProcs' = TimerProcs
    BY <1>4, <2>1 DEF SemInv, TimersInv, TimersSorted, TimerProcs
  <2>3. syscall' \in [Procs -> [num : SyscallNums, arg : Int]]
    BY SemaphoresAssumption, SyscallType DEF SemInv, SyscallNums
  <2>4. syscall_retvalue' \in [Procs -> Int] /\ fault' \in BOOLEAN
    <3>1. syscall_retvalue \in [Procs -> Int] /\ fault \in BOOLEAN
      BY DEF SemInv
    <3>2. \A r \in Procs : [syscall_retvalue EXCEPT ![r] = 0] \in [Procs -> Int]
      BY <3>1
    <3>3. syscall_retvalue' \in [Procs -> Int]
      BY <1>4, <2>1, <3>2
    <3> QED BY <1>4, <3>1, <3>3
  <2>5. SchedulerInv'
    BY <2>1, <2>2, <2>3, <2>4 DEF SchedulerInv, TypeOK, ListsInv, TimersInv
  <2> QED BY <2>1, <2>2, <2>5
<1>6. /\ waiting_list' = TimerProcs' \union SemWaiters'
      /\ TimerProcs' \intersect SemWaiters' = {}
  BY <1>2, <1>3, <1>5, SemInvIs
<1> QED BY <1>3, <1>5, <1>6, SemInvIs

\* semPost moves a blocked process from the waiting to the ready list.
LEMMA ListsUnblock ==
  ASSUME ListsInv, NEW x \in waiting_list, Unblock(x), UNCHANGED running
  PROVE  ListsInv' /\ waiting_list' = waiting_list \ {x}
<1>1. /\ x \in Procs
      /\ waiting_list' = waiting_list \ {x}
      /\ ready_list' = Append(ready_list, x)
      /\ status' = [status EXCEPT ![x] = "Ready"]
  BY DEF Unblock, EnqueueReady, ListsInv
<1>2. ready_list \in Seq(Procs) /\ IsInjective(ready_list) /\ x \notin Range(ready_list)
  BY DEF ListsInv, OnOneList
<1>3. /\ ready_list' \in Seq(Procs)
      /\ Range(ready_list') = Range(ready_list) \union {x}
      /\ IsInjective(ready_list')
  BY <1>1, <1>2, AppendRange
<1>4. OnOneList'
  BY <1>1, <1>3 DEF ListsInv, OnOneList
<1>5. StatusMatchesLists' /\ status' \in [Procs -> {"Running", "Ready", "Waiting"}]
  BY <1>1 DEF ListsInv, StatusMatchesLists
<1> QED BY <1>1, <1>3, <1>4, <1>5 DEF ListsInv

\* semPost with somebody in the queue: the first one, who is blocked, wakes up.
LEMMA PostWakeStep ==
  ASSUME SemInv, NEW p \in Procs, NEW fd \in Fds, NEW d \in Descs, NEW s \in SemIds,
         Caller(p, d, s), Syscall(p, "SEMPOST", fd), SemPostWake(p, d),
         UNCHANGED <<semaphores, sem_descriptors, last_sem_fd, descriptor>>
  PROVE  SemInv'
<1>1. /\ QueueInv' /\ FdsCounted'
      /\ \E x \in SemWaiters : Unblock(x) /\ SemWaiters' = SemWaiters \ {x}
  BY SemInvIs, WakeKeepsQueues
<1>2. /\ syscall_retvalue' = [syscall_retvalue EXCEPT ![p] = 0]
      /\ UNCHANGED <<running, timer_list, fault>>
  BY DEF SemPostWake
<1>3. PICK x \in SemWaiters : Unblock(x) /\ SemWaiters' = SemWaiters \ {x}
  BY <1>1
<1>4. x \in waiting_list /\ x \notin TimerProcs
  BY SemInvIs
<1>5. SchedulerInv' /\ waiting_list' = waiting_list \ {x} /\ TimerProcs' = TimerProcs
  <2> USE SchedulerInvParts
  <2>1. ListsInv' /\ waiting_list' = waiting_list \ {x}
    BY <1>2, <1>3, <1>4, ListsUnblock DEF SemInv
  <2>2. TimersInv' /\ TimerProcs' = TimerProcs
    BY <1>2, <1>4, <2>1 DEF SemInv, TimersInv, TimersSorted, TimerProcs
  <2>3. syscall' \in [Procs -> [num : SyscallNums, arg : Int]]
    BY SemaphoresAssumption, SyscallType DEF SemInv, SyscallNums
  <2>4. syscall_retvalue' \in [Procs -> Int] /\ fault' \in BOOLEAN
    BY <1>2 DEF SemInv, SchedulerInv, TypeOK
  <2>5. SchedulerInv'
    BY <2>1, <2>2, <2>3, <2>4 DEF SchedulerInv, TypeOK, ListsInv, TimersInv
  <2> QED BY <2>1, <2>2, <2>5
<1>6. /\ waiting_list' = TimerProcs' \union SemWaiters'
      /\ TimerProcs' \intersect SemWaiters' = {}
  BY <1>3, <1>5, SemInvIs
<1> QED BY <1>1, <1>5, <1>6, SemInvIs

-----------------------------------------------------------------------------
(***************************************************************************)
(* The steps of the system.                                                *)
(***************************************************************************)

\* A call that finds no descriptor.
LEMMA UnknownFdStep ==
  ASSUME SemInv, NEW p \in Procs, NEW num \in SyscallNums, NEW fd \in Fds,
         Syscall(p, num, fd), UnknownFd(p, fd)
  PROVE  SemInv'
<1>1. fd \in Int /\ DSOS_ESEM_DES_LIST \in Int
  BY SemaphoresAssumption DEF DSOS_ESEM_DES_LIST
<1>2. (\E v \in Int : Answer(p, v)) /\ UNCHANGED semVars
  BY <1>1 DEF UnknownFd
<1> QED BY <1>1, <1>2, FailedCall

\* semOpen.
LEMMA OpenStep ==
  ASSUME SemInv, NEW p \in Procs, NEW id \in OpenIds, NEW c \in InitCounts, SemOpen(p, id, c)
  PROVE  SemInv'
<1>1. /\ Syscall(p, "SEMOPEN", id) /\ running = p
      /\ id \in Int /\ "SEMOPEN" \in SyscallNums
  BY SemaphoresAssumption DEF SemOpen, Syscall, SyscallNums
<1>2. CASE SemOpenWrongId(p, id) \/ SemOpenNoSemaphore(p, id)
  <2>1. (\E v \in Int : Answer(p, v)) /\ UNCHANGED semVars
    BY <1>2 DEF SemOpenWrongId, SemOpenNoSemaphore, DSOS_EWRONG_ID, DSOS_ESEM_ALLOC
  <2> QED BY <1>1, <2>1, FailedCall
<1>3. CASE SemOpenNoDescriptor(p, id, c)
  BY <1>1, <1>3, OpenNoDescriptorStep
<1>4. CASE SemOpenDescriptor(p, id, c)
  BY <1>1, <1>4, OpenDescriptorStep
<1> QED BY <1>2, <1>3, <1>4 DEF SemOpen

\* semClose.
LEMMA SemCloseStep ==
  ASSUME SemInv, NEW p \in Procs, NEW fd \in Fds, SemClose(p, fd)
  PROVE  SemInv'
<1>1. Syscall(p, "SEMCLOSE", fd) /\ running = p /\ "SEMCLOSE" \in SyscallNums
  BY DEF SemClose, Syscall, SyscallNums
<1>2. CASE UnknownFd(p, fd)
  BY <1>1, <1>2, UnknownFdStep
<1>3. CASE SemCloseFound(p, fd)
  BY <1>1, <1>3, CloseStep
<1> QED BY <1>2, <1>3 DEF SemClose

\* semWait.
LEMMA SemWaitStep ==
  ASSUME SemInv, NEW p \in Procs, NEW fd \in Fds, SemWait(p, fd)
  PROVE  SemInv'
<1>1. /\ Syscall(p, "SEMWAIT", fd) /\ running = p
      /\ fd \in Int /\ "SEMWAIT" \in SyscallNums
  BY SemaphoresAssumption DEF SemWait, Syscall, SyscallNums
<1>2. CASE UnknownFd(p, fd)
  BY <1>1, <1>2, UnknownFdStep
<1>3. CASE ~UnknownFd(p, fd)
  <2>1. /\ UNCHANGED <<semaphores, sem_descriptors, last_sem_fd, descriptor>>
        /\ \E i \in DOMAIN sem_descriptors[p] :
             \/ SemWaitTake(p, sem_descriptors[p][i])
             \/ SemWaitBlock(p, sem_descriptors[p][i])
             \/ SemWaitNobodyReady(p, sem_descriptors[p][i])
    BY <1>3 DEF SemWait
  <2>2. PICK d \in Descs, s \in SemIds :
          /\ Caller(p, d, s)
          /\ SemWaitTake(p, d) \/ SemWaitBlock(p, d) \/ SemWaitNobodyReady(p, d)
    BY <1>1, <2>1, CallerDescriptor
  <2>3. descriptor[d].sem = s /\ count \in [SemIds -> Int]
    BY <2>2 DEF Caller, SemInv, SemTypes
  <2>4. CASE SemWaitTake(p, d)
    <3>1. /\ count[s] >= 0
          /\ count[s] - 1 \in Int
          /\ count' = [count EXCEPT ![s] = count[s] - 1]
          /\ \E v \in Int : Answer(p, v)
          /\ UNCHANGED <<descriptors, waiting_descriptors>>
      BY <2>3, <2>4 DEF SemWaitTake
    <3> QED BY <1>1, <2>1, <3>1, CountCall
  <2>5. CASE SemWaitBlock(p, d)
    BY <1>1, <2>1, <2>2, <2>5, WaitBlockStep
  <2>6. CASE SemWaitNobodyReady(p, d)
    <3>1. Crash /\ UNCHANGED semVars
      BY <2>1, <2>6 DEF SemWaitNobodyReady, semVars
    <3> QED BY <1>1, <3>1, FailedCall
  <2> QED BY <2>2, <2>4, <2>5, <2>6
<1> QED BY <1>2, <1>3

\* semPost.
LEMMA SemPostStep ==
  ASSUME SemInv, NEW p \in Procs, NEW fd \in Fds, SemPost(p, fd)
  PROVE  SemInv'
<1>1. /\ Syscall(p, "SEMPOST", fd) /\ running = p
      /\ fd \in Int /\ "SEMPOST" \in SyscallNums
  BY SemaphoresAssumption DEF SemPost, Syscall, SyscallNums
<1>2. CASE UnknownFd(p, fd)
  BY <1>1, <1>2, UnknownFdStep
<1>3. CASE ~UnknownFd(p, fd)
  <2>1. /\ UNCHANGED <<semaphores, sem_descriptors, last_sem_fd, descriptor>>
        /\ \E i \in DOMAIN sem_descriptors[p] :
             \/ SemPostKeep(p, sem_descriptors[p][i])
             \/ SemPostWake(p, sem_descriptors[p][i])
             \/ SemPostNobodyWaits(p, sem_descriptors[p][i])
    BY <1>3 DEF SemPost
  <2>2. PICK d \in Descs, s \in SemIds :
          /\ Caller(p, d, s)
          /\ SemPostKeep(p, d) \/ SemPostWake(p, d) \/ SemPostNobodyWaits(p, d)
    BY <1>1, <2>1, CallerDescriptor
  <2>3. descriptor[d].sem = s /\ count \in [SemIds -> Int]
    BY <2>2 DEF Caller, SemInv, SemTypes
  <2>4. CASE SemPostKeep(p, d)
    <3>1. /\ count[s] >= 0
          /\ count[s] + 1 \in Int
          /\ count' = [count EXCEPT ![s] = count[s] + 1]
          /\ \E v \in Int : Answer(p, v)
          /\ UNCHANGED <<descriptors, waiting_descriptors>>
      BY <2>3, <2>4 DEF SemPostKeep
    <3> QED BY <1>1, <2>1, <3>1, CountCall
  <2>5. CASE SemPostWake(p, d)
    BY <1>1, <2>1, <2>2, <2>5, PostWakeStep
  <2>6. CASE SemPostNobodyWaits(p, d)
    <3>1. Crash /\ UNCHANGED semVars
      BY <2>1, <2>6 DEF SemPostNobodyWaits, semVars
    <3> QED BY <1>1, <3>1, FailedCall
  <2> QED BY <2>2, <2>4, <2>5, <2>6
<1> QED BY <1>2, <1>3

\* A step of the scheduler keeps the processes in the queues blocked.
LEMMA SchedulerKeeps ==
  ASSUME SemInv, Next, UNCHANGED semVars
  PROVE  SemInv'
<1>1. SchedulerInv' /\ waiting_list' \ TimerProcs' = waiting_list \ TimerProcs
  BY SchedulerStep DEF SemInv
<1>2. QueueInv' /\ SemWaiters' = SemWaiters /\ FdsCounted'
  BY SemInvIs, FailedKeepsQueues
<1>3. TimerProcs \subseteq waiting_list /\ TimerProcs' \subseteq waiting_list'
  BY <1>1 DEF SemInv, SchedulerInv, TimersSorted
<1>4. SemWaiters' = waiting_list' \ TimerProcs'
  BY <1>1, <1>2, SemInvIs
<1>5. waiting_list' = TimerProcs' \union SemWaiters' /\ TimerProcs' \intersect SemWaiters' = {}
  BY <1>3, <1>4
<1> QED BY <1>1, <1>2, <1>5, SemInvIs

\* Every step preserves the invariant and is a step of SemaphoreSpec, or none.
LEMMA SemStep ==
  ASSUME SemInv, SemNext
  PROVE  SemInv' /\ [Abstract!Next]_(Abstract!absVars)
<1>1. CASE Next /\ UNCHANGED semVars
  BY <1>1, SchedulerKeeps, FailedRefines, SemInvIs
<1>2. ASSUME NEW p \in Procs \ Idle, SemaphoreCall(p)
      PROVE  SemInv' /\ [Abstract!Next]_(Abstract!absVars)
  <2>1. ASSUME NEW id \in OpenIds, NEW c \in InitCounts, SemOpen(p, id, c)
        PROVE  SemInv' /\ running = p
    BY <2>1, OpenStep DEF SemOpen, Syscall
  <2>2. ASSUME NEW fd \in Fds, SemClose(p, fd) \/ SemWait(p, fd) \/ SemPost(p, fd)
        PROVE  SemInv' /\ running = p
    BY <2>2, SemCloseStep, SemWaitStep, SemPostStep DEF SemClose, SemWait, SemPost, Syscall
  <2>3. SemInv' /\ running = p
    BY <1>2, <2>1, <2>2 DEF SemaphoreCall
  <2>4. p \notin SemWaiters /\ QueueInv
    BY <2>3, RunningIsNotQueued, SemInvIs
  <2> QED BY <1>2, <2>3, <2>4, CallRefines
<1> QED BY <1>1, <1>2 DEF SemNext

\* At the start no descriptor is open and nobody is blocked.
LEMMA SemInitial == SemInit => SemInv /\ Abstract!Init
<1> SUFFICES ASSUME SemInit PROVE SemInv /\ Abstract!Init
  OBVIOUS
<1>1. SchedulerInv /\ waiting_list = {} /\ TimerProcs = {}
  BY SchedulerInit DEF SemInit, Init, TimerProcs
<1>2. QueueInv /\ SemWaiters = {} /\ FdsCounted /\ Abstract!Init
  BY NoSemaphoresInit DEF SemInit
<1> QED BY <1>1, <1>2, SemInvIs

\* Nothing happens to the semaphores or to the scheduler.
LEMMA SemStutter ==
  ASSUME SemInv, UNCHANGED allVars
  PROVE  SemInv'
<1>1. UNCHANGED vars /\ UNCHANGED semVars
  BY DEF allVars
<1>2. SchedulerInv'
  BY <1>1 DEF vars, SemInv, SchedulerInv, TypeOK, OnOneList, StatusMatchesLists,
              TimersSorted, TimerProcs
<1>3. QueueInv' /\ SemWaiters' = SemWaiters /\ FdsCounted'
  BY <1>1, SemInvIs, FailedKeepsQueues
<1>4. waiting_list' = waiting_list /\ TimerProcs' = TimerProcs
  BY <1>1 DEF vars, TimerProcs
<1> QED BY <1>2, <1>3, <1>4, SemInvIs

-----------------------------------------------------------------------------
(***************************************************************************)
(* The theorems.                                                           *)
(***************************************************************************)

\* The inductive invariant holds in every state of the semaphores.
THEOREM SemaphoresInvariant == SemSpec => []SemInv
<1>1. SemInv /\ [SemNext]_allVars => SemInv'
  BY SemStutter, SemStep
<1> QED BY <1>1, SemInitial, PTL DEF SemSpec

\* The semaphores keep the promise of SemaphoreSpec: units, queues in the order
\* of the arrivals, and handles, whatever the scheduler and the timers do.
THEOREM SemaphoresImplement == SemSpec => Implements
<1>1. SemInv /\ [SemNext]_allVars => [Abstract!Next]_(Abstract!absVars)
  <2>1. UNCHANGED allVars => UNCHANGED Abstract!absVars
    BY DEF allVars, semVars, Abstract!absVars, WaiterOf
  <2> QED BY <2>1, SemStep
<1>2. SemInit => Abstract!Init
  BY SemInitial
<1> QED BY <1>1, <1>2, SemaphoresInvariant, PTL DEF SemSpec, Implements, Abstract!Spec

\* Every variable of the semaphores and of the scheduler below has its type.
THEOREM SemaphoresTypeOK == SemSpec => []SemTypeOK
<1>1. SemInv => SemTypeOK
  BY DEF SemInv, SchedulerInv, SemTypes, SemTypeOK
<1> QED BY <1>1, SemaphoresInvariant, PTL

\* semWait and semPost lose no process either, and keep the status true.
THEOREM SemaphoresLists == SemSpec => []OnOneList /\ []StatusMatchesLists
<1>1. SemInv => OnOneList /\ StatusMatchesLists
  BY DEF SemInv, SchedulerInv
<1> QED BY <1>1, SemaphoresInvariant, PTL

\* Every open descriptor is in its two lists, and a free one in none.
THEOREM SemaphoresDescriptors == SemSpec => []DescriptorsConsistent
<1>1. SemInv => DescriptorsConsistent
  BY DEF SemInv
<1> QED BY <1>1, SemaphoresInvariant, PTL

\* last_sem_fd counts the open descriptors of each process, and no descriptor has
\* a negative number: for processes that begin with none, and while no PCB is
\* used again. (In Kernel, where one is, semOpen can answer -1.)
THEOREM SemaphoresFds == SemSpec => []FdsCounted
<1>1. SemInv => FdsCounted
  BY DEF SemInv
<1> QED BY <1>1, SemaphoresInvariant, PTL

\* Whatever counters semOpen takes, semPost overlooks no waiter.
THEOREM SemaphoresWaiters == SemSpec => []WaitersWithinCount
<1>1. SemInv => WaitersWithinCount
  BY DEF SemInv
<1> QED BY <1>1, SemaphoresInvariant, PTL

\* A blocked process waits for its timer or for one semaphore, and nobody is
\* blocked for nothing.
THEOREM SemaphoresBlockedOnce == SemSpec => []BlockedOnce
<1>1. SemInv => BlockedOnce
  BY DEF SemInv
<1> QED BY <1>1, SemaphoresInvariant, PTL

-----------------------------------------------------------------------------
(***************************************************************************)
(* With counters that are not negative.                                    *)
(***************************************************************************)

\* The number of the waiters of a semaphore, as its counter tells it.
Missing(c) == IF c < 0 THEN -c ELSE 0

\* Each call moves the counter and the queue together.
LEMMA CountStep ==
  ASSUME InitCounts \subseteq Nat, SemInv, CountMatchesWaiters, SemNext
  PROVE  CountMatchesWaiters'
<1> SUFFICES ASSUME NEW t \in SemIds
             PROVE  Len(waiting_descriptors'[t]) = Missing(count'[t])
  BY DEF CountMatchesWaiters, Missing
<1>1. /\ \A s \in SemIds : Len(waiting_descriptors[s]) = Missing(count[s])
      /\ \A s \in SemIds : waiting_descriptors[s] \in Seq(Descs)
      /\ \A s \in SemIds : Len(waiting_descriptors[s]) \in Nat
      /\ \A s \in SemIds : waiting_descriptors[s] = <<>> => Len(waiting_descriptors[s]) = 0
      /\ count \in [SemIds -> Int]
      /\ waiting_descriptors \in [SemIds -> Seq(Descs)]
  BY LenProperties, EmptySeq DEF CountMatchesWaiters, Missing, SemInv, SemTypes
<1>2. CASE UNCHANGED <<count, waiting_descriptors>>
  BY <1>1, <1>2
<1>3. CASE Next /\ UNCHANGED semVars
  BY <1>2, <1>3 DEF semVars
<1>4. ASSUME NEW p \in Procs \ Idle, NEW id \in OpenIds, NEW c \in InitCounts,
             SemOpen(p, id, c)
      PROVE  Len(waiting_descriptors'[t]) = Missing(count'[t])
  <2>1. CASE SemOpenWrongId(p, id) \/ SemOpenNoSemaphore(p, id)
    BY <1>2, <2>1 DEF SemOpenWrongId, SemOpenNoSemaphore, semVars
  <2>2. CASE SemaphoreReady(id, c) /\ UNCHANGED waiting_descriptors
    <3>1. /\ count'[t] = IF t = id /\ id \notin semaphores THEN c ELSE count[t]
          /\ id \notin semaphores => waiting_descriptors[id] = <<>>
          /\ id \in SemIds
      BY <2>2, SemInvIs, SemaphoreReadyStep
    <3>2. Missing(c) = 0
      BY DEF Missing
    <3> QED BY <1>1, <2>2, <3>1, <3>2
  <2> QED BY <1>4, <2>1, <2>2 DEF SemOpen, SemOpenNoDescriptor, SemOpenDescriptor
<1>5. ASSUME NEW p \in Procs \ Idle, NEW fd \in Fds,
             UnknownFd(p, fd)
      PROVE  Len(waiting_descriptors'[t]) = Missing(count'[t])
  BY <1>2, <1>5 DEF UnknownFd, semVars
<1>6. ASSUME NEW p \in Procs \ Idle, NEW fd \in Fds, SemClose(p, fd)
      PROVE  Len(waiting_descriptors'[t]) = Missing(count'[t])
  <2>1. CASE UnknownFd(p, fd)
    BY <1>5, <2>1
  <2>2. CASE SemCloseFound(p, fd)
    <3>1. running = p
      BY <1>6 DEF SemClose, Syscall
    <3>2. PICK i \in DOMAIN sem_descriptors[p] :
            /\ ReleaseSemaphore(descriptor[sem_descriptors[p][i]].sem)
            /\ UNCHANGED waiting_descriptors
      BY <2>2 DEF SemCloseFound
    <3>3. PICK s \in SemIds : ReleaseSemaphore(s)
      BY <3>1, <3>2, CallerDescriptor DEF Caller
    <3>4. count'[t] = count[t] \/ (count'[t] = 0 /\ waiting_descriptors[t] = <<>>)
      BY <1>1, <3>3 DEF ReleaseSemaphore
    <3> QED BY <1>1, <3>2, <3>4 DEF Missing
  <2> QED BY <1>6, <2>1, <2>2 DEF SemClose
<1>7. ASSUME NEW p \in Procs \ Idle, NEW fd \in Fds, SemWait(p, fd)
      PROVE  Len(waiting_descriptors'[t]) = Missing(count'[t])
  <2>1. CASE UnknownFd(p, fd)
    BY <1>5, <2>1
  <2>2. CASE ~UnknownFd(p, fd)
    <3>1. Syscall(p, "SEMWAIT", fd) /\ running = p
      BY <1>7 DEF SemWait, Syscall
    <3>2. PICK d \in Descs, s \in SemIds :
            /\ Caller(p, d, s)
            /\ SemWaitTake(p, d) \/ SemWaitBlock(p, d) \/ SemWaitNobodyReady(p, d)
      BY <1>7, <2>2, <3>1, CallerDescriptor DEF SemWait
    <3>3. descriptor[d].sem = s
      BY <3>2 DEF Caller
    <3>4. CASE SemWaitTake(p, d)
      BY <1>1, <3>3, <3>4 DEF SemWaitTake, Missing
    <3>5. CASE SemWaitBlock(p, d)
      <4>1. /\ count[s] <= 0
            /\ count' = [count EXCEPT ![s] = @ - 1]
            /\ waiting_descriptors' = [waiting_descriptors EXCEPT ![s] = Append(@, d)]
        BY <3>3, <3>5 DEF SemWaitBlock, JoinQueue
      <4>2. Len(Append(waiting_descriptors[s], d)) = Len(waiting_descriptors[s]) + 1
        BY <1>1, AppendProperties
      <4> QED BY <1>1, <4>1, <4>2 DEF Missing
    <3>6. CASE SemWaitNobodyReady(p, d)
      BY <1>2, <3>6 DEF SemWaitNobodyReady
    <3> QED BY <3>2, <3>4, <3>5, <3>6
  <2> QED BY <2>1, <2>2
<1>8. ASSUME NEW p \in Procs \ Idle, NEW fd \in Fds, SemPost(p, fd)
      PROVE  Len(waiting_descriptors'[t]) = Missing(count'[t])
  <2>1. CASE UnknownFd(p, fd)
    BY <1>5, <2>1
  <2>2. CASE ~UnknownFd(p, fd)
    <3>1. Syscall(p, "SEMPOST", fd) /\ running = p
      BY <1>8 DEF SemPost, Syscall
    <3>2. PICK d \in Descs, s \in SemIds :
            /\ Caller(p, d, s)
            /\ SemPostKeep(p, d) \/ SemPostWake(p, d) \/ SemPostNobodyWaits(p, d)
      BY <1>8, <2>2, <3>1, CallerDescriptor DEF SemPost
    <3>3. descriptor[d].sem = s
      BY <3>2 DEF Caller
    <3>4. CASE SemPostKeep(p, d)
      BY <1>1, <3>3, <3>4 DEF SemPostKeep, Missing
    <3>5. CASE SemPostWake(p, d)
      <4>1. /\ count[s] < 0
            /\ waiting_descriptors[s] # <<>>
            /\ count' = [count EXCEPT ![s] = @ + 1]
            /\ waiting_descriptors' = [waiting_descriptors EXCEPT ![s] = Tail(@)]
        BY <3>3, <3>5 DEF SemPostWake, LeaveQueue
      <4>2. Len(Tail(waiting_descriptors[s])) = Len(waiting_descriptors[s]) - 1
        BY <1>1, <4>1, TailRange
      <4> QED BY <1>1, <4>1, <4>2 DEF Missing
    <3>6. CASE SemPostNobodyWaits(p, d)
      BY <1>2, <3>6 DEF SemPostNobodyWaits
    <3> QED BY <3>2, <3>4, <3>5, <3>6
  <2> QED BY <2>1, <2>2
<1> QED BY <1>3, <1>4, <1>6, <1>7, <1>8 DEF SemNext, SemaphoreCall

\* With a process that never blocks, semWait finds somebody to run and semPost
\* somebody to wake.
LEMMA SomeoneRunsCall ==
  ASSUME InitCounts \subseteq Nat, Idle # {}, SemInv, CountMatchesWaiters, SomeoneRuns, SemNext
  PROVE  SomeoneRuns'
<1>1. CASE Next /\ UNCHANGED semVars
  BY <1>1, SomeoneRunsStep DEF SemInv
<1>2. ASSUME NEW p, NEW v, Answer(p, v)
      PROVE  SomeoneRuns'
  BY <1>2 DEF Answer, schedVars, SomeoneRuns
<1>3. ASSUME NEW p \in Procs \ Idle, NEW id \in OpenIds, NEW c \in InitCounts,
             SemOpen(p, id, c)
      PROVE  SomeoneRuns'
  BY <1>2, <1>3 DEF SemOpen, SemOpenWrongId, SemOpenNoSemaphore, SemOpenNoDescriptor,
                    SemOpenDescriptor
<1>4. ASSUME NEW p \in Procs \ Idle, NEW fd \in Fds, UnknownFd(p, fd) \/ SemClose(p, fd)
      PROVE  SomeoneRuns'
  BY <1>2, <1>4 DEF SemClose, UnknownFd, SemCloseFound
<1>5. ASSUME NEW p \in Procs \ Idle, NEW fd \in Fds, SemWait(p, fd), ~UnknownFd(p, fd)
      PROVE  SomeoneRuns'
  <2>1. running = p
    BY <1>5 DEF SemWait, Syscall
  <2>2. PICK d \in Descs, s \in SemIds :
          /\ Caller(p, d, s)
          /\ SemWaitTake(p, d) \/ SemWaitBlock(p, d) \/ SemWaitNobodyReady(p, d)
    BY <1>5, <2>1, CallerDescriptor DEF SemWait
  <2>3. ready_list # <<>> /\ ListsInv
    BY <2>1, IdleIsReady, SchedulerInvParts DEF SemInv
  <2>4. CASE SemWaitTake(p, d)
    BY <1>2, <2>4 DEF SemWaitTake
  <2>5. CASE SemWaitBlock(p, d)
    <3>1. Block(p) /\ RunNext /\ UNCHANGED fault
      BY <2>5 DEF SemWaitBlock
    <3>2. running' \in Procs /\ waiting_list' = waiting_list \union {p}
      BY <2>1, <2>3, <3>1, ListsBlock
    <3> QED BY <3>1, <3>2 DEF SomeoneRuns
  <2>6. CASE SemWaitNobodyReady(p, d)
    BY <2>3, <2>6 DEF SemWaitNobodyReady
  <2> QED BY <2>2, <2>4, <2>5, <2>6
<1>6. ASSUME NEW p \in Procs \ Idle, NEW fd \in Fds, SemPost(p, fd), ~UnknownFd(p, fd)
      PROVE  SomeoneRuns'
  <2>1. running = p
    BY <1>6 DEF SemPost, Syscall
  <2>2. PICK d \in Descs, s \in SemIds :
          /\ Caller(p, d, s)
          /\ SemPostKeep(p, d) \/ SemPostWake(p, d) \/ SemPostNobodyWaits(p, d)
    BY <1>6, <2>1, CallerDescriptor DEF SemPost
  <2>3. CASE SemPostKeep(p, d)
    BY <1>2, <2>3 DEF SemPostKeep
  <2>4. CASE SemPostWake(p, d)
    BY <2>4 DEF SemPostWake, Unblock, SomeoneRuns
  <2>5. CASE SemPostNobodyWaits(p, d)
    <3>1. count[s] < 0 /\ waiting_descriptors[s] = <<>> /\ count[s] \in Int
      BY <2>2, <2>5 DEF SemPostNobodyWaits, Caller, SemInv, SemTypes
    <3>2. Len(waiting_descriptors[s]) = 0
      BY <3>1, EmptySeq
    <3>3. Len(waiting_descriptors[s]) = -count[s]
      BY <3>1 DEF CountMatchesWaiters
    <3> QED BY <3>1, <3>2, <3>3
  <2> QED BY <2>2, <2>3, <2>4, <2>5
<1>7. ASSUME NEW p \in Procs \ Idle, SemaphoreCall(p)
      PROVE  SomeoneRuns'
  BY <1>3, <1>4, <1>5, <1>6, <1>7 DEF SemaphoreCall
<1> QED BY <1>1, <1>7 DEF SemNext

\* The counter below zero is the number of the waiters: no wake-up is lost and
\* none is given twice, as long as semOpen takes no negative counter.
THEOREM SemaphoresCount ==
  ASSUME InitCounts \subseteq Nat
  PROVE  SemSpec => []CountMatchesWaiters
<1>1. SemInit => CountMatchesWaiters
  BY EmptySeq DEF SemInit, NoSemaphores, CountMatchesWaiters
<1>2. SemInv /\ CountMatchesWaiters /\ [SemNext]_allVars => CountMatchesWaiters'
  <2>1. CountMatchesWaiters /\ UNCHANGED allVars => CountMatchesWaiters'
    BY DEF CountMatchesWaiters, allVars, semVars
  <2> QED BY <2>1, CountStep
<1> QED BY <1>1, <1>2, SemaphoresInvariant, PTL DEF SemSpec

\* No handler follows a null pointer when one process never blocks and no
\* counter is negative, as in the test program.
THEOREM SemaphoresNoFault ==
  ASSUME InitCounts \subseteq Nat, Idle # {}
  PROVE  SemSpec => []NoFault
<1>1. SemInit => SomeoneRuns
  BY DEF SemInit, Init, SomeoneRuns
<1>2. SemInv /\ CountMatchesWaiters /\ SomeoneRuns /\ [SemNext]_allVars => SomeoneRuns'
  <2>1. SomeoneRuns /\ UNCHANGED allVars => SomeoneRuns'
    BY DEF SomeoneRuns, allVars, vars
  <2> QED BY <2>1, SomeoneRunsCall
<1>3. SomeoneRuns => NoFault
  BY DEF SomeoneRuns, NoFault
<1>4. SemSpec => []SemInv /\ []CountMatchesWaiters
  BY SemaphoresInvariant, SemaphoresCount, PTL
<1> QED BY <1>1, <1>2, <1>3, <1>4, PTL DEF SemSpec

=============================================================================
