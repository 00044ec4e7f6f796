----------------------------- MODULE Scheduler -----------------------------
(***************************************************************************)
(* The scheduler of disastrOS: the running process, the ready, waiting and *)
(* timer lists, the round robin driven by SIGALRM, the voluntary           *)
(* preemption and the sleep system call.                                   *)
(*                                                                         *)
(* A system call runs with SIGALRM blocked, so a handler is one action.    *)
(* A process leaves its system call in a step of its own, Return: the      *)
(* process reads syscall_retvalue from its PCB only after the context      *)
(* switch, with SIGALRM enabled again, and any number of other processes   *)
(* may run in between.                                                     *)
(*                                                                         *)
(* The processes here are fixed: they stand for the PCBs that spawn has    *)
(* already created.                                                        *)
(***************************************************************************)
EXTENDS Integers, Sequences, FiniteSets, SequencesExt

CONSTANTS
  Procs,       \* the processes, each one a PCB
  Idle,        \* processes that make no system call, like sleeperFunction
  SleepTimes,  \* the arguments given to disastrOS_sleep, in timer ticks
  NULL         \* the null pointer

ASSUME SchedulerAssumption ==
  /\ IsFiniteSet(Procs) /\ Procs # {}
  /\ Idle \subseteq Procs
  /\ SleepTimes \subseteq Int
  /\ NULL \notin Procs

VARIABLES
  running,           \* the PCB on the cpu, or NULL
  ready_list,        \* the ready PCBs, the next to run first
  waiting_list,      \* the blocked PCBs: nothing reads the order of this list
  timer_list,        \* the pending timers, in the order of the list
  status,            \* PCB.status
  syscall,           \* the system call a process is inside of, or NoCall
  syscall_retvalue,  \* PCB.syscall_retvalue
  fault              \* the kernel dereferenced a null pointer

schedVars == <<running, ready_list, waiting_list, timer_list, status>>
vars == <<running, ready_list, waiting_list, timer_list, status,
          syscall, syscall_retvalue, fault>>

(***************************************************************************)
(* syscall[p] holds PCB.syscall_num and PCB.syscall_args[0]. The code      *)
(* leaves the old numbers in the PCB when the call is over and never reads *)
(* them there again: they are dropped at the return.                       *)
(***************************************************************************)
NoCall == [num |-> "NONE", arg |-> 0]
SyscallNums == {"NONE", "PREEMPT", "WAIT", "EXIT", "SPAWN", "SLEEP",
                "SEMOPEN", "SEMCLOSE", "SEMWAIT", "SEMPOST",
                "OPEN_RESOURCE", "CLOSE_RESOURCE", "DESTROY_RESOURCE"}

\* A timer keeps the ticks left, awakening_time - disastrOS_time, so that
\* the states stay finite while the clock runs on.
Timer == [pcb : Procs, left : Int]

Init ==
  /\ running \in Procs
  /\ ready_list \in LET others == Procs \ {running}
                    IN  Bijection(1..Cardinality(others), others)
  /\ waiting_list = {}
  /\ timer_list = <<>>
  /\ status = [p \in Procs |-> IF p = running THEN "Running" ELSE "Ready"]
  /\ syscall = [p \in Procs |-> NoCall]
  /\ syscall_retvalue = [p \in Procs |-> 0]
  /\ fault = FALSE

-----------------------------------------------------------------------------
(***************************************************************************)
(* Entering and leaving the kernel.                                        *)
(***************************************************************************)

\* The running process p stores the call in its PCB and traps.
Syscall(p, num, arg) ==
  /\ ~fault
  /\ running = p
  /\ syscall[p] = NoCall
  /\ syscall' = [syscall EXCEPT ![p] = [num |-> num, arg |-> arg]]

\* The process resumes after its trap and reads its return value.
Return(p) ==
  /\ ~fault
  /\ running = p
  /\ syscall[p] # NoCall
  /\ syscall' = [syscall EXCEPT ![p] = NoCall]
  /\ UNCHANGED <<schedVars, syscall_retvalue, fault>>

\* The handler stores a return value and changes nothing in the scheduler.
Answer(p, v) ==
  /\ syscall_retvalue' = [syscall_retvalue EXCEPT ![p] = v]
  /\ UNCHANGED <<schedVars, fault>>

\* A null pointer is dereferenced: the host kills disastrOS.
Crash ==
  /\ fault' = TRUE
  /\ UNCHANGED <<schedVars, syscall_retvalue>>

-----------------------------------------------------------------------------
(***************************************************************************)
(* Queues and timers.                                                      *)
(***************************************************************************)

\* List_insert(&ready_list, ready_list.last, p).
EnqueueReady_AtHead(ready, p) == <<p>> \o ready  \* a bug: inserts at the head
EnqueueReady(ready, p) == Append(ready, p)

\* The handler puts the caller to sleep on the waiting list.
Block_NoStatus(p) ==  \* a bug: forgets the status
  /\ waiting_list' = waiting_list \union {p}
  /\ UNCHANGED status
Block(p) ==
  /\ status' = [status EXCEPT ![p] = "Waiting"]
  /\ waiting_list' = waiting_list \union {p}

\* The handler hands the cpu to the first ready process. Unlike
\* internal_schedule it leaves the status of that process "Ready".
RunNext_KeepsQueued == \* a bug: reads the first ready process, does not detach it
  /\ ready_list # <<>>
  /\ running' = Head(ready_list)
  /\ UNCHANGED ready_list
RunNext ==
  /\ ready_list # <<>>
  /\ running' = Head(ready_list)
  /\ ready_list' = Tail(ready_list)

\* The number of timers at the front of the list with at most t ticks left.
TimersUpTo(timers, t) ==
  Cardinality({k \in DOMAIN timers : \A i \in 1..k : timers[i].left <= t})

\* Insert before the first timer that expires later.
TimerList_add_Last(timers, item) == Append(timers, item)  \* a bug: unsorted
TimerList_add(timers, item) ==
  InsertAt(timers, TimersUpTo(timers, item.left) + 1, item)

\* The processes of the timers that internal_schedule finds elapsed, in order.
Woken_OneTick(timers) ==  \* a bug: wakes at most one process in a call
  [i \in 1..(IF TimersUpTo(timers, 0) = 0 THEN 0 ELSE 1) |-> timers[i].pcb]
Woken(timers) == [i \in 1..TimersUpTo(timers, 0) |-> timers[i].pcb]

\* disastrOS_time moves on by one.
Ticked_Frozen(timers) == timers  \* a bug: the time stands still
Ticked(timers) == [i \in DOMAIN timers |-> [timers[i] EXCEPT !.left = @ - 1]]

\* Wake the processes whose timer elapsed, in front of the ready list, then
\* rotate. With nobody ready the running process goes on.
internal_schedule(timers) ==
  LET woken == Woken(timers)
      ready == woken \o ready_list
  IN  /\ timer_list' = SubSeq(timers, Len(woken) + 1, Len(timers))
      /\ waiting_list' = waiting_list \ Range(woken)
      /\ \/ /\ ready = <<>>
            /\ UNCHANGED <<running, ready_list, status>>
         \/ /\ ready # <<>>
            /\ running' = Head(ready)
            /\ ready_list' = EnqueueReady(Tail(ready), running)
            /\ status' = [p \in Procs |->
                            IF p = Head(ready) THEN "Running"
                            ELSE IF p = running \/ p \in Range(woken) THEN "Ready"
                            ELSE status[p]]

-----------------------------------------------------------------------------
(***************************************************************************)
(* The operations.                                                         *)
(***************************************************************************)

\* SIGALRM interrupts the running process, in user mode.
TimerInterrupt_AnyTime ==  \* a bug: schedules with no process on the cpu
  /\ ~fault
  /\ internal_schedule(Ticked(timer_list))
  /\ UNCHANGED <<syscall, syscall_retvalue, fault>>
TimerInterrupt ==
  /\ ~fault
  /\ running # NULL
  /\ internal_schedule(Ticked(timer_list))
  /\ UNCHANGED <<syscall, syscall_retvalue, fault>>

\* SIGALRM between the return of the trap with no active process and the new
\* start of the system: timerHandler saves the context of a null process.
TimerInterruptNoProcess ==
  /\ ~fault
  /\ running = NULL
  /\ Crash
  /\ UNCHANGED syscall

Preempt(p) ==
  /\ Syscall(p, "PREEMPT", 0)
  /\ internal_schedule(timer_list)
  /\ UNCHANGED <<syscall_retvalue, fault>>

\* No process has a timer when it calls sleep, and there are as many timers
\* as PCBs: the two error returns of internal_sleep are never taken.
Sleep(p, cycles_to_sleep) ==
  /\ Syscall(p, "SLEEP", cycles_to_sleep)
  /\ timer_list' = TimerList_add(timer_list, [pcb |-> p, left |-> cycles_to_sleep])
  /\ Block(p)
  /\ \/ RunNext
     \/ ready_list = <<>> /\ running' = NULL /\ UNCHANGED ready_list
  /\ UNCHANGED <<syscall_retvalue, fault>>

Next ==
  \/ TimerInterrupt
  \/ TimerInterruptNoProcess
  \/ \E p \in Procs \ Idle :
       \/ Preempt(p)
       \/ \E c \in SleepTimes : Sleep(p, c)
       \/ Return(p)

\* The interval timer fires for ever. Processes need not make any call.
Fairness == WF_vars(TimerInterrupt)

Spec == Init /\ [][Next]_vars
FairSpec == Spec /\ Fairness

-----------------------------------------------------------------------------
(***************************************************************************)
(* Properties.                                                             *)
(***************************************************************************)

TimerProcs == {timer_list[i].pcb : i \in DOMAIN timer_list}

\* Every variable holds values of its type in the PCB or the kernel globals.
TypeOK ==
  /\ running \in Procs \union {NULL}
  /\ ready_list \in Seq(Procs)
  /\ waiting_list \subseteq Procs
  /\ timer_list \in Seq(Timer)
  /\ status \in [Procs -> {"Running", "Ready", "Waiting"}]
  /\ syscall \in [Procs -> [num : SyscallNums, arg : Int]]
  /\ syscall_retvalue \in [Procs -> Int]
  /\ fault \in BOOLEAN

\* A PCB has one pair of links: it is running, or on exactly one of the ready
\* and waiting lists, and on it once. No handler loses a process or queues it
\* twice.
OnOneList ==
  /\ running \notin waiting_list \union Range(ready_list)
  /\ waiting_list \intersect Range(ready_list) = {}
  /\ IsInjective(ready_list)
  /\ Procs \subseteq {running} \union waiting_list \union Range(ready_list)

\* status says "Waiting" exactly while the PCB is on the waiting list:
\* internal_exit trusts the status of a parent before it detaches the parent
\* from that list.
StatusMatchesLists ==
  \A p \in Procs : p \in waiting_list <=> status[p] = "Waiting"

\* The timers are kept in the order of their awakening and each blocked
\* process has one. internal_schedule looks only at the first timer, so an
\* unsorted list would let a process sleep past its time.
TimersSorted ==
  /\ \A i, j \in DOMAIN timer_list :
       i < j => /\ timer_list[i].left <= timer_list[j].left
                /\ timer_list[i].pcb # timer_list[j].pcb
  /\ TimerProcs \subseteq waiting_list

\* Nobody oversleeps: the interrupt that makes a timer elapse also wakes its
\* process and removes the timer.
WokenOnTime ==
  [][TimerInterrupt => \A i \in DOMAIN timer_list' : timer_list'[i].left > 0]_vars

\* Every ready process gets the cpu, although internal_schedule puts the
\* processes that wake up in front of it.
ReadyRuns == \A p \in Procs : p \in Range(ready_list) ~> running = p

\* Every sleeping process runs again, unless there comes a time when all sleep
\* and nobody is left for the interval timer to interrupt.
SleeperRuns == \A p \in Procs : p \in TimerProcs ~> running \in {p, NULL}

=============================================================================
