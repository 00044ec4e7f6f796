# disastrOS, verified

disastrOS is a teaching operating system that runs inside one Linux process.
Its kernel is a set of C handlers over linked lists; its processes are
`ucontext` coroutines that share one thread, switched by a SIGALRM timer. This
directory holds TLA+ models of its kernel and of its test program, the TLC
configurations that check them, and TLAPS proofs of what the models keep. Paths
below are relative to `src/sorgente/` unless they say otherwise.

Contents

1. The system: components, state, operations, interactions
2. The modules and how they correspond to the code
3. Modelling decisions
4. The runs: what each one checks, its bounds, and what it shows
5. Fairness
6. What is proved
7. Where the code and its documents disagree
8. What is only model-checked, and what is not modelled
9. The plan

## 1. The system

### 1.1 Components

| component | source | state | operations | what makes it correct |
|---|---|---|---|---|
| trap, timer signal | `disastrOS.c` | `running`, the saved contexts, `syscall_num/args/retvalue` in each PCB, signal mask | `disastrOS_syscall`, `disastrOS_trap`, `timerHandler`, `timerInterrupt` | a call's answer reaches its caller; kernel code is not interrupted |
| scheduler | `disastrOS_schedule.c`, `_preempt.c` | `running`, `ready_list`, `waiting_list`, `status` | `internal_schedule`, `internal_preempt` | no process lost or queued twice; everyone who is ready runs |
| sleep and timers | `disastrOS_sleep.c`, `disastrOS_timer.c` | `timer_list`, `disastrOS_time`, `PCB.timer` | `internal_sleep`, `TimerList_add`, `TimerList_removeCurrent` | nobody oversleeps; the list is sorted |
| semaphores | `disastrOS_semaphore.c`, `_semopen.c`, `_semclose.c`, `_semwait.c`, `_sempost.c` | `semaphores_list`; per semaphore `count`, `descriptors`, `waiting_descriptors` | `internal_semOpen`, `semClose`, `semWait`, `semPost` | counting semaphores with a first-come queue; no lost or double wake-up |
| semaphore descriptors | `disastrOS_semdescriptor.c` | `PCB.sem_descriptors`, `PCB.last_sem_fd`, two pools | alloc, free, `SemDescriptorList_byFd` | no list keeps a freed descriptor; one number, one semaphore |
| processes | `disastrOS_pcb.c`, `_spawn.c`, `_wait.c`, `_exit.c` | `children`, `parent`, `zombie_list`, `pid`, `last_pid`, two pools | `internal_spawn`, `internal_wait`, `internal_exit` | a PCB is in one place; each process is reaped once, by its owner |
| linked list | `linked_list.c` | `first`, `last`, `size`; `prev`, `next` in each item | `List_insert`, `List_detach` | an intrusive list is a sequence; an item is on at most one |
| pool allocator | `pool_allocator.c` | the chain of free block indices | `PoolAllocator_init`, `_getBlock`, `_releaseBlock` | no block lost or given out twice; a bad pointer is refused |
| resources | `disastrOS_resource.c`, `_descriptor.c`, `_open_resource.c`, `_close_resource.c`, `_destroy_resource.c` | `resources_list`, `PCB.descriptors`, `last_fd` | open, close, destroy | as for descriptors; a resource in use is not destroyed |
| fork | `disastrOS_fork.c` | as spawn | `internal_fork` | - (nobody calls it) |
| boot and shutdown | `disastrOS.c`, `_shutdown.c` | `main_context`, `system_context`, `interrupt_context` | `disastrOS_start`, `internal_shutdown` | one start; a shutdown ends the system |
| test program | `disastrOS_test.c` | a ring buffer under four semaphores | `initFunction`, `childFunction`, `sleeperFunction` | producers and consumers exclude each other and do not block for ever |
| printing, log | `*_print`, `disastrOS_printStatus`, `log_file` | none that matters | read only | - |

`disastrOS_semops.c` and `internal_semopen.c` are not in the Makefile.

### 1.2 How they interact

- Every system call stores its number and arguments in the PCB of the caller,
  saves the caller's context, and switches to `disastrOS_trap` on the system
  stack, with SIGALRM blocked. The trap calls one handler from a table, which
  may replace `running`; then it sets the context of whatever `running` now is.
  The *process* reads `syscall_retvalue` after that switch, with SIGALRM on
  again: other processes may run, and write, between the two.
- SIGALRM, in user mode, saves the context of `running` and runs
  `timerInterrupt`: the clock ticks, and `internal_schedule` wakes the sleepers
  whose time has come and rotates the ready list.
- The handlers share the ready, waiting and timer lists directly. `semWait` and
  `wait` block the caller and hand the cpu over by themselves, `semPost` and
  `exit` wake others by themselves; none goes through one common function, and
  they do not all set the same fields.
- Objects come from pools and start with the links of `linked_list.c`. An
  object can be on one list at a time, and its owner must know which.

### 1.3 What is hard here

- *Orders*: post and wait and timer interrupts in any order; an exit before or
  after the wait for it; a process preempted between the end of a handler and
  the read of its answer; several timers that elapse at one tick.
- *State by hand*: `count` below zero mirrors the length of a queue;
  `last_sem_fd` mirrors the number of descriptors; `status` mirrors a list;
  `parent` mirrors a list of children. Handlers update both sides, or forget.
- *Limits*: empty pools, the empty ready list, the first, last and only item of
  a list, negative counters.
- *Reuse*: a pool gives out the block that it got back last, and nothing clears
  the pointers to a freed PCB.

`PROJECT.json` lists these hazards at their lines, with the properties that
would catch each one.

## 2. The modules

| module | models | extends |
|---|---|---|
| `Scheduler` | `running`, ready, waiting and timer lists; preempt, sleep, timer interrupt | - |
| `Semaphores` | the four semaphore calls on top of the scheduler | `Scheduler` |
| `SemaphoreSpec` | the abstract promise: counting semaphores, handles, FIFO queue | - |
| `Processes` | spawn, wait, exit on top of the scheduler | `Scheduler` |
| `Resources` | open, close and destroy on top of the scheduler | `Scheduler` |
| `Kernel` | all of it: processes that come and go, with semaphores and resources; the second start | `Processes`, `Semaphores`, `Resources` |
| `Contexts` | the switches into and out of the kernel, the signal mask, shutdown | - |
| `ProducerConsumer` | the children of the test program | `SemaphoreSpec` |
| `PoolAllocator` | the chain of free blocks | - |
| `LinkedList` | the `prev`/`next` links | - |
| `ListSpec` | the abstract promise: sequences of objects | - |
| `KernelObjects` | the two together: the life of an object | `PoolAllocator`, `LinkedList` |
| `ListLemmas` | lemmas about sequences as lists, proved | - |
| `SchedulerProofs` | the theorems about the scheduler | `Scheduler`, `ListLemmas` |
| `QueueLemmas` | what the semaphore calls do to queues and descriptors, and which abstract step each one is | `Semaphores`, `ListLemmas` |
| `SemaphoresProofs` | the theorems about the semaphores | `QueueLemmas`, `SchedulerProofs` |
| `ProcessesProofs` | the theorems about spawn, wait and exit | `Processes`, `SchedulerProofs` |
| `KernelProofs` | the theorems about the whole kernel, the resources among them | `Kernel`, `ProcessesProofs`, `QueueLemmas` |
| `ProducerConsumerProofs` | the theorems about the test program | `ProducerConsumer`, `ListLemmas` |
| `ObjectsProofs` | the theorems about the pool and the linked lists | `KernelObjects`, `ListLemmas` |
| `MC*` | finite instances for TLC | the module they are named for |

`PROJECT.json` ("map") gives, for each definition that models code, the lines
it stands for. A definition whose name ends in an underscore and a word
(`JoinQueue_First`) and whose comment says "a bug" is a plausible mistake in
the definition of that name. It is used nowhere in a specification: put in the place of
the real definition it makes a property fail, which shows that the
property depends on that code.

### Scheduler

`running`, `ready_list`, `waiting_list`, `timer_list`, `status`,
`syscall_retvalue` have the names of the code. `syscall[p]` is the call that
`p` is inside of. `fault` records that the kernel dereferenced a null pointer;
no action is enabled after that, because the host kills the program.

| action | code |
|---|---|
| `TimerInterrupt` | `timerHandler`, `timerInterrupt`, `internal_schedule` |
| `Preempt` | `internal_preempt` |
| `Sleep` | `internal_sleep`, `TimerList_add` |
| `Return` | the end of `disastrOS_syscall`, after the context switch |
| `TimerInterruptNoProcess` | `timerHandler` with `running == NULL` |

`internal_schedule` is one operator, used by the interrupt (with a tick) and by
preempt (without). It is the code's order: all elapsed timers wake first, in
front of the ready list, in the order of the timers; then the first ready
process gets the cpu and the old one goes to the end.

### Semaphores and SemaphoreSpec

`semaphores` is the semaphore list, `count`, `descriptors` and
`waiting_descriptors` are the fields of a semaphore, `sem_descriptors` and
`last_sem_fd` those of a PCB, `descriptor` is the content of each block of the
descriptor pool. `SemOpen`, `SemClose`, `SemWait`, `SemPost` are the handlers;
each is a disjunction of its outcomes (`SemWaitTake`, `SemWaitBlock`,
`SemWaitNobodyReady`, ...), with the guards in the order of the code's checks.

`SemaphoreSpec` knows processes, semaphores, units, handles and queues, and
nothing of lists, descriptor numbers, schedulers or return values. The
refinement mapping `Abstract` (in `Semaphores`) takes the units to be the
positive part of `count` and the queue to be the processes of the waiting
descriptors. Every step of the scheduler is a stutter there.

### Processes

`Spawn`, `Wait`, `Exit`, with the tree (`parent`, `children`), `zombie_list`
and the pools: `free_pcbs` is the LIFO order in which PCBs are given out,
`free_ptrs` the number of free pointer blocks. `exit` is modelled as the code
has it: the children's pointers move to init and their `parent` does not; the
pointer block of a child that its waiting parent reaps is not freed; and the
handler looks at `parent`, which may be the PCB of a zombie, of a free block,
or of another process by now.

`PCBPtr_byPID` is the search of `PCBPtrList` for a pid, and `SelfInParent` the
place that `exit` finds for itself in the list of its parent.

`init_pcb` is a variable: the first process of a second start is another one.

### Resources

`resource_type` is the list of resources with their types, `res_descriptors`,
`pcb_descriptors` and `last_fd` are the fields of a resource and a PCB, and
`res_descriptor` is the content of each block of the descriptor pool.
`OpenResource`, `CloseResource` and `DestroyResource` are disjunctions of their
outcomes. `Creates` and `Exclusive` read the mode by its bits, as the code does:
`DSOS_WRITE` is 3 and has the bit of `DSOS_CREATE`, so an open for writing
creates the resource or fails if it exists.

### Kernel

`Kernel` has the state of the three modules it extends, and the effects that
none of them has alone:

| definition | code |
|---|---|
| `AllocDescriptors` | `PCB_alloc`: clears `descriptors`, `last_fd` and `last_sem_fd`, and leaves `sem_descriptors` as the PCB's last user left it (it clears `descriptors` twice) |
| `ReleaseResources` | the loop at the end of `internal_exit`, on the path that frees the PCB |
| `KernelSpawn`, `KernelExit` | the whole handlers |
| `Restart` | `disastrOS_trap` with no process left: `uc_link` leads to `main_context`, and `disastrOS_start` goes on behind its `getcontext`, after the lists were initialised |

`Restart` is one action, from the end of the trap to the first step of the new
init. An alarm that comes in between, with `running` null, is the separate
action `TimerInterruptNoProcess` of `Scheduler`. A null pointer to the log
file is assumed (the program has no log unless it gets an argument): with a
log, the trap itself reads `running->pid` and crashes.

### Contexts

Here one step is one switch. `cpu` is what is executed, `blocked` the signal
mask, `pending` a raised signal, `cpu_state[p]` what the saved context of a PCB
will resume. A switch back to a process is two steps, because `setcontext` is:
`Leave` chooses the process and sets its mask, `Resume` loads its registers.
Which process a handler chooses is left open. The delivery of a signal, the
inside of `setcontext` and the return from a signal handler belong to the host
and are marked external in `PROJECT.json`.

### ProducerConsumer

The children of `disastrOS_test.c`, one action for each semaphore call and for
each access to the shared variables, over the actions of `SemaphoreSpec`: it
uses what the calls promise, and `Semaphores` is shown to keep that promise.
`pc` is the place in `childFunction`; `taken` records the values read. `Advance`
is two lines of the code, `disastrOS_test.c:51-52` for a writer: the next value
and the next index are private to the one child that holds the guard. The
model starts when all children have opened their four semaphores.

### PoolAllocator, LinkedList, KernelObjects

The pool and the links are modelled at the level of the C code: the array of
next indices with its two special values, and the four assignments of an insert
or a detach. `KernelObjects` takes the handlers apart into their allocator and
list calls, in any order that keeps two rules, which all handlers follow:
insert or free only an object of your own that is on no list, and detach an
object from the list it is on. Under these rules the links are the
sequences of `ListSpec`. This is what entitles the other modules to use
sequences and sets for lists, and to leave out the handlers' error branches for
a failed `List_insert`.

The rules are the handlers', the pool does not enforce them: it refuses a pointer
to a free block, but takes an old pointer to a block that was given out again
(`pool_allocator.c:83`). `PoolSpec` is the pool alone, with callers that do
that as well. That the handlers do not is what `OnePlaceEach`,
`DescriptorsConsistent`, `ResourcesConsistent` and `ReapedByOwner` say of PCBs
and descriptors. Lists are initialised at the start only. `PCB_alloc` calls `List_init` on
the lists of a PCB that was used before, which are not always empty; what that
loses is `AllocDescriptors` of `Kernel`.

## 3. Modelling decisions

- **A handler is one action.** SIGALRM is blocked while a handler runs, and
  there is one thread. The read of the return value is *not* in that action: it
  is `Return`, a step of its own.
  (What an alarm does between the handler and the process, or inside
  the interrupt, is undefined in the code; `Contexts` shows it, and all other
  modules assume that it does not come there.)
- **Timers hold the ticks left**, `awakening_time - disastrOS_time`, so that
  the state space is finite while the clock runs on. The clock's overflow is
  out of the model.
- **The waiting list, the zombie list and a semaphore's active descriptors are
  sets.** No code reads their order. The ready list, the timer list, the queue
  of a semaphore, the descriptors of a PCB and the children are sequences.
- **A descriptor and its pointer are one object** in `Semaphores`. The two
  pools have one size and their blocks are taken and given back together, so
  the second allocation cannot fail when the first did not.
- **`SEMOPEN` and the other numbers are strings**, `syscall` goes back to
  `NoCall` at the return: the code keeps the stale number in the PCB, and reads
  it (in `exit`) only together with the status "Waiting", which a process has
  only inside a call.
- **Null dereferences stop the model.** `Crash` sets `fault`, and no step
  follows. These outcomes are of this kind: `TimerInterruptNoProcess`,
  `SemWaitNobodyReady`, `SemPostNobodyWaits`, `SpawnFails`, `ExitToStranger`,
  `WaitBlock` and `ExitToZombie` with an empty ready list, and `ExitOfInit`
  (which in the code is an endless loop or a null parent). They are reached in
  the runs: a state in which the code would crash is visible, and not hidden by
  a guard.
- **Left out**: exit values (they travel with the pid), PCB signals (set by
  `exit`, read by nobody), `errno`-like details of the `printf`s.

Bounds of the models, none of them in the code: `MaxCount` (no post on a
semaphore whose count has it), `MaxPid` (no spawn and no second start after the
last pid), `MCFewOpen` (a CONSTRAINT of the kernel run: at most three of the four
descriptors are in use), and the finite sets of processes, descriptors, ids,
counters and sleep times.

## 4. The runs

Passing runs:

| run | instance | properties | distinct states |
|---|---|---|---|
| `scheduler` | four processes, sleeps of 0, 1 or 2 ticks, the interval timer on | `TypeOK`, `OnOneList`, `StatusMatchesLists`, `TimersSorted`, `WokenOnTime`, `ReadyRuns`, `SleeperRuns` | 38 832 |
| `semaphores` | three processes, ids -1, 1, 2, 3, two semaphores at a time, three descriptors, counters -1 and 0, numbers 0 and 1, sleeps of one tick | `SemTypeOK`, `OnOneList`, `StatusMatchesLists`, `DescriptorsConsistent`, `FdsCounted`, `WaitersWithinCount`, `BlockedOnce`, `Implements` | 694 000 |
| `semaphores_live` | three processes that have opened one semaphore, an idle process | `CountMatchesWaiters`, `NoFault`, `WaiterServed` | 235 128 |
| `kernel_objects` | four blocks of two bytes, two lists | `FreeListComplete`, `ListsWellFormed`, `InsertAccepted`, `NoBlockShared`, `ImplementsLists` | 685 |
| `processes` | four PCBs, pids up to 4, waits for any child or for pid 2 | `OnePlaceEach`, `OneOwnerEach`, `NoWaitForZombie`, `WaitCanEnd`, `StatusMatchesLists`, `ReapedByOwner` | 2 400 000 |
| `kernel` | three PCBs, pids up to 2, one semaphore, one resource at a time, two descriptors of each kind, sleeps of one tick | `OnePlaceEach`, `BlockedForOneReason`, `DescriptorsConsistent`, `ResourcesConsistent`, `NumbersDistinct`, `LostOnlyByReuse` | 1 738 000 |
| `producer_consumer` | two writers, two readers, two cells, three values each | `MutualExclusion`, `InOrder`, `UnitsConserved`, `AllFinish` | 44 611 |

What they show, and why the bounds are enough for that:

- **scheduler.** Three sleepers let two timers elapse at one tick while a third
  is still pending and the fourth process is on the cpu; a sleep of 0 is
  inserted as already elapsed. The order of the timers, the insert position
  (front, middle, end, equal times) and the woken prefix all occur, and so does
  the state in which all four sleep. Four processes that wake in turn are the
  ones that could starve the one that is ready, or each other. `SleeperRuns`
  says that a sleeper runs again *or* there comes a time when all sleep: then
  the next alarm meets a null pointer.
- **semaphores.** Three processes are needed for a queue of two and a third
  that posts: FIFO order, a process that waits again while a woken one is still
  ready, a post that meets a sleeper's timer. With three descriptors a process
  can hold two of one semaphore, close them in either order, close the last one
  of a semaphore that others still wait on, and open it anew with a new
  counter. Three ids for two semaphores and three descriptors for three
  processes fill both pools, in each order of the two checks of `semOpen`.
  `MaxCount = 1` lets the count go through each branch of `semWait` and
  `semPost`. With the negative counter the count does not match the queue, so
  `CountMatchesWaiters` is not claimed here, but the half of it that
  `WaitersWithinCount` states is. The abstract initial value of a negative
  counter is 0: for `SemaphoreSpec` such a semaphore has no units, and the
  units that the code then swallows are crashes, which are no steps there.
- **semaphores_live.** The run starts in the state in which each worker has
  opened the semaphore: it is a state of `SemSpec`, and the opens would only
  multiply the states. `WaiterServed` is conditional on a queue that keeps
  moving: nothing obliges a process to post. `NoFault` holds because of the
  idle process; without one, `SemWaitNobodyReady` is reachable. That is what the
  test program's `sleeperFunction` is for.
- **kernel_objects.** Four objects on two lists reach every position of an
  insert and a detach (first, last, middle, only). The pointers that are freed
  include one between two blocks, one before and one behind the pool and those
  of blocks that are free already. A pointer to an object that is on a list is not
  freed here, whoever would free it: `NoBlockShared` holds as long as that is so.
- **processes.** Four PCBs and four spawned processes are enough for a
  grandchild, for a PCB that is reused while a child still points to it, and
  for an orphan whose parent pointer names a free PCB, a zombie, or a stranger.
  `WaitCanEnd` says that a blocked wait has a living child whose exit will look at
  the process that waits. It names the two waits for which that may fail, both
  of which the run reaches: that of an init among whose children are those
  of others (`init_reaps_orphans`), and that for a pid which no child has.
- **kernel.** Three PCBs and three pids are enough for a child that exits with
  an open descriptor of each kind, is reaped in each of the two ways, and whose
  PCB is given out again, by spawn or by a second start; the new user then
  closes, waits on and posts what it inherited. Both other ways to block exist
  beside the wait for a child, in every combination, and a sleeper or a waiter
  can be left over by the first start and awakened in the second. The semaphores
  that a process inherits with its PCB are accepted by `DescriptorsConsistent`,
  which says that the lists are right and not who opened what; what comes of it
  is the run `semopen_not_negative`.
- **producer_consumer.** Two writers and two readers exclude each other in
  pairs while one of each kind is inside; three values each through two cells
  make the indices wrap round and both kinds wait.

Symmetry: the processes and the descriptor blocks of `semaphores`, the PCBs of
`processes`, and the PCBs, descriptor blocks and resource ids of `kernel` are
interchangeable: no definition names one of them (`CHOOSE` is only over unique
or numeric choices), and those runs check no liveness property. The runs that do,
`scheduler`, `semaphores_live` and `producer_consumer`, use no symmetry.

`semaphores` and `kernel` have a VIEW. It drops what no step and none of the
checked properties reads: the return values; the number of a call whose process is not
blocked; and in `kernel` the pids (all waits there are for any child) and the
parent and the next descriptor numbers of a dead PCB, which are set anew before
they are read. Two states with the same view have the same future up to these.

`CHECK_DEADLOCK FALSE` is set where a crash is reachable or the program ends,
and only there: a crashed system has no next step. The runs `semaphores_live`
and `kernel_objects` check for deadlock.

The violation runs are in section 7.

## 5. Fairness

The only fairness assumed is that the interval timer goes on: weak fairness of
`TimerInterrupt`, which is enabled as long as a process is on the cpu. It is
justified by `setitimer` in `disastrOS_start` and by user code that cannot block
SIGALRM. No process is assumed to make any call, to return from one, or to
post. From this alone follow `ReadyRuns` (each ready process gets the cpu,
although those that wake up are put in front of it) and `SleeperRuns`, which has
to allow for the time when the last process sleeps: `running` is null then, and
the next interrupt is `TimerInterruptNoProcess`.

`ProducerConsumer` has weak fairness for each child. A child that is not in a
queue is on the cpu, ready or asleep, and gets the cpu again by the properties
just named, as long as the sleeper process is there to be interrupted; its
program then goes on by itself. Nothing is assumed of a child that stands in a queue: `AllFinish`
needs that the others post, and that the queue is served in order.

## 6. What is proved

Every theorem holds for all values of the constants: any finite set of PCBs,
any pools, ids, pids, counters and sleep times, any number of children and
cells. The named assumptions of the modules are the only hypotheses, except where
the table says more. Beside the sizes and ranges they say that pools are
finite and that the null pointer is no process, block or record.

| theorem | states |
|---|---|
| `SchedulerInvariant` | the inductive invariant `SchedulerInv` |
| `SchedulerTypeOK`, `SchedulerLists`, `SchedulerStatus`, `SchedulerTimers` | `TypeOK`, `OnOneList`, `StatusMatchesLists`, `TimersSorted` |
| `SchedulerWakesOnTime` | `WokenOnTime`, an action property |
| `SchedulerAlwaysRuns` | with an idle process (`Idle # {}`) the cpu always has a process, and nothing faults |
| `SemaphoresInvariant` | the inductive invariant `SemInv` |
| `SemaphoresTypeOK`, `SemaphoresLists`, `SemaphoresDescriptors`, `SemaphoresFds`, `SemaphoresWaiters`, `SemaphoresBlockedOnce` | `SemTypeOK`, `OnOneList` and `StatusMatchesLists`, `DescriptorsConsistent`, `FdsCounted`, `WaitersWithinCount`, `BlockedOnce` |
| `SemaphoresCount` | `CountMatchesWaiters`, if `InitCounts \subseteq Nat` |
| `SemaphoresNoFault` | `NoFault`, if `InitCounts \subseteq Nat` and `Idle # {}` |
| `SemaphoresImplement` | `Implements`: the semaphore calls refine `SemaphoreSpec` |
| `ProcessesInvariant` | the inductive invariant `ProcInv` |
| `ProcessesPlaces`, `ProcessesOwners`, `ProcessesWake`, `ProcessesStatus` | `OnePlaceEach`, `OneOwnerEach`, `NoWaitForZombie`, `StatusMatchesLists` |
| `ProcessesWaits` | `WaitCanEnd` |
| `ProcessesReaped` | `ReapedByOwner`, an action property |
| `KernelInvariant` | the inductive invariants `KernelInv` and `ResourcesInv` |
| `KernelBlocked`, `KernelPlaces`, `KernelDescriptors` | `BlockedForOneReason`, `OnePlaceEach`, `DescriptorsConsistent` |
| `KernelWake`, `KernelWaits` | `NoWaitForZombie`, `WaitCanEnd` |
| `KernelResources`, `KernelNumbers` | `ResourcesConsistent`, `NumbersDistinct` |
| `KernelLost` | `LostOnlyByReuse`, an action property |
| `KernelImplements` | `Implements`: the whole kernel refines `SemaphoreSpec` |
| `ClientInvariant` | the inductive invariant `ClientInv` |
| `ClientsExclude`, `ValuesInOrder`, `UnitsAreConserved` | `MutualExclusion`, `InOrder`, `UnitsConserved` |
| `ObjectsInvariant` | the inductive invariant `ObjectsInv` |
| `PoolComplete`, `ListsStayWellFormed`, `InsertNeverRefuses` | `FreeListComplete`, `ListsWellFormed`, `InsertAccepted` |
| `PoolAlone` | `FreeListComplete` of `PoolSpec`: with callers that release any pointer at any time |
| `BlocksAreNotShared` | `NoBlockShared`, an action property, under the rules of `KernelObjects` |
| `ListsImplement` | `ImplementsLists`: the linked lists refine `ListSpec` |

The two extra hypotheses are what the code needs. `semOpen` takes a negative
counter, and the count then does not match the queue any more; a post with no
waiter dereferences null. And without a process that never blocks, as the test
program's `sleeperFunction`, `semWait` of the last ready process does. Both
happen in the run `semaphores`, which has neither hypothesis.

### The arguments

**Scheduler.** `SchedulerInv` is the conjunction of `TypeOK`, `OnOneList`,
`StatusMatchesLists` and `TimersSorted`. None of the parts is inductive without
the others: `internal_schedule` puts the processes of the elapsed timers in
front of the ready list without looking where they are, so `OnOneList` needs
that each timer's process is on the waiting list and has one timer
(`TimersSorted`), and that needs in turn that a process that calls sleep is not
on the waiting list (`OnOneList`). The argument goes through
`TimersUpToSplits` (the elapsed timers are a prefix: here the sorting is used),
`TimersSchedule`, `ListsSchedule` and `ScheduleStep`, which joins them and is
used for the interrupt and for preempt. `SchedulerStep` says more than the
invariant needs: a step of the scheduler leaves each blocked process that does
not sleep where it is. That is what the proofs about the modules above it use.

**Semaphores.** `SemInv` adds `DescriptorsConsistent`, `FdsCounted`,
`WaitersWithinCount` and `BlockedOnce`. They are inductive only together: a
process is queued once because a running process is in no queue, which comes
from the lists of the scheduler; and the lists stay right when `semPost` moves a
waiter by hand only because `BlockedOnce` says that who stands in a queue is on the
waiting list and has no timer. `QueueInv` in `QueueLemmas` is the part that does
not mention the scheduler. A call preserves it when its caller is in no queue;
the two modules that use semaphores prove that in their own way. `FdsCounted`
is about processes that begin with no descriptors, as all do in `SemSpec`. It is no
part of `QueueInv` and no theorem of `Kernel`, where it is false (section 7).

*The refinement.* `CallRefines` shows that each outcome of a call is one step
of `SemaphoreSpec` or a stutter: an error return stutters, `SemWaitBlock`
joins the queue, `SemPostWake` serves its head, the last close removes the
semaphore. It needs only `QueueInv` and a caller in no queue, so that one set
of lemmas serves `SemaphoresImplement` and `KernelImplements`. The steps of
the scheduler, spawn, wait, exit, the resource calls and a second start leave
what `SemaphoreSpec` sees unchanged, as a PCB that is used again keeps the
descriptors of its last user: this is what makes the refinement true of the kernel.

**Processes.** `ProcInv` needs beside the properties of the run: `SleepersCall`
(who has a timer is in `sleep`: `exit` moves a waiting parent to the cpu by
hand, and must not leave a timer behind), `ZombiesKept` (status and list of a zombie),
`PidsDistinct` (the searches by pid find the PCB they are meant to find) and
`InitStays` (init has no parent, is no zombie and not free; only init has
children that point elsewhere). With these, that a PCB is freed once follows
from its one owner, and that no parent sleeps through an exit from its status.
`OneOwnerEach` alone is not inductive: `exit` looks at `parent`, which may be
stale, and only the pids tell that such a process is not in the list it searches.

`WaitCanEnd` follows from `ProcInv` and `WaitersAreParents`: a process that is
blocked in `wait` has children. An awaited child whose `parent` is the waiting
process is alive by `NoWaitForZombie`, and one with another `parent` is in the list
of an init (`InitStays`). `WaitersAreParents` is kept because `wait` refuses a caller
without children before it blocks, and while a process is blocked its list
loses a child only in the exit that wakes it (`WaitersExit`). The children that
a process can wait for otherwise come from its own calls or from reparenting, which only adds.

**Kernel.** `KernelInv` is `ProcInv`, `QueueInv` and `Reasons`: a blocked
process without a timer is in a queue and called `semWait`, or called
`wait`. `Reasons` replaces `BlockedOnce`, which is false here: processes that the first
start left over are blocked without being waited for. `ResourcesInv` knows nothing
of the scheduler: what a process has on its list is allocated to it, numbered
below its next number and without repetition, and a resource's list is the set
of the descriptors that name it. It is preserved by every handler
on its own, by the loop of `exit` and by the clearing in `PCB_alloc`; the latter
is where a descriptor is lost. `KernelLost` says from where: from the list of
a PCB that is given out in that very step; and that a PCB comes to be free with
descriptors on its list only when `wait` frees a zombie, because the exit that frees
the PCB itself has emptied the list. `KernelBlocked` says that a blocked process is
where one kind of waker looks for it, once. It does not say that the waker will come:
that is `KernelWaits` for the wait of a child, and a matter of the posts
for a semaphore.

**Test program.** `ClientInv` relates the semaphores to the program points.
`GuardsBusy` says that a guard is a binary semaphore which is taken
while a child is inside; with it at most one reader has taken a value and
not advanced yet, so that the numbers of filled and of free cells are functions
of `var` and `taken`. `CellsCounted` says that `EMPTY` and `FULL` count the
cells that are in nobody's hands, and `BufferHolds` where the values between the
two indices are. The last part needs that the indices modulo the length do not
collide (`Division`, `RemainderUnique`), which follows from the counts.

**Pool and lists.** Both are defined by a walk: along the array of indices
from `first_idx`, or along `next` from the head of a list. `ObjectsInv` names the
sequence behind each walk. `ChainIs` says that a sequence without repetitions
holds the free blocks, each leading to the next one; `ListIs` that the head and the
links of its items are those of a sequence; `ObjectsAre` that the lists share
no item, that an item on no list has no links, and that only blocks that are
handed out are on lists. Each call puts one element into a sequence or takes one
out (`GetBlockStep`, `ReleaseBlockStep`, `ListInsertStep`, `ListDetachStep`).
`WalkMeets` then shows that a walk meets the elements of the sequence in order,
whatever their number. That is an induction over the steps; `SetInduction`
states it for a set of numbers, from the well-foundedness of `<`. Pool and lists
have to be in one invariant: `PoolAllocator` relies on the handlers not to free
an object that is on a list, and the alloc functions clear the links of the block they
get, which is harmless only if that block is on no list.

`ListLemmas` has the facts about sequences as lists (`Range`, `IsInjective` of
append, head and tail, concatenation, sub-sequence, insertion, removal), each
once.

## 7. Where the code and its documents disagree

Each is a run that finds the property violated; the quotations are in
`PROJECT.json` ("findings").

| run | property | what happens |
|---|---|---|
| `semwait_returns_zero` | `SemWaitReturnsZero` | `internal_semWait` stores its 0 after it has replaced `running`: the process that waited returns an old value, and the 0 lands in the PCB of the next process, whatever answer that one has not read yet. |
| `fd_names_one_semaphore` | `FdNamesOneSemaphore` | `semClose` decrements the next descriptor number, whichever descriptor was closed: two open semaphores get one number. |
| `init_reaps_orphans` | `InitReapsOrphans` | A reparented process keeps its parent pointer, so its exit does not wake init, which waits for it. |
| `alarm_during_trap` | `AlarmOffDuringTrap` | An alarm raised during a call is delivered inside the trap's `setcontext`, on the system stack, and overwrites the context that is being restored. |
| `semopen_not_negative` | `SemOpenNotNegative` | A process exits with an open semaphore, the next one in its PCB closes it, and its next `semOpen` succeeds with -1, which `src/README.txt:139` reserves for failures. |

The last run shows a second disagreement, at `disastrOS_exit.c:74`: "we release
all resources of a process upon termination". The loop below that comment knows no
semaphores, and it is on one of the two ways out only. A process that exits to a parent that does not
wait keeps its resource descriptors too, and they are lost when its PCB is
given out again: `LostOnlyByReuse`.

One disagreement has no run of its own. `disastrOS_wait.c:33-34` says that a wait for a
process which is not a child returns an error. The search above it ends at the
last child, which is then taken for the awaited one: it is reaped if it is a
zombie, and otherwise the caller blocks for a pid that no exit will have. The
steps of `Wait` do this, and `WaitCanEnd` has it as an exception.

## 8. What is only model-checked, and what is not modelled

Only model-checked:

- Liveness (`ReadyRuns`, `SleeperRuns`, `WaiterServed`, `AllFinish`): liveness
  under fairness is beyond the prover. All other properties of the passing runs
  are theorems as well.
- `Contexts`, whose one run shows that a property fails (section 7).
- The violation runs: a counterexample needs no proof.

Not modelled:

- *fork*: it shares the code of spawn except for the context, which it does not
  create. What the child would execute is not defined by the source.
- *The stacks*: `Contexts` shows that a context of the system stack is saved in
  a PCB and resumed after others used that stack ("lost"). What the cpu then
  does is undefined, and the model stops there.
- *The dispatch table*: its range check admits one number too many, which no
  wrapper passes.
- *The clock's overflow.*
- *In the test program*: the resources, which are opened and not used; and the
  opening of the semaphores. A child that opened them after all others had
  closed theirs would find new semaphores over a used buffer. In the program
  each iteration sleeps for ten ticks, in which every other child gets the cpu.
- *The log file*: see `Kernel` in section 2 for the one effect it has.
- *A process function that returns* instead of calling exit: its context is
  linked to `main_context` (`disastrOS_spawn.c:40`, `disastrOS.c:248`), so that
  the system would start again while that process is running. The functions of
  the program end in `disastrOS_exit` or `disastrOS_shutdown`, or never end. What
  happens there differs from `Restart`, which has no running process.
- *`List_init` of a list that is not empty* at the level of the links: see
  `KernelObjects` in section 2.
- *Printing*: read only.
- *Code that is not built*: `disastrOS_semops.c`, `internal_semopen.c`, the
  checks under `_LIST_DEBUG_`, `List_find`.

## 9. The plan

Done: all the modules of section 2, and the theorems of section 6.

Next:

1. `Contexts`: which of its promises do hold, as an invariant of the mask, the
   cpu and the saved contexts, as long as no alarm comes in the window that
   `alarm_during_trap` shows.
2. That the abstract counting semaphores keep a promise of their own which
   names no queue: a unit goes to whoever waited longest.
3. The safety halves of the liveness properties, for instance how many
   processes can be put in front of a ready one.

Liveness itself stays with TLC. A run is kept for each question. When the
composition answers a question of an earlier run on the same instance, the
earlier run goes.
