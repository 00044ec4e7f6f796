-------------------------- MODULE ProcessesProofs --------------------------
(***************************************************************************)
(* spawn, wait and exit lose no PCB, share none and free none twice, each  *)
(* process has one owner, and no parent sleeps through the exit of its     *)
(* child, for any number of PCBs, processes and pids.                      *)
(***************************************************************************)
EXTENDS Processes, SchedulerProofs

Freed == Range(free_pcbs)
Kids(p) == Range(children[p])
Live == ({running} \union waiting_list \union Range(ready_list)) \ {NULL}

\* The types of the variables of the processes.
ProcTypes ==
  /\ running \in Procs \union {NULL}
  /\ ready_list \in Seq(Procs)
  /\ waiting_list \subseteq Procs
  /\ status \in [Procs -> {"Invalid", "Running", "Ready", "Waiting", "Zombie"}]
  /\ syscall \in [Procs -> [num : SyscallNums, arg : Int]]
  /\ syscall_retvalue \in [Procs -> Int]
  /\ fault \in BOOLEAN
  /\ init_pcb \in Procs
  /\ pid \in [Procs -> Nat]
  /\ last_pid \in Nat
  /\ parent \in [Procs -> Procs \union {NULL}]
  /\ children \in [Procs -> Seq(Procs)]
  /\ zombie_list \subseteq Procs
  /\ free_pcbs \in Seq(Procs)
  /\ free_ptrs \in Nat

\* Who has a timer sleeps in disastrOS_sleep: exit does not wake a sleeper.
SleepersCall == \A p \in TimerProcs : syscall[p].num = "SLEEP"

\* A process that exited keeps its PCB until it is freed, and no other status
\* is that of a zombie.
ZombiesKept ==
  /\ \A p \in Procs : status[p] = "Zombie" => p \in zombie_list \union Freed
  /\ \A p \in zombie_list : status[p] = "Zombie"

\* PCBPtr_byPID finds the PCB it looks for.
PidsDistinct ==
  /\ \A p \in Procs : pid[p] < last_pid
  /\ \A p, q \in Procs \ Freed : pid[p] = pid[q] => p = q

\* init never exits, and a process has its own children and those it inherits
\* as init.
InitStays ==
  /\ parent[init_pcb] = NULL
  /\ init_pcb \notin zombie_list \union Freed
  /\ \A p, q \in Procs : q \in Kids(p) => parent[q] = p \/ parent[p] = NULL

\* All parts together are inductive: that a PCB is freed once needs its owner,
\* that the owner is awake needs the status, and that the right pointer goes
\* needs the pids.
ProcInv ==
  /\ ProcTypes
  /\ TimersInv
  /\ SleepersCall
  /\ ZombiesKept
  /\ PidsDistinct
  /\ InitStays
  /\ OnePlaceEach
  /\ OneOwnerEach
  /\ StatusMatchesLists
  /\ NoWaitForZombie

-----------------------------------------------------------------------------
(***************************************************************************)
(* The invariant in the words of the proofs.                               *)
(***************************************************************************)

\* The five places of a PCB, pair by pair.
Placed(run, ready, waiting, zombies, free) ==
  /\ Procs \subseteq {run} \union Range(ready) \union waiting \union zombies \union Range(free)
  /\ run \notin Range(ready) \union waiting \union zombies \union Range(free)
  /\ Range(ready) \intersect (waiting \union zombies \union Range(free)) = {}
  /\ waiting \intersect (zombies \union Range(free)) = {}
  /\ zombies \intersect Range(free) = {}
  /\ IsInjective(ready)
  /\ IsInjective(free)

\* The tuple of the places in OnePlaceEach, written out.
LEMMA PlacedIs ==
  ASSUME NEW run, NEW ready, NEW waiting, NEW zombies, NEW free
  PROVE  LET places == <<{run}, Range(ready), waiting, zombies, Range(free)>>
         IN  Placed(run, ready, waiting, zombies, free) <=>
               /\ Procs \subseteq UNION Range(places)
               /\ \A k, m \in DOMAIN places : k # m => places[k] \intersect places[m] = {}
               /\ IsInjective(ready)
               /\ IsInjective(free)
<1> DEFINE places == <<{run}, Range(ready), waiting, zombies, Range(free)>>
<1>1. /\ DOMAIN places = 1..5
      /\ places[1] = {run} /\ places[2] = Range(ready) /\ places[3] = waiting
      /\ places[4] = zombies /\ places[5] = Range(free)
  OBVIOUS
<1> HIDE DEF places
<1>2. \A k \in 1..5 : k = 1 \/ k = 2 \/ k = 3 \/ k = 4 \/ k = 5
  OBVIOUS
<1>3. UNION Range(places) = {run} \union Range(ready) \union waiting \union zombies \union Range(free)
  <2>1. \A S : S \in Range(places) <=> \E k \in 1..5 : places[k] = S
    BY <1>1 DEF Range
  <2>2. \A x : x \in UNION Range(places) <=> \E k \in 1..5 : x \in places[k]
    BY <2>1
  <2>3. \A x : (\E k \in 1..5 : x \in places[k]) <=>
                  \/ x \in places[1] \/ x \in places[2] \/ x \in places[3]
                  \/ x \in places[4] \/ x \in places[5]
    BY <1>2
  <2> QED BY <1>1, <2>2, <2>3
<1>4. (\A k, m \in 1..5 : k # m => places[k] \intersect places[m] = {}) <=>
        /\ {run} \intersect (Range(ready) \union waiting \union zombies \union Range(free)) = {}
        /\ Range(ready) \intersect (waiting \union zombies \union Range(free)) = {}
        /\ waiting \intersect (zombies \union Range(free)) = {}
        /\ zombies \intersect Range(free) = {}
  <2>1. ASSUME \A k, m \in 1..5 : k # m => places[k] \intersect places[m] = {}
        PROVE  /\ places[1] \intersect places[2] = {} /\ places[1] \intersect places[3] = {}
               /\ places[1] \intersect places[4] = {} /\ places[1] \intersect places[5] = {}
               /\ places[2] \intersect places[3] = {} /\ places[2] \intersect places[4] = {}
               /\ places[2] \intersect places[5] = {} /\ places[3] \intersect places[4] = {}
               /\ places[3] \intersect places[5] = {} /\ places[4] \intersect places[5] = {}
    BY <2>1
  <2>2. ASSUME places[1] \intersect places[2] = {}, places[1] \intersect places[3] = {},
               places[1] \intersect places[4] = {}, places[1] \intersect places[5] = {},
               places[2] \intersect places[3] = {}, places[2] \intersect places[4] = {},
               places[2] \intersect places[5] = {}, places[3] \intersect places[4] = {},
               places[3] \intersect places[5] = {}, places[4] \intersect places[5] = {},
               NEW k \in 1..5, NEW m \in 1..5, k # m
        PROVE  places[k] \intersect places[m] = {}
    BY <1>2, <2>2
  <2> QED BY <1>1, <2>1, <2>2
<1> QED BY <1>1, <1>3, <1>4 DEF Placed, places

\* OnePlaceEach now and in the next state.
LEMMA PlacesAre ==
  /\ OnePlaceEach <=> Placed(running, ready_list, waiting_list, zombie_list, free_pcbs)
  /\ OnePlaceEach' <=> Placed(running', ready_list', waiting_list', zombie_list', free_pcbs')
  BY PlacedIs DEF OnePlaceEach

\* kids gives each process the children on its list. The process p with a parent
\* is on the list of one that is not in the set gone, and on no other list.
OwnedOnce(kids, par, gone, free, p) ==
  IF par[p] = NULL \/ p \in free
  THEN \A r \in Procs : p \notin Range(kids[r])
  ELSE \E r \in Procs \ gone : /\ p \in Range(kids[r])
                               /\ \A o \in Procs : p \in Range(kids[o]) => o = r

\* The same by the set of the owners, as in OneOwnerEach.
LEMMA OwnedIs ==
  ASSUME NEW kids, NEW par, NEW gone, NEW free, NEW p \in Procs
  PROVE  LET owners == {r \in Procs : p \in Range(kids[r])}
         IN  OwnedOnce(kids, par, gone, free, p) <=>
               IF par[p] = NULL \/ p \in free
               THEN owners = {}
               ELSE \E r \in Procs \ gone : owners = {r}
<1> DEFINE owners == {r \in Procs : p \in Range(kids[r])}
<1>1. /\ owners = {} <=> \A r \in Procs : p \notin Range(kids[r])
      /\ \A r \in Procs : owners = {r} <=>
                      /\ p \in Range(kids[r])
                      /\ \A o \in Procs : p \in Range(kids[o]) => o = r
  OBVIOUS
<1> HIDE DEF owners
<1> QED BY <1>1 DEF OwnedOnce, owners

\* OneOwnerEach now and in the next state.
LEMMA OwnersAre ==
  /\ OneOwnerEach <=> \A p \in Procs :
       /\ IsInjective(children[p])
       /\ OwnedOnce(children, parent, zombie_list \union Freed, Freed, p)
  /\ OneOwnerEach' <=> \A p \in Procs :
       /\ IsInjective(children'[p])
       /\ OwnedOnce(children', parent', zombie_list' \union Freed', Freed', p)
<1>1. OneOwnerEach <=> \A p \in Procs :
       /\ IsInjective(children[p])
       /\ OwnedOnce(children, parent, zombie_list \union Freed, Freed, p)
  <2>1. ASSUME NEW p \in Procs
        PROVE  LET owners == {r \in Procs : p \in Range(children[r])}
               IN  OwnedOnce(children, parent, zombie_list \union Freed, Freed, p) <=>
                     IF parent[p] = NULL \/ p \in Range(free_pcbs)
                     THEN owners = {}
                     ELSE \E r \in Procs \ (zombie_list \union Range(free_pcbs)) : owners = {r}
    BY OwnedIs DEF Freed
  <2> QED BY <2>1, Zenon DEF OneOwnerEach
<1>2. OneOwnerEach' <=> \A p \in Procs :
       /\ IsInjective(children'[p])
       /\ OwnedOnce(children', parent', zombie_list' \union Freed', Freed', p)
  <2>1. ASSUME NEW p \in Procs
        PROVE  LET owners == {r \in Procs : p \in Range(children'[r])}
               IN  OwnedOnce(children', parent', zombie_list' \union Freed', Freed', p) <=>
                     IF parent'[p] = NULL \/ p \in Range(free_pcbs')
                     THEN owners = {}
                     ELSE \E r \in Procs \ (zombie_list' \union Range(free_pcbs')) : owners = {r}
    BY OwnedIs DEF Freed
  <2> QED BY <2>1, Zenon DEF OneOwnerEach
<1> QED BY <1>1, <1>2

-----------------------------------------------------------------------------
(***************************************************************************)
(* The steps that only move processes between the cpu and the two lists.   *)
(***************************************************************************)

\* What the moves of the scheduler do to the processes that are neither free
\* nor zombies: they stay among themselves, and their status says where they are.
Moves ==
  /\ running' \in Procs \union {NULL}
  /\ ready_list' \in Seq(Procs)
  /\ waiting_list' \subseteq Procs
  /\ IsInjective(ready_list')
  /\ running' \notin waiting_list' \union Range(ready_list')
  /\ waiting_list' \intersect Range(ready_list') = {}
  /\ Live' = Live
  /\ status' \in [Procs -> {"Invalid", "Running", "Ready", "Waiting", "Zombie"}]
  /\ \A p \in Procs \ Live : status'[p] = status[p]
  /\ \A p \in Live : status'[p] # "Zombie" /\ (status'[p] = "Waiting" <=> p \in waiting_list')

\* The invariant, with the places and the owners in the words of the proofs.
LEMMA ProcInvParts ==
  ASSUME ProcInv
  PROVE  /\ ProcTypes /\ TimersInv /\ SleepersCall
         /\ Placed(running, ready_list, waiting_list, zombie_list, free_pcbs)
         /\ \A p \in Procs :
              /\ IsInjective(children[p])
              /\ OwnedOnce(children, parent, zombie_list \union Freed, Freed, p)
         /\ NULL \notin Procs
         /\ Live \subseteq Procs
         /\ Live \intersect (zombie_list \union Freed) = {}
         /\ \A p \in Live : status[p] # "Zombie" /\ (status[p] = "Waiting" <=> p \in waiting_list)
<1>1. /\ ProcTypes /\ TimersInv /\ SleepersCall
      /\ Placed(running, ready_list, waiting_list, zombie_list, free_pcbs)
      /\ NULL \notin Procs
  BY PlacesAre, SchedulerAssumption DEF ProcInv
<1>2. \A p \in Procs :
        /\ IsInjective(children[p])
        /\ OwnedOnce(children, parent, zombie_list \union Freed, Freed, p)
  BY OwnersAre DEF ProcInv
<1>3. Live \subseteq Procs
  BY <1>1, RangeOf DEF ProcTypes, Live
<1>4. Live \intersect (zombie_list \union Freed) = {}
  BY <1>1 DEF Placed, Live, Freed
<1>5. \A p \in Live : status[p] # "Zombie" /\ (status[p] = "Waiting" <=> p \in waiting_list)
  BY <1>3, <1>4 DEF ProcInv, ZombiesKept, StatusMatchesLists
<1> QED BY <1>1, <1>2, <1>3, <1>4, <1>5

\* Moves keep the tree of the processes. That no parent waits for a zombie
\* needs that nobody new waits for one.
LEMMA MovesKeep ==
  ASSUME ProcInv, Moves, UNCHANGED treeVars,
         TimersInv', SleepersCall',
         syscall' \in [Procs -> [num : SyscallNums, arg : Int]],
         syscall_retvalue' \in [Procs -> Int],
         fault' \in BOOLEAN,
         \A p \in waiting_list' : \/ p \in waiting_list /\ syscall'[p] = syscall[p]
                                  \/ syscall'[p].num # "WAIT"
                                  \/ \A q \in Kids(p) : ~ /\ syscall'[p].arg \in {0, pid[q]}
                                                          /\ status[q] = "Zombie"
  PROVE  ProcInv'
<1>1. UNCHANGED <<init_pcb, pid, last_pid, parent, children, zombie_list, free_pcbs, free_ptrs>>
  BY DEF treeVars
<1>2. /\ ProcTypes
      /\ Placed(running, ready_list, waiting_list, zombie_list, free_pcbs)
      /\ NULL \notin Procs
      /\ Live \subseteq Procs
      /\ Live \intersect (zombie_list \union Freed) = {}
      /\ \A p \in Live : status[p] # "Zombie"
  BY ProcInvParts
<1>3. Freed' = Freed
  BY <1>1 DEF Freed
<1>4. ProcTypes'
  BY <1>1 DEF ProcInv, ProcTypes, Moves
<1>5. \A p \in Procs : status'[p] = "Zombie" <=> status[p] = "Zombie"
  BY <1>2 DEF Moves
<1>6. ZombiesKept'
  BY <1>1, <1>2, <1>3, <1>5 DEF ProcInv, ZombiesKept, ProcTypes
<1>7. PidsDistinct'
  BY <1>1, <1>3 DEF ProcInv, PidsDistinct
<1>8. InitStays'
  BY <1>1, <1>3 DEF ProcInv, InitStays, Kids
<1>9. OnePlaceEach'
  <2>1. Live = ({running'} \union waiting_list' \union Range(ready_list')) \ {NULL}
    BY DEF Moves, Live
  <2>2. /\ NULL \notin Range(ready_list') /\ NULL \notin waiting_list'
        /\ running' \in Procs \union {NULL}
        /\ running' \notin waiting_list' \union Range(ready_list')
        /\ waiting_list' \intersect Range(ready_list') = {}
        /\ IsInjective(ready_list')
    BY <1>2, RangeOf DEF Moves
  <2>3. Procs \subseteq Live \union zombie_list \union Range(free_pcbs)
    BY <1>2 DEF Placed, Live
  <2>4. NULL \notin zombie_list /\ NULL \notin Range(free_pcbs)
    BY <1>2, RangeOf DEF ProcTypes
  <2>5. /\ Procs \subseteq {running'} \union Range(ready_list') \union waiting_list'
                             \union zombie_list \union Range(free_pcbs)
        /\ running' \notin Range(ready_list') \union waiting_list'
                             \union zombie_list \union Range(free_pcbs)
        /\ Range(ready_list') \intersect (waiting_list' \union zombie_list \union Range(free_pcbs)) = {}
        /\ waiting_list' \intersect (zombie_list \union Range(free_pcbs)) = {}
    BY <1>2, <2>1, <2>2, <2>3, <2>4 DEF Freed
  <2>6. Placed(running', ready_list', waiting_list', zombie_list', free_pcbs')
    BY <1>1, <1>2, <2>2, <2>5 DEF Placed
  <2> QED BY <2>6, PlacesAre
<1>10. OneOwnerEach'
  BY <1>1, <1>3, OwnersAre DEF ProcInv
<1>11. StatusMatchesLists'
  <2> SUFFICES ASSUME NEW p \in Procs
               PROVE  p \in waiting_list' <=> status'[p] = "Waiting"
    BY DEF StatusMatchesLists
  <2>1. CASE p \in Live
    BY <2>1 DEF Moves
  <2>2. CASE p \notin Live
    <3>1. status'[p] = status[p] /\ p \notin waiting_list /\ p \notin waiting_list'
      BY <1>2, <2>2 DEF Moves, Live
    <3> QED BY <3>1 DEF ProcInv, StatusMatchesLists
  <2> QED BY <2>1, <2>2
<1>12. NoWaitForZombie'
  <2> SUFFICES ASSUME NEW p \in Procs, NEW q \in Kids(p),
                      p \in waiting_list',
                      syscall'[p].num = "WAIT",
                      syscall'[p].arg \in {0, pid[q]},
                      parent[q] = p,
                      status'[q] = "Zombie"
               PROVE  FALSE
    BY <1>1 DEF NoWaitForZombie, Kids
  <2>1. q \in Procs /\ status[q] = "Zombie"
    BY <1>2, <1>5, RangeOf DEF ProcTypes, Kids
  <2>2. p \in waiting_list /\ syscall'[p] = syscall[p]
    BY <2>1
  <2> QED BY <2>1, <2>2 DEF ProcInv, NoWaitForZombie, Kids
<1> QED BY <1>4, <1>6, <1>7, <1>8, <1>9, <1>10, <1>11, <1>12 DEF ProcInv

\* internal_schedule moves the processes that wake up and the running one.
LEMMA ScheduleMoves ==
  ASSUME ProcInv, running \in Procs, NEW timers, SameTimers(timers), internal_schedule(timers)
  PROVE  /\ Moves
         /\ TimersInv'
         /\ TimerProcs' \subseteq TimerProcs
         /\ waiting_list' \subseteq waiting_list
         /\ running' \in Procs
<1>0. /\ ProcTypes /\ TimersInv
      /\ Placed(running, ready_list, waiting_list, zombie_list, free_pcbs)
      /\ NULL \notin Procs
      /\ Live \subseteq Procs
      /\ \A p \in Live : status[p] # "Zombie" /\ (status[p] = "Waiting" <=> p \in waiting_list)
  BY ProcInvParts
<1> DEFINE woken == Woken(timers)
           ready == woken \o ready_list
<1>1. /\ timer_list' = SubSeq(timers, Len(Woken(timers)) + 1, Len(timers))
      /\ waiting_list' = waiting_list \ Range(woken)
      /\ \/ ready = <<>> /\ UNCHANGED <<running, ready_list, status>>
         \/ /\ ready # <<>>
            /\ running' = Head(ready)
            /\ ready_list' = Append(Tail(ready), running)
            /\ status' = [p \in Procs |->
                            IF p = Head(ready) THEN "Running"
                            ELSE IF p = running \/ p \in Range(woken) THEN "Ready"
                            ELSE status[p]]
  BY DEF internal_schedule, EnqueueReady
<1>2. /\ TimersInv'
      /\ woken \in Seq(Procs)
      /\ IsInjective(woken)
      /\ Range(woken) \subseteq TimerProcs
      /\ TimerProcs' = TimerProcs \ Range(woken)
      /\ TimerProcs \subseteq waiting_list
  BY <1>0, <1>1, TimersSchedule DEF TimersInv, TimersSorted
<1> HIDE DEF woken
<1>3. /\ running \notin waiting_list \union Range(ready_list)
      /\ waiting_list \intersect Range(ready_list) = {}
      /\ IsInjective(ready_list)
      /\ ready_list \in Seq(Procs)
      /\ waiting_list \subseteq Procs
  BY <1>0 DEF Placed, ProcTypes
<1>4. /\ ready \in Seq(Procs)
      /\ Range(ready) = Range(woken) \union Range(ready_list)
      /\ IsInjective(ready)
  BY <1>2, <1>3, ConcatRange
<1> HIDE DEF ready
<1>5. CASE ready = <<>> /\ UNCHANGED <<running, ready_list, status>>
  <2>1. Range(woken) = {}
    BY <1>4, <1>5, EmptyRange
  <2>2. waiting_list' = waiting_list
    BY <1>1, <2>1
  <2>3. Moves
    BY <1>0, <1>3, <1>5, <2>2 DEF Moves, Live, ProcTypes
  <2> QED BY <1>2, <1>5, <2>2, <2>3
<1>6. CASE /\ ready # <<>>
           /\ running' = Head(ready)
           /\ ready_list' = Append(Tail(ready), running)
           /\ status' = [p \in Procs |->
                           IF p = Head(ready) THEN "Running"
                           ELSE IF p = running \/ p \in Range(woken) THEN "Ready"
                           ELSE status[p]]
  <2> DEFINE rest == Tail(ready)
             first == Head(ready)
  <2>1. /\ first \in Procs
        /\ rest \in Seq(Procs)
        /\ Range(ready) = Range(rest) \union {first}
        /\ IsInjective(rest) /\ first \notin Range(rest)
    BY <1>4, <1>6, TailRange
  <2> HIDE DEF rest, first
  <2>2. running \notin Range(ready)
    BY <1>2, <1>3, <1>4
  <2>3. /\ ready_list' \in Seq(Procs)
        /\ Range(ready_list') = Range(rest) \union {running}
        /\ IsInjective(ready_list')
    <3>1. /\ Append(rest, running) \in Seq(Procs)
          /\ Range(Append(rest, running)) = Range(rest) \union {running}
          /\ IsInjective(Append(rest, running))
      BY <2>1, <2>2, AppendRange
    <3> QED BY <1>6, <3>1 DEF rest
  <2>4. running' = first /\ first \in Range(woken) \union Range(ready_list)
    BY <1>4, <1>6, <2>1 DEF first
  <2>5. /\ running' \notin waiting_list' \union Range(ready_list')
        /\ waiting_list' \intersect Range(ready_list') = {}
    BY <1>1, <1>2, <1>3, <1>4, <2>1, <2>2, <2>3, <2>4
  <2>6. Live' = Live
    <3>1. {running'} \union waiting_list' \union Range(ready_list') =
            {running} \union waiting_list \union Range(ready_list)
      BY <1>1, <1>2, <1>4, <2>1, <2>3, <2>4
    <3> QED BY <3>1 DEF Live
  <2>7. \A p \in Procs : status'[p] = IF p = first THEN "Running"
                                      ELSE IF p = running \/ p \in Range(woken) THEN "Ready"
                                      ELSE status[p]
    BY <1>6 DEF first
  <2>8. status' \in [Procs -> {"Invalid", "Running", "Ready", "Waiting", "Zombie"}]
    BY <1>0, <1>6 DEF ProcTypes
  <2>9. \A p \in Procs \ Live : status'[p] = status[p]
    <3>1. first \in Live /\ running \in Live /\ Range(woken) \subseteq Live
      BY <1>0, <1>2, <1>3, <2>1, <2>4 DEF Live
    <3> QED BY <2>7, <3>1
  <2>10. ASSUME NEW p \in Live
         PROVE  status'[p] # "Zombie" /\ (status'[p] = "Waiting" <=> p \in waiting_list')
    <3>1. p \in Procs /\ status[p] # "Zombie" /\ (status[p] = "Waiting" <=> p \in waiting_list)
      BY <1>0
    <3>2. first \notin waiting_list' /\ running \notin waiting_list'
      BY <1>1, <1>3, <2>4, <2>5
    <3> QED BY <1>1, <2>7, <3>1, <3>2
  <2>11. Moves
    BY <1>1, <1>3, <2>1, <2>3, <2>4, <2>5, <2>6, <2>8, <2>9, <2>10 DEF Moves
  <2> QED BY <1>1, <1>2, <2>1, <2>4, <2>11
<1> QED BY <1>1, <1>5, <1>6

\* The running process blocks and the first ready one runs, or nobody does.
LEMMA BlockMoves ==
  ASSUME ProcInv, running \in Procs, Block(running),
         RunNext \/ (ready_list = <<>> /\ running' = NULL /\ UNCHANGED ready_list)
  PROVE  /\ Moves
         /\ waiting_list' = waiting_list \union {running}
         /\ running \notin waiting_list
<1>0. /\ ProcTypes
      /\ Placed(running, ready_list, waiting_list, zombie_list, free_pcbs)
      /\ NULL \notin Procs
      /\ Live \subseteq Procs
      /\ \A p \in Live : status[p] # "Zombie" /\ (status[p] = "Waiting" <=> p \in waiting_list)
  BY ProcInvParts
<1>1. /\ waiting_list' = waiting_list \union {running}
      /\ status' = [status EXCEPT ![running] = "Waiting"]
  BY DEF Block
<1>2. /\ running \notin waiting_list \union Range(ready_list)
      /\ waiting_list \intersect Range(ready_list) = {}
      /\ IsInjective(ready_list)
      /\ ready_list \in Seq(Procs)
      /\ waiting_list \subseteq Procs
  BY <1>0 DEF Placed, ProcTypes
<1>3. /\ waiting_list' \subseteq Procs
      /\ status' \in [Procs -> {"Invalid", "Running", "Ready", "Waiting", "Zombie"}]
      /\ \A p \in Procs : status'[p] = IF p = running THEN "Waiting" ELSE status[p]
  BY <1>0, <1>1, <1>2 DEF ProcTypes
<1>4. running \in Live
  BY <1>0 DEF Live
<1>5. /\ \A p \in Procs \ Live : status'[p] = status[p]
      /\ \A p \in Live : status'[p] # "Zombie" /\ (status'[p] = "Waiting" <=> p \in waiting_list')
  BY <1>0, <1>1, <1>3, <1>4
<1>6. CASE RunNext
  <2>1. ready_list # <<>> /\ running' = Head(ready_list) /\ ready_list' = Tail(ready_list)
    BY <1>6 DEF RunNext
  <2>2. /\ running' \in Procs
        /\ ready_list' \in Seq(Procs)
        /\ Range(ready_list) = Range(ready_list') \union {running'}
        /\ IsInjective(ready_list')
        /\ running' \notin Range(ready_list')
    BY <1>2, <2>1, TailRange
  <2>3. Live' = Live
    BY <1>1, <2>2 DEF Live
  <2>4. /\ running' \notin waiting_list' \union Range(ready_list')
        /\ waiting_list' \intersect Range(ready_list') = {}
    BY <1>1, <1>2, <2>2
  <2> QED BY <1>1, <1>2, <1>3, <1>5, <2>2, <2>3, <2>4 DEF Moves
<1>7. CASE ready_list = <<>> /\ running' = NULL /\ UNCHANGED ready_list
  <2>1. Range(ready_list) = {}
    BY <1>7, EmptyRange
  <2>2. Live' = Live
    BY <1>0, <1>1, <1>7, <2>1 DEF Live
  <2>3. running' \notin waiting_list' \union Range(ready_list')
    BY <1>0, <1>1, <1>2, <1>7, <2>1
  <2> QED BY <1>1, <1>2, <1>3, <1>5, <1>7, <2>1, <2>2, <2>3 DEF Moves
<1> QED BY <1>1, <1>2, <1>6, <1>7

\* A system call is stored in the PCB of the running process alone, which is on
\* no list.
LEMMA CallOfRunning ==
  ASSUME ProcInv, NEW p \in Procs, NEW num \in SyscallNums, NEW arg \in Int,
         Syscall(p, num, arg)
  PROVE  /\ ~fault /\ running = p /\ p \in Live
         /\ p \notin waiting_list /\ p \notin TimerProcs
         /\ p \notin Freed /\ p \notin zombie_list /\ p \notin Range(ready_list)
         /\ syscall' \in [Procs -> [num : SyscallNums, arg : Int]]
         /\ syscall'[p] = [num |-> num, arg |-> arg]
         /\ \A q \in Procs \ {p} : syscall'[q] = syscall[q]
<1>1. /\ syscall \in [Procs -> [num : SyscallNums, arg : Int]]
      /\ TimerProcs \subseteq waiting_list
      /\ Placed(running, ready_list, waiting_list, zombie_list, free_pcbs)
      /\ NULL \notin Procs
  BY ProcInvParts DEF ProcTypes, TimersInv, TimersSorted
<1>2. running = p /\ ~fault /\ syscall' = [syscall EXCEPT ![p] = [num |-> num, arg |-> arg]]
  BY DEF Syscall
<1>3. [num |-> num, arg |-> arg] \in [num : SyscallNums, arg : Int]
  OBVIOUS
<1> QED BY <1>1, <1>2, <1>3 DEF Placed, Live, Freed

\* A step that moves nobody and changes at most the call of the running process.
LEMMA QuietKeeps ==
  ASSUME ProcInv, UNCHANGED schedVars, UNCHANGED treeVars,
         syscall' \in [Procs -> [num : SyscallNums, arg : Int]],
         \A q \in Procs \ {running} : syscall'[q] = syscall[q],
         syscall_retvalue' \in [Procs -> Int],
         fault' \in BOOLEAN
  PROVE  ProcInv'
<1>1. UNCHANGED <<running, ready_list, waiting_list, timer_list, status>>
  BY DEF schedVars
<1>2. /\ ProcTypes /\ TimersInv /\ SleepersCall
      /\ Placed(running, ready_list, waiting_list, zombie_list, free_pcbs)
      /\ \A p \in Live : status[p] # "Zombie" /\ (status[p] = "Waiting" <=> p \in waiting_list)
  BY ProcInvParts
<1>3. running \notin waiting_list /\ TimerProcs \subseteq waiting_list /\ waiting_list \subseteq Procs
  BY <1>2 DEF Placed, TimersInv, TimersSorted, ProcTypes
<1>4. Moves
  BY <1>1, <1>2 DEF Moves, Live, Placed, ProcTypes
<1>5. TimersInv' /\ TimerProcs' = TimerProcs
  BY <1>1, <1>2 DEF TimersInv, TimersSorted, TimerProcs
<1>6. SleepersCall'
  BY <1>2, <1>3, <1>5 DEF SleepersCall
<1>7. \A p \in waiting_list' : p \in waiting_list /\ syscall'[p] = syscall[p]
  BY <1>1, <1>3
<1> QED BY <1>4, <1>5, <1>6, <1>7, MovesKeep

\* A null pointer in the call of the running process stops everything where it is.
LEMMA CrashKeeps ==
  ASSUME ProcInv, NEW p \in Procs, NEW num \in SyscallNums, NEW arg \in Int,
         Syscall(p, num, arg), Crash, UNCHANGED treeVars
  PROVE  ProcInv'
<1>1. /\ running = p
      /\ syscall' \in [Procs -> [num : SyscallNums, arg : Int]]
      /\ \A q \in Procs \ {p} : syscall'[q] = syscall[q]
  BY CallOfRunning
<1>2. UNCHANGED schedVars /\ syscall_retvalue' \in [Procs -> Int] /\ fault' \in BOOLEAN
  BY DEF Crash, ProcInv, ProcTypes
<1> QED BY <1>1, <1>2, QuietKeeps

\* The steps of the scheduler: the timers, preempt, sleep, and the return from a
\* system call.
LEMMA SchedulerKeeps ==
  ASSUME ProcInv, Next, UNCHANGED treeVars
  PROVE  ProcInv'
<1>0. /\ ProcTypes /\ TimersInv /\ SleepersCall
      /\ TimerProcs \subseteq waiting_list
      /\ waiting_list \subseteq Procs
  BY ProcInvParts DEF ProcTypes, TimersInv, TimersSorted
<1>1. CASE TimerInterrupt
  <2>1. /\ running \in Procs
        /\ internal_schedule(Ticked(timer_list))
        /\ UNCHANGED <<syscall, syscall_retvalue, fault>>
    BY <1>0, <1>1 DEF TimerInterrupt, ProcTypes
  <2>2. /\ Moves /\ TimersInv' /\ TimerProcs' \subseteq TimerProcs
        /\ waiting_list' \subseteq waiting_list
    BY <1>0, <2>1, TimersNow, ScheduleMoves
  <2>3. SleepersCall'
    BY <1>0, <2>1, <2>2 DEF SleepersCall
  <2>4. /\ syscall' \in [Procs -> [num : SyscallNums, arg : Int]]
        /\ syscall_retvalue' \in [Procs -> Int]
        /\ fault' \in BOOLEAN
    BY <1>0, <2>1 DEF ProcTypes
  <2>5. \A p \in waiting_list' : p \in waiting_list /\ syscall'[p] = syscall[p]
    BY <2>1, <2>2
  <2> QED BY <2>2, <2>3, <2>4, <2>5, MovesKeep
<1>2. CASE TimerInterruptNoProcess
  BY <1>0, <1>2, QuietKeeps DEF TimerInterruptNoProcess, Crash, ProcTypes
<1>3. ASSUME NEW p \in Procs, Preempt(p) PROVE ProcInv'
  <2>1. /\ Syscall(p, "PREEMPT", 0)
        /\ internal_schedule(timer_list)
        /\ UNCHANGED <<syscall_retvalue, fault>>
        /\ "PREEMPT" \in SyscallNums /\ 0 \in Int
    BY <1>3 DEF Preempt, SyscallNums
  <2>2. /\ running = p /\ p \notin waiting_list
        /\ syscall' \in [Procs -> [num : SyscallNums, arg : Int]]
        /\ \A q \in Procs \ {p} : syscall'[q] = syscall[q]
    BY <2>1, CallOfRunning
  <2>3. /\ Moves /\ TimersInv' /\ TimerProcs' \subseteq TimerProcs
        /\ waiting_list' \subseteq waiting_list
    BY <1>0, <2>1, <2>2, TimersNow, ScheduleMoves
  <2>4. \A q \in waiting_list' : q \in waiting_list /\ syscall'[q] = syscall[q]
    BY <1>0, <2>2, <2>3
  <2>5. SleepersCall'
    BY <1>0, <2>2, <2>3 DEF SleepersCall
  <2>6. syscall_retvalue' \in [Procs -> Int] /\ fault' \in BOOLEAN
    BY <1>0, <2>1 DEF ProcTypes
  <2> QED BY <2>2, <2>3, <2>4, <2>5, <2>6, MovesKeep
<1>4. ASSUME NEW p \in Procs, NEW c \in SleepTimes, Sleep(p, c) PROVE ProcInv'
  <2>1. /\ Syscall(p, "SLEEP", c)
        /\ timer_list' = TimerList_add(timer_list, [pcb |-> p, left |-> c])
        /\ Block(p)
        /\ RunNext \/ (ready_list = <<>> /\ running' = NULL /\ UNCHANGED ready_list)
        /\ UNCHANGED <<syscall_retvalue, fault>>
        /\ "SLEEP" \in SyscallNums /\ c \in Int
    BY <1>4, SchedulerAssumption DEF Sleep, SyscallNums
  <2>2. /\ running = p /\ p \notin waiting_list
        /\ syscall' \in [Procs -> [num : SyscallNums, arg : Int]]
        /\ syscall'[p] = [num |-> "SLEEP", arg |-> c]
        /\ \A q \in Procs \ {p} : syscall'[q] = syscall[q]
    BY <2>1, CallOfRunning
  <2>3. Moves /\ waiting_list' = waiting_list \union {p}
    BY <2>1, <2>2, BlockMoves
  <2>4. TimersInv' /\ TimerProcs' = TimerProcs \union {p}
    BY <1>0, <2>1, <2>2, <2>3, TimersSleep
  <2>5. syscall'[p].num = "SLEEP"
    BY <2>2
  <2>6. SleepersCall'
    BY <1>0, <2>2, <2>4, <2>5 DEF SleepersCall
  <2>7. syscall_retvalue' \in [Procs -> Int] /\ fault' \in BOOLEAN
    BY <1>0, <2>1 DEF ProcTypes
  <2>8. \A q \in waiting_list' : \/ q \in waiting_list /\ syscall'[q] = syscall[q]
                                 \/ syscall'[q].num # "WAIT"
    BY <1>0, <2>2, <2>3, <2>5
  <2> QED BY <2>2, <2>3, <2>4, <2>6, <2>7, <2>8, MovesKeep
<1>5. ASSUME NEW p \in Procs, Return(p) PROVE ProcInv'
  <2>1. NoCall \in [num : SyscallNums, arg : Int]
    BY DEF NoCall, SyscallNums
  <2>2. /\ running = p
        /\ syscall' = [syscall EXCEPT ![p] = NoCall]
        /\ UNCHANGED schedVars /\ UNCHANGED <<syscall_retvalue, fault>>
    BY <1>5 DEF Return
  <2>3. /\ syscall' \in [Procs -> [num : SyscallNums, arg : Int]]
        /\ \A q \in Procs \ {p} : syscall'[q] = syscall[q]
    BY <1>0, <2>1, <2>2 DEF ProcTypes
  <2>4. syscall_retvalue' \in [Procs -> Int] /\ fault' \in BOOLEAN
    BY <1>0, <2>2 DEF ProcTypes
  <2> QED BY <2>2, <2>3, <2>4, QuietKeeps
<1> QED BY <1>1, <1>2, <1>3, <1>4, <1>5 DEF Next

-----------------------------------------------------------------------------
(***************************************************************************)
(* spawn.                                                                  *)
(***************************************************************************)

\* A new process: its PCB was free, so that nobody had it on a list of children.
LEMMA SpawnChildKeeps ==
  ASSUME ProcInv, NEW p \in Procs, ~fault, running = p, SpawnChild(p)
  PROVE  ProcInv'
<1> DEFINE child == Head(free_pcbs)
<1>0. /\ ProcTypes /\ TimersInv /\ SleepersCall
      /\ Placed(running, ready_list, waiting_list, zombie_list, free_pcbs)
      /\ NULL \notin Procs
      /\ TimerProcs \subseteq waiting_list
      /\ \A q \in Procs :
           /\ IsInjective(children[q])
           /\ OwnedOnce(children, parent, zombie_list \union Freed, Freed, q)
  BY ProcInvParts DEF TimersInv, TimersSorted
<1>1. /\ free_pcbs # <<>>
      /\ free_ptrs > 0
      /\ free_pcbs' = Tail(free_pcbs)
      /\ free_ptrs' = free_ptrs - 1
      /\ pid' = [pid EXCEPT ![child] = last_pid]
      /\ last_pid' = last_pid + 1
      /\ parent' = [parent EXCEPT ![child] = p]
      /\ children' = [children EXCEPT ![child] = <<>>, ![p] = Append(@, child)]
      /\ status' = [status EXCEPT ![child] = "Ready"]
      /\ ready_list' = Append(ready_list, child)
      /\ syscall' = [syscall EXCEPT ![child] = NoCall, ![p] = [num |-> "SPAWN", arg |-> 0]]
      /\ syscall_retvalue' = [syscall_retvalue EXCEPT ![p] = last_pid]
      /\ UNCHANGED <<running, waiting_list, timer_list, fault, init_pcb, zombie_list>>
  BY DEF SpawnChild, EnqueueReady
<1>2. /\ child \in Procs
      /\ free_pcbs' \in Seq(Procs)
      /\ Freed = Freed' \union {child}
      /\ IsInjective(free_pcbs')
      /\ child \notin Freed'
  <2>1. free_pcbs \in Seq(Procs) /\ IsInjective(free_pcbs) /\ free_pcbs # <<>>
    BY <1>0, <1>1 DEF ProcTypes, Placed
  <2> QED BY <1>1, <2>1, TailRange DEF Freed
<1> HIDE DEF child
<1>3. /\ child # p
      /\ child \notin waiting_list /\ child \notin zombie_list /\ child \notin Range(ready_list)
      /\ child \in Freed
      /\ p \notin waiting_list /\ p \notin zombie_list /\ p \notin Range(ready_list) /\ p \notin Freed
      /\ child # init_pcb
  BY <1>0, <1>2 DEF Placed, Freed, ProcInv, InitStays
<1>4. /\ ready_list' \in Seq(Procs)
      /\ Range(ready_list') = Range(ready_list) \union {child}
      /\ IsInjective(ready_list')
  <2>1. ready_list \in Seq(Procs) /\ IsInjective(ready_list)
    BY <1>0 DEF ProcTypes, Placed
  <2> QED BY <1>1, <1>2, <1>3, <2>1, AppendRange
<1>5. \A r \in Procs : child \notin Kids(r)
  BY <1>0, <1>2, <1>3 DEF OwnedOnce, Kids
<1>6. /\ children' \in [Procs -> Seq(Procs)]
      /\ children'[child] = <<>>
      /\ Range(children'[child]) = {}
      /\ Range(children'[p]) = Kids(p) \union {child}
      /\ \A q \in Procs \ {p, child} : children'[q] = children[q] /\ Range(children'[q]) = Kids(q)
      /\ \A q \in Procs : IsInjective(children'[q])
  <2> DEFINE list == children[p]
  <2>1. list \in Seq(Procs) /\ IsInjective(list) /\ child \notin Range(list)
    BY <1>0, <1>5 DEF ProcTypes, Kids
  <2> HIDE DEF list
  <2>2. /\ Append(list, child) \in Seq(Procs)
        /\ Range(Append(list, child)) = Range(list) \union {child}
        /\ IsInjective(Append(list, child))
    BY <1>2, <2>1, AppendRange
  <2>3. <<>> \in Seq(Procs) /\ Range(<<>>) = {} /\ IsInjective(<<>>)
    BY EmptyRange, EmptySeq
  <2>4. /\ children' = [children EXCEPT ![child] = <<>>, ![p] = Append(list, child)]
        /\ children \in [Procs -> Seq(Procs)]
    BY <1>0, <1>1, <1>3 DEF list, ProcTypes
  <2>5. /\ children' \in [Procs -> Seq(Procs)]
        /\ children'[child] = <<>>
        /\ children'[p] = Append(list, child)
        /\ \A q \in Procs \ {p, child} : children'[q] = children[q]
    BY <1>2, <1>3, <2>2, <2>3, <2>4
  <2>6. \A q \in Procs : IsInjective(children'[q])
    BY <1>0, <2>2, <2>3, <2>5
  <2> QED BY <2>2, <2>3, <2>5, <2>6 DEF Kids, list
<1>7. /\ parent' \in [Procs -> Procs \union {NULL}]
      /\ parent'[child] = p
      /\ \A q \in Procs \ {child} : parent'[q] = parent[q]
      /\ pid' \in [Procs -> Nat]
      /\ pid'[child] = last_pid
      /\ \A q \in Procs \ {child} : pid'[q] = pid[q]
      /\ status' \in [Procs -> {"Invalid", "Running", "Ready", "Waiting", "Zombie"}]
      /\ status'[child] = "Ready"
      /\ \A q \in Procs \ {child} : status'[q] = status[q]
  BY <1>0, <1>1, <1>2 DEF ProcTypes
<1>8. /\ syscall' \in [Procs -> [num : SyscallNums, arg : Int]]
      /\ \A q \in waiting_list : syscall'[q] = syscall[q]
  <2>1. NoCall \in [num : SyscallNums, arg : Int] /\ [num |-> "SPAWN", arg |-> 0] \in [num : SyscallNums, arg : Int]
    BY DEF NoCall, SyscallNums
  <2> QED BY <1>0, <1>1, <1>2, <1>3, <2>1 DEF ProcTypes
<1>9. ProcTypes'
  <2>1. last_pid \in Nat /\ free_ptrs \in Nat /\ syscall_retvalue \in [Procs -> Int]
    BY <1>0 DEF ProcTypes
  <2>2. last_pid' \in Nat
    BY <1>1, <2>1
  <2>3. free_ptrs' \in Nat
    BY <1>1, <2>1
  <2>4. syscall_retvalue' \in [Procs -> Int]
    BY <1>1, <2>1
  <2> QED BY <1>0, <1>1, <1>2, <1>4, <1>6, <1>7, <1>8, <2>2, <2>3, <2>4 DEF ProcTypes
<1>10. TimersInv' /\ SleepersCall'
  <2>1. timer_list' = timer_list /\ waiting_list' = waiting_list /\ TimerProcs' = TimerProcs
    BY <1>1 DEF TimerProcs
  <2> QED BY <1>0, <1>8, <2>1 DEF TimersInv, TimersSorted, SleepersCall
<1>11. ZombiesKept'
  BY <1>1, <1>2, <1>3, <1>7 DEF ProcInv, ZombiesKept
<1>12. PidsDistinct'
  <2>1. \A q \in Procs : pid[q] \in Nat /\ pid[q] < last_pid
    BY <1>0 DEF ProcInv, PidsDistinct, ProcTypes
  <2>2. last_pid \in Nat /\ last_pid' = last_pid + 1
    BY <1>0, <1>1 DEF ProcTypes
  <2>3. \A q \in Procs : pid'[q] < last_pid'
    BY <1>7, <2>1, <2>2
  <2>4. ASSUME NEW q \in Procs \ Freed', NEW r \in Procs \ Freed', pid'[q] = pid'[r]
        PROVE  q = r
    <3>1. CASE q # child /\ r # child
      BY <1>2, <1>7, <2>4, <3>1 DEF ProcInv, PidsDistinct
    <3>2. CASE q = child \/ r = child
      BY <1>2, <1>7, <2>1, <2>2, <2>4, <3>2
    <3> QED BY <3>1, <3>2
  <2> QED BY <2>3, <2>4 DEF PidsDistinct
<1>13. InitStays'
  <2>1. parent'[init_pcb] = NULL /\ init_pcb \notin zombie_list \union Freed'
    BY <1>0, <1>2, <1>3, <1>7 DEF ProcInv, InitStays, ProcTypes
  <2>2. ASSUME NEW r \in Procs, NEW q \in Procs, q \in Range(children'[r])
        PROVE  parent'[q] = r \/ parent'[r] = NULL
    <3>1. CASE q = child
      BY <1>2, <1>5, <1>6, <1>7, <2>2, <3>1
    <3>2. CASE q # child
      <4>1. q \in Kids(r) /\ r # child
        BY <1>6, <2>2, <3>2
      <4> QED BY <1>7, <3>2, <4>1 DEF ProcInv, InitStays
    <3> QED BY <3>1, <3>2
  <2> QED BY <1>1, <2>1, <2>2 DEF InitStays, Kids, Freed
<1>14. OnePlaceEach'
  <2>1. Placed(running, ready_list', waiting_list, zombie_list, free_pcbs')
    BY <1>0, <1>2, <1>3, <1>4 DEF Placed, Freed
  <2> QED BY <1>1, <2>1, PlacesAre
<1>15. OneOwnerEach'
  <2>1. ASSUME NEW q \in Procs
        PROVE  OwnedOnce(children', parent', zombie_list' \union Freed', Freed', q)
    <3>0. OwnedOnce(children, parent, zombie_list \union Freed, Freed, q)
      BY <1>0
    <3>1. CASE q = child
      <4>1. q \in Range(children'[p]) /\ \A r \in Procs : q \in Range(children'[r]) => r = p
        BY <1>2, <1>5, <1>6, <3>1
      <4>2. parent'[q] # NULL /\ q \notin Freed' /\ p \notin zombie_list' \union Freed'
        BY <1>0, <1>1, <1>2, <1>3, <1>7, <3>1
      <4> QED BY <4>1, <4>2 DEF OwnedOnce, Kids
    <3>2. CASE q # child
      <4>1. \A r \in Procs : q \in Range(children'[r]) => q \in Kids(r)
        BY <1>2, <1>6, <3>2
      <4>2. \A r \in Procs : r # child /\ q \in Kids(r) => q \in Range(children'[r])
        BY <1>6, <3>2
      <4>3. parent'[q] = parent[q] /\ (q \in Freed' <=> q \in Freed)
        BY <1>2, <1>7, <3>2
      <4>4. CASE parent[q] = NULL \/ q \in Freed
        BY <3>0, <4>1, <4>3, <4>4 DEF OwnedOnce, Kids
      <4>5. CASE ~(parent[q] = NULL \/ q \in Freed)
        <5>1. PICK r \in Procs \ (zombie_list \union Freed) :
                q \in Kids(r) /\ \A o \in Procs : q \in Kids(o) => o = r
          BY <3>0, <4>5 DEF OwnedOnce, Kids
        <5>2. r # child /\ r \in Procs \ (zombie_list' \union Freed')
          BY <1>1, <1>2, <1>3, <5>1
        <5>3. q \in Range(children'[r]) /\ \A o \in Procs : q \in Range(children'[o]) => o = r
          BY <4>1, <4>2, <5>1, <5>2
        <5> QED BY <4>3, <4>5, <5>2, <5>3 DEF OwnedOnce, Kids
      <4> QED BY <4>4, <4>5
    <3> QED BY <3>1, <3>2
  <2> QED BY <1>6, <2>1, OwnersAre
<1>16. StatusMatchesLists'
  BY <1>1, <1>3, <1>7 DEF ProcInv, StatusMatchesLists
<1>17. NoWaitForZombie'
  <2> SUFFICES ASSUME NEW r \in Procs, NEW q \in Range(children'[r]),
                      r \in waiting_list,
                      syscall'[r].num = "WAIT",
                      syscall'[r].arg \in {0, pid'[q]},
                      parent'[q] = r,
                      status'[q] = "Zombie"
               PROVE  FALSE
    BY <1>1 DEF NoWaitForZombie, Kids
  <2>1. r # child /\ r # p /\ q # child
    BY <1>3, <1>7
  <2>2. q \in Kids(r) /\ q \in Procs
    BY <1>0, <1>6, <2>1, RangeOf DEF ProcTypes, Kids
  <2>3. /\ syscall[r].num = "WAIT" /\ syscall[r].arg \in {0, pid[q]}
        /\ parent[q] = r /\ status[q] = "Zombie"
    BY <1>7, <1>8, <2>1, <2>2
  <2> QED BY <2>2, <2>3 DEF ProcInv, NoWaitForZombie, Kids
<1> QED BY <1>9, <1>10, <1>11, <1>12, <1>13, <1>14, <1>15, <1>16, <1>17 DEF ProcInv

-----------------------------------------------------------------------------
(***************************************************************************)
(* wait.                                                                   *)
(***************************************************************************)

\* The search that stops at the first match finds the least one.
LEMMA LeastMember ==
  ASSUME NEW S \in SUBSET Nat, S # {}
  PROVE  LET m == CHOOSE i \in S : \A j \in S : i <= j
         IN  m \in S /\ \A j \in S : m <= j
<1>1. PICK m \in S : \A y \in S : ~(<<y, m>> \in OpToRel(<, Nat))
  BY NatLessThanWellFounded, WFMin
<1>2. \A y \in S : ~(y < m)
  BY <1>1 DEF OpToRel
<1>3. \A y \in S : m <= y
  BY <1>2
<1> QED BY <1>3

\* A child on a list has a parent, is not free, and has the owner of that list
\* alone, which has not exited.
LEMMA KidsOwned ==
  ASSUME ProcInv, NEW r \in Procs, NEW q \in Kids(r)
  PROVE  /\ q \in Procs
         /\ parent[q] # NULL
         /\ q \notin Freed
         /\ r \notin zombie_list \union Freed
         /\ \A o \in Procs : q \in Kids(o) => o = r
<1>1. q \in Procs
  BY ProcInvParts, RangeOf DEF ProcTypes, Kids
<1>2. OwnedOnce(children, parent, zombie_list \union Freed, Freed, q)
  BY <1>1, ProcInvParts
<1> QED BY <1>1, <1>2 DEF OwnedOnce, Kids

\* The search of internal_wait ends at a child, and when that child is no
\* zombie no child that the call asks for is one.
LEMMA AwaitedIs ==
  ASSUME ProcInv, NEW p \in Procs, NEW c \in Int, children[p] # <<>>
  PROVE  /\ Awaited(p, c) \in 1..Len(children[p])
         /\ children[p][Awaited(p, c)] \in Kids(p)
         /\ status[children[p][Awaited(p, c)]] # "Zombie" =>
              \A q \in Kids(p) : ~(c \in {0, pid[q]} /\ status[q] = "Zombie")
<1> DEFINE list == children[p]
           n == Len(list)
           Match(q) == IF c = 0 THEN status[q] = "Zombie" ELSE pid[q] = c
           matches == {i \in 1..n : Match(list[i])}
           least == CHOOSE i \in matches : \A j \in matches : i <= j
           k == Awaited(p, c)
<1>1. k = IF matches = {} THEN n ELSE least
  BY DEF Awaited
<1>2. /\ list \in Seq(Procs)
      /\ n \in Nat /\ n # 0
      /\ \A q : q \in Range(list) <=> \E i \in 1..n : list[i] = q
  <2>1. list \in Seq(Procs) /\ list # <<>>
    BY ProcInvParts DEF ProcTypes
  <2> QED BY <2>1, RangeOf, LenProperties, EmptySeq
<1>3. matches # {} => least \in matches
  <2>1. matches \in SUBSET Nat
    BY <1>2
  <2> HIDE DEF matches
  <2> QED BY <2>1, LeastMember
<1> HIDE DEF least, k
<1>4. k \in 1..n /\ (matches # {} => Match(list[k]))
  BY <1>1, <1>2, <1>3
<1>5. list[k] \in Kids(p)
  BY <1>2, <1>4 DEF Kids
<1>6. ASSUME status[list[k]] # "Zombie", NEW q \in Kids(p), c \in {0, pid[q]}, status[q] = "Zombie"
      PROVE  FALSE
  <2>1. PICK i \in 1..n : list[i] = q
    BY <1>2 DEF Kids
  <2>2. i \in matches
    BY <1>6, <2>1
  <2>3. Match(list[k])
    BY <1>4, <2>2
  <2>4. c # 0 /\ pid[list[k]] = c /\ pid[q] = c
    BY <1>6, <2>3
  <2>5. list[k] \in Procs \ Freed /\ q \in Procs \ Freed
    BY <1>5, KidsOwned
  <2>6. list[k] = q
    BY <2>4, <2>5 DEF ProcInv, PidsDistinct
  <2> QED BY <1>6, <2>6
<1> QED BY <1>4, <1>5, <1>6 DEF k

\* wait takes a zombie from the list of its owner: its PCB goes from the zombies
\* to the pool, and no list names it any more.
LEMMA WaitReapKeeps ==
  ASSUME ProcInv, NEW p \in Procs, NEW c \in Int, Syscall(p, "WAIT", c),
         NEW i \in 1..Len(children[p]), WaitReap(p, i)
  PROVE  /\ ProcInv'
         /\ children[p][i] \in Kids(p)
         /\ children[p][i] \notin Range(children'[p])
<1> DEFINE child == children[p][i]
           list == children[p]
<1>0. /\ ProcTypes /\ TimersInv /\ SleepersCall
      /\ Placed(running, ready_list, waiting_list, zombie_list, free_pcbs)
      /\ NULL \notin Procs
      /\ \A q \in Procs :
           /\ IsInjective(children[q])
           /\ OwnedOnce(children, parent, zombie_list \union Freed, Freed, q)
  BY ProcInvParts
<1>1. /\ status[child] = "Zombie"
      /\ children' = [children EXCEPT ![p] = RemoveAt(list, i)]
      /\ free_ptrs' = free_ptrs + 1
      /\ free_pcbs' = <<child>> \o free_pcbs
      /\ zombie_list' = zombie_list \ {child}
      /\ syscall_retvalue' = [syscall_retvalue EXCEPT ![p] = pid[child]]
      /\ UNCHANGED <<running, ready_list, waiting_list, timer_list, status>>
      /\ UNCHANGED <<fault, init_pcb, pid, last_pid, parent>>
  BY <1>0 DEF WaitReap, FreePCB, schedVars, ProcTypes
<1>2. /\ syscall' \in [Procs -> [num : SyscallNums, arg : Int]]
      /\ \A q \in Procs \ {p} : syscall'[q] = syscall[q]
      /\ p \notin waiting_list
  <2>1. "WAIT" \in SyscallNums
    BY DEF SyscallNums
  <2> QED BY <2>1, CallOfRunning
<1>3. list \in Seq(Procs) /\ IsInjective(list) /\ child \in Range(list) /\ i \in 1..Len(list)
  BY <1>0, RangeOf DEF ProcTypes
<1>4. child \in Kids(p)
  BY <1>3 DEF Kids
<1> HIDE DEF child
<1>5. /\ child \in Procs /\ child \notin Freed /\ parent[child] # NULL
      /\ \A o \in Procs : child \in Range(children[o]) => o = p
  BY <1>4, KidsOwned DEF Kids
<1>6. child \in zombie_list
  BY <1>1, <1>5 DEF ProcInv, ZombiesKept
<1>7. /\ children' \in [Procs -> Seq(Procs)]
      /\ Range(children'[p]) = Range(children[p]) \ {child}
      /\ \A q \in Procs \ {p} : children'[q] = children[q]
      /\ \A q \in Procs : IsInjective(children'[q])
  <2>1. /\ RemoveAt(list, i) \in Seq(Procs)
        /\ IsInjective(RemoveAt(list, i))
        /\ Range(RemoveAt(list, i)) = Range(list) \ {child}
    <3>1. list[i] = child
      BY DEF child
    <3> HIDE DEF list
    <3> QED BY <1>3, <3>1, RemoveAtRange
  <2> HIDE DEF list
  <2>2. children \in [Procs -> Seq(Procs)]
    BY <1>0 DEF ProcTypes
  <2>3. /\ children' \in [Procs -> Seq(Procs)]
        /\ children'[p] = RemoveAt(list, i)
        /\ \A q \in Procs \ {p} : children'[q] = children[q]
    BY <1>1, <2>1, <2>2
  <2> QED BY <1>0, <2>1, <2>3 DEF list
<1>8. /\ \A r \in Procs : Range(children'[r]) = Range(children[r]) \ {child}
      /\ \A r \in Procs : Range(children'[r]) \subseteq Range(children[r])
  BY <1>5, <1>7
<1>9. /\ free_pcbs' \in Seq(Procs)
      /\ Freed' = Freed \union {child}
      /\ IsInjective(free_pcbs')
  <2>1. free_pcbs \in Seq(Procs) /\ IsInjective(free_pcbs) /\ child \notin Range(free_pcbs)
    BY <1>0, <1>5 DEF ProcTypes, Placed, Freed
  <2> QED BY <1>1, <1>5, <2>1, PushRange DEF Freed
<1>10. ProcTypes'
  <2>1. pid[child] \in Int
    BY <1>0, <1>5 DEF ProcTypes
  <2>2. syscall_retvalue' \in [Procs -> Int] /\ free_ptrs' \in Nat
    BY <1>0, <1>1, <2>1 DEF ProcTypes
  <2> QED BY <1>0, <1>1, <1>2, <1>7, <1>9, <2>2 DEF ProcTypes
<1>11. TimersInv' /\ SleepersCall'
  <2>1. TimerProcs \subseteq waiting_list /\ waiting_list \subseteq Procs
    BY <1>0 DEF TimersInv, TimersSorted, ProcTypes
  <2>2. TimerProcs' = TimerProcs
    BY <1>1 DEF TimerProcs
  <2> QED BY <1>0, <1>1, <1>2, <2>1, <2>2 DEF TimersInv, TimersSorted, SleepersCall
<1>12. ZombiesKept'
  BY <1>1, <1>9 DEF ProcInv, ZombiesKept
<1>13. PidsDistinct'
  BY <1>1, <1>9 DEF ProcInv, PidsDistinct
<1>14. InitStays'
  <2>1. child # init_pcb
    BY <1>5 DEF ProcInv, InitStays
  <2>2. ASSUME NEW r \in Procs, NEW q \in Procs, q \in Range(children'[r])
        PROVE  parent'[q] = r \/ parent'[r] = NULL
    BY <1>1, <1>8, <2>2 DEF ProcInv, InitStays, Kids
  <2> QED BY <1>1, <1>9, <2>1, <2>2 DEF ProcInv, InitStays, Kids
<1>15. OnePlaceEach'
  <2>1. Placed(running, ready_list, waiting_list, zombie_list', free_pcbs')
    BY <1>0, <1>1, <1>6, <1>9 DEF Placed, Freed
  <2> QED BY <1>1, <2>1, PlacesAre
<1>16. OneOwnerEach'
  <2>1. zombie_list' \union Freed' = zombie_list \union Freed
    BY <1>1, <1>6, <1>9
  <2>2. ASSUME NEW q \in Procs
        PROVE  OwnedOnce(children', parent', zombie_list' \union Freed', Freed', q)
    <3>0. OwnedOnce(children, parent, zombie_list \union Freed, Freed, q)
      BY <1>0
    <3>1. CASE q = child
      <4>1. \A r \in Procs : q \notin Range(children'[r])
        BY <1>8, <3>1
      <4> QED BY <1>9, <3>1, <4>1 DEF OwnedOnce
    <3>2. CASE q # child
      <4>1. /\ \A r \in Procs : q \in Range(children'[r]) <=> q \in Range(children[r])
            /\ q \in Freed' <=> q \in Freed
            /\ parent'[q] = parent[q]
        BY <1>1, <1>8, <1>9, <3>2
      <4> QED BY <2>1, <3>0, <4>1 DEF OwnedOnce
    <3> QED BY <3>1, <3>2
  <2> QED BY <1>7, <2>2, OwnersAre
<1>17. StatusMatchesLists'
  BY <1>1 DEF ProcInv, StatusMatchesLists
<1>18. NoWaitForZombie'
  <2> SUFFICES ASSUME NEW r \in Procs, NEW q \in Range(children'[r]),
                      r \in waiting_list,
                      syscall'[r].num = "WAIT",
                      syscall'[r].arg \in {0, pid[q]},
                      parent[q] = r,
                      status[q] = "Zombie"
               PROVE  FALSE
    BY <1>1 DEF NoWaitForZombie
  <2>1. syscall'[r] = syscall[r] /\ q \in Range(children[r])
    BY <1>2, <1>8
  <2> QED BY <2>1 DEF ProcInv, NoWaitForZombie
<1>19. child \notin Range(children'[p])
  BY <1>8
<1> QED BY <1>4, <1>10, <1>11, <1>12, <1>13, <1>14, <1>15, <1>16, <1>17, <1>18, <1>19 DEF ProcInv, child

\* wait: no children, a zombie child, or a child to wait for.
LEMMA WaitKeeps ==
  ASSUME ProcInv, NEW p \in Procs, NEW c \in WaitPids, Wait(p, c)
  PROVE  ProcInv'
<1>0. c \in Int /\ "WAIT" \in SyscallNums
  BY ProcessesAssumption DEF SyscallNums
<1>1. Syscall(p, "WAIT", c)
  BY DEF Wait
<1>2. /\ running = p /\ running \in Procs
      /\ syscall' \in [Procs -> [num : SyscallNums, arg : Int]]
      /\ syscall'[p] = [num |-> "WAIT", arg |-> c]
      /\ \A q \in Procs \ {p} : syscall'[q] = syscall[q]
      /\ p \notin waiting_list /\ p \notin TimerProcs
  BY <1>0, <1>1, CallOfRunning
<1>3. /\ ProcTypes /\ TimersInv /\ SleepersCall
      /\ TimerProcs \subseteq waiting_list
      /\ waiting_list \subseteq Procs
  BY ProcInvParts DEF ProcTypes, TimersInv, TimersSorted
<1>4. CASE WaitNoChildren(p)
  <2>1. UNCHANGED schedVars /\ UNCHANGED treeVars /\ fault' \in BOOLEAN
    BY <1>3, <1>4 DEF WaitNoChildren, ProcTypes
  <2>2. DSOS_EWAIT \in Int
    BY DEF DSOS_EWAIT
  <2>3. syscall_retvalue' \in [Procs -> Int]
    BY <1>3, <1>4, <2>2 DEF WaitNoChildren, ProcTypes
  <2> QED BY <1>2, <2>1, <2>3, QuietKeeps
<1>5. CASE children[p] # <<>> /\ WaitReap(p, Awaited(p, c))
  <2>1. Awaited(p, c) \in 1..Len(children[p])
    BY <1>0, <1>5, AwaitedIs
  <2> QED BY <1>0, <1>1, <1>5, <2>1, WaitReapKeeps
<1>6. CASE children[p] # <<>> /\ WaitBlock(p, Awaited(p, c))
  <2>1. UNCHANGED treeVars
    BY <1>6 DEF WaitBlock
  <2>2. CASE Block(p) /\ RunNext /\ UNCHANGED <<timer_list, fault, syscall_retvalue>>
    <3>1. Moves /\ waiting_list' = waiting_list \union {p}
      BY <1>2, <2>2, BlockMoves
    <3>2. status[children[p][Awaited(p, c)]] # "Zombie"
      BY <1>6 DEF WaitBlock
    <3>3. \A q \in Kids(p) : ~(c \in {0, pid[q]} /\ status[q] = "Zombie")
      BY <1>0, <1>6, <3>2, AwaitedIs
    <3>4. \A r \in waiting_list' : \/ r \in waiting_list /\ syscall'[r] = syscall[r]
                                   \/ syscall'[r].num # "WAIT"
                                   \/ \A q \in Kids(r) : ~ /\ syscall'[r].arg \in {0, pid[q]}
                                                           /\ status[q] = "Zombie"
      <4>1. syscall'[p].arg = c
        BY <1>2
      <4> QED BY <1>2, <1>3, <3>1, <3>3, <4>1
    <3>5. TimersInv' /\ TimerProcs' = TimerProcs
      <4>1. timer_list' = timer_list /\ TimerProcs' = TimerProcs
        BY <2>2 DEF TimerProcs
      <4>2. waiting_list' \subseteq Procs
        BY <3>1 DEF Moves
      <4> QED BY <1>3, <3>1, <4>1, <4>2 DEF TimersInv, TimersSorted
    <3>6. SleepersCall'
      BY <1>2, <1>3, <3>5 DEF SleepersCall
    <3>7. syscall_retvalue' \in [Procs -> Int] /\ fault' \in BOOLEAN
      BY <1>3, <2>2 DEF ProcTypes
    <3> QED BY <1>2, <2>1, <3>1, <3>4, <3>5, <3>6, <3>7, MovesKeep
  <2>3. CASE ready_list = <<>> /\ Crash
    BY <1>0, <1>1, <2>1, <2>3, CrashKeeps
  <2> QED BY <1>6, <2>2, <2>3 DEF WaitBlock
<1> QED BY <1>4, <1>5, <1>6 DEF Wait

-----------------------------------------------------------------------------
(***************************************************************************)
(* exit.                                                                   *)
(***************************************************************************)

\* The children of p go to the end of the list of init, and nobody else's
\* list changes.
LEMMA ReparentedIs ==
  ASSUME ProcInv, NEW p \in Procs, p # init_pcb
  PROVE  /\ Reparented(p) \in [Procs -> Seq(Procs)]
         /\ \A r \in Procs : IsInjective(Reparented(p)[r])
         /\ \A q : \A r \in Procs :
              q \in Range(Reparented(p)[r]) <=> \/ r # p /\ q \in Kids(r)
                                                \/ r = init_pcb /\ q \in Kids(p)
<1> DEFINE own == children[init_pcb]
           new == children[p]
           kids == Reparented(p)
<1>1. /\ ProcTypes
      /\ \A q \in Procs : IsInjective(children[q])
  BY ProcInvParts
<1>2. /\ own \in Seq(Procs) /\ new \in Seq(Procs)
      /\ IsInjective(own) /\ IsInjective(new)
      /\ init_pcb \in Procs
  BY <1>1 DEF ProcTypes
<1>3. Range(own) \intersect Range(new) = {}
  <2> SUFFICES ASSUME NEW q \in Kids(init_pcb), q \in Kids(p)
               PROVE  FALSE
    BY DEF Kids
  <2> QED BY <1>2, KidsOwned
<1> HIDE DEF own, new
<1>4. /\ own \o new \in Seq(Procs)
      /\ Range(own \o new) = Range(own) \union Range(new)
      /\ IsInjective(own \o new)
  BY <1>2, <1>3, ConcatRange
<1>5. kids = [children EXCEPT ![init_pcb] = own \o new, ![p] = <<>>]
  BY <1>1, <1>2 DEF Reparented, own, new, ProcTypes
<1> HIDE DEF kids
<1>6. <<>> \in Seq(Procs) /\ Range(<<>>) = {} /\ IsInjective(<<>>)
  BY EmptyRange, EmptySeq
<1>7. /\ kids \in [Procs -> Seq(Procs)]
      /\ kids[p] = <<>>
      /\ kids[init_pcb] = own \o new
      /\ \A r \in Procs \ {p, init_pcb} : kids[r] = children[r]
  <2>1. children \in [Procs -> Seq(Procs)]
    BY <1>1 DEF ProcTypes
  <2> QED BY <1>2, <1>4, <1>5, <1>6, <2>1
<1>8. ASSUME NEW q, NEW r \in Procs
      PROVE  q \in Range(kids[r]) <=> \/ r # p /\ q \in Kids(r)
                                      \/ r = init_pcb /\ q \in Kids(p)
  <2>1. CASE r = p
    BY <1>6, <1>7, <2>1
  <2>2. CASE r = init_pcb
    BY <1>4, <1>7, <2>2 DEF Kids, own, new
  <2>3. CASE r # p /\ r # init_pcb
    BY <1>7, <2>3 DEF Kids
  <2> QED BY <2>1, <2>2, <2>3
<1>9. \A r \in Procs : IsInjective(kids[r])
  BY <1>1, <1>4, <1>6, <1>7
<1> QED BY <1>7, <1>8, <1>9 DEF kids

\* Every process keeps one owner, which is not p.
LEMMA ReparentedOwned ==
  ASSUME ProcInv, NEW p \in Procs, p # init_pcb, NEW q \in Procs
  PROVE  OwnedOnce(Reparented(p), parent, zombie_list \union Freed \union {p}, Freed, q)
<1> DEFINE kids == Reparented(p)
           gone == zombie_list \union Freed
<1>1. OwnedOnce(children, parent, gone, Freed, q)
  BY ProcInvParts
<1>2. \A r \in Procs : q \in Range(kids[r]) <=> \/ r # p /\ q \in Kids(r)
                                                \/ r = init_pcb /\ q \in Kids(p)
  BY ReparentedIs
<1>3. init_pcb \in Procs /\ init_pcb \notin gone
  BY DEF ProcInv, ProcTypes, InitStays
<1> HIDE DEF kids, gone
<1>4. CASE parent[q] = NULL \/ q \in Freed
  BY <1>1, <1>2, <1>4 DEF OwnedOnce, Kids, kids
<1>5. CASE ~(parent[q] = NULL \/ q \in Freed)
  <2>1. PICK r \in Procs \ gone : q \in Kids(r) /\ \A o \in Procs : q \in Kids(o) => o = r
    BY <1>1, <1>5 DEF OwnedOnce, Kids
  <2>2. CASE r = p
    <3>1. /\ init_pcb \in Procs \ (gone \union {p})
          /\ q \in Range(kids[init_pcb])
          /\ \A o \in Procs : q \in Range(kids[o]) => o = init_pcb
      BY <1>2, <1>3, <2>1, <2>2
    <3> QED BY <1>5, <3>1 DEF OwnedOnce, kids, gone
  <2>3. CASE r # p
    <3>1. /\ r \in Procs \ (gone \union {p})
          /\ q \in Range(kids[r])
          /\ \A o \in Procs : q \in Range(kids[o]) => o = r
      BY <1>2, <2>1, <2>3
    <3> QED BY <1>5, <3>1 DEF OwnedOnce, kids, gone
  <2> QED BY <2>2, <2>3
<1> QED BY <1>4, <1>5

\* A parent that waits for a zombie after the children of p went to init did so
\* before.
LEMMA NobodyNewWaits ==
  ASSUME ProcInv, NEW p \in Procs, parent[p] # NULL,
         NEW r \in Procs, r # p, NEW q \in Range(Reparented(p)[r]),
         r \in waiting_list,
         syscall[r].num = "WAIT",
         syscall[r].arg \in {0, pid[q]},
         parent[q] = r,
         status[q] = "Zombie"
  PROVE  FALSE
<1>1. p # init_pcb
  BY DEF ProcInv, InitStays
<1>2. CASE q \in Kids(r)
  BY <1>2 DEF ProcInv, NoWaitForZombie, Kids
<1>3. CASE r = init_pcb /\ q \in Kids(p)
  <2>1. q \in Procs
    BY <1>3, KidsOwned
  <2>2. parent[q] = p
    BY <1>3, <2>1 DEF ProcInv, InitStays
  <2> QED BY <2>2
<1> QED BY <1>1, <1>2, <1>3, ReparentedIs

\* exit without a waiting parent: p joins the zombies and the first ready
\* process runs.
LEMMA ExitToZombieKeeps ==
  ASSUME ProcInv, NEW p \in Procs, Syscall(p, "EXIT", 0), parent[p] # NULL,
         ~ParentWaits(p), RunNext,
         status' = [status EXCEPT ![p] = "Zombie", ![running'] = "Running"],
         zombie_list' = zombie_list \union {p},
         children' = Reparented(p),
         UNCHANGED <<waiting_list, timer_list, fault, syscall_retvalue, init_pcb,
                     pid, last_pid, parent, free_pcbs, free_ptrs>>
  PROVE  ProcInv'
<1>0. /\ ProcTypes /\ TimersInv /\ SleepersCall
      /\ Placed(running, ready_list, waiting_list, zombie_list, free_pcbs)
      /\ NULL \notin Procs
  BY ProcInvParts
<1>1. /\ running = p
      /\ p \notin waiting_list /\ p \notin Freed /\ p \notin zombie_list
      /\ p \notin Range(ready_list)
      /\ syscall' \in [Procs -> [num : SyscallNums, arg : Int]]
      /\ \A q \in Procs \ {p} : syscall'[q] = syscall[q]
  <2>1. "EXIT" \in SyscallNums /\ 0 \in Int
    BY DEF SyscallNums
  <2> QED BY <2>1, CallOfRunning
<1>2. p # init_pcb /\ Freed' = Freed
  BY DEF ProcInv, InitStays, Freed
<1>3. /\ running' \in Procs
      /\ ready_list' \in Seq(Procs)
      /\ Range(ready_list) = Range(ready_list') \union {running'}
      /\ IsInjective(ready_list')
      /\ running' \notin Range(ready_list')
  <2>1. ready_list \in Seq(Procs) /\ IsInjective(ready_list)
    BY <1>0 DEF ProcTypes, Placed
  <2>2. ready_list # <<>> /\ running' = Head(ready_list) /\ ready_list' = Tail(ready_list)
    BY DEF RunNext
  <2> QED BY <2>1, <2>2, TailRange
<1>4. /\ running' # p
      /\ running' \notin waiting_list /\ running' \notin zombie_list /\ running' \notin Freed
  BY <1>0, <1>1, <1>3 DEF Placed, Freed
<1>5. /\ status' \in [Procs -> {"Invalid", "Running", "Ready", "Waiting", "Zombie"}]
      /\ status'[p] = "Zombie"
      /\ status'[running'] = "Running"
      /\ \A q \in Procs \ {p, running'} : status'[q] = status[q]
  BY <1>0, <1>3, <1>4 DEF ProcTypes
<1>6. /\ children' \in [Procs -> Seq(Procs)]
      /\ \A r \in Procs : IsInjective(children'[r])
      /\ \A q : \A r \in Procs :
           q \in Range(children'[r]) <=> \/ r # p /\ q \in Kids(r)
                                         \/ r = init_pcb /\ q \in Kids(p)
  BY <1>2, ReparentedIs
<1>7. ProcTypes'
  BY <1>0, <1>1, <1>3, <1>5, <1>6 DEF ProcTypes
<1>8. TimersInv' /\ SleepersCall'
  <2>1. TimerProcs \subseteq waiting_list /\ waiting_list \subseteq Procs
    BY <1>0 DEF TimersInv, TimersSorted, ProcTypes
  <2>2. TimerProcs' = TimerProcs
    BY DEF TimerProcs
  <2> QED BY <1>0, <1>1, <2>1, <2>2 DEF TimersInv, TimersSorted, SleepersCall
<1>9. ZombiesKept'
  <2>1. \A q \in Procs : status'[q] = "Zombie" => q \in zombie_list' \union Freed'
    BY <1>2, <1>5 DEF ProcInv, ZombiesKept
  <2>2. \A q \in zombie_list' : status'[q] = "Zombie"
    BY <1>0, <1>4, <1>5 DEF ProcInv, ZombiesKept, ProcTypes
  <2> QED BY <2>1, <2>2 DEF ZombiesKept
<1>10. PidsDistinct'
  BY <1>2 DEF ProcInv, PidsDistinct
<1>11. InitStays'
  <2>1. ASSUME NEW r \in Procs, NEW q \in Procs, q \in Range(children'[r])
        PROVE  parent'[q] = r \/ parent'[r] = NULL
    BY <1>6, <2>1 DEF ProcInv, InitStays
  <2>2. parent'[init_pcb'] = NULL /\ init_pcb' \notin zombie_list' \union Freed'
    BY <1>2 DEF ProcInv, InitStays
  <2> QED BY <2>1, <2>2 DEF InitStays, Kids
<1>12. OnePlaceEach'
  <2>1. Placed(running', ready_list', waiting_list, zombie_list', free_pcbs)
    BY <1>0, <1>1, <1>3, <1>4 DEF Placed, Freed
  <2> QED BY <2>1, PlacesAre
<1>13. OneOwnerEach'
  <2>1. zombie_list' \union Freed' = zombie_list \union Freed \union {p}
    BY <1>2
  <2>2. \A q \in Procs : OwnedOnce(children', parent', zombie_list' \union Freed', Freed', q)
    BY <1>2, <2>1, ReparentedOwned
  <2> QED BY <1>6, <2>2, OwnersAre
<1>14. StatusMatchesLists'
  BY <1>1, <1>4, <1>5 DEF ProcInv, StatusMatchesLists
<1>15. NoWaitForZombie'
  <2> SUFFICES ASSUME NEW r \in Procs, NEW q \in Range(children'[r]),
                      r \in waiting_list,
                      syscall'[r].num = "WAIT",
                      syscall'[r].arg \in {0, pid[q]},
                      parent[q] = r,
                      status'[q] = "Zombie"
               PROVE  FALSE
    BY DEF NoWaitForZombie
  <2>1. r # p /\ syscall'[r] = syscall[r]
    BY <1>1
  <2>2. q \in Procs
    BY <1>6, RangeOf
  <2>3. CASE q = p
    <3>1. status[r] = "Waiting"
      BY DEF ProcInv, StatusMatchesLists
    <3> QED BY <2>1, <2>3, <3>1 DEF ParentWaits
  <2>4. CASE q # p
    <3>1. status[q] = "Zombie"
      BY <1>5, <2>2, <2>4
    <3> QED BY <2>1, <3>1, NobodyNewWaits
  <2> QED BY <2>3, <2>4
<1> QED BY <1>7, <1>8, <1>9, <1>10, <1>11, <1>12, <1>13, <1>14, <1>15 DEF ProcInv

\* exit detaches the pointer to itself: the search by pid finds no other PCB.
LEMMA SelfInParentIs ==
  ASSUME ProcInv, NEW p \in Procs, p \notin Freed, parent[p] # NULL, parent[p] # p,
         SelfInParent(p) # 0
  PROVE  /\ SelfInParent(p) \in 1..Len(Reparented(p)[parent[p]])
         /\ Reparented(p)[parent[p]][SelfInParent(p)] = p
         /\ p \in Kids(parent[p])
<1> DEFINE list == Reparented(p)[parent[p]]
           matches == {i \in 1..Len(list) : pid[list[i]] = pid[p]}
           least == CHOOSE i \in matches : \A j \in matches : i <= j
           k == SelfInParent(p)
<1>1. k = IF matches = {} THEN 0 ELSE least
  BY DEF SelfInParent, PCBPtr_byPID
<1>2. parent[p] \in Procs /\ p # init_pcb
  BY DEF ProcInv, ProcTypes, InitStays
<1>3. /\ list \in Seq(Procs)
      /\ \A q \in Range(list) : \/ q \in Kids(parent[p])
                                \/ parent[p] = init_pcb /\ q \in Kids(p)
  BY <1>2, ReparentedIs
<1> HIDE DEF list, k
<1>4. least \in matches
  <2>1. matches \in SUBSET Nat
    BY <1>3, LenProperties
  <2>2. matches # {}
    BY <1>1 DEF k
  <2> HIDE DEF matches
  <2> QED BY <2>1, <2>2, LeastMember
<1>5. k \in 1..Len(list) /\ pid[list[k]] = pid[p]
  BY <1>1, <1>4 DEF k
<1>6. list[k] \in Range(list)
  BY <1>3, <1>5, RangeOf
<1>7. list[k] \in Procs \ Freed
  BY <1>2, <1>3, <1>6, KidsOwned
<1>8. list[k] = p
  BY <1>5, <1>7 DEF ProcInv, PidsDistinct
<1>9. p \notin Kids(p)
  BY DEF ProcInv, InitStays
<1> QED BY <1>3, <1>5, <1>6, <1>8, <1>9 DEF list, k

\* exit with a waiting parent: the PCB goes to the pool, the pointer to it from
\* the list of the parent, and the parent from the waiting list to the cpu.
LEMMA ExitToParentKeeps ==
  ASSUME ProcInv, NEW p \in Procs, Syscall(p, "EXIT", 0), parent[p] # NULL,
         ExitToParent(p)
  PROVE  /\ ProcInv'
         /\ p \in Kids(parent[p])
         /\ p \notin Range(children'[parent[p]])
         /\ running = p
<1> DEFINE par == parent[p]
           k == SelfInParent(p)
           kids == Reparented(p)
<1>0. /\ ProcTypes /\ TimersInv /\ SleepersCall
      /\ Placed(running, ready_list, waiting_list, zombie_list, free_pcbs)
      /\ NULL \notin Procs
  BY ProcInvParts
<1>1. /\ running = p
      /\ p \notin waiting_list /\ p \notin Freed /\ p \notin zombie_list
      /\ p \notin Range(ready_list)
      /\ syscall' \in [Procs -> [num : SyscallNums, arg : Int]]
      /\ \A q \in Procs \ {p} : syscall'[q] = syscall[q]
  <2>1. "EXIT" \in SyscallNums /\ 0 \in Int
    BY DEF SyscallNums
  <2> QED BY <2>1, CallOfRunning
<1>2. /\ status[par] = "Waiting" /\ syscall[par].num = "WAIT"
      /\ k # 0
      /\ waiting_list' = waiting_list \ {par}
      /\ status' = [status EXCEPT ![par] = "Running", ![p] = "Zombie"]
      /\ children' = [kids EXCEPT ![par] = RemoveAt(kids[par], k)]
      /\ syscall_retvalue' = [syscall_retvalue EXCEPT ![par] = pid[p]]
      /\ free_pcbs' = <<p>> \o free_pcbs
      /\ running' = par
      /\ UNCHANGED <<ready_list, timer_list, fault, init_pcb, pid, last_pid, parent,
                     zombie_list, free_ptrs>>
  <2>1. /\ parent[p] \in Procs /\ p # init_pcb
    BY <1>0 DEF ProcTypes, ProcInv, InitStays
  <2>2. kids \in [Procs -> Seq(Procs)]
    BY <2>1, ReparentedIs
  <2> HIDE DEF kids
  <2>3. children' = [kids EXCEPT ![par] = RemoveAt(kids[par], k)]
    BY <2>1, <2>2 DEF ExitToParent, Forgotten, kids
  <2> QED BY <1>1, <2>3 DEF ExitToParent, ParentWaits, WakeParent
<1>3. /\ par \in Procs /\ p # init_pcb
      /\ par \in waiting_list /\ par # p
  BY <1>0, <1>1, <1>2 DEF ProcTypes, ProcInv, InitStays, StatusMatchesLists
<1>4. /\ k \in 1..Len(kids[par])
      /\ kids[par][k] = p
      /\ p \in Kids(par)
  BY <1>1, <1>2, <1>3, SelfInParentIs
<1>5. /\ kids \in [Procs -> Seq(Procs)]
      /\ \A r \in Procs : IsInjective(kids[r])
      /\ \A q : \A r \in Procs :
           q \in Range(kids[r]) <=> \/ r # p /\ q \in Kids(r)
                                    \/ r = init_pcb /\ q \in Kids(p)
  BY <1>3, ReparentedIs
<1>6. \A q \in Procs : OwnedOnce(kids, parent, zombie_list \union Freed \union {p}, Freed, q)
  BY <1>3, ReparentedOwned
<1>7. \A r \in Procs : p \in Range(kids[r]) => r = par
  <2>1. \A o \in Procs : p \in Kids(o) => o = par
    BY <1>3, <1>4, KidsOwned
  <2> QED BY <1>3, <1>5, <2>1
<1> HIDE DEF kids, k, par
<1>8. /\ children' \in [Procs -> Seq(Procs)]
      /\ \A r \in Procs : IsInjective(children'[r])
      /\ \A r \in Procs : Range(children'[r]) = Range(kids[r]) \ {p}
  <2> DEFINE list == kids[par]
  <2>1. list \in Seq(Procs) /\ IsInjective(list) /\ k \in 1..Len(list) /\ list[k] = p
    BY <1>3, <1>4, <1>5
  <2> HIDE DEF list
  <2>2. /\ RemoveAt(list, k) \in Seq(Procs)
        /\ IsInjective(RemoveAt(list, k))
        /\ Range(RemoveAt(list, k)) = Range(list) \ {p}
    BY <2>1, RemoveAtRange
  <2>3. /\ children' \in [Procs -> Seq(Procs)]
        /\ children'[par] = RemoveAt(list, k)
        /\ \A r \in Procs \ {par} : children'[r] = kids[r]
    BY <1>2, <1>3, <1>5, <2>2 DEF list
  <2>4. ASSUME NEW r \in Procs
        PROVE  IsInjective(children'[r]) /\ Range(children'[r]) = Range(kids[r]) \ {p}
    <3>1. CASE r = par
      BY <2>2, <2>3, <3>1 DEF list
    <3>2. CASE r # par
      BY <1>5, <1>7, <2>3, <3>2
    <3> QED BY <3>1, <3>2
  <2> QED BY <2>3, <2>4
<1>9. /\ free_pcbs' \in Seq(Procs)
      /\ Freed' = Freed \union {p}
      /\ IsInjective(free_pcbs')
  <2>1. free_pcbs \in Seq(Procs) /\ IsInjective(free_pcbs) /\ p \notin Range(free_pcbs)
    BY <1>0, <1>1 DEF ProcTypes, Placed, Freed
  <2> QED BY <1>2, <2>1, PushRange DEF Freed
<1>10. /\ status' \in [Procs -> {"Invalid", "Running", "Ready", "Waiting", "Zombie"}]
       /\ status'[par] = "Running" /\ status'[p] = "Zombie"
       /\ \A q \in Procs \ {p, par} : status'[q] = status[q]
  BY <1>0, <1>2, <1>3 DEF ProcTypes
<1>11. /\ par \notin Range(ready_list) /\ par \notin zombie_list /\ par \notin Freed
  BY <1>0, <1>3 DEF Placed, Freed
<1>12. ProcTypes'
  <2>1. pid[p] \in Int
    BY <1>0 DEF ProcTypes
  <2>2. syscall_retvalue' \in [Procs -> Int]
    BY <1>0, <1>2, <1>3, <2>1 DEF ProcTypes
  <2>3. running' \in Procs /\ waiting_list' \subseteq Procs
    BY <1>0, <1>2, <1>3 DEF ProcTypes
  <2> QED BY <1>0, <1>1, <1>2, <1>8, <1>9, <1>10, <2>2, <2>3 DEF ProcTypes
<1>13. TimersInv' /\ SleepersCall'
  <2>1. /\ TimerProcs \subseteq waiting_list /\ waiting_list \subseteq Procs
    BY <1>0 DEF TimersInv, TimersSorted, ProcTypes
  <2>2. TimerProcs' = TimerProcs
    BY <1>2 DEF TimerProcs
  <2>3. par \notin TimerProcs
    BY <1>0, <1>2 DEF SleepersCall
  <2> QED BY <1>0, <1>1, <1>2, <2>1, <2>2, <2>3 DEF TimersInv, TimersSorted, SleepersCall
<1>14. ZombiesKept'
  <2>1. \A q \in Procs : status'[q] = "Zombie" => q \in zombie_list' \union Freed'
    BY <1>2, <1>9, <1>10 DEF ProcInv, ZombiesKept
  <2>2. \A q \in zombie_list' : status'[q] = "Zombie"
    BY <1>0, <1>2, <1>10, <1>11 DEF ProcInv, ZombiesKept, ProcTypes
  <2> QED BY <2>1, <2>2 DEF ZombiesKept
<1>15. PidsDistinct'
  BY <1>2, <1>9 DEF ProcInv, PidsDistinct
<1>16. InitStays'
  <2>1. ASSUME NEW r \in Procs, NEW q \in Procs, q \in Range(children'[r])
        PROVE  parent'[q] = r \/ parent'[r] = NULL
    <3>1. q \in Range(kids[r])
      BY <1>8, <2>1
    <3> QED BY <1>2, <1>5, <3>1 DEF ProcInv, InitStays
  <2>2. parent'[init_pcb'] = NULL /\ init_pcb' \notin zombie_list' \union Freed'
    BY <1>2, <1>3, <1>9 DEF ProcInv, InitStays
  <2> QED BY <2>1, <2>2 DEF InitStays, Kids
<1>17. OnePlaceEach'
  <2>1. Placed(running', ready_list', waiting_list', zombie_list', free_pcbs')
    BY <1>0, <1>1, <1>2, <1>3, <1>9, <1>11 DEF Placed, Freed
  <2> QED BY <2>1, PlacesAre
<1>18. OneOwnerEach'
  <2>1. zombie_list' \union Freed' = zombie_list \union Freed \union {p}
    BY <1>2, <1>9
  <2>2. ASSUME NEW q \in Procs
        PROVE  OwnedOnce(children', parent', zombie_list' \union Freed', Freed', q)
    <3>0. OwnedOnce(kids, parent, zombie_list \union Freed \union {p}, Freed, q)
      BY <1>6
    <3>1. CASE q = p
      <4>1. \A r \in Procs : q \notin Range(children'[r])
        BY <1>8, <3>1
      <4> QED BY <1>9, <3>1, <4>1 DEF OwnedOnce
    <3>2. CASE q # p
      <4>1. /\ \A r \in Procs : q \in Range(children'[r]) <=> q \in Range(kids[r])
            /\ q \in Freed' <=> q \in Freed
            /\ parent'[q] = parent[q]
        BY <1>2, <1>8, <1>9, <3>2
      <4> QED BY <2>1, <3>0, <4>1 DEF OwnedOnce
    <3> QED BY <3>1, <3>2
  <2> QED BY <1>8, <2>2, OwnersAre
<1>19. StatusMatchesLists'
  BY <1>1, <1>2, <1>3, <1>10 DEF ProcInv, StatusMatchesLists
<1>20. NoWaitForZombie'
  <2> SUFFICES ASSUME NEW r \in Procs, NEW q \in Range(children'[r]),
                      r \in waiting_list',
                      syscall'[r].num = "WAIT",
                      syscall'[r].arg \in {0, pid[q]},
                      parent[q] = r,
                      status'[q] = "Zombie"
               PROVE  FALSE
    BY <1>2 DEF NoWaitForZombie
  <2>1. r # p /\ syscall'[r] = syscall[r] /\ r \in waiting_list
    BY <1>1, <1>2
  <2>2. q \in Procs /\ q # p /\ q \in Range(kids[r])
    BY <1>5, <1>8, RangeOf
  <2>3. status[q] = "Zombie"
    BY <1>10, <2>2
  <2> QED BY <2>1, <2>2, <2>3, NobodyNewWaits DEF kids
<1>21. p \notin Range(children'[par])
  BY <1>3, <1>8
<1>22. ProcInv'
  BY <1>12, <1>13, <1>14, <1>15, <1>16, <1>17, <1>18, <1>19, <1>20 DEF ProcInv
<1> QED BY <1>1, <1>4, <1>21, <1>22 DEF par

\* exit: of init, to a waiting parent, to one whose PCB another process uses, or
\* to the zombies.
LEMMA ExitKeeps ==
  ASSUME ProcInv, NEW p \in Procs, Exit(p)
  PROVE  ProcInv'
<1>1. Syscall(p, "EXIT", 0) /\ "EXIT" \in SyscallNums /\ 0 \in Int
  BY DEF Exit, SyscallNums
<1>2. CASE ExitOfInit
  BY <1>1, <1>2, CrashKeeps DEF ExitOfInit
<1>3. CASE parent[p] # NULL /\ ExitToParent(p)
  BY <1>1, <1>3, ExitToParentKeeps
<1>4. CASE ExitToStranger(p)
  BY <1>1, <1>4, CrashKeeps DEF ExitToStranger
<1>5. CASE parent[p] # NULL /\ ExitToZombie(p)
  <2>1. CASE ready_list = <<>> /\ Crash /\ UNCHANGED treeVars
    BY <1>1, <2>1, CrashKeeps
  <2>2. CASE /\ RunNext
             /\ status' = [status EXCEPT ![p] = "Zombie", ![running'] = "Running"]
             /\ zombie_list' = zombie_list \union {p}
             /\ children' = Reparented(p)
             /\ UNCHANGED <<waiting_list, timer_list, fault, syscall_retvalue, init_pcb,
                            pid, last_pid, parent, free_pcbs, free_ptrs>>
    <3>1. ~ParentWaits(p)
      BY <1>5 DEF ExitToZombie
    <3> QED BY <1>1, <1>5, <2>2, <3>1, ExitToZombieKeeps
  <2> QED BY <1>5, <2>1, <2>2 DEF ExitToZombie
<1> QED BY <1>2, <1>3, <1>4, <1>5 DEF Exit

-----------------------------------------------------------------------------
(***************************************************************************)
(* The start and the steps.                                                *)
(***************************************************************************)

\* Only the first process is there, and all other PCBs are free.
LEMMA ProcInitInv == ProcInit => ProcInv
<1> SUFFICES ASSUME ProcInit PROVE ProcInv
  OBVIOUS
<1> DEFINE others == Procs \ {init_pcb}
           n == Cardinality(others)
<1>0. /\ init_pcb \in Procs
      /\ running = init_pcb
      /\ ready_list = <<>>
      /\ waiting_list = {}
      /\ timer_list = <<>>
      /\ status = [p \in Procs |-> IF p = init_pcb THEN "Running" ELSE "Invalid"]
      /\ syscall = [p \in Procs |-> NoCall]
      /\ syscall_retvalue = [p \in Procs |-> 0]
      /\ fault = FALSE
      /\ pid = [p \in Procs |-> 0]
      /\ last_pid = 1
      /\ parent = [p \in Procs |-> NULL]
      /\ children = [p \in Procs |-> <<>>]
      /\ zombie_list = {}
      /\ free_ptrs = Cardinality(Procs)
      /\ NULL \notin Procs
  BY SchedulerAssumption DEF ProcInit
<1>1. n \in Nat /\ Cardinality(Procs) \in Nat
  BY SchedulerAssumption, FS_Subset, FS_CardinalityType
<1> HIDE DEF n
<1>2. /\ free_pcbs \in [1..n -> others]
      /\ IsInjective(free_pcbs)
      /\ \A p \in others : \E i \in 1..n : free_pcbs[i] = p
  BY DEF ProcInit, n, Bijection, Injection, Surjection
<1>3. free_pcbs \in Seq(Procs) /\ Len(free_pcbs) = n
  <2>1. free_pcbs \in [1..n -> Procs]
    BY <1>2
  <2>2. free_pcbs \in Seq(Procs)
    BY <1>1, <2>1, SeqDef
  <2> QED BY <1>1, <2>1, <2>2, LenProperties
<1>4. Freed = others
  BY <1>2, <1>3, RangeOf DEF Freed
<1>5. Range(ready_list) = {} /\ IsInjective(ready_list) /\ ready_list \in Seq(Procs)
  BY <1>0, EmptyRange, EmptySeq
<1>6. /\ children \in [Procs -> Seq(Procs)]
      /\ \A p \in Procs : Range(children[p]) = {} /\ IsInjective(children[p])
  <2>1. \A p \in Procs : children[p] = <<>>
    BY <1>0
  <2>2. children \in [Procs -> Seq(Procs)]
    BY <1>0, EmptySeq
  <2> QED BY <2>1, <2>2, EmptyRange
<1>7. ProcTypes
  <2>1. NoCall \in [num : SyscallNums, arg : Int]
    BY DEF NoCall, SyscallNums
  <2>2. status \in [Procs -> {"Invalid", "Running", "Ready", "Waiting", "Zombie"}]
    BY <1>0
  <2>3. syscall \in [Procs -> [num : SyscallNums, arg : Int]]
    BY <1>0, <2>1
  <2>4. syscall_retvalue \in [Procs -> Int] /\ pid \in [Procs -> Nat] /\ last_pid \in Nat
    BY <1>0
  <2>5. parent \in [Procs -> Procs \union {NULL}]
    BY <1>0
  <2>6. /\ running \in Procs \union {NULL} /\ waiting_list \subseteq Procs /\ fault \in BOOLEAN
        /\ init_pcb \in Procs /\ zombie_list \subseteq Procs /\ free_ptrs \in Nat
    BY <1>0, <1>1
  <2> QED BY <1>3, <1>5, <1>6, <2>2, <2>3, <2>4, <2>5, <2>6 DEF ProcTypes
<1>8. TimersInv /\ SleepersCall
  <2>1. timer_list \in Seq(Timer) /\ DOMAIN timer_list = {}
    BY <1>0, EmptySeq
  <2> QED BY <2>1 DEF TimersInv, TimersSorted, SleepersCall, TimerProcs
<1>9. ZombiesKept
  BY <1>0 DEF ZombiesKept
<1>10. PidsDistinct
  BY <1>0, <1>4 DEF PidsDistinct
<1>11. InitStays
  BY <1>0, <1>4, <1>6 DEF InitStays, Kids
<1>12. OnePlaceEach
  <2>1. Placed(running, ready_list, waiting_list, zombie_list, free_pcbs)
    BY <1>0, <1>2, <1>4, <1>5 DEF Placed, Freed
  <2> QED BY <2>1, PlacesAre
<1>13. OneOwnerEach
  <2>1. \A p \in Procs : OwnedOnce(children, parent, zombie_list \union Freed, Freed, p)
    BY <1>0, <1>6 DEF OwnedOnce
  <2> QED BY <1>6, <2>1, OwnersAre
<1>14. StatusMatchesLists /\ NoWaitForZombie
  BY <1>0 DEF StatusMatchesLists, NoWaitForZombie
<1> QED BY <1>7, <1>8, <1>9, <1>10, <1>11, <1>12, <1>13, <1>14 DEF ProcInv

\* A step that changes nothing.
LEMMA ProcStutter == ProcInv /\ UNCHANGED procVars => ProcInv'
<1> SUFFICES ASSUME ProcInv, UNCHANGED procVars PROVE ProcInv'
  OBVIOUS
<1>1. UNCHANGED schedVars /\ UNCHANGED treeVars /\ UNCHANGED <<syscall, syscall_retvalue, fault>>
  BY DEF procVars, vars, schedVars, treeVars
<1>2. /\ syscall \in [Procs -> [num : SyscallNums, arg : Int]]
      /\ syscall_retvalue \in [Procs -> Int]
      /\ fault \in BOOLEAN
  BY DEF ProcInv, ProcTypes
<1> QED BY <1>1, <1>2, QuietKeeps

\* Every step of the processes and of the scheduler preserves the invariant.
LEMMA ProcStep == ProcInv /\ [ProcNext]_procVars => ProcInv'
<1> SUFFICES ASSUME ProcInv, ProcNext PROVE ProcInv'
  BY ProcStutter
<1>1. CASE Next /\ UNCHANGED treeVars
  BY <1>1, SchedulerKeeps
<1>2. ASSUME NEW p \in Procs, Spawn(p) PROVE ProcInv'
  <2>1. ~fault /\ running = p
    BY <1>2 DEF Spawn
  <2>2. CASE SpawnChild(p)
    BY <2>1, <2>2, SpawnChildKeeps
  <2>3. CASE SpawnFails(p)
    <3>1. "SPAWN" \in SyscallNums /\ 0 \in Int
      BY DEF SyscallNums
    <3> QED BY <2>3, <3>1, CrashKeeps DEF SpawnFails
  <2> QED BY <1>2, <2>2, <2>3 DEF Spawn
<1>3. ASSUME NEW p \in Procs, NEW c \in WaitPids, Wait(p, c) PROVE ProcInv'
  BY <1>3, WaitKeeps
<1>4. ASSUME NEW p \in Procs, Exit(p) PROVE ProcInv'
  BY <1>4, ExitKeeps
<1> QED BY <1>1, <1>2, <1>3, <1>4 DEF ProcNext

-----------------------------------------------------------------------------
(***************************************************************************)
(* The end of a wait. Of a child that has not exited the other parts of    *)
(* the invariant know that it will wake its parent; here is why there is a *)
(* child.                                                                  *)
(***************************************************************************)

\* A process that waits for a child has one.
WaitersAreParents == \A p \in waiting_list : syscall[p].num = "WAIT" => Kids(p) # {}

\* Its wait can end, or it is one of the two that the property names.
LEMMA WaitersGive ==
  ASSUME ProcInv, WaitersAreParents
  PROVE  WaitCanEnd
<1> SUFFICES ASSUME NEW p \in waiting_list, syscall[p].num = "WAIT",
                    syscall[p].arg # 0 \/ {q \in Kids(p) : syscall[p].arg \in {0, pid[q]}} # {},
                    ~(parent[p] = NULL /\ \E q \in Kids(p) : parent[q] # p),
                    {q \in Kids(p) : syscall[p].arg \in {0, pid[q]}} # {}
             PROVE  \E q \in Kids(p) : /\ syscall[p].arg \in {0, pid[q]}
                                       /\ parent[q] = p /\ q \notin zombie_list
  BY DEF WaitCanEnd, WaitersAreParents, Kids
<1>1. PICK q \in Kids(p) : syscall[p].arg \in {0, pid[q]}
  OBVIOUS
<1>2. p \in Procs /\ q \in Procs
  BY KidsOwned DEF ProcInv, ProcTypes
<1>3. parent[q] = p
  BY <1>2 DEF ProcInv, InitStays
<1>4. status[q] # "Zombie"
  BY <1>1, <1>2, <1>3 DEF ProcInv, NoWaitForZombie, Kids
<1>5. q \notin zombie_list
  BY <1>4 DEF ProcInv, ZombiesKept
<1> QED BY <1>1, <1>3, <1>5

\* It stays so if nobody else comes to wait for a child, and no process that
\* waits loses its last child.
LEMMA WaitersStay ==
  ASSUME WaitersAreParents,
         \A p \in waiting_list' : syscall'[p].num = "WAIT" =>
           \/ Kids(p)' # {}
           \/ /\ p \in waiting_list
              /\ syscall[p].num = "WAIT"
              /\ Kids(p) # {} => Kids(p)' # {}
  PROVE  WaitersAreParents'
BY DEF WaitersAreParents

\* The steps of the scheduler wake sleepers and put new ones to sleep, and
\* nobody else enters or leaves the waiting list.
LEMMA SchedulerMovesSleepers ==
  ASSUME ProcInv, Next
  PROVE  /\ waiting_list' \ TimerProcs' = waiting_list \ TimerProcs
         /\ \A p \in waiting_list : syscall'[p] = syscall[p]
<1>0. /\ ProcTypes /\ TimersInv
      /\ TimerProcs \subseteq waiting_list
      /\ running \notin waiting_list
  BY ProcInvParts DEF TimersInv, TimersSorted, Placed
<1>1. ASSUME NEW timers, SameTimers(timers), internal_schedule(timers)
      PROVE  waiting_list' \ TimerProcs' = waiting_list \ TimerProcs
  <2>1. /\ timer_list' = SubSeq(timers, Len(Woken(timers)) + 1, Len(timers))
        /\ waiting_list' = waiting_list \ Range(Woken(timers))
    BY <1>1 DEF internal_schedule
  <2>2. /\ TimerProcs' = TimerProcs \ Range(Woken(timers))
        /\ Range(Woken(timers)) \subseteq TimerProcs
    BY <1>0, <1>1, <2>1, TimersSchedule
  <2> QED BY <2>1, <2>2
<1>2. SameTimers(timer_list) /\ SameTimers(Ticked(timer_list))
  BY <1>0, TimersNow
<1>3. CASE UNCHANGED schedVars /\ \A p \in waiting_list : syscall'[p] = syscall[p]
  BY <1>3 DEF schedVars, TimerProcs
<1>4. CASE TimerInterrupt
  BY <1>1, <1>2, <1>4 DEF TimerInterrupt
<1>5. CASE TimerInterruptNoProcess
  BY <1>3, <1>5 DEF TimerInterruptNoProcess, Crash
<1>6. ASSUME NEW p \in Procs, Preempt(p)
      PROVE  /\ waiting_list' \ TimerProcs' = waiting_list \ TimerProcs
             /\ \A q \in waiting_list : syscall'[q] = syscall[q]
  <2>1. /\ waiting_list' \ TimerProcs' = waiting_list \ TimerProcs
        /\ running = p
        /\ syscall' = [syscall EXCEPT ![p] = [num |-> "PREEMPT", arg |-> 0]]
    BY <1>1, <1>2, <1>6 DEF Preempt, Syscall
  <2> QED BY <1>0, <2>1 DEF ProcTypes
<1>7. ASSUME NEW p \in Procs, NEW c \in SleepTimes, Sleep(p, c)
      PROVE  /\ waiting_list' \ TimerProcs' = waiting_list \ TimerProcs
             /\ \A q \in waiting_list : syscall'[q] = syscall[q]
  <2>1. /\ timer_list' = TimerList_add(timer_list, [pcb |-> p, left |-> c])
        /\ waiting_list' = waiting_list \union {p}
        /\ running = p
        /\ syscall' = [syscall EXCEPT ![p] = [num |-> "SLEEP", arg |-> c]]
        /\ c \in Int
    BY <1>7, SchedulerAssumption DEF Sleep, Block, Syscall
  <2>2. TimerProcs' = TimerProcs \union {p}
    BY <1>0, <2>1, TimersSleep
  <2> QED BY <1>0, <2>1, <2>2 DEF ProcTypes
<1>8. ASSUME NEW p \in Procs, Return(p)
      PROVE  UNCHANGED schedVars /\ \A q \in waiting_list : syscall'[q] = syscall[q]
  BY <1>0, <1>8 DEF Return, ProcTypes
<1> QED BY <1>3, <1>4, <1>5, <1>6, <1>7, <1>8 DEF Next, TimerInterrupt

\* The scheduler lets nobody wait for a child, and moves no child.
LEMMA WaitersSchedule ==
  ASSUME ProcInv, WaitersAreParents, Next, UNCHANGED treeVars
  PROVE  WaitersAreParents'
<1>1. /\ waiting_list' \ TimerProcs' = waiting_list \ TimerProcs
      /\ \A p \in waiting_list : syscall'[p] = syscall[p]
  BY SchedulerMovesSleepers
<1>2. \A p \in TimerProcs' : syscall'[p].num = "SLEEP"
  BY SchedulerKeeps DEF ProcInv, SleepersCall
<1>3. \A p \in waiting_list' : syscall'[p].num = "WAIT" =>
        p \in waiting_list /\ syscall[p].num = "WAIT"
  BY <1>1, <1>2
<1>4. \A p : Kids(p)' = Kids(p)
  BY DEF Kids, treeVars
<1> QED BY <1>3, <1>4, WaitersStay

\* A new child is on no list before, and takes none from its siblings.
LEMMA WaitersSpawn ==
  ASSUME ProcInv, WaitersAreParents, NEW p \in Procs, running = p, SpawnChild(p)
  PROVE  WaitersAreParents'
<1> DEFINE child == Head(free_pcbs)
<1>1. /\ free_pcbs \in Seq(Procs) /\ free_pcbs # <<>>
      /\ children \in [Procs -> Seq(Procs)]
      /\ syscall \in [Procs -> [num : SyscallNums, arg : Int]]
      /\ waiting_list \subseteq Procs
      /\ Placed(running, ready_list, waiting_list, zombie_list, free_pcbs)
  BY ProcInvParts DEF ProcTypes, SpawnChild
<1>2. child \in Range(free_pcbs) /\ child \in Procs
  BY <1>1, TailRange
<1>3. /\ children' = [children EXCEPT ![child] = <<>>, ![p] = Append(@, child)]
      /\ syscall' = [syscall EXCEPT ![child] = NoCall, ![p] = [num |-> "SPAWN", arg |-> 0]]
      /\ waiting_list' = waiting_list
  BY DEF SpawnChild
<1> HIDE DEF child
<1>4. \A q \in waiting_list : q # child /\ q # p
  BY <1>1, <1>2 DEF Placed
<1>5. \A q \in waiting_list : children'[q] = children[q] /\ syscall'[q] = syscall[q]
  BY <1>1, <1>2, <1>3, <1>4
<1> QED BY <1>3, <1>5, WaitersStay DEF Kids

\* wait blocks only a process that has a child.
LEMMA WaitersWait ==
  ASSUME ProcInv, WaitersAreParents, NEW p \in Procs, NEW c \in WaitPids, Wait(p, c)
  PROVE  WaitersAreParents'
<1>1. c \in Int /\ "WAIT" \in SyscallNums /\ Syscall(p, "WAIT", c)
  BY ProcessesAssumption DEF SyscallNums, Wait
<1>2. /\ \A q \in Procs \ {p} : syscall'[q] = syscall[q]
      /\ p \notin waiting_list
      /\ waiting_list \subseteq Procs
      /\ children \in [Procs -> Seq(Procs)]
  BY <1>1, CallOfRunning DEF ProcInv, ProcTypes
<1>3. \A q \in waiting_list : q \in Procs \ {p} /\ syscall'[q] = syscall[q]
  BY <1>2
<1>4. CASE UNCHANGED <<waiting_list, children>>
  BY <1>3, <1>4, WaitersStay DEF Kids
<1>5. CASE WaitReap(p, Awaited(p, c))
  <2>1. /\ waiting_list' = waiting_list
        /\ \A q \in Procs \ {p} : children'[q] = children[q]
    BY <1>2, <1>5 DEF WaitReap, schedVars
  <2> QED BY <1>3, <2>1, WaitersStay DEF Kids
<1>6. CASE children[p] # <<>> /\ waiting_list' = waiting_list \union {p} /\ UNCHANGED children
  <2>1. Kids(p)' # {}
    <3>1. Head(children[p]) \in Kids(p)
      BY <1>2, <1>6, TailRange DEF Kids
    <3> QED BY <1>6, <3>1 DEF Kids
  <2>2. \A q \in waiting_list : Kids(q)' = Kids(q)
    BY <1>6 DEF Kids
  <2> QED BY <1>3, <1>6, <2>1, <2>2, WaitersStay
<1> QED BY <1>4, <1>5, <1>6
        DEF Wait, WaitNoChildren, WaitBlock, Block, Crash, schedVars, treeVars

\* exit gives the children away only of the process that exits, and takes one of
\* the process that it wakes.
LEMMA WaitersExit ==
  ASSUME ProcInv, WaitersAreParents, NEW p \in Procs, Exit(p)
  PROVE  WaitersAreParents'
<1>1. 0 \in Int /\ "EXIT" \in SyscallNums /\ Syscall(p, "EXIT", 0)
  BY DEF SyscallNums, Exit
<1>2. /\ \A q \in Procs \ {p} : syscall'[q] = syscall[q]
      /\ p \notin waiting_list
      /\ waiting_list \subseteq Procs
      /\ parent \in [Procs -> Procs \union {NULL}]
  BY <1>1, CallOfRunning DEF ProcInv, ProcTypes
<1>3. \A q \in waiting_list : q \in Procs \ {p} /\ syscall'[q] = syscall[q]
  BY <1>2
<1>4. CASE UNCHANGED <<waiting_list, children>>
  BY <1>3, <1>4, WaitersStay DEF Kids
<1>5. ASSUME parent[p] # NULL
      PROVE  /\ Reparented(p) \in [Procs -> Seq(Procs)]
             /\ \A q \in Procs \ {p} : Kids(q) # {} => Range(Reparented(p)[q]) # {}
  <2>1. p # init_pcb
    BY <1>5 DEF ProcInv, InitStays
  <2>2. \A r : \A q \in Procs \ {p} : r \in Kids(q) => r \in Range(Reparented(p)[q])
    BY <2>1, ReparentedIs
  <2> QED BY <2>1, <2>2, ReparentedIs
<1>6. CASE parent[p] # NULL /\ waiting_list' = waiting_list /\ children' = Reparented(p)
  <2>1. \A q \in waiting_list : Kids(q) # {} => Kids(q)' # {}
    BY <1>3, <1>5, <1>6 DEF Kids
  <2> QED BY <1>3, <1>6, <2>1, WaitersStay
<1>7. CASE parent[p] # NULL /\ ExitToParent(p)
  <2> DEFINE par == parent[p]
             kids == Reparented(p)
             rest == RemoveAt(kids[par], SelfInParent(p))
  <2>1. /\ waiting_list' = waiting_list \ {par}
        /\ children' = [kids EXCEPT ![par] = rest]
    BY <1>7 DEF ExitToParent, WakeParent, Forgotten
  <2> HIDE DEF par, kids, rest
  <2>2. \A q \in waiting_list' : children'[q] = kids[q]
    BY <1>3, <1>5, <1>7, <2>1 DEF kids
  <2>3. \A q \in waiting_list' : Kids(q) # {} => Kids(q)' # {}
    BY <1>3, <1>5, <1>7, <2>1, <2>2 DEF Kids, kids
  <2> QED BY <1>3, <2>1, <2>3, WaitersStay
<1> QED BY <1>4, <1>6, <1>7
        DEF Exit, ExitOfInit, ExitToStranger, ExitToZombie, Crash, schedVars, treeVars

\* A step that leaves the waiting list, the calls and the children alone.
LEMMA WaitersSame ==
  ASSUME WaitersAreParents, UNCHANGED <<waiting_list, syscall, children>>
  PROVE  WaitersAreParents'
BY DEF WaitersAreParents, Kids

\* Every step of the processes and of the scheduler.
LEMMA WaitersStep ==
  ASSUME ProcInv, WaitersAreParents, [ProcNext]_procVars
  PROVE  WaitersAreParents'
<1>1. CASE UNCHANGED procVars
  BY <1>1, WaitersSame DEF procVars, vars, treeVars
<1>2. CASE Next /\ UNCHANGED treeVars
  BY <1>2, WaitersSchedule
<1>3. ASSUME NEW p \in Procs, Spawn(p) PROVE WaitersAreParents'
  <2>1. CASE SpawnChild(p)
    BY <1>3, <2>1, WaitersSpawn DEF Spawn
  <2>2. CASE SpawnFails(p)
    <3>1. /\ "SPAWN" \in SyscallNums /\ 0 \in Int
          /\ Syscall(p, "SPAWN", 0)
      BY <2>2 DEF SyscallNums, SpawnFails
    <3>2. /\ \A q \in Procs \ {p} : syscall'[q] = syscall[q]
          /\ p \notin waiting_list
          /\ waiting_list \subseteq Procs
      BY <3>1, CallOfRunning DEF ProcInv, ProcTypes
    <3>3. waiting_list' = waiting_list /\ children' = children
      BY <2>2 DEF SpawnFails, Crash, schedVars, treeVars
    <3> QED BY <3>2, <3>3, WaitersStay DEF Kids
  <2> QED BY <1>3, <2>1, <2>2 DEF Spawn
<1>4. ASSUME NEW p \in Procs, NEW c \in WaitPids, Wait(p, c) PROVE WaitersAreParents'
  BY <1>4, WaitersWait
<1>5. ASSUME NEW p \in Procs, Exit(p) PROVE WaitersAreParents'
  BY <1>5, WaitersExit
<1> QED BY <1>1, <1>2, <1>3, <1>4, <1>5 DEF ProcNext

-----------------------------------------------------------------------------
(***************************************************************************)
(* The theorems.                                                           *)
(***************************************************************************)

\* The inductive invariant holds in every state of the processes.
THEOREM ProcessesInvariant == ProcSpec => []ProcInv
  BY ProcInitInv, ProcStep, PTL DEF ProcSpec

\* No PCB is lost, in two places, or queued or freed twice, however the spawns,
\* waits and exits of the processes interleave.
THEOREM ProcessesPlaces == ProcSpec => []OnePlaceEach
  BY ProcessesInvariant, PTL DEF ProcInv

\* Every process with a parent has one owner, which has not exited.
THEOREM ProcessesOwners == ProcSpec => []OneOwnerEach
  BY ProcessesInvariant, PTL DEF ProcInv

\* No parent sleeps through the exit of its own child.
THEOREM ProcessesWake == ProcSpec => []NoWaitForZombie
  BY ProcessesInvariant, PTL DEF ProcInv

\* A wait that has blocked has a child to end it, which will look at the process
\* that waits: or it is that of a first process with children of others, or one
\* for a pid that no child has.
THEOREM ProcessesWaits == ProcSpec => []WaitCanEnd
<1>1. ProcInit => WaitersAreParents
  BY DEF ProcInit, WaitersAreParents
<1>2. ProcInv /\ WaitersAreParents /\ [ProcNext]_procVars => WaitersAreParents'
  BY WaitersStep
<1>3. ProcInv /\ WaitersAreParents => WaitCanEnd
  BY WaitersGive
<1> QED BY <1>1, <1>2, <1>3, ProcessesInvariant, PTL DEF ProcSpec

\* The status of a process says whether it is on the waiting list: exit looks
\* there for a parent that waits.
THEOREM ProcessesStatus == ProcSpec => []StatusMatchesLists
  BY ProcessesInvariant, PTL DEF ProcInv

\* Both exit and wait free the PCB of a child only by giving its pid to the
\* process whose child it was.
THEOREM ProcessesReaped == ProcSpec => ReapedByOwner
<1> DEFINE Reaped == \A q \in Range(free_pcbs') \ Range(free_pcbs) :
                       /\ q \in Range(children[running'])
                       /\ q \notin Range(children'[running'])
                       /\ syscall_retvalue'[running'] = pid[q]
<1>1. ProcInv /\ [ProcNext]_procVars => [Reaped]_procVars
  <2> SUFFICES ASSUME ProcInv, ProcNext PROVE Reaped
    OBVIOUS
  <2>0. /\ free_pcbs \in Seq(Procs)
        /\ syscall_retvalue \in [Procs -> Int]
        /\ parent \in [Procs -> Procs \union {NULL}]
    BY DEF ProcInv, ProcTypes
  <2>1. CASE free_pcbs' = free_pcbs
    BY <2>1
  <2>2. CASE UNCHANGED treeVars
    BY <2>1, <2>2 DEF treeVars
  <2>3. ASSUME NEW p \in Procs, Spawn(p) PROVE Reaped
    <3>1. CASE SpawnChild(p)
      <4>1. free_pcbs # <<>> /\ free_pcbs' = Tail(free_pcbs)
        BY <3>1 DEF SpawnChild
      <4>2. Range(free_pcbs') \subseteq Range(free_pcbs)
        BY <2>0, <4>1, TailRange
      <4> QED BY <4>2
    <3> QED BY <2>2, <2>3, <3>1 DEF Spawn, SpawnFails
  <2>4. ASSUME NEW p \in Procs, NEW c \in WaitPids, Wait(p, c) PROVE Reaped
    <3>1. Syscall(p, "WAIT", c) /\ c \in Int /\ running = p
      BY <2>4, ProcessesAssumption DEF Wait, Syscall
    <3>2. CASE children[p] # <<>> /\ WaitReap(p, Awaited(p, c))
      <4> DEFINE child == children[p][Awaited(p, c)]
      <4>1. Awaited(p, c) \in 1..Len(children[p])
        BY <3>1, <3>2, AwaitedIs
      <4>2. child \in Kids(p) /\ child \notin Range(children'[p])
        BY <3>1, <3>2, <4>1, WaitReapKeeps
      <4>3. /\ free_pcbs' = <<child>> \o free_pcbs
            /\ syscall_retvalue' = [syscall_retvalue EXCEPT ![p] = pid[child]]
            /\ running' = p
        BY <3>1, <3>2 DEF WaitReap, FreePCB, schedVars
      <4>4. child \in Procs
        BY <4>2, KidsOwned
      <4> HIDE DEF child
      <4>5. Range(free_pcbs') = Range(free_pcbs) \union {child}
        BY <2>0, <4>3, <4>4, PushRange
      <4>6. syscall_retvalue'[p] = pid[child]
        BY <2>0, <4>3
      <4> QED BY <4>2, <4>3, <4>5, <4>6 DEF Kids
    <3> QED BY <2>2, <2>4, <3>2 DEF Wait, WaitNoChildren, WaitBlock
  <2>5. ASSUME NEW p \in Procs, Exit(p) PROVE Reaped
    <3>1. Syscall(p, "EXIT", 0)
      BY <2>5 DEF Exit
    <3>2. CASE parent[p] # NULL /\ ExitToParent(p)
      <4> DEFINE par == parent[p]
      <4>1. p \in Kids(par) /\ p \notin Range(children'[par])
        BY <3>1, <3>2, ExitToParentKeeps
      <4>2. /\ free_pcbs' = <<p>> \o free_pcbs
            /\ syscall_retvalue' = [syscall_retvalue EXCEPT ![par] = pid[p]]
            /\ running' = par
        BY <3>2 DEF ExitToParent
      <4>3. par \in Procs
        BY <2>0, <3>2
      <4> HIDE DEF par
      <4>4. Range(free_pcbs') = Range(free_pcbs) \union {p}
        BY <2>0, <4>2, PushRange
      <4>5. syscall_retvalue'[par] = pid[p]
        BY <2>0, <4>2, <4>3
      <4> QED BY <4>1, <4>2, <4>4, <4>5 DEF Kids
    <3>3. CASE ExitToZombie(p)
      BY <2>1, <3>3 DEF ExitToZombie, treeVars
    <3> QED BY <2>2, <2>5, <3>2, <3>3 DEF Exit, ExitOfInit, ExitToStranger
  <2> QED BY <2>2, <2>3, <2>4, <2>5 DEF ProcNext
<1> QED BY <1>1, ProcessesInvariant, PTL DEF ProcSpec, ReapedByOwner

=============================================================================
