----------------------------- MODULE Processes -----------------------------
(***************************************************************************)
(* The processes of disastrOS on top of its scheduler: spawn, wait and     *)
(* exit, the tree of the processes, the zombies, and the pools of the PCBs *)
(* and of the pointers to them that make up the lists of children.         *)
(*                                                                         *)
(* Each pool gives out the block that it got back last. That matters here: *)
(* nothing clears the pointers to a PCB that was freed.                    *)
(* Left out: the signals, which nobody reads, and the exit values.         *)
(***************************************************************************)
EXTENDS Scheduler

CONSTANTS
  WaitPids,  \* the arguments given to disastrOS_wait: a pid, 0 for any
  MaxPid     \* bound of the model: no spawn once last_pid has it

ASSUME ProcessesAssumption ==
  /\ WaitPids \subseteq Int
  /\ MaxPid \in Nat

VARIABLES
  init_pcb,     \* the first process
  pid,          \* PCB.pid
  last_pid,     \* the next pid
  parent,       \* PCB.parent
  children,     \* PCB.children: the PCBs that the pointers name, in order
  zombie_list,  \* the PCBs that exited: nothing reads the order of this list
  free_pcbs,    \* the free blocks of the PCB pool, the next to be given first
  free_ptrs     \* the number of free blocks of the PCBPtr pool

treeVars == <<init_pcb, pid, last_pid, parent, children, zombie_list,
              free_pcbs, free_ptrs>>
procVars == <<vars, treeVars>>

DSOS_EWAIT == -5

ProcInit ==
  /\ init_pcb \in Procs
  /\ running = init_pcb
  /\ ready_list = <<>>
  /\ waiting_list = {}
  /\ timer_list = <<>>
  /\ status = [p \in Procs |-> IF p = init_pcb THEN "Running" ELSE "Invalid"]
  /\ syscall = [p \in Procs |-> NoCall]
  /\ syscall_retvalue = [p \in Procs |-> 0]
  /\ fault = FALSE
  /\ pid = [p \in Procs |-> 0]
  /\ last_pid = 1
  /\ parent = [p \in Procs |-> NULL]
  /\ children = [p \in Procs |-> <<>>]
  /\ zombie_list = {}
  /\ free_pcbs \in LET others == Procs \ {init_pcb}
                   IN  Bijection(1..Cardinality(others), others)
  /\ free_ptrs = Cardinality(Procs)

-----------------------------------------------------------------------------
(***************************************************************************)
(* spawn.                                                                  *)
(***************************************************************************)

SpawnChild(p) ==
  LET child == Head(free_pcbs)
  IN  /\ free_pcbs # <<>>
      /\ free_ptrs > 0
      /\ free_pcbs' = Tail(free_pcbs)
      /\ free_ptrs' = free_ptrs - 1
      /\ pid' = [pid EXCEPT ![child] = last_pid]
      /\ last_pid' = last_pid + 1
      /\ parent' = [parent EXCEPT ![child] = p]
      /\ children' = [children EXCEPT ![child] = <<>>, ![p] = Append(@, child)]
      /\ status' = [status EXCEPT ![child] = "Ready"]
      /\ ready_list' = EnqueueReady(ready_list, child)
      /\ syscall' = [syscall EXCEPT ![child] = NoCall, ![p] = [num |-> "SPAWN", arg |-> 0]]
      /\ syscall_retvalue' = [syscall_retvalue EXCEPT ![p] = last_pid]
      /\ UNCHANGED <<running, waiting_list, timer_list, fault, init_pcb, zombie_list>>

\* PCB_alloc and PCBPtr_alloc write to the block before anybody tests it.
SpawnFails(p) ==
  /\ free_pcbs = <<>> \/ free_ptrs = 0
  /\ Syscall(p, "SPAWN", 0)
  /\ Crash
  /\ UNCHANGED treeVars

Spawn(p) ==
  /\ ~fault
  /\ running = p
  /\ syscall[p] = NoCall
  /\ last_pid < MaxPid
  /\ SpawnChild(p) \/ SpawnFails(p)

-----------------------------------------------------------------------------
(***************************************************************************)
(* wait.                                                                   *)
(***************************************************************************)

\* The place in the children of p where the search of internal_wait ends: the
\* first match, or the last child.
Awaited(p, pid_to_wait) ==
  LET n == Len(children[p])
      matches == {i \in 1..n : LET child == children[p][i]
                               IN  IF pid_to_wait = 0 THEN status[child] = "Zombie"
                                                      ELSE pid[child] = pid_to_wait}
  IN  IF matches = {} THEN n ELSE CHOOSE i \in matches : \A j \in matches : i <= j

\* The PCB of a child goes back to its pool.
FreePCB_StaysZombie(p) ==  \* a bug: the PCB is freed on the zombie list
  /\ free_pcbs' = <<p>> \o free_pcbs
  /\ UNCHANGED zombie_list
FreePCB(p) ==
  /\ free_pcbs' = <<p>> \o free_pcbs
  /\ zombie_list' = zombie_list \ {p}

WaitNoChildren(p) ==
  /\ children[p] = <<>>
  /\ syscall_retvalue' = [syscall_retvalue EXCEPT ![p] = DSOS_EWAIT]
  /\ UNCHANGED <<schedVars, fault, treeVars>>

\* The child is a zombie: its pid is the answer.
WaitReap(p, i) ==
  LET child == children[p][i]
  IN  /\ status[child] = "Zombie"
      /\ children' = [children EXCEPT ![p] = RemoveAt(@, i)]
      /\ free_ptrs' = free_ptrs + 1
      /\ FreePCB(child)
      /\ syscall_retvalue' = [syscall_retvalue EXCEPT ![p] = pid[child]]
      /\ UNCHANGED <<schedVars, fault, init_pcb, pid, last_pid, parent>>

\* The exit of the child will give the answer.
WaitBlock(p, i) ==
  /\ status[children[p][i]] # "Zombie"
  /\ \/ Block(p) /\ RunNext /\ UNCHANGED <<timer_list, fault, syscall_retvalue>>
     \/ ready_list = <<>> /\ Crash  \* List_detach gets the null head
  /\ UNCHANGED treeVars

Wait(p, pid_to_wait) ==
  /\ Syscall(p, "WAIT", pid_to_wait)
  /\ \/ WaitNoChildren(p)
     \/ /\ children[p] # <<>>
        /\ LET i == Awaited(p, pid_to_wait) IN WaitReap(p, i) \/ WaitBlock(p, i)

-----------------------------------------------------------------------------
(***************************************************************************)
(* exit.                                                                   *)
(***************************************************************************)

\* The lists of children after those of p went to init, in front of nobody.
\* Their parent pointers stay.
Reparented_ToParent(p) ==  \* a bug: the grandparent gets them
  [children EXCEPT ![parent[p]] = @ \o children[p], ![p] = <<>>]
Reparented_Not(p) == [children EXCEPT ![p] = <<>>]  \* a bug: nobody gets them
Reparented(p) ==
  [children EXCEPT ![init_pcb] = @ \o children[p], ![p] = <<>>]

\* The process that parent points to waits for p, or for any child.
ParentWaits_AnyCall(p) ==  \* a bug: does not look at the call it is blocked in
  /\ status[parent[p]] = "Waiting"
  /\ syscall[parent[p]].arg \in {0, pid[p]}
ParentWaits_ForPid(p) ==  \* a bug: forgets the wait for any child
  /\ status[parent[p]] = "Waiting"
  /\ syscall[parent[p]] = [num |-> "WAIT", arg |-> pid[p]]
ParentWaits(p) ==
  /\ status[parent[p]] = "Waiting"
  /\ syscall[parent[p]].num = "WAIT"
  /\ syscall[parent[p]].arg \in {0, pid[p]}

\* The parent leaves the waiting list.
WakeParent_NoStatus(par) ==  \* a bug: the status still says Waiting
  /\ waiting_list' = waiting_list \ {par}
  /\ status' = [status EXCEPT ![running] = "Zombie"]
WakeParent(par) ==
  /\ waiting_list' = waiting_list \ {par}
  /\ status' = [status EXCEPT ![par] = "Running", ![running] = "Zombie"]

\* The place of the first pointer to a PCB with the pid n, or 0.
PCBPtr_byPID(list, n) ==
  LET matches == {i \in 1..Len(list) : pid[list[i]] = n}
  IN  IF matches = {} THEN 0 ELSE CHOOSE i \in matches : \A j \in matches : i <= j

\* The pointer to p that its parent has, when the children of p went to init.
SelfInParent(p) == PCBPtr_byPID(Reparented(p)[parent[p]], pid[p])

\* The lists of children without that pointer.
Forgotten_First(p) ==  \* a bug: takes the first pointer, not the one to p
  [Reparented(p) EXCEPT ![parent[p]] = Tail(@)]
Forgotten(p) == [Reparented(p) EXCEPT ![parent[p]] = RemoveAt(@, SelfInParent(p))]

\* The waiting parent gets the pid of p and the cpu, and the PCB of p is freed.
\* The block of the pointer to p is lost.
ExitToParent(p) ==
  LET par == parent[p]
  IN  /\ ParentWaits(p)
      /\ SelfInParent(p) # 0
      /\ WakeParent(par)
      /\ children' = Forgotten(p)
      /\ syscall_retvalue' = [syscall_retvalue EXCEPT ![par] = pid[p]]
      /\ free_pcbs' = <<p>> \o free_pcbs
      /\ running' = par
      /\ UNCHANGED <<ready_list, timer_list, fault, init_pcb, pid, last_pid, parent,
                     zombie_list, free_ptrs>>

\* The parent's PCB is used by another process by now, which waits for a child
\* of its own: there is no pointer to p to detach.
ExitToStranger(p) ==
  /\ ParentWaits(p)
  /\ SelfInParent(p) = 0
  /\ Crash
  /\ UNCHANGED treeVars

\* Nobody waits for p: it stays as a zombie and the next process runs.
ExitToZombie(p) ==
  /\ ~ParentWaits(p)
  /\ \/ /\ RunNext
        /\ status' = [status EXCEPT ![p] = "Zombie", ![running'] = "Running"]
        /\ zombie_list' = zombie_list \union {p}
        /\ children' = Reparented(p)
        /\ UNCHANGED <<waiting_list, timer_list, fault, syscall_retvalue, init_pcb,
                       pid, last_pid, parent, free_pcbs, free_ptrs>>
     \/ /\ ready_list = <<>>  \* List_detach gets the null head
        /\ Crash
        /\ UNCHANGED treeVars

\* A first process has no parent to look at; and init, if it has children, gives
\* them to itself for ever.
ExitOfInit == Crash /\ UNCHANGED treeVars

Exit(p) ==
  /\ Syscall(p, "EXIT", 0)
  /\ \/ parent[p] = NULL /\ ExitOfInit
     \/ parent[p] # NULL /\ (ExitToParent(p) \/ ExitToStranger(p) \/ ExitToZombie(p))

-----------------------------------------------------------------------------
ProcNext ==
  \/ Next /\ UNCHANGED treeVars
  \/ \E p \in Procs :
       \/ Spawn(p)
       \/ \E c \in WaitPids : Wait(p, c)
       \/ Exit(p)

ProcSpec == ProcInit /\ [][ProcNext]_procVars

-----------------------------------------------------------------------------
(***************************************************************************)
(* Properties.                                                             *)
(***************************************************************************)

\* A PCB is in one place: on the cpu, on one of the three lists of processes,
\* once, or free. exit and wait move it by hand between these, and one that is
\* free and on a list would be two processes.
OnePlaceEach ==
  LET places == <<{running}, Range(ready_list), waiting_list, zombie_list, Range(free_pcbs)>>
  IN  /\ Procs \subseteq UNION Range(places)
      /\ \A i, j \in DOMAIN places : i # j => places[i] \intersect places[j] = {}
      /\ IsInjective(ready_list)
      /\ IsInjective(free_pcbs)

\* Every process with a parent is the child of exactly one process that has not
\* exited, which can wait for it; and no list of children holds a free PCB.
OneOwnerEach ==
  \A p \in Procs :
    LET owners == {r \in Procs : p \in Range(children[r])}
    IN  /\ IsInjective(children[p])
        /\ IF parent[p] = NULL \/ p \in Range(free_pcbs)
           THEN owners = {}
           ELSE \E r \in Procs \ (zombie_list \union Range(free_pcbs)) : owners = {r}

\* No parent sleeps through the exit of its child, whichever of the two comes
\* first: exit wakes a parent that waits, and wait looks for zombies before it
\* blocks. (For a child that points to the process whose child it is.)
NoWaitForZombie ==
  \A p \in Procs : \A q \in Range(children[p]) :
    ~ /\ p \in waiting_list
      /\ syscall[p].num = "WAIT"
      /\ syscall[p].arg \in {0, pid[q]}
      /\ parent[q] = p
      /\ status[q] = "Zombie"

\* A wait that has blocked can end: there is a child to wait for that has not
\* exited, and its exit will look at the process that waits. Two waits may be
\* left without such a child: that of a first process, to whose children those
\* of others were added (InitReapsOrphans), and that for a pid that no child
\* has, which disastrOS_wait.c:33-34 says is refused but the search takes for
\* a wait for the last child.
WaitCanEnd ==
  \A p \in waiting_list :
    LET awaited == {q \in Range(children[p]) : syscall[p].arg \in {0, pid[q]}}
    IN  syscall[p].num = "WAIT" =>
          \/ \E q \in awaited : parent[q] = p /\ q \notin zombie_list
          \/ parent[p] = NULL /\ \E q \in Range(children[p]) : parent[q] # p
          \/ syscall[p].arg # 0 /\ awaited = {}

\* A PCB is freed only by giving its pid to the process whose child it was, and
\* that process has the cpu. Both exit and wait free it.
ReapedByOwner ==
  [][\A q \in Range(free_pcbs') \ Range(free_pcbs) :
       /\ q \in Range(children[running'])
       /\ q \notin Range(children'[running'])
       /\ syscall_retvalue'[running'] = pid[q]]_procVars

\* disastrOS_exit.c:10-14: the children of a process that exits go to init,
\* and the parent is awakened if it was waiting. exit does not change their
\* parent pointer, so that init is not awakened by the exit of such a child.
InitReapsOrphans ==
  ~ /\ init_pcb \in waiting_list
    /\ syscall[init_pcb] = [num |-> "WAIT", arg |-> 0]
    /\ \E q \in Range(children[init_pcb]) : status[q] = "Zombie"

=============================================================================
