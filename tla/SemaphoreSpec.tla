--------------------------- MODULE SemaphoreSpec ---------------------------
(***************************************************************************)
(* What the four semaphore calls of disastrOS promise to the processes:    *)
(* counting semaphores named by numbers, used through handles, with a      *)
(* first-come first-served queue. Nothing is said here of schedulers,      *)
(* lists, file descriptors or return values.                               *)
(***************************************************************************)
EXTENDS Integers, Sequences, FiniteSets

CONSTANTS
  Procs,       \* the processes
  SemIds,      \* the semaphore numbers
  Handles,     \* the handles that can be open at once
  InitCounts,  \* the initial values
  NULL         \* a handle that is not in use

VARIABLES
  exists,  \* the semaphores that exist
  value,   \* the units of each semaphore that can be taken
  queue,   \* the processes that wait for a unit, the first come first
  handle   \* the owner and the semaphore of each open handle

absVars == <<exists, value, queue, handle>>

Handle == [owner : Procs, sem : SemIds]

Init ==
  /\ exists = {}
  /\ value = [s \in SemIds |-> 0]
  /\ queue = [s \in SemIds |-> <<>>]
  /\ handle = [h \in Handles |-> NULL]

Queued(p) == \E s \in SemIds : \E i \in DOMAIN queue[s] : queue[s][i] = p

\* The semaphore s exists from now on: only its first opener sets its value.
Provide(s, initial) ==
  /\ exists' = exists \union {s}
  /\ value' = IF s \in exists THEN value ELSE [value EXCEPT ![s] = initial]

Open(p, s, initial) ==
  /\ ~Queued(p)
  /\ Provide(s, initial)
  /\ \E h \in Handles :
       /\ handle[h] = NULL
       /\ handle' = [handle EXCEPT ![h] = [owner |-> p, sem |-> s]]
  /\ UNCHANGED queue

\* No handle is left: the call fails, and the semaphore stays.
OpenNoHandle(p, s, initial) ==
  /\ ~Queued(p)
  /\ \A h \in Handles : handle[h] # NULL
  /\ Provide(s, initial)
  /\ UNCHANGED <<queue, handle>>

\* The semaphore goes with its last handle, whatever its value.
Close(h) ==
  /\ handle[h] # NULL
  /\ ~Queued(handle[h].owner)
  /\ handle' = [handle EXCEPT ![h] = NULL]
  /\ LET s == handle[h].sem
         last == \A g \in Handles \ {h} : handle[g] # NULL => handle[g].sem # s
     IN  /\ exists' = IF last THEN exists \ {s} ELSE exists
         /\ value' = IF last THEN [value EXCEPT ![s] = 0] ELSE value
  /\ UNCHANGED queue

\* Take a unit, or wait for one behind those who came before.
Wait(h) ==
  /\ handle[h] # NULL
  /\ ~Queued(handle[h].owner)
  /\ LET s == handle[h].sem
     IN  \/ /\ value[s] > 0
            /\ value' = [value EXCEPT ![s] = @ - 1]
            /\ UNCHANGED queue
         \/ /\ value[s] = 0
            /\ queue' = [queue EXCEPT ![s] = Append(@, handle[h].owner)]
            /\ UNCHANGED value
  /\ UNCHANGED <<exists, handle>>

\* Give the unit to the process that waits longest, or keep it for later.
Post(h) ==
  /\ handle[h] # NULL
  /\ ~Queued(handle[h].owner)
  /\ LET s == handle[h].sem
     IN  \/ /\ queue[s] # <<>>
            /\ queue' = [queue EXCEPT ![s] = Tail(@)]
            /\ UNCHANGED value
         \/ /\ queue[s] = <<>>
            /\ value' = [value EXCEPT ![s] = @ + 1]
            /\ UNCHANGED queue
  /\ UNCHANGED <<exists, handle>>

Next ==
  \/ \E p \in Procs, s \in SemIds, c \in InitCounts :
       Open(p, s, c) \/ OpenNoHandle(p, s, c)
  \/ \E h \in Handles : Close(h) \/ Wait(h) \/ Post(h)

Spec == Init /\ [][Next]_absVars

=============================================================================
