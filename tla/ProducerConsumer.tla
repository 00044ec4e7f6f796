-------------------------- MODULE ProducerConsumer --------------------------
(***************************************************************************)
(* The children of the test program: writers and readers of one circular   *)
(* buffer, over the semaphores that SemaphoreSpec promises. A child with   *)
(* an even pid writes, one with an odd pid reads.                          *)
(*                                                                         *)
(* The shared variables of the program are plain C variables, and a child  *)
(* may be interrupted between any two statements: the access to the buffer *)
(* and the move of the index are steps of their own.                       *)
(*                                                                         *)
(* The children have all opened their semaphores at the start. Left out:   *)
(* the resources, which they open and do not use, and the sleep inside the *)
(* critical section, which SemaphoreSpec does not see.                     *)
(***************************************************************************)
EXTENDS SemaphoreSpec

CONSTANTS
  BUFFER_LENGTH,  \* the cells of the buffer
  ITERATION       \* how often each child writes or reads

EMPTY == 1
FULL  == 2
READ  == 3
WRITE == 4

\* There are finitely many control blocks, and no handle is the null pointer.
ASSUME ProducerConsumerAssumption ==
  /\ Procs \subseteq Nat
  /\ IsFiniteSet(Procs)
  /\ NULL \notin Handle
  /\ SemIds = {EMPTY, FULL, READ, WRITE}
  /\ Handles = Procs \X SemIds
  /\ BUFFER_LENGTH \in Nat \ {0}
  /\ ITERATION \in Nat \ {0}

VARIABLES
  buffer,       \* the cells, 0 before they are written
  write_index,
  read_index,
  var,          \* the next value to write
  pc,           \* what each child does next
  i,            \* its iteration
  taken         \* every value that was read, in the order of the reads

sharedVars == <<buffer, write_index, read_index, var, taken>>
pcVars == <<absVars, sharedVars, pc, i>>

Writes(p) == p % 2 = 0

\* The semaphore of the units a child takes, the one of those it gives, and the
\* one that guards its index.
Takes(p)  == IF Writes(p) THEN FULL ELSE EMPTY
Gives(p)  == IF Writes(p) THEN EMPTY ELSE FULL
Guards(p) == IF Writes(p) THEN WRITE ELSE READ

InitialCount_OneMore(s) ==  \* a bug: one unit more than there are cells
  CASE s = EMPTY -> 0 [] s = FULL -> BUFFER_LENGTH + 1 [] OTHER -> 1
InitialCount_Pair(s) ==  \* a bug: the index of the writers is not guarded
  CASE s = EMPTY -> 0 [] s = FULL -> BUFFER_LENGTH [] s = READ -> 1 [] s = WRITE -> 2
InitialCount(s) ==
  CASE s = EMPTY -> 0 [] s = FULL -> BUFFER_LENGTH [] OTHER -> 1

ClientInit ==
  /\ exists = SemIds
  /\ value = [s \in SemIds |-> InitialCount(s)]
  /\ queue = [s \in SemIds |-> <<>>]
  /\ handle = [h \in Handles |-> [owner |-> h[1], sem |-> h[2]]]
  /\ buffer = [c \in 0..(BUFFER_LENGTH - 1) |-> 0]
  /\ write_index = 0
  /\ read_index = 0
  /\ var = 1
  /\ pc = [p \in Procs |-> "take"]
  /\ i = [p \in Procs |-> 0]
  /\ taken = <<>>

-----------------------------------------------------------------------------
(***************************************************************************)
(* childFunction.                                                          *)
(***************************************************************************)

\* The child p is not blocked and goes from one point of its program to another.
Goes(p, from, to) ==
  /\ pc[p] = from
  /\ ~Queued(p)
  /\ pc' = [pc EXCEPT ![p] = to]

Take(p) ==
  /\ Goes(p, "take", "guard")
  /\ Wait(<<p, Takes(p)>>)
  /\ UNCHANGED <<sharedVars, i>>

Guard(p) ==
  /\ Goes(p, "guard", "access")
  /\ Wait(<<p, Guards(p)>>)
  /\ UNCHANGED <<sharedVars, i>>

Access(p) ==
  /\ Goes(p, "access", "advance")
  /\ \/ /\ Writes(p)
        /\ buffer' = [buffer EXCEPT ![write_index] = var]
        /\ UNCHANGED taken
     \/ /\ ~Writes(p)
        /\ taken' = Append(taken, buffer[read_index])
        /\ UNCHANGED buffer
  /\ UNCHANGED <<absVars, write_index, read_index, var, i>>

Advance(p) ==
  /\ Goes(p, "advance", "release")
  /\ \/ /\ Writes(p)
        /\ write_index' = (write_index + 1) % BUFFER_LENGTH
        /\ var' = var + 1
        /\ UNCHANGED read_index
     \/ /\ ~Writes(p)
        /\ read_index' = (read_index + 1) % BUFFER_LENGTH
        /\ UNCHANGED <<write_index, var>>
  /\ UNCHANGED <<absVars, buffer, taken, i>>

Release_Not(p) ==  \* a bug: the guard is not posted
  /\ Goes(p, "release", "give")
  /\ UNCHANGED <<absVars, sharedVars, i>>
Release(p) ==
  /\ Goes(p, "release", "give")
  /\ Post(<<p, Guards(p)>>)
  /\ UNCHANGED <<sharedVars, i>>

Give_Guard(p) ==  \* a bug: posts the guard once more, and not the unit
  /\ Goes(p, "give", IF i[p] + 1 < ITERATION THEN "take" ELSE "close")
  /\ Post(<<p, Guards(p)>>)
  /\ i' = [i EXCEPT ![p] = @ + 1]
  /\ UNCHANGED sharedVars
Give(p) ==
  /\ Goes(p, "give", IF i[p] + 1 < ITERATION THEN "take" ELSE "close")
  /\ Post(<<p, Gives(p)>>)
  /\ i' = [i EXCEPT ![p] = @ + 1]
  /\ UNCHANGED sharedVars

\* The handles are closed one by one, in the order of the numbers.
CloseNext(p) ==
  \E s \in SemIds :
    /\ handle[<<p, s>>] # NULL
    /\ \A t \in SemIds : t < s => handle[<<p, t>>] = NULL
    /\ Goes(p, "close", IF s = WRITE THEN "exit" ELSE "close")
    /\ Close(<<p, s>>)
    /\ UNCHANGED <<sharedVars, i>>

childFunction(p) ==
  \/ Take(p)
  \/ Guard(p)
  \/ Access(p)
  \/ Advance(p)
  \/ Release(p)
  \/ Give(p)
  \/ CloseNext(p)

ClientNext == \E p \in Procs : childFunction(p)

\* A child that is not blocked gets the cpu again and goes on: ReadyRuns and
\* SleeperRuns of Scheduler, WaiterServed of Semaphores.
ClientFairness == \A p \in Procs : WF_pcVars(childFunction(p))

ClientSpec == ClientInit /\ [][ClientNext]_pcVars /\ ClientFairness

-----------------------------------------------------------------------------
(***************************************************************************)
(* Properties.                                                             *)
(***************************************************************************)

\* Whoever is between its wait and its post on the guard is alone there.
Inside(p) == pc[p] \in {"access", "advance", "release"} /\ ~Queued(p)
MutualExclusion ==
  \A p, q \in Procs : Inside(p) /\ Inside(q) /\ p # q => Writes(p) # Writes(q)

\* The readers get the values 1, 2, 3, ... that the writers write, each one
\* once and in order: no cell is overwritten before it is read, or read before
\* it is written, although a writer and a reader use the buffer at one time.
InOrder == \A k \in DOMAIN taken : taken[k] = k

\* A cell is free, or filled, or in the hands of one child. A child that stands
\* in the queue for a unit holds none.
Holders ==
  {p \in Procs : /\ pc[p] \in {"guard", "access", "advance", "release", "give"}
                 /\ \A k \in DOMAIN queue[Takes(p)] : queue[Takes(p)][k] # p}
UnitsConserved ==
  {EMPTY, FULL} \subseteq exists =>
    value[EMPTY] + value[FULL] + Cardinality(Holders) = BUFFER_LENGTH

\* With as many writers as readers every child ends, and the semaphores are gone.
AllFinish == <>[](exists = {} /\ \A p \in Procs : pc[p] = "exit")

=============================================================================
