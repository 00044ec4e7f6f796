---------------------------- MODULE QueueLemmas ----------------------------
(***************************************************************************)
(* What the calls do to the semaphores, their queues and the descriptors,  *)
(* whoever schedules the processes: both the fixed processes of Semaphores *)
(* and those of Kernel, which come and go, rest on these lemmas.           *)
(***************************************************************************)
EXTENDS Semaphores, ListLemmas

\* The types of the variables of the semaphores.
SemTypes ==
  /\ semaphores \subseteq SemIds
  /\ count \in [SemIds -> Int]
  /\ descriptors \in [SemIds -> SUBSET Descs]
  /\ waiting_descriptors \in [SemIds -> Seq(Descs)]
  /\ sem_descriptors \in [Procs -> Seq(Descs)]
  /\ last_sem_fd \in [Procs -> Int]
  /\ descriptor \in [Descs -> SemDescriptor \union {NULL}]

\* The part of the invariants that knows nothing of the scheduler. A call keeps
\* it when its caller is in no queue.
QueueInv ==
  /\ SemTypes
  /\ DescriptorsConsistent
  /\ WaitersWithinCount
  /\ QueuedOnce

\* The queue of a semaphore, by the processes of its descriptors.
Pcbs(desc, q) == [i \in DOMAIN q |-> desc[q[i]].pcb]

-----------------------------------------------------------------------------
(***************************************************************************)
(* The queue of a semaphore.                                               *)
(***************************************************************************)

\* The process of a descriptor that is in use.
LEMMA DescriptorInUse ==
  ASSUME NEW desc \in [Descs -> SemDescriptor \union {NULL}],
         NEW d \in Descs, desc[d] # NULL
  PROVE  /\ desc[d] \in SemDescriptor
         /\ desc[d].pcb \in Procs
         /\ desc[d].fd \in Int
         /\ desc[d].sem \in SemIds
  BY DEF SemDescriptor

\* As many processes wait as descriptors, each one at the place of its own.
LEMMA PcbsType ==
  ASSUME NEW desc \in [Descs -> SemDescriptor \union {NULL}],
         NEW q \in Seq(Descs),
         \A e \in Range(q) : desc[e] # NULL
  PROVE  /\ Pcbs(desc, q) \in Seq(Procs)
         /\ Len(Pcbs(desc, q)) = Len(q)
         /\ \A i \in 1..Len(q) : Pcbs(desc, q)[i] = desc[q[i]].pcb
         /\ Pcbs(desc, q) = <<>> <=> q = <<>>
<1>1. Len(q) \in Nat /\ DOMAIN q = 1..Len(q) /\ \A i \in 1..Len(q) : q[i] \in Descs
  BY LenProperties, ElementOfSeq
<1>2. \A i \in 1..Len(q) : desc[q[i]] # NULL
  BY <1>1, RangeOf
<1>3. \A i \in 1..Len(q) : desc[q[i]].pcb \in Procs
  BY <1>1, <1>2, DescriptorInUse
<1>4. Pcbs(desc, q) \in [1..Len(q) -> Procs]
  BY <1>1, <1>3 DEF Pcbs
<1>5. Pcbs(desc, q) \in Seq(Procs)
  BY <1>1, <1>4, SeqDef
<1>6. Len(Pcbs(desc, q)) = Len(q)
  BY <1>1, <1>4, <1>5, LenProperties
<1>7. \A i \in 1..Len(q) : Pcbs(desc, q)[i] = desc[q[i]].pcb
  BY <1>1 DEF Pcbs
<1>8. Pcbs(desc, q) = <<>> <=> q = <<>>
  BY <1>5, <1>6, EmptySeq
<1> QED BY <1>5, <1>6, <1>7, <1>8

\* A queue stays what it is when no descriptor in it changes.
LEMMA PcbsSame ==
  ASSUME NEW desc, NEW new, NEW q \in Seq(Descs), \A e \in Range(q) : new[e] = desc[e]
  PROVE  Pcbs(new, q) = Pcbs(desc, q)
<1>1. \A i \in DOMAIN q : q[i] \in Range(q)
  BY DEF Range
<1> QED BY <1>1 DEF Pcbs

\* JoinQueue: the process of the new descriptor is the last one.
LEMMA PcbsJoin ==
  ASSUME NEW desc \in [Descs -> SemDescriptor \union {NULL}],
         NEW q \in Seq(Descs), NEW d \in Descs, desc[d] # NULL,
         \A e \in Range(q) : desc[e] # NULL
  PROVE  Pcbs(desc, Append(q, d)) = Append(Pcbs(desc, q), desc[d].pcb)
<1> DEFINE r == Append(q, d)
           w == Append(Pcbs(desc, q), desc[d].pcb)
<1>1. /\ Len(q) \in Nat
      /\ r \in Seq(Descs)
      /\ Len(r) = Len(q) + 1
      /\ \A i \in 1..Len(q) : r[i] = q[i]
      /\ r[Len(q) + 1] = d
      /\ Range(r) = Range(q) \union {d}
  BY AppendProperties, AppendRange, LenProperties
<1>2. desc[d].pcb \in Procs
  BY DescriptorInUse
<1>3. /\ Pcbs(desc, q) \in Seq(Procs)
      /\ Len(Pcbs(desc, q)) = Len(q)
      /\ \A i \in 1..Len(q) : Pcbs(desc, q)[i] = desc[q[i]].pcb
  BY PcbsType
<1>4. /\ w \in Seq(Procs)
      /\ Len(w) = Len(q) + 1
      /\ \A i \in 1..Len(q) : w[i] = desc[q[i]].pcb
      /\ w[Len(q) + 1] = desc[d].pcb
  BY <1>2, <1>3, AppendProperties
<1> HIDE DEF r, w
<1>5. /\ Pcbs(desc, r) \in Seq(Procs)
      /\ Len(Pcbs(desc, r)) = Len(q) + 1
      /\ \A i \in 1..(Len(q) + 1) : Pcbs(desc, r)[i] = desc[r[i]].pcb
  BY <1>1, PcbsType
<1>6. \A i \in 1..(Len(q) + 1) : Pcbs(desc, r)[i] = w[i]
  <2> TAKE i \in 1..(Len(q) + 1)
  <2>1. i \in 1..Len(q) \/ i = Len(q) + 1
    BY <1>1
  <2> QED BY <1>1, <1>4, <1>5, <2>1
<1>7. Pcbs(desc, r) = w
  BY <1>4, <1>5, <1>6, SeqEqual
<1> QED BY <1>7 DEF r, w

\* LeaveQueue: the process of the first descriptor goes.
LEMMA PcbsLeave ==
  ASSUME NEW desc \in [Descs -> SemDescriptor \union {NULL}],
         NEW q \in Seq(Descs), q # <<>>,
         \A e \in Range(q) : desc[e] # NULL
  PROVE  /\ Pcbs(desc, Tail(q)) = Tail(Pcbs(desc, q))
         /\ Head(Pcbs(desc, q)) = desc[Head(q)].pcb
<1> DEFINE t == Tail(q)
           w == Pcbs(desc, q)
<1>1. /\ Len(q) \in Nat \ {0}
      /\ Head(q) = q[1]
      /\ t \in Seq(Descs)
      /\ Len(t) = Len(q) - 1
      /\ \A i \in 1..Len(t) : t[i] = q[i + 1]
      /\ Range(q) = Range(t) \union {Head(q)}
  BY HeadTailProperties, TailRange, EmptySeq, LenProperties
<1>2. /\ w \in Seq(Procs)
      /\ Len(w) = Len(q)
      /\ \A i \in 1..Len(q) : w[i] = desc[q[i]].pcb
      /\ w # <<>>
  BY PcbsType
<1> HIDE DEF t, w
<1>3. /\ Pcbs(desc, t) \in Seq(Procs)
      /\ Len(Pcbs(desc, t)) = Len(t)
      /\ \A i \in 1..Len(t) : Pcbs(desc, t)[i] = desc[t[i]].pcb
  BY <1>1, PcbsType
<1>4. /\ Head(w) = w[1]
      /\ Tail(w) \in Seq(Procs)
      /\ Len(Tail(w)) = Len(q) - 1
      /\ \A i \in 1..Len(t) : Tail(w)[i] = w[i + 1]
  BY <1>1, <1>2, HeadTailProperties
<1>5. \A i \in 1..Len(t) : i + 1 \in 1..Len(q) /\ Pcbs(desc, t)[i] = Tail(w)[i]
  BY <1>1, <1>2, <1>3, <1>4
<1>6. Pcbs(desc, t) = Tail(w)
  <2> DEFINE u == Pcbs(desc, t)
             v == Tail(w)
  <2>1. /\ u \in Seq(Procs) /\ v \in Seq(Procs)
        /\ Len(u) = Len(v)
        /\ \A i \in 1..Len(u) : u[i] = v[i]
    BY <1>1, <1>3, <1>4, <1>5
  <2> HIDE DEF u, v
  <2>2. u = v
    BY <2>1, SeqEqual
  <2> QED BY <2>2 DEF u, v
<1>7. Head(w) = desc[Head(q)].pcb
  BY <1>1, <1>2, <1>4
<1> QED BY <1>6, <1>7 DEF t, w

\* The queue of a semaphore is one of processes, all of them blocked.
LEMMA QueueOf ==
  ASSUME SemTypes, DescriptorsConsistent, NEW s \in SemIds
  PROVE  /\ WaiterOf(s) = Pcbs(descriptor, waiting_descriptors[s])
         /\ waiting_descriptors[s] \in Seq(Descs)
         /\ \A e \in Range(waiting_descriptors[s]) :
              e \in Descs /\ descriptor[e] # NULL /\ descriptor[e].sem = s
         /\ WaiterOf(s) \in Seq(Procs)
         /\ Len(WaiterOf(s)) = Len(waiting_descriptors[s])
         /\ WaiterOf(s) = <<>> <=> waiting_descriptors[s] = <<>>
         /\ Range(WaiterOf(s)) \subseteq SemWaiters
         /\ \A e \in Range(waiting_descriptors[s]) : descriptor[e].pcb \in Range(WaiterOf(s))
<1>1. WaiterOf(s) = Pcbs(descriptor, waiting_descriptors[s])
  BY DEF WaiterOf, Pcbs
<1>2. waiting_descriptors[s] \in Seq(Descs)
  BY DEF SemTypes
<1>3. \A e \in Range(waiting_descriptors[s]) :
        e \in Descs /\ descriptor[e] # NULL /\ descriptor[e].sem = s
  BY DEF DescriptorsConsistent, OpenOn
<1>4. descriptor \in [Descs -> SemDescriptor \union {NULL}]
  BY DEF SemTypes
<1>5. /\ WaiterOf(s) \in Seq(Procs)
      /\ Len(WaiterOf(s)) = Len(waiting_descriptors[s])
      /\ WaiterOf(s) = <<>> <=> waiting_descriptors[s] = <<>>
      /\ \A i \in 1..Len(waiting_descriptors[s]) :
           WaiterOf(s)[i] = descriptor[waiting_descriptors[s][i]].pcb
  BY <1>1, <1>2, <1>3, <1>4, PcbsType
<1>6. Range(WaiterOf(s)) \subseteq SemWaiters
  BY DEF SemWaiters
<1>7. ASSUME NEW e \in Range(waiting_descriptors[s])
      PROVE  descriptor[e].pcb \in Range(WaiterOf(s))
  <2>1. PICK i \in 1..Len(waiting_descriptors[s]) : waiting_descriptors[s][i] = e
    BY <1>2, RangeOf
  <2>2. WaiterOf(s)[i] = descriptor[e].pcb /\ i \in 1..Len(WaiterOf(s))
    BY <1>5, <2>1
  <2> QED BY <1>5, <2>2, RangeOf
<1> QED BY <1>1, <1>2, <1>3, <1>5, <1>6, <1>7

-----------------------------------------------------------------------------
(***************************************************************************)
(* The calls, one after the other. FdsCounted is kept as well where it     *)
(* holds: a PCB that is used again starts with a wrong count.              *)
(***************************************************************************)

\* d is a descriptor of the running process p: it is open on the semaphore s of
\* the list, among its active descriptors and in no other list of a semaphore.
Caller(p, d, s) ==
  /\ p \in Procs /\ d \in Descs /\ s \in SemIds
  /\ running = p
  /\ descriptor[d] # NULL
  /\ descriptor[d].pcb = p
  /\ descriptor[d].sem = s
  /\ s \in semaphores
  /\ d \in descriptors[s]
  /\ \A t \in SemIds : d \notin Range(waiting_descriptors[t])
  /\ \A t \in SemIds \ {s} : d \notin descriptors[t]

\* What byFd finds for the running process is such a descriptor.
LEMMA CallerIs ==
  ASSUME QueueInv, NEW p \in Procs, running = p, p \notin SemWaiters,
         NEW i \in DOMAIN sem_descriptors[p]
  PROVE  \E d \in Descs, s \in SemIds :
           /\ d = sem_descriptors[p][i]
           /\ i \in 1..Len(sem_descriptors[p])
           /\ Caller(p, d, s)
<1> DEFINE d == sem_descriptors[p][i]
<1>1. /\ sem_descriptors[p] \in Seq(Descs)
      /\ i \in 1..Len(sem_descriptors[p])
      /\ descriptor \in [Descs -> SemDescriptor \union {NULL}]
  BY LenProperties DEF QueueInv, SemTypes
<1>2. d \in Range(sem_descriptors[p])
  BY <1>1, RangeOf
<1>3. d \in Descs /\ descriptor[d] # NULL /\ descriptor[d].pcb = p
  BY <1>2 DEF QueueInv, DescriptorsConsistent
<1> HIDE DEF d
<1>4. PICK s \in SemIds : descriptor[d].sem = s
  BY <1>1, <1>3, DescriptorInUse
<1>5. \A t \in SemIds : d \notin Range(waiting_descriptors[t])
  <2> SUFFICES ASSUME NEW t \in SemIds, d \in Range(waiting_descriptors[t]) PROVE FALSE
    OBVIOUS
  <2>1. p \in SemWaiters
    BY <1>3, QueueOf DEF QueueInv
  <2> QED BY <2>1
<1>6. \A t \in SemIds : d \in OpenOn(t) <=> t = s
  BY <1>3, <1>4 DEF OpenOn
<1>7. s \in semaphores /\ d \in descriptors[s] /\ \A t \in SemIds \ {s} : d \notin descriptors[t]
  BY <1>4, <1>5, <1>6 DEF QueueInv, DescriptorsConsistent
<1> QED BY <1>1, <1>3, <1>4, <1>5, <1>7 DEF Caller, d

\* No queue changes.
QueuesStay == \A s \in SemIds : WaiterOf(s)' = WaiterOf(s)

\* The queues stay as they are, whatever descriptor that is in no queue changes.
LEMMA QueuesSame ==
  ASSUME QueueInv, UNCHANGED waiting_descriptors,
         \A s \in SemIds : \A e \in Range(waiting_descriptors[s]) :
           descriptor'[e] = descriptor[e]
  PROVE  QueuedOnce' /\ QueuesStay /\ SemWaiters' = SemWaiters
<1>1. ASSUME NEW s \in SemIds PROVE WaiterOf(s)' = WaiterOf(s)
  <2>1. waiting_descriptors[s] \in Seq(Descs)
    BY DEF QueueInv, SemTypes
  <2>2. Pcbs(descriptor', waiting_descriptors[s]) = Pcbs(descriptor, waiting_descriptors[s])
    BY <2>1, PcbsSame
  <2> QED BY <2>2 DEF WaiterOf, Pcbs
<1>2. SemWaiters' = SemWaiters
  BY <1>1 DEF SemWaiters
<1>3. QueuedOnce'
  BY <1>1 DEF QueueInv, QueuedOnce
<1> QED BY <1>1, <1>2, <1>3 DEF QueuesStay

\* A call that fails, or that follows a null pointer, changes no semaphore.
LEMMA FailedKeepsQueues ==
  ASSUME QueueInv, UNCHANGED semVars
  PROVE  /\ QueueInv' /\ QueuesStay /\ SemWaiters' = SemWaiters
         /\ FdsCounted => FdsCounted'
<1>1. /\ UNCHANGED <<semaphores, count, descriptors, waiting_descriptors>>
      /\ UNCHANGED <<sem_descriptors, last_sem_fd, descriptor>>
  BY DEF semVars
<1>2. QueuedOnce' /\ QueuesStay /\ SemWaiters' = SemWaiters
  BY <1>1, QueuesSame
<1>3. /\ SemTypes' /\ DescriptorsConsistent' /\ WaitersWithinCount'
      /\ FdsCounted => FdsCounted'
  BY <1>1 DEF QueueInv, SemTypes, DescriptorsConsistent, OpenOn, FdsCounted, WaitersWithinCount
<1> QED BY <1>2, <1>3 DEF QueueInv

\* A call that changes a counter only: no unit is taken that is not there, and
\* none is kept while somebody waits.
LEMMA CountKeepsQueues ==
  ASSUME QueueInv, NEW s \in SemIds, count[s] >= 0, NEW n \in Int,
         count' = [count EXCEPT ![s] = n],
         UNCHANGED <<semaphores, descriptors, waiting_descriptors,
                     sem_descriptors, last_sem_fd, descriptor>>
  PROVE  /\ QueueInv' /\ QueuesStay /\ SemWaiters' = SemWaiters
         /\ FdsCounted => FdsCounted'
         /\ waiting_descriptors[s] = <<>>
<1>1. QueuedOnce' /\ QueuesStay /\ SemWaiters' = SemWaiters
  BY QueuesSame
<1>2. /\ SemTypes' /\ DescriptorsConsistent'
      /\ FdsCounted => FdsCounted'
  BY DEF QueueInv, SemTypes, DescriptorsConsistent, OpenOn, FdsCounted
<1>3. waiting_descriptors[s] = <<>>
  <2> SUFFICES ASSUME waiting_descriptors[s] # <<>> PROVE FALSE
    OBVIOUS
  <2>1. /\ waiting_descriptors[s] \in Seq(Descs)
        /\ count[s] \in Int
        /\ Len(waiting_descriptors[s]) <= -count[s]
    BY DEF QueueInv, SemTypes, WaitersWithinCount
  <2>2. Len(waiting_descriptors[s]) \in Nat /\ Len(waiting_descriptors[s]) # 0
    BY <2>1, EmptySeq, LenProperties
  <2> QED BY <2>1, <2>2
<1>4. WaitersWithinCount'
  BY <1>3 DEF QueueInv, SemTypes, WaitersWithinCount
<1> QED BY <1>1, <1>2, <1>3, <1>4 DEF QueueInv

\* The first part of semOpen: only a semaphore without descriptors gets a counter.
LEMMA SemaphoreReadyStep ==
  ASSUME QueueInv, NEW id \in OpenIds, NEW c \in InitCounts, SemaphoreReady(id, c)
  PROVE  /\ id \in SemIds /\ c \in Int
         /\ semaphores' = semaphores \union {id}
         /\ count' \in [SemIds -> Int]
         /\ \A s \in SemIds :
              count'[s] = IF s = id /\ id \notin semaphores THEN c ELSE count[s]
         /\ id \notin semaphores => waiting_descriptors[id] = <<>>
         /\ \A s \in SemIds :
              waiting_descriptors[s] # <<>> => Len(waiting_descriptors[s]) <= -count'[s]
<1>1. id \in SemIds /\ c \in Int
  BY SemaphoresAssumption DEF SemaphoreReady
<1>2. /\ semaphores' = semaphores \union {id}
      /\ count' \in [SemIds -> Int]
      /\ \A s \in SemIds :
           count'[s] = IF s = id /\ id \notin semaphores THEN c ELSE count[s]
  BY <1>1 DEF SemaphoreReady, QueueInv, SemTypes
<1>3. ASSUME id \notin semaphores PROVE waiting_descriptors[id] = <<>>
  <2>1. Range(waiting_descriptors[id]) = {} /\ waiting_descriptors[id] \in Seq(Descs)
    BY <1>1, <1>3 DEF QueueInv, SemTypes, DescriptorsConsistent
  <2> QED BY <2>1, RangeEmpty
<1>4. ASSUME NEW s \in SemIds, waiting_descriptors[s] # <<>>
      PROVE  Len(waiting_descriptors[s]) <= -count'[s]
  BY <1>2, <1>3, <1>4 DEF QueueInv, WaitersWithinCount
<1> QED BY <1>1, <1>2, <1>3, <1>4

\* semOpen with no descriptor left.
LEMMA NoDescriptorKeepsQueues ==
  ASSUME QueueInv, NEW p \in Procs, NEW id \in OpenIds, NEW c \in InitCounts,
         SemOpenNoDescriptor(p, id, c)
  PROVE  /\ QueueInv' /\ QueuesStay /\ SemWaiters' = SemWaiters
         /\ FdsCounted => FdsCounted'
         /\ Answer(p, DSOS_ESEM_DES_ALLOC)
<1>1. SemaphoreReady(id, c) /\ Answer(p, DSOS_ESEM_DES_ALLOC)
  BY DEF SemOpenNoDescriptor
<1>2. UNCHANGED <<descriptors, waiting_descriptors, sem_descriptors, last_sem_fd, descriptor>>
  BY DEF SemOpenNoDescriptor
<1>3. /\ id \in SemIds
      /\ semaphores' = semaphores \union {id}
      /\ count' \in [SemIds -> Int]
      /\ \A s \in SemIds :
           waiting_descriptors[s] # <<>> => Len(waiting_descriptors[s]) <= -count'[s]
  BY <1>1, SemaphoreReadyStep
<1>4. QueuedOnce' /\ QueuesStay /\ SemWaiters' = SemWaiters
  BY <1>2, QueuesSame
<1>5. SemTypes' /\ WaitersWithinCount' /\ (FdsCounted => FdsCounted')
  BY <1>2, <1>3 DEF QueueInv, SemTypes, FdsCounted, WaitersWithinCount
<1>6. DescriptorsConsistent'
  BY <1>2, <1>3 DEF QueueInv, DescriptorsConsistent, OpenOn
<1> QED BY <1>1, <1>4, <1>5, <1>6 DEF QueueInv

\* semOpen: the new descriptor goes into the list of its process and among the
\* active ones of its semaphore, and was in no list before.
LEMMA OpenKeepsQueues ==
  ASSUME QueueInv, NEW p \in Procs, NEW id \in OpenIds, NEW c \in InitCounts,
         SemOpenDescriptor(p, id, c)
  PROVE  /\ QueueInv' /\ QueuesStay /\ SemWaiters' = SemWaiters
         /\ FdsCounted => FdsCounted'
         /\ \E v \in Int : Answer(p, v)
<1>1. SemaphoreReady(id, c) /\ UNCHANGED waiting_descriptors
  BY DEF SemOpenDescriptor
<1>2. PICK d \in FreeDescs :
        /\ descriptor' = [descriptor EXCEPT ![d] = [pcb |-> p, fd |-> last_sem_fd[p], sem |-> id]]
        /\ sem_descriptors' = [sem_descriptors EXCEPT ![p] = Append(@, d)]
        /\ descriptors' = [descriptors EXCEPT ![id] = @ \union {d}]
        /\ last_sem_fd' = [last_sem_fd EXCEPT ![p] = last_sem_fd[p] + 1]
        /\ Answer(p, last_sem_fd[p])
  BY DEF SemOpenDescriptor
<1>3. /\ id \in SemIds
      /\ semaphores' = semaphores \union {id}
      /\ count' \in [SemIds -> Int]
      /\ \A s \in SemIds :
           waiting_descriptors[s] # <<>> => Len(waiting_descriptors[s]) <= -count'[s]
  BY <1>1, SemaphoreReadyStep
<1> DEFINE r == [pcb |-> p, fd |-> last_sem_fd[p], sem |-> id]
<1>4. /\ last_sem_fd[p] \in Int
      /\ r \in SemDescriptor
      /\ r # NULL
      /\ r.pcb = p /\ r.sem = id /\ r.fd = last_sem_fd[p]
  BY <1>3, SemaphoresAssumption DEF QueueInv, SemTypes, SemDescriptor
<1>5. d \in Descs /\ descriptor[d] = NULL
  BY DEF FreeDescs
<1> DEFINE mine == sem_descriptors[p]
<1>8. mine \in Seq(Descs) /\ IsInjective(mine) /\ d \notin Range(mine)
  BY <1>5 DEF QueueInv, SemTypes, DescriptorsConsistent
<1>9. /\ Append(mine, d) \in Seq(Descs)
      /\ Len(Append(mine, d)) = Len(mine) + 1
      /\ Range(Append(mine, d)) = Range(mine) \union {d}
      /\ IsInjective(Append(mine, d))
  <2> HIDE DEF mine
  <2> QED BY <1>5, <1>8, AppendRange
<1>10. /\ descriptor' \in [Descs -> SemDescriptor \union {NULL}]
       /\ \A e \in Descs : descriptor'[e] = IF e = d THEN r ELSE descriptor[e]
  <2>1. descriptor' = [descriptor EXCEPT ![d] = r] /\ descriptor \in [Descs -> SemDescriptor \union {NULL}]
    BY <1>2 DEF QueueInv, SemTypes
  <2> HIDE DEF r
  <2> QED BY <1>4, <1>5, <2>1
<1>11. /\ sem_descriptors' \in [Procs -> Seq(Descs)]
       /\ \A q \in Procs :
            sem_descriptors'[q] = IF q = p THEN Append(mine, d) ELSE sem_descriptors[q]
  <2>1. sem_descriptors \in [Procs -> Seq(Descs)]
    BY DEF QueueInv, SemTypes
  <2> QED BY <1>2, <1>9, <2>1
<1>12. /\ descriptors' \in [SemIds -> SUBSET Descs]
       /\ \A s \in SemIds :
            descriptors'[s] = IF s = id THEN descriptors[s] \union {d} ELSE descriptors[s]
  <2>1. descriptors \in [SemIds -> SUBSET Descs]
    BY DEF QueueInv, SemTypes
  <2> QED BY <1>2, <1>3, <1>5, <2>1
<1> HIDE DEF r, mine
<1>13. SemTypes'
  <2>1. last_sem_fd' \in [Procs -> Int] /\ waiting_descriptors' \in [SemIds -> Seq(Descs)]
    BY <1>1, <1>2, <1>4 DEF QueueInv, SemTypes
  <2> QED BY <1>3, <1>10, <1>11, <1>12, <2>1 DEF QueueInv, SemTypes
<1>14. \A s \in SemIds : d \notin Range(waiting_descriptors[s])
  BY <1>5, QueueOf DEF QueueInv
<1>15. QueuedOnce' /\ QueuesStay /\ SemWaiters' = SemWaiters
  <2>1. \A s \in SemIds : \A e \in Range(waiting_descriptors[s]) : descriptor'[e] = descriptor[e]
    BY <1>10, <1>14, QueueOf DEF QueueInv
  <2> QED BY <1>1, <2>1, QueuesSame
<1>16. DescriptorsConsistent'
  <2>1. ASSUME NEW q \in Procs
        PROVE  /\ IsInjective(sem_descriptors'[q])
               /\ Range(sem_descriptors'[q]) =
                    {e \in Descs : descriptor'[e] # NULL /\ descriptor'[e].pcb = q}
    <3>1. /\ IsInjective(sem_descriptors[q])
          /\ Range(sem_descriptors[q]) =
               {e \in Descs : descriptor[e] # NULL /\ descriptor[e].pcb = q}
      BY DEF QueueInv, DescriptorsConsistent
    <3>2. CASE q = p
      <4>1. {e \in Descs : descriptor'[e] # NULL /\ descriptor'[e].pcb = p}
              = {e \in Descs : descriptor[e] # NULL /\ descriptor[e].pcb = p} \union {d}
        BY <1>4, <1>5, <1>10
      <4>2. sem_descriptors'[q] = Append(mine, d)
        BY <1>11, <3>2
      <4> QED BY <1>9, <3>1, <3>2, <4>1, <4>2 DEF mine
    <3>3. CASE q # p
      <4>1. {e \in Descs : descriptor'[e] # NULL /\ descriptor'[e].pcb = q}
              = {e \in Descs : descriptor[e] # NULL /\ descriptor[e].pcb = q}
        BY <1>4, <1>5, <1>10, <3>3
      <4>2. sem_descriptors'[q] = sem_descriptors[q]
        BY <1>11, <3>3
      <4> QED BY <3>1, <4>1, <4>2
    <3> QED BY <3>2, <3>3
  <2>2. ASSUME NEW s \in SemIds
        PROVE  /\ IsInjective(waiting_descriptors'[s])
               /\ descriptors'[s] \intersect Range(waiting_descriptors'[s]) = {}
               /\ descriptors'[s] \union Range(waiting_descriptors'[s]) = OpenOn(s)'
               /\ s \notin semaphores' => OpenOn(s)' = {}
    <3>1. OpenOn(s)' = IF s = id THEN OpenOn(s) \union {d} ELSE OpenOn(s)
      BY <1>4, <1>5, <1>10 DEF OpenOn
    <3>2. /\ IsInjective(waiting_descriptors[s])
          /\ descriptors[s] \intersect Range(waiting_descriptors[s]) = {}
          /\ descriptors[s] \union Range(waiting_descriptors[s]) = OpenOn(s)
          /\ s \notin semaphores => OpenOn(s) = {}
      BY DEF QueueInv, DescriptorsConsistent
    <3> QED BY <1>1, <1>3, <1>12, <1>14, <3>1, <3>2
  <2> QED BY <2>1, <2>2 DEF DescriptorsConsistent
<1>17. ASSUME FdsCounted PROVE FdsCounted'
  <2>1. Len(mine) \in Nat /\ last_sem_fd[p] = Len(mine)
    BY <1>8, <1>17, LenProperties DEF FdsCounted, mine
  <2>2. \A q \in Procs : last_sem_fd'[q] = IF q = p THEN Len(mine) + 1 ELSE last_sem_fd[q]
    BY <1>2, <2>1 DEF QueueInv, SemTypes
  <2>3. \A q \in Procs : last_sem_fd'[q] = Len(sem_descriptors'[q])
    BY <1>9, <1>11, <1>17, <2>2 DEF FdsCounted
  <2>4. \A e \in Descs : descriptor'[e] # NULL => descriptor'[e].fd >= 0
    BY <1>4, <1>10, <1>17, <2>1 DEF FdsCounted
  <2> QED BY <2>3, <2>4 DEF FdsCounted
<1>18. WaitersWithinCount'
  BY <1>1, <1>3 DEF WaitersWithinCount
<1>19. \E v \in Int : Answer(p, v)
  BY <1>2, <1>4
<1> QED BY <1>13, <1>15, <1>16, <1>17, <1>18, <1>19 DEF QueueInv

\* semClose: the descriptor leaves both lists, and its semaphore goes with the
\* last one. It is in no queue, since its process runs.
LEMMA CloseKeepsQueues ==
  ASSUME QueueInv, NEW p \in Procs, NEW fd \in Fds, running = p, p \notin SemWaiters,
         SemCloseFound(p, fd)
  PROVE  /\ QueueInv' /\ QueuesStay /\ SemWaiters' = SemWaiters
         /\ FdsCounted => FdsCounted'
         /\ Answer(p, 0)
<1>2. PICK i \in DOMAIN sem_descriptors[p] :
        LET d == sem_descriptors[p][i]
            s == descriptor[d].sem
        IN  /\ sem_descriptors' = [sem_descriptors EXCEPT ![p] = RemoveAt(@, i)]
            /\ descriptors' = [descriptors EXCEPT ![s] = @ \ {d}]
            /\ descriptor' = [descriptor EXCEPT ![d] = NULL]
            /\ ReleaseSemaphore(s)
            /\ last_sem_fd' = [last_sem_fd EXCEPT ![p] = @ - 1]
            /\ Answer(p, 0)
            /\ UNCHANGED waiting_descriptors
  BY DEF SemCloseFound
<1>3. PICK d \in Descs, s \in SemIds :
        /\ d = sem_descriptors[p][i]
        /\ i \in 1..Len(sem_descriptors[p])
        /\ descriptor[d] # NULL
        /\ descriptor[d].pcb = p
        /\ descriptor[d].sem = s
        /\ s \in semaphores
        /\ d \in descriptors[s]
        /\ \A t \in SemIds : d \notin Range(waiting_descriptors[t])
        /\ \A t \in SemIds \ {s} : d \notin descriptors[t]
  BY CallerIs DEF Caller
<1>4. /\ descriptor' = [descriptor EXCEPT ![d] = NULL]
      /\ sem_descriptors' = [sem_descriptors EXCEPT ![p] = RemoveAt(@, i)]
      /\ descriptors' = [descriptors EXCEPT ![s] = @ \ {d}]
      /\ last_sem_fd' = [last_sem_fd EXCEPT ![p] = @ - 1]
      /\ ReleaseSemaphore(s)
      /\ Answer(p, 0)
      /\ UNCHANGED waiting_descriptors
  BY <1>2, <1>3
<1> DEFINE mine == sem_descriptors[p]
<1>7. mine \in Seq(Descs) /\ IsInjective(mine) /\ i \in 1..Len(mine) /\ mine[i] = d
  BY <1>3 DEF QueueInv, SemTypes, DescriptorsConsistent
<1>8. /\ RemoveAt(mine, i) \in Seq(Descs)
      /\ Len(RemoveAt(mine, i)) = Len(mine) - 1
      /\ Range(RemoveAt(mine, i)) = Range(mine) \ {d}
      /\ IsInjective(RemoveAt(mine, i))
  <2> HIDE DEF mine
  <2> QED BY <1>7, RemoveAtRange
<1>9. /\ descriptor' \in [Descs -> SemDescriptor \union {NULL}]
      /\ \A e \in Descs : descriptor'[e] = IF e = d THEN NULL ELSE descriptor[e]
  BY <1>4 DEF QueueInv, SemTypes
<1>10. /\ sem_descriptors' \in [Procs -> Seq(Descs)]
       /\ \A q \in Procs :
            sem_descriptors'[q] = IF q = p THEN RemoveAt(mine, i) ELSE sem_descriptors[q]
  <2>1. sem_descriptors \in [Procs -> Seq(Descs)]
    BY DEF QueueInv, SemTypes
  <2> QED BY <1>4, <1>8, <2>1
<1>11. /\ descriptors' \in [SemIds -> SUBSET Descs]
       /\ \A t \in SemIds :
            descriptors'[t] = IF t = s THEN descriptors[t] \ {d} ELSE descriptors[t]
  BY <1>4 DEF QueueInv, SemTypes
<1>12. /\ semaphores' \subseteq SemIds
       /\ count' \in [SemIds -> Int]
       /\ \A t \in SemIds :
            /\ t \in semaphores /\ t \notin semaphores' =>
                 t = s /\ descriptors'[s] = {} /\ waiting_descriptors[s] = <<>>
            /\ t \in semaphores' => t \in semaphores
            /\ waiting_descriptors[t] # <<>> => count'[t] = count[t]
  BY <1>4 DEF ReleaseSemaphore, QueueInv, SemTypes
<1> HIDE DEF mine
<1>13. SemTypes'
  <2>1. last_sem_fd' \in [Procs -> Int] /\ waiting_descriptors' \in [SemIds -> Seq(Descs)]
    BY <1>4 DEF QueueInv, SemTypes
  <2> QED BY <1>9, <1>10, <1>11, <1>12, <2>1 DEF SemTypes
<1>14. QueuedOnce' /\ QueuesStay /\ SemWaiters' = SemWaiters
  <2>1. \A t \in SemIds : \A e \in Range(waiting_descriptors[t]) : descriptor'[e] = descriptor[e]
    BY <1>3, <1>9, QueueOf DEF QueueInv
  <2> QED BY <1>4, <2>1, QueuesSame
<1>15. DescriptorsConsistent'
  <2>1. ASSUME NEW q \in Procs
        PROVE  /\ IsInjective(sem_descriptors'[q])
               /\ Range(sem_descriptors'[q]) =
                    {e \in Descs : descriptor'[e] # NULL /\ descriptor'[e].pcb = q}
    <3>1. /\ IsInjective(sem_descriptors[q])
          /\ Range(sem_descriptors[q]) =
               {e \in Descs : descriptor[e] # NULL /\ descriptor[e].pcb = q}
      BY DEF QueueInv, DescriptorsConsistent
    <3>2. CASE q = p
      <4>1. {e \in Descs : descriptor'[e] # NULL /\ descriptor'[e].pcb = p}
              = {e \in Descs : descriptor[e] # NULL /\ descriptor[e].pcb = p} \ {d}
        BY <1>9
      <4>2. sem_descriptors'[q] = RemoveAt(mine, i)
        BY <1>10, <3>2
      <4> QED BY <1>8, <3>1, <3>2, <4>1, <4>2 DEF mine
    <3>3. CASE q # p
      <4>1. {e \in Descs : descriptor'[e] # NULL /\ descriptor'[e].pcb = q}
              = {e \in Descs : descriptor[e] # NULL /\ descriptor[e].pcb = q}
        BY <1>3, <1>9, <3>3
      <4>2. sem_descriptors'[q] = sem_descriptors[q]
        BY <1>10, <3>3
      <4> QED BY <3>1, <4>1, <4>2
    <3> QED BY <3>2, <3>3
  <2>2. ASSUME NEW t \in SemIds
        PROVE  /\ IsInjective(waiting_descriptors'[t])
               /\ descriptors'[t] \intersect Range(waiting_descriptors'[t]) = {}
               /\ descriptors'[t] \union Range(waiting_descriptors'[t]) = OpenOn(t)'
               /\ t \notin semaphores' => OpenOn(t)' = {}
    <3>1. OpenOn(t)' = IF t = s THEN OpenOn(t) \ {d} ELSE OpenOn(t)
      BY <1>3, <1>9 DEF OpenOn
    <3>2. /\ IsInjective(waiting_descriptors[t])
          /\ descriptors[t] \intersect Range(waiting_descriptors[t]) = {}
          /\ descriptors[t] \union Range(waiting_descriptors[t]) = OpenOn(t)
          /\ t \notin semaphores => OpenOn(t) = {}
      BY DEF QueueInv, DescriptorsConsistent
    <3>3. descriptors'[t] \union Range(waiting_descriptors[t]) = OpenOn(t)'
      BY <1>3, <1>11, <3>1, <3>2
    <3>4. t \notin semaphores' => OpenOn(t)' = {}
      BY <1>3, <1>12, <3>1, <3>2, <3>3, EmptyRange
    <3> QED BY <1>4, <1>11, <3>2, <3>3, <3>4
  <2> QED BY <2>1, <2>2 DEF DescriptorsConsistent
<1>16. ASSUME FdsCounted PROVE FdsCounted'
  <2>1. Len(mine) \in Nat /\ last_sem_fd[p] = Len(mine)
    BY <1>7, <1>16, LenProperties DEF FdsCounted, mine
  <2>2. \A q \in Procs : last_sem_fd'[q] = IF q = p THEN Len(mine) - 1 ELSE last_sem_fd[q]
    BY <1>4, <2>1 DEF QueueInv, SemTypes
  <2>3. \A q \in Procs : last_sem_fd'[q] = Len(sem_descriptors'[q])
    BY <1>8, <1>10, <1>16, <2>2 DEF FdsCounted
  <2>4. \A e \in Descs : descriptor'[e] # NULL => descriptor'[e].fd >= 0
    BY <1>9, <1>16 DEF FdsCounted
  <2> QED BY <2>3, <2>4 DEF FdsCounted
<1>17. WaitersWithinCount'
  BY <1>4, <1>12 DEF QueueInv, WaitersWithinCount
<1> QED BY <1>4, <1>13, <1>14, <1>15, <1>16, <1>17 DEF QueueInv

\* semWait with no unit left: the process joins the queue.
LEMMA BlockKeepsQueues ==
  ASSUME QueueInv, NEW p \in Procs, NEW d \in Descs, NEW s \in SemIds,
         Caller(p, d, s), p \notin SemWaiters, SemWaitBlock(p, d),
         UNCHANGED <<semaphores, sem_descriptors, last_sem_fd, descriptor>>
  PROVE  /\ QueueInv'
         /\ SemWaiters' = SemWaiters \union {p}
         /\ FdsCounted => FdsCounted'
         /\ count[s] <= 0
         /\ count' = [count EXCEPT ![s] = @ - 1]
         /\ WaiterOf(s)' = Append(WaiterOf(s), p)
         /\ \A t \in SemIds \ {s} : WaiterOf(t)' = WaiterOf(t)
<1> DEFINE q == waiting_descriptors[s]
<1>1. /\ running = p
      /\ descriptor[d] # NULL
      /\ descriptor[d].pcb = p
      /\ descriptor[d].sem = s
      /\ d \in descriptors[s]
      /\ \A t \in SemIds : d \notin Range(waiting_descriptors[t])
      /\ \A t \in SemIds \ {s} : d \notin descriptors[t]
  BY DEF Caller
<1>2. /\ count[s] <= 0
      /\ count' = [count EXCEPT ![s] = @ - 1]
      /\ descriptors' = [descriptors EXCEPT ![s] = @ \ {d}]
      /\ waiting_descriptors' = [waiting_descriptors EXCEPT ![s] = Append(@, d)]
      /\ Block(p)
      /\ RunNext
      /\ syscall_retvalue' = [syscall_retvalue EXCEPT ![running'] = 0]
      /\ UNCHANGED <<timer_list, fault>>
  BY <1>1 DEF SemWaitBlock, JoinQueue
<1>4. /\ q \in Seq(Descs)
      /\ IsInjective(q)
      /\ \A e \in Range(q) : descriptor[e] # NULL
      /\ WaiterOf(s) = Pcbs(descriptor, q)
      /\ WaiterOf(s) \in Seq(Procs)
  BY QueueOf DEF QueueInv, DescriptorsConsistent
<1>5. /\ waiting_descriptors' \in [SemIds -> Seq(Descs)]
      /\ \A t \in SemIds :
           waiting_descriptors'[t] = IF t = s THEN Append(q, d) ELSE waiting_descriptors[t]
  BY <1>2 DEF QueueInv, SemTypes
<1>6. /\ descriptors' \in [SemIds -> SUBSET Descs]
      /\ \A t \in SemIds :
           descriptors'[t] = IF t = s THEN descriptors[t] \ {d} ELSE descriptors[t]
  BY <1>2 DEF QueueInv, SemTypes
<1>7. /\ count' \in [SemIds -> Int]
      /\ \A t \in SemIds : count'[t] = IF t = s THEN count[s] - 1 ELSE count[t]
  BY <1>2 DEF QueueInv, SemTypes
<1> HIDE DEF q
<1>8. /\ Append(q, d) \in Seq(Descs)
      /\ Len(Append(q, d)) = Len(q) + 1
      /\ Range(Append(q, d)) = Range(q) \union {d}
      /\ IsInjective(Append(q, d))
  BY <1>1, <1>4, AppendRange DEF q
<1>9. SemTypes'
  BY <1>5, <1>6, <1>7 DEF QueueInv, SemTypes
<1>10. WaiterOf(s)' = Append(WaiterOf(s), p)
  <2>1. Pcbs(descriptor, Append(q, d)) = Append(Pcbs(descriptor, q), p)
    BY <1>1, <1>4, PcbsJoin DEF QueueInv, SemTypes
  <2>2. WaiterOf(s)' = Pcbs(descriptor, Append(q, d))
    BY <1>5 DEF WaiterOf, Pcbs
  <2> QED BY <1>4, <2>1, <2>2
<1>11. \A t \in SemIds \ {s} : WaiterOf(t)' = WaiterOf(t)
  BY <1>5 DEF WaiterOf
<1>12. QueuedOnce' /\ SemWaiters' = SemWaiters \union {p}
  <2>2. \A t \in SemIds :
          /\ IsInjective(WaiterOf(t))
          /\ Range(WaiterOf(t)) \subseteq SemWaiters
          /\ \A u \in SemIds \ {t} : Range(WaiterOf(t)) \intersect Range(WaiterOf(u)) = {}
    BY QueueOf DEF QueueInv, QueuedOnce
  <2>3. Range(WaiterOf(s)') = Range(WaiterOf(s)) \union {p} /\ IsInjective(WaiterOf(s)')
    BY <1>4, <1>10, <2>2, AppendRange
  <2>4. SemWaiters' = SemWaiters \union {p}
    BY <1>11, <2>3 DEF SemWaiters
  <2>5. \A t \in SemIds : IsInjective(WaiterOf(t)')
    BY <1>11, <2>2, <2>3
  <2>6. \A t \in SemIds : \A u \in SemIds \ {t} :
          Range(WaiterOf(t)') \intersect Range(WaiterOf(u)') = {}
    BY <1>11, <2>2, <2>3
  <2> QED BY <2>4, <2>5, <2>6 DEF QueuedOnce
<1>13. DescriptorsConsistent'
  <2>1. ASSUME NEW t \in SemIds
        PROVE  /\ IsInjective(waiting_descriptors'[t])
               /\ descriptors'[t] \intersect Range(waiting_descriptors'[t]) = {}
               /\ descriptors'[t] \union Range(waiting_descriptors'[t]) = OpenOn(t)'
               /\ t \notin semaphores' => OpenOn(t)' = {}
    <3>1. OpenOn(t)' = OpenOn(t)
      BY DEF OpenOn
    <3>2. /\ IsInjective(waiting_descriptors[t])
          /\ descriptors[t] \intersect Range(waiting_descriptors[t]) = {}
          /\ descriptors[t] \union Range(waiting_descriptors[t]) = OpenOn(t)
          /\ t \notin semaphores => OpenOn(t) = {}
      BY DEF QueueInv, DescriptorsConsistent
    <3>3. CASE t = s
      <4>1. waiting_descriptors'[s] = Append(q, d) /\ descriptors'[s] = descriptors[s] \ {d}
        BY <1>5, <1>6
      <4>2. /\ (descriptors[s] \ {d}) \intersect (Range(q) \union {d}) = {}
            /\ (descriptors[s] \ {d}) \union (Range(q) \union {d}) = OpenOn(s)
        BY <1>1, <3>2, <3>3 DEF q
      <4> QED BY <1>8, <3>1, <3>2, <3>3, <4>1, <4>2
    <3>4. CASE t # s
      BY <1>5, <1>6, <3>1, <3>2, <3>4
    <3> QED BY <3>3, <3>4
  <2> QED BY <2>1 DEF QueueInv, DescriptorsConsistent
<1>14. FdsCounted => FdsCounted'
  BY DEF FdsCounted
<1>15. WaitersWithinCount'
  <2>1. count[s] \in Int /\ (q # <<>> => Len(q) <= -count[s]) /\ Len(q) \in Nat
    BY <1>4, LenProperties DEF QueueInv, SemTypes, WaitersWithinCount, q
  <2>2. q = <<>> => Len(q) = 0
    BY <1>4, EmptySeq
  <2>3. Len(q) + 1 <= -(count[s] - 1)
    BY <1>2, <2>1, <2>2
  <2> QED BY <1>5, <1>7, <1>8, <2>3 DEF QueueInv, WaitersWithinCount
<1> QED BY <1>2, <1>9, <1>10, <1>11, <1>12, <1>13, <1>14, <1>15 DEF QueueInv

\* semPost with somebody in the queue: the first one wakes up.
LEMMA WakeKeepsQueues ==
  ASSUME QueueInv, NEW p \in Procs, NEW d \in Descs, NEW s \in SemIds,
         Caller(p, d, s), SemPostWake(p, d),
         UNCHANGED <<semaphores, sem_descriptors, last_sem_fd, descriptor>>
  PROVE  /\ QueueInv'
         /\ \E x \in SemWaiters : Unblock(x) /\ SemWaiters' = SemWaiters \ {x}
         /\ FdsCounted => FdsCounted'
         /\ count[s] < 0
         /\ count' = [count EXCEPT ![s] = @ + 1]
         /\ WaiterOf(s) # <<>>
         /\ WaiterOf(s)' = Tail(WaiterOf(s))
         /\ \A t \in SemIds \ {s} : WaiterOf(t)' = WaiterOf(t)
<1> DEFINE q == waiting_descriptors[s]
           h == Head(q)
           x == descriptor[h].pcb
<1>1. running = p /\ descriptor[d].sem = s
  BY DEF Caller
<1>2. /\ count[s] < 0
      /\ q # <<>>
      /\ count' = [count EXCEPT ![s] = @ + 1]
      /\ descriptors' = [descriptors EXCEPT ![s] = @ \union {h}]
      /\ waiting_descriptors' = [waiting_descriptors EXCEPT ![s] = Tail(@)]
      /\ Unblock(x)
      /\ syscall_retvalue' = [syscall_retvalue EXCEPT ![p] = 0]
      /\ UNCHANGED <<running, timer_list, fault>>
  BY <1>1 DEF SemPostWake, LeaveQueue
<1>3. /\ q \in Seq(Descs)
      /\ IsInjective(q)
      /\ \A e \in Range(q) : descriptor[e] # NULL
      /\ WaiterOf(s) = Pcbs(descriptor, q)
      /\ WaiterOf(s) \in Seq(Procs)
      /\ WaiterOf(s) # <<>>
  BY <1>2, QueueOf DEF QueueInv, DescriptorsConsistent
<1>4. /\ waiting_descriptors' \in [SemIds -> Seq(Descs)]
      /\ \A t \in SemIds :
           waiting_descriptors'[t] = IF t = s THEN Tail(q) ELSE waiting_descriptors[t]
  <2>1. Tail(q) \in Seq(Descs)
    BY <1>2, <1>3, TailRange
  <2> QED BY <1>2, <2>1 DEF QueueInv, SemTypes
<1> HIDE DEF q
<1>5. /\ h \in Descs
      /\ Tail(q) \in Seq(Descs)
      /\ Len(Tail(q)) = Len(q) - 1
      /\ Range(q) = Range(Tail(q)) \union {h}
      /\ IsInjective(Tail(q)) /\ h \notin Range(Tail(q))
  BY <1>2, <1>3, TailRange
<1>6. WaiterOf(s)' = Tail(WaiterOf(s)) /\ x = Head(WaiterOf(s))
  <2>1. Pcbs(descriptor, Tail(q)) = Tail(Pcbs(descriptor, q)) /\ Head(Pcbs(descriptor, q)) = x
    BY <1>2, <1>3, PcbsLeave DEF QueueInv, SemTypes
  <2>2. WaiterOf(s)' = Pcbs(descriptor, Tail(q))
    BY <1>4 DEF WaiterOf, Pcbs
  <2> QED BY <1>3, <2>1, <2>2
<1> HIDE DEF h, x
<1>7. \A t \in SemIds \ {s} : WaiterOf(t)' = WaiterOf(t)
  BY <1>4 DEF WaiterOf
<1>8. \A t \in SemIds :
        /\ IsInjective(WaiterOf(t))
        /\ Range(WaiterOf(t)) \subseteq SemWaiters
        /\ \A u \in SemIds \ {t} : Range(WaiterOf(t)) \intersect Range(WaiterOf(u)) = {}
  BY QueueOf DEF QueueInv, QueuedOnce
<1>9. /\ Range(WaiterOf(s)) = Range(WaiterOf(s)') \union {x}
      /\ IsInjective(WaiterOf(s)')
      /\ x \notin Range(WaiterOf(s)')
  BY <1>3, <1>6, <1>8, TailRange
<1>10. SemWaiters' = SemWaiters \ {x} /\ x \in SemWaiters
  <2>1. \A y : y \in SemWaiters <=> \E t \in SemIds : y \in Range(WaiterOf(t))
    BY DEF SemWaiters
  <2>2. \A y : y \in SemWaiters' <=> \E t \in SemIds : y \in Range(WaiterOf(t)')
    BY DEF SemWaiters
  <2>3. \A t \in SemIds \ {s} : x \notin Range(WaiterOf(t)')
    BY <1>7, <1>8, <1>9
  <2> QED BY <1>7, <1>8, <1>9, <2>1, <2>2, <2>3
<1>12. /\ descriptors' \in [SemIds -> SUBSET Descs]
       /\ \A t \in SemIds :
            descriptors'[t] = IF t = s THEN descriptors[t] \union {h} ELSE descriptors[t]
  BY <1>2, <1>5 DEF QueueInv, SemTypes
<1>13. /\ count' \in [SemIds -> Int]
       /\ \A t \in SemIds : count'[t] = IF t = s THEN count[s] + 1 ELSE count[t]
  BY <1>2 DEF QueueInv, SemTypes
<1>14. SemTypes'
  BY <1>4, <1>12, <1>13 DEF QueueInv, SemTypes
<1>15. QueuedOnce'
  <2>1. \A t \in SemIds : IsInjective(WaiterOf(t)')
    BY <1>7, <1>8, <1>9
  <2>2. \A t \in SemIds : \A u \in SemIds \ {t} :
          Range(WaiterOf(t)') \intersect Range(WaiterOf(u)') = {}
    BY <1>7, <1>8, <1>9
  <2> QED BY <2>1, <2>2 DEF QueuedOnce
<1>16. DescriptorsConsistent'
  <2>1. ASSUME NEW t \in SemIds
        PROVE  /\ IsInjective(waiting_descriptors'[t])
               /\ descriptors'[t] \intersect Range(waiting_descriptors'[t]) = {}
               /\ descriptors'[t] \union Range(waiting_descriptors'[t]) = OpenOn(t)'
               /\ t \notin semaphores' => OpenOn(t)' = {}
    <3>1. OpenOn(t)' = OpenOn(t)
      BY DEF OpenOn
    <3>2. /\ IsInjective(waiting_descriptors[t])
          /\ descriptors[t] \intersect Range(waiting_descriptors[t]) = {}
          /\ descriptors[t] \union Range(waiting_descriptors[t]) = OpenOn(t)
          /\ t \notin semaphores => OpenOn(t) = {}
      BY DEF QueueInv, DescriptorsConsistent
    <3>3. CASE t = s
      <4>1. waiting_descriptors'[s] = Tail(q) /\ descriptors'[s] = descriptors[s] \union {h}
        BY <1>4, <1>12
      <4>2. /\ (descriptors[s] \union {h}) \intersect Range(Tail(q)) = {}
            /\ (descriptors[s] \union {h}) \union Range(Tail(q)) = OpenOn(s)
        BY <1>5, <3>2, <3>3 DEF q
      <4> QED BY <1>5, <3>1, <3>2, <3>3, <4>1, <4>2
    <3>4. CASE t # s
      BY <1>4, <1>12, <3>1, <3>2, <3>4
    <3> QED BY <3>3, <3>4
  <2> QED BY <2>1 DEF QueueInv, DescriptorsConsistent
<1>17. FdsCounted => FdsCounted'
  BY DEF FdsCounted
<1>18. WaitersWithinCount'
  <2>1. count[s] \in Int /\ Len(q) <= -count[s] /\ Len(q) \in Nat
    BY <1>2, <1>3, LenProperties DEF QueueInv, SemTypes, WaitersWithinCount, q
  <2>2. Len(q) - 1 <= -(count[s] + 1)
    BY <2>1
  <2> QED BY <1>4, <1>5, <1>13, <2>2 DEF QueueInv, WaitersWithinCount
<1> QED BY <1>2, <1>3, <1>6, <1>7, <1>10, <1>14, <1>15, <1>16, <1>17, <1>18 DEF QueueInv

-----------------------------------------------------------------------------
(***************************************************************************)
(* The steps of SemaphoreSpec that the calls take.                         *)
(***************************************************************************)

\* What the mapping shows as the value of a semaphore and as a handle.
Units(c) == IF c > 0 THEN c ELSE 0
HandleOf(r) == IF r = NULL THEN NULL ELSE [owner |-> r.pcb, sem |-> r.sem]

\* The mapping, with its parts named: what an abstract variable is at a place.
LEMMA MappingParts ==
  /\ Abstract!absVars = <<semaphores, [s \in SemIds |-> Units(count[s])],
                          [s \in SemIds |-> WaiterOf(s)],
                          [d \in Descs |-> HandleOf(descriptor[d])]>>
  BY DEF Abstract!absVars, Units, HandleOf

\* A step that keeps the semaphores, their units, queues and handles.
LEMMA Stutters ==
  ASSUME UNCHANGED <<semaphores, descriptor>>, QueuesStay,
         \A s \in SemIds : Units(count'[s]) = Units(count[s])
  PROVE  UNCHANGED Abstract!absVars
  BY DEF Abstract!absVars, QueuesStay, Units

\* A call that fails or crashes, and whatever else leaves the semaphores alone.
LEMMA FailedRefines ==
  ASSUME QueueInv, UNCHANGED semVars
  PROVE  UNCHANGED Abstract!absVars
<1>1. QueuesStay
  BY FailedKeepsQueues
<1> QED BY <1>1, Stutters DEF semVars

\* A process in no queue may take any of the abstract steps.
LEMMA NotQueuedMayCall ==
  ASSUME NEW p \in Procs, p \notin SemWaiters
  PROVE  ~Abstract!Queued(p)
<1> SUFFICES ASSUME NEW s \in SemIds, NEW i \in DOMAIN WaiterOf(s), WaiterOf(s)[i] = p
             PROVE  FALSE
  BY DEF Abstract!Queued
<1>1. p \in Range(WaiterOf(s))
  BY DEF Range
<1> QED BY <1>1 DEF SemWaiters

\* A handle of the mapping is open as the descriptor is.
LEMMA HandleInUse ==
  ASSUME QueueInv, NEW d \in Descs
  PROVE  /\ HandleOf(descriptor[d]) = NULL <=> descriptor[d] = NULL
         /\ descriptor[d] # NULL => /\ HandleOf(descriptor[d]).owner = descriptor[d].pcb
                                    /\ HandleOf(descriptor[d]).sem = descriptor[d].sem
<1>1. CASE descriptor[d] = NULL
  BY <1>1 DEF HandleOf
<1>2. CASE descriptor[d] # NULL
  <2>1. descriptor[d].pcb \in Procs /\ descriptor[d].sem \in SemIds
    BY <1>2, DescriptorInUse DEF QueueInv, SemTypes
  <2>2. [owner |-> descriptor[d].pcb, sem |-> descriptor[d].sem] # NULL
    BY <2>1, SemaphoresAssumption
  <2> QED BY <1>2, <2>2 DEF HandleOf
<1> QED BY <1>1, <1>2

\* semOpen provides the semaphore, whether it gets a descriptor or not.
LEMMA ReadyProvides ==
  ASSUME QueueInv, NEW id \in OpenIds, NEW c \in InitCounts, SemaphoreReady(id, c)
  PROVE  id \in SemIds /\ Abstract!Provide(id, Units(c))
<1>1. /\ id \in SemIds
      /\ semaphores' = semaphores \union {id}
      /\ \A s \in SemIds : count'[s] = IF s = id /\ id \notin semaphores THEN c ELSE count[s]
  BY SemaphoreReadyStep
<1>2. \A s \in SemIds :
        Units(count'[s]) = IF s = id /\ id \notin semaphores THEN Units(c) ELSE Units(count[s])
  BY <1>1
<1>3. [s \in SemIds |-> Units(count'[s])] =
        IF id \in semaphores THEN [s \in SemIds |-> Units(count[s])]
        ELSE [[s \in SemIds |-> Units(count[s])] EXCEPT ![id] = Units(c)]
  BY <1>2
<1> QED BY <1>1, <1>3 DEF Abstract!Provide, Units

\* semOpen with a descriptor to give is Open.
LEMMA OpenRefines ==
  ASSUME QueueInv, NEW p \in Procs, NEW id \in OpenIds, NEW c \in InitCounts,
         p \notin SemWaiters, SemOpenDescriptor(p, id, c), QueuesStay
  PROVE  Abstract!Next
<1>1. id \in SemIds /\ Abstract!Provide(id, Units(c))
  BY ReadyProvides DEF SemOpenDescriptor
<1>2. PICK d \in FreeDescs :
        descriptor' = [descriptor EXCEPT ![d] = [pcb |-> p, fd |-> last_sem_fd[p], sem |-> id]]
  BY DEF SemOpenDescriptor
<1>3. d \in Descs /\ descriptor[d] = NULL
  BY DEF FreeDescs
<1> DEFINE r == [pcb |-> p, fd |-> last_sem_fd[p], sem |-> id]
<1>4. /\ \A e \in Descs : descriptor'[e] = IF e = d THEN r ELSE descriptor[e]
      /\ r # NULL /\ r.pcb = p /\ r.sem = id
  BY <1>1, <1>2, SemaphoresAssumption DEF QueueInv, SemTypes, SemDescriptor
<1> HIDE DEF r
<1>5. [e \in Descs |-> HandleOf(descriptor'[e])] =
        [[e \in Descs |-> HandleOf(descriptor[e])] EXCEPT ![d] = [owner |-> p, sem |-> id]]
  BY <1>4 DEF HandleOf
<1>6. ~Abstract!Queued(p)
  BY NotQueuedMayCall
<1>7. [e \in Descs |-> HandleOf(descriptor[e])][d] = NULL
  BY <1>3 DEF HandleOf
<1>8. [s \in SemIds |-> WaiterOf(s)'] = [s \in SemIds |-> WaiterOf(s)]
  BY DEF QueuesStay
<1>9. Abstract!Open(p, id, Units(c))
  BY <1>1, <1>3, <1>5, <1>6, <1>7, <1>8 DEF Abstract!Open, HandleOf
<1> QED BY <1>1, <1>9 DEF Abstract!Next, Units

\* semOpen without one is OpenNoHandle: the semaphore stays.
LEMMA OpenNoDescriptorRefines ==
  ASSUME QueueInv, NEW p \in Procs, NEW id \in OpenIds, NEW c \in InitCounts,
         p \notin SemWaiters, SemOpenNoDescriptor(p, id, c), QueuesStay
  PROVE  Abstract!Next
<1>1. id \in SemIds /\ Abstract!Provide(id, Units(c))
  BY ReadyProvides DEF SemOpenNoDescriptor
<1>2. \A d \in Descs : HandleOf(descriptor[d]) # NULL
  BY HandleInUse DEF SemOpenNoDescriptor, FreeDescs
<1>3. ~Abstract!Queued(p)
  BY NotQueuedMayCall
<1>4. Abstract!OpenNoHandle(p, id, Units(c))
  BY <1>1, <1>2, <1>3 DEF Abstract!OpenNoHandle, SemOpenNoDescriptor, QueuesStay, HandleOf
<1> QED BY <1>1, <1>4 DEF Abstract!Next, Units

\* semClose is Close: no descriptor is active or queued on the semaphore just
\* when no other handle is open on it.
LEMMA CloseRefines ==
  ASSUME QueueInv, NEW p \in Procs, NEW fd \in Fds,
         running = p, p \notin SemWaiters, SemCloseFound(p, fd), QueuesStay
  PROVE  Abstract!Next
<1>1. PICK i \in DOMAIN sem_descriptors[p] :
        LET d == sem_descriptors[p][i]
            s == descriptor[d].sem
        IN  /\ descriptors' = [descriptors EXCEPT ![s] = @ \ {d}]
            /\ descriptor' = [descriptor EXCEPT ![d] = NULL]
            /\ ReleaseSemaphore(s)
  BY DEF SemCloseFound
<1>2. PICK d \in Descs, s \in SemIds : d = sem_descriptors[p][i] /\ Caller(p, d, s)
  BY CallerIs
<1>3. /\ descriptor[d] # NULL
      /\ descriptor[d].pcb = p
      /\ descriptor[d].sem = s
      /\ d \in descriptors[s]
      /\ d \notin Range(waiting_descriptors[s])
  BY <1>2 DEF Caller
<1>4. /\ descriptors' = [descriptors EXCEPT ![s] = @ \ {d}]
      /\ descriptor' = [descriptor EXCEPT ![d] = NULL]
      /\ ReleaseSemaphore(s)
  BY <1>1, <1>2, <1>3
<1> DEFINE hs == [e \in Descs |-> HandleOf(descriptor[e])]
           last == \A g \in Descs \ {d} : hs[g] # NULL => hs[g].sem # s
           unused == descriptors'[s] = {} /\ waiting_descriptors[s] = <<>>
<1>5. hs[d] # NULL /\ hs[d].owner = p /\ hs[d].sem = s
  BY <1>3, HandleInUse
<1>6. [e \in Descs |-> HandleOf(descriptor'[e])] = [hs EXCEPT ![d] = NULL]
  BY <1>4 DEF QueueInv, SemTypes, HandleOf
<1>7. last <=> unused
  <2>1. last <=> OpenOn(s) \subseteq {d}
    BY HandleInUse DEF OpenOn
  <2>2. descriptors[s] \union Range(waiting_descriptors[s]) = OpenOn(s)
    BY DEF QueueInv, DescriptorsConsistent
  <2>3. descriptors'[s] = descriptors[s] \ {d}
    BY <1>4 DEF QueueInv, SemTypes
  <2>4. waiting_descriptors[s] = <<>> <=> Range(waiting_descriptors[s]) = {}
    BY RangeEmpty DEF QueueInv, SemTypes
  <2> HIDE DEF last
  <2> QED BY <1>3, <2>1, <2>2, <2>3, <2>4
<1>8. semaphores' = IF unused THEN semaphores \ {s} ELSE semaphores
  BY <1>4 DEF ReleaseSemaphore
<1>9. [t \in SemIds |-> Units(count'[t])] =
        IF unused THEN [[t \in SemIds |-> Units(count[t])] EXCEPT ![s] = 0]
        ELSE [t \in SemIds |-> Units(count[t])]
  <2>1. count' = IF unused THEN [count EXCEPT ![s] = 0] ELSE count
    BY <1>4 DEF ReleaseSemaphore
  <2>2. \A t \in SemIds : Units(count'[t]) = IF unused /\ t = s THEN 0 ELSE Units(count[t])
    BY <2>1 DEF QueueInv, SemTypes, Units
  <2> HIDE DEF unused
  <2> QED BY <2>2
<1>10. [t \in SemIds |-> WaiterOf(t)'] = [t \in SemIds |-> WaiterOf(t)]
  BY DEF QueuesStay
<1>11. ~Abstract!Queued(p)
  BY NotQueuedMayCall
<1> HIDE DEF unused
<1>12. Abstract!Close(d)
  BY <1>2, <1>5, <1>6, <1>7, <1>8, <1>9, <1>10, <1>11 DEF Abstract!Close, HandleOf, Units
<1> QED BY <1>12 DEF Abstract!Next

\* semWait with a unit left takes it.
LEMMA WaitTakeRefines ==
  ASSUME QueueInv, NEW p \in Procs, NEW d \in Descs, NEW s \in SemIds, Caller(p, d, s),
         p \notin SemWaiters,
         SemWaitTake(p, d), UNCHANGED <<semaphores, descriptor>>, QueuesStay
  PROVE  Abstract!Next
<1>1. running = p /\ descriptor[d] # NULL /\ descriptor[d].pcb = p /\ descriptor[d].sem = s
  BY DEF Caller
<1>2. count[s] > 0 /\ count' = [count EXCEPT ![s] = @ - 1] /\ count \in [SemIds -> Int]
  BY <1>1 DEF SemWaitTake, QueueInv, SemTypes
<1>3. [t \in SemIds |-> Units(count'[t])] =
        [[t \in SemIds |-> Units(count[t])] EXCEPT ![s] = @ - 1]
  <2>1. \A t \in SemIds :
          Units(count'[t]) = IF t = s THEN Units(count[s]) - 1 ELSE Units(count[t])
    BY <1>2 DEF Units
  <2> QED BY <2>1
<1>4. [t \in SemIds |-> WaiterOf(t)'] = [t \in SemIds |-> WaiterOf(t)]
  BY DEF QueuesStay
<1>5. /\ HandleOf(descriptor[d]) # NULL
      /\ HandleOf(descriptor[d]).owner = p /\ HandleOf(descriptor[d]).sem = s
  BY <1>1, HandleInUse
<1>6. ~Abstract!Queued(p)
  BY <1>1, NotQueuedMayCall
<1>7. Units(count[s]) > 0
  BY <1>2 DEF Units
<1>8. Abstract!Wait(d)
  BY <1>3, <1>4, <1>5, <1>6, <1>7 DEF Abstract!Wait, HandleOf, Units
<1> QED BY <1>8 DEF Abstract!Next

\* semWait without a unit waits behind those who came before.
LEMMA WaitBlockRefines ==
  ASSUME QueueInv, NEW p \in Procs, NEW d \in Descs, NEW s \in SemIds, Caller(p, d, s),
         p \notin SemWaiters,
         UNCHANGED <<semaphores, descriptor>>,
         count[s] <= 0,
         count' = [count EXCEPT ![s] = @ - 1],
         WaiterOf(s)' = Append(WaiterOf(s), p),
         \A t \in SemIds \ {s} : WaiterOf(t)' = WaiterOf(t)
  PROVE  Abstract!Next
<1>1. running = p /\ descriptor[d] # NULL /\ descriptor[d].pcb = p /\ descriptor[d].sem = s
  BY DEF Caller
<1>2. count \in [SemIds -> Int]
  BY DEF QueueInv, SemTypes
<1>3. [t \in SemIds |-> Units(count'[t])] = [t \in SemIds |-> Units(count[t])]
  BY <1>2 DEF Units
<1>4. [t \in SemIds |-> WaiterOf(t)'] = [[t \in SemIds |-> WaiterOf(t)] EXCEPT ![s] = Append(@, p)]
  OBVIOUS
<1>5. /\ HandleOf(descriptor[d]) # NULL
      /\ HandleOf(descriptor[d]).owner = p /\ HandleOf(descriptor[d]).sem = s
  BY <1>1, HandleInUse
<1>6. ~Abstract!Queued(p)
  BY <1>1, NotQueuedMayCall
<1>7. Units(count[s]) = 0
  BY <1>2 DEF Units
<1>8. Abstract!Wait(d)
  BY <1>3, <1>4, <1>5, <1>6, <1>7 DEF Abstract!Wait, HandleOf, Units
<1> QED BY <1>8 DEF Abstract!Next

\* semPost with nobody in the queue keeps the unit.
LEMMA PostKeepRefines ==
  ASSUME QueueInv, NEW p \in Procs, NEW d \in Descs, NEW s \in SemIds, Caller(p, d, s),
         p \notin SemWaiters,
         SemPostKeep(p, d), UNCHANGED <<semaphores, descriptor>>, QueuesStay,
         waiting_descriptors[s] = <<>>
  PROVE  Abstract!Next
<1>1. running = p /\ descriptor[d] # NULL /\ descriptor[d].pcb = p /\ descriptor[d].sem = s
  BY DEF Caller
<1>2. count[s] >= 0 /\ count' = [count EXCEPT ![s] = @ + 1] /\ count \in [SemIds -> Int]
  BY <1>1 DEF SemPostKeep, QueueInv, SemTypes
<1>3. [t \in SemIds |-> Units(count'[t])] =
        [[t \in SemIds |-> Units(count[t])] EXCEPT ![s] = @ + 1]
  <2>1. \A t \in SemIds :
          Units(count'[t]) = IF t = s THEN Units(count[s]) + 1 ELSE Units(count[t])
    BY <1>2 DEF Units
  <2> QED BY <2>1
<1>4. [t \in SemIds |-> WaiterOf(t)'] = [t \in SemIds |-> WaiterOf(t)]
  BY DEF QueuesStay
<1>5. /\ HandleOf(descriptor[d]) # NULL
      /\ HandleOf(descriptor[d]).owner = p /\ HandleOf(descriptor[d]).sem = s
  BY <1>1, HandleInUse
<1>6. ~Abstract!Queued(p)
  BY <1>1, NotQueuedMayCall
<1>7. WaiterOf(s) = <<>>
  BY QueueOf DEF QueueInv
<1>8. Abstract!Post(d)
  BY <1>3, <1>4, <1>5, <1>6, <1>7 DEF Abstract!Post, HandleOf, Units
<1> QED BY <1>8 DEF Abstract!Next

\* semPost gives the unit to the process that waits longest.
LEMMA PostWakeRefines ==
  ASSUME QueueInv, NEW p \in Procs, NEW d \in Descs, NEW s \in SemIds, Caller(p, d, s),
         p \notin SemWaiters,
         UNCHANGED <<semaphores, descriptor>>,
         count[s] < 0,
         count' = [count EXCEPT ![s] = @ + 1],
         WaiterOf(s) # <<>>,
         WaiterOf(s)' = Tail(WaiterOf(s)),
         \A t \in SemIds \ {s} : WaiterOf(t)' = WaiterOf(t)
  PROVE  Abstract!Next
<1>1. running = p /\ descriptor[d] # NULL /\ descriptor[d].pcb = p /\ descriptor[d].sem = s
  BY DEF Caller
<1>2. count \in [SemIds -> Int]
  BY DEF QueueInv, SemTypes
<1>3. [t \in SemIds |-> Units(count'[t])] = [t \in SemIds |-> Units(count[t])]
  BY <1>2 DEF Units
<1>4. [t \in SemIds |-> WaiterOf(t)'] = [[t \in SemIds |-> WaiterOf(t)] EXCEPT ![s] = Tail(@)]
  OBVIOUS
<1>5. /\ HandleOf(descriptor[d]) # NULL
      /\ HandleOf(descriptor[d]).owner = p /\ HandleOf(descriptor[d]).sem = s
  BY <1>1, HandleInUse
<1>6. ~Abstract!Queued(p)
  BY <1>1, NotQueuedMayCall
<1>7. Abstract!Post(d)
  BY <1>3, <1>4, <1>5, <1>6 DEF Abstract!Post, HandleOf, Units
<1> QED BY <1>7 DEF Abstract!Next

\* An open, whichever way it ends: a wrong id and a full pool are no steps.
LEMMA SemOpenRefines ==
  ASSUME QueueInv, NEW p \in Procs, NEW id \in OpenIds, NEW c \in InitCounts,
         p \notin SemWaiters, SemOpen(p, id, c)
  PROVE  [Abstract!Next]_(Abstract!absVars)
<1>1. CASE SemOpenWrongId(p, id) \/ SemOpenNoSemaphore(p, id)
  <2>1. UNCHANGED semVars
    BY <1>1 DEF SemOpenWrongId, SemOpenNoSemaphore
  <2> QED BY <2>1, FailedRefines
<1>2. CASE SemOpenNoDescriptor(p, id, c)
  BY <1>2, NoDescriptorKeepsQueues, OpenNoDescriptorRefines
<1>3. CASE SemOpenDescriptor(p, id, c)
  BY <1>3, OpenKeepsQueues, OpenRefines
<1> QED BY <1>1, <1>2, <1>3 DEF SemOpen

\* A close.
LEMMA SemCloseRefines ==
  ASSUME QueueInv, NEW p \in Procs, NEW fd \in Fds, p \notin SemWaiters, SemClose(p, fd)
  PROVE  [Abstract!Next]_(Abstract!absVars)
<1>1. running = p
  BY DEF SemClose, Syscall
<1>2. CASE UnknownFd(p, fd)
  BY <1>2, FailedRefines DEF UnknownFd
<1>3. CASE SemCloseFound(p, fd)
  BY <1>1, <1>3, CloseKeepsQueues, CloseRefines
<1> QED BY <1>2, <1>3 DEF SemClose

\* A wait: the crash for want of a ready process is no step.
LEMMA SemWaitRefines ==
  ASSUME QueueInv, NEW p \in Procs, NEW fd \in Fds, p \notin SemWaiters, SemWait(p, fd)
  PROVE  [Abstract!Next]_(Abstract!absVars)
<1>1. running = p
  BY DEF SemWait, Syscall
<1>2. CASE UnknownFd(p, fd)
  BY <1>2, FailedRefines DEF UnknownFd
<1>3. CASE ~UnknownFd(p, fd)
  <2>1. /\ UNCHANGED <<semaphores, sem_descriptors, last_sem_fd, descriptor>>
        /\ \E i \in DOMAIN sem_descriptors[p] :
             \/ SemWaitTake(p, sem_descriptors[p][i])
             \/ SemWaitBlock(p, sem_descriptors[p][i])
             \/ SemWaitNobodyReady(p, sem_descriptors[p][i])
    BY <1>3 DEF SemWait
  <2>2. PICK d \in Descs, s \in SemIds :
          /\ Caller(p, d, s)
          /\ SemWaitTake(p, d) \/ SemWaitBlock(p, d) \/ SemWaitNobodyReady(p, d)
    BY <1>1, <2>1, CallerIs
  <2>3. descriptor[d].sem = s /\ count \in [SemIds -> Int]
    BY <2>2 DEF Caller, QueueInv, SemTypes
  <2>4. CASE SemWaitTake(p, d)
    <3>1. /\ count[s] >= 0
          /\ count[s] - 1 \in Int
          /\ count' = [count EXCEPT ![s] = count[s] - 1]
          /\ UNCHANGED <<descriptors, waiting_descriptors>>
      BY <2>3, <2>4 DEF SemWaitTake
    <3>2. QueuesStay
      BY <2>1, <3>1, CountKeepsQueues
    <3> QED BY <2>1, <2>2, <2>4, <3>2, WaitTakeRefines
  <2>5. CASE SemWaitBlock(p, d)
    <3>1. /\ count[s] <= 0
          /\ count' = [count EXCEPT ![s] = @ - 1]
          /\ WaiterOf(s)' = Append(WaiterOf(s), p)
          /\ \A t \in SemIds \ {s} : WaiterOf(t)' = WaiterOf(t)
      BY <2>1, <2>2, <2>5, BlockKeepsQueues
    <3> QED BY <2>1, <2>2, <3>1, WaitBlockRefines
  <2>6. CASE SemWaitNobodyReady(p, d)
    BY <2>1, <2>6, FailedRefines DEF SemWaitNobodyReady, semVars
  <2> QED BY <2>2, <2>4, <2>5, <2>6
<1> QED BY <1>2, <1>3

\* A post: the crash for want of a waiter is no step.
LEMMA SemPostRefines ==
  ASSUME QueueInv, NEW p \in Procs, NEW fd \in Fds, p \notin SemWaiters, SemPost(p, fd)
  PROVE  [Abstract!Next]_(Abstract!absVars)
<1>1. running = p
  BY DEF SemPost, Syscall
<1>2. CASE UnknownFd(p, fd)
  BY <1>2, FailedRefines DEF UnknownFd
<1>3. CASE ~UnknownFd(p, fd)
  <2>1. /\ UNCHANGED <<semaphores, sem_descriptors, last_sem_fd, descriptor>>
        /\ \E i \in DOMAIN sem_descriptors[p] :
             \/ SemPostKeep(p, sem_descriptors[p][i])
             \/ SemPostWake(p, sem_descriptors[p][i])
             \/ SemPostNobodyWaits(p, sem_descriptors[p][i])
    BY <1>3 DEF SemPost
  <2>2. PICK d \in Descs, s \in SemIds :
          /\ Caller(p, d, s)
          /\ SemPostKeep(p, d) \/ SemPostWake(p, d) \/ SemPostNobodyWaits(p, d)
    BY <1>1, <2>1, CallerIs
  <2>3. descriptor[d].sem = s /\ count \in [SemIds -> Int]
    BY <2>2 DEF Caller, QueueInv, SemTypes
  <2>4. CASE SemPostKeep(p, d)
    <3>1. /\ count[s] >= 0
          /\ count[s] + 1 \in Int
          /\ count' = [count EXCEPT ![s] = count[s] + 1]
          /\ UNCHANGED <<descriptors, waiting_descriptors>>
      BY <2>3, <2>4 DEF SemPostKeep
    <3>2. QueuesStay /\ waiting_descriptors[s] = <<>>
      BY <2>1, <3>1, CountKeepsQueues
    <3> QED BY <2>1, <2>2, <2>4, <3>2, PostKeepRefines
  <2>5. CASE SemPostWake(p, d)
    <3>1. /\ count[s] < 0
          /\ count' = [count EXCEPT ![s] = @ + 1]
          /\ WaiterOf(s) # <<>>
          /\ WaiterOf(s)' = Tail(WaiterOf(s))
          /\ \A t \in SemIds \ {s} : WaiterOf(t)' = WaiterOf(t)
      BY <2>1, <2>2, <2>5, WakeKeepsQueues
    <3> QED BY <2>1, <2>2, <3>1, PostWakeRefines
  <2>6. CASE SemPostNobodyWaits(p, d)
    BY <2>1, <2>6, FailedRefines DEF SemPostNobodyWaits, semVars
  <2> QED BY <2>2, <2>4, <2>5, <2>6
<1> QED BY <1>2, <1>3

\* Each of the four calls is a step of SemaphoreSpec, or none.
LEMMA CallRefines ==
  ASSUME QueueInv, NEW p \in Procs, p \notin SemWaiters, SemaphoreCall(p)
  PROVE  [Abstract!Next]_(Abstract!absVars)
<1>1. ASSUME NEW id \in OpenIds, NEW c \in InitCounts, SemOpen(p, id, c)
      PROVE  [Abstract!Next]_(Abstract!absVars)
  BY <1>1, SemOpenRefines
<1>2. ASSUME NEW fd \in Fds, SemClose(p, fd) \/ SemWait(p, fd) \/ SemPost(p, fd)
      PROVE  [Abstract!Next]_(Abstract!absVars)
  BY <1>2, SemCloseRefines, SemWaitRefines, SemPostRefines
<1> QED BY <1>1, <1>2 DEF SemaphoreCall

\* A start without semaphores: no descriptor is open and nobody is queued.
LEMMA NoSemaphoresInit ==
  ASSUME NoSemaphores
  PROVE  /\ QueueInv /\ SemWaiters = {} /\ FdsCounted
         /\ Abstract!Init
<1>1. /\ semaphores = {}
      /\ count = [s \in SemIds |-> 0]
      /\ descriptors = [s \in SemIds |-> {}]
      /\ waiting_descriptors = [s \in SemIds |-> <<>>]
      /\ sem_descriptors = [p \in Procs |-> <<>>]
      /\ last_sem_fd = [p \in Procs |-> 0]
      /\ descriptor = [d \in Descs |-> NULL]
  BY DEF NoSemaphores
<1>2. <<>> \in Seq(Descs) /\ Len(<<>>) = 0 /\ Range(<<>>) = {} /\ IsInjective(<<>>)
  BY EmptySeq, EmptyRange
<1>3. SemTypes
  BY <1>1, <1>2 DEF SemTypes
<1>4. DescriptorsConsistent
  BY <1>1, <1>2 DEF DescriptorsConsistent, OpenOn
<1>5. FdsCounted /\ WaitersWithinCount
  BY <1>1, <1>2 DEF FdsCounted, WaitersWithinCount
<1>6. \A s \in SemIds : WaiterOf(s) = <<>>
  BY <1>1, <1>3, <1>4, QueueOf
<1>7. \A s \in SemIds : Range(WaiterOf(s)) = {} /\ IsInjective(WaiterOf(s))
  BY <1>2, <1>6
<1>8. QueuedOnce /\ SemWaiters = {}
  BY <1>7 DEF QueuedOnce, SemWaiters
<1>9. Abstract!Init
  BY <1>1, <1>6 DEF Abstract!Init
<1> QED BY <1>3, <1>4, <1>5, <1>8, <1>9 DEF QueueInv

=============================================================================
