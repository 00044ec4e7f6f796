-------------------------- MODULE SchedulerProofs --------------------------
(***************************************************************************)
(* The scheduler loses no process, queues none twice and keeps its timers  *)
(* in order, for any number of processes and any sleep times.              *)
(***************************************************************************)
EXTENDS Scheduler, ListLemmas, FiniteSetTheorems

\* The four invariants hold together: the scheduler can put the sleepers that
\* wake in front of the ready list only because a sleeper is on the waiting
\* list and has a single timer.
SchedulerInv == TypeOK /\ OnOneList /\ StatusMatchesLists /\ TimersSorted

\* The part of it that speaks of the lists, and the part about the timers.
ListsInv ==
  /\ running \in Procs \union {NULL}
  /\ ready_list \in Seq(Procs)
  /\ waiting_list \subseteq Procs
  /\ status \in [Procs -> {"Running", "Ready", "Waiting"}]
  /\ OnOneList
  /\ StatusMatchesLists
TimersInv == timer_list \in Seq(Timer) /\ TimersSorted

\* timers is the timer list, now or one tick later.
SameTimers(timers) ==
  /\ timers \in Seq(Timer)
  /\ Len(timers) = Len(timer_list)
  /\ \A i \in 1..Len(timers) : timers[i].pcb = timer_list[i].pcb
  /\ \A i, j \in 1..Len(timers) : i < j => timers[i].left <= timers[j].left

-----------------------------------------------------------------------------
(***************************************************************************)
(* The timer list.                                                         *)
(***************************************************************************)

\* TimersUpTo is the length of the longest prefix with at most t ticks left.
LEMMA TimersUpToSplits ==
  ASSUME NEW timers \in Seq(Timer), NEW t \in Int
  PROVE  /\ TimersUpTo(timers, t) \in 0..Len(timers)
         /\ \A i \in 1..TimersUpTo(timers, t) : timers[i].left <= t
         /\ TimersUpTo(timers, t) < Len(timers)
              => timers[TimersUpTo(timers, t) + 1].left > t
<1> DEFINE P == {k \in DOMAIN timers : \A i \in 1..k : timers[i].left <= t}
           T == {k \in 1..Len(timers) : timers[k].left > t}
<1>1. Len(timers) \in Nat /\ DOMAIN timers = 1..Len(timers)
  BY LenProperties
<1>2. \A k \in 1..Len(timers) : timers[k].left \in Int
  <2>1. \A k \in 1..Len(timers) : timers[k] \in Timer
    BY ElementOfSeq
  <2> QED BY <2>1 DEF Timer
<1>3. ASSUME T = {} PROVE P = 1..Len(timers)
  BY <1>1, <1>2, <1>3
<1>4. ASSUME T # {}
      PROVE  \E m \in 1..Len(timers) : timers[m].left > t /\ P = 1..(m - 1)
  <2>1. T \subseteq Nat
    BY <1>1
  <2>2. PICK m \in T : \A y \in T : ~(<<y, m>> \in OpToRel(<, Nat))
    BY <1>4, <2>1, NatLessThanWellFounded, WFMin
  <2>3. \A y \in T : ~(y < m)
    BY <2>1, <2>2 DEF OpToRel
  <2>4. \A k \in 1..Len(timers) : k < m => timers[k].left <= t
    BY <1>2, <2>3
  <2>5. P = 1..(m - 1)
    <3>1. m \in 1..Len(timers) /\ ~(timers[m].left <= t)
      <4>1. m \in 1..Len(timers) /\ timers[m].left > t
        OBVIOUS
      <4> HIDE DEF T
      <4> QED BY <1>2, <4>1
    <3>2. \A k \in 1..Len(timers) : k \in P <=> \A i \in 1..k : timers[i].left <= t
      BY <1>1
    <3>3. \A k \in 1..Len(timers) : k < m => k \in P
      BY <1>1, <2>4, <3>1, <3>2
    <3>4. \A k \in 1..Len(timers) : k >= m => k \notin P
      BY <1>1, <3>1, <3>2
    <3>5. \A k \in P : k \in 1..Len(timers)
      BY <1>1
    <3> HIDE DEF P
    <3>6. 1..(m - 1) \subseteq P
      BY <1>1, <3>1, <3>3
    <3>7. P \subseteq 1..(m - 1)
      BY <1>1, <3>1, <3>4, <3>5
    <3> QED BY <3>6, <3>7
  <2> QED BY <2>2, <2>5
<1>5. \E n \in 0..Len(timers) :
         /\ P = 1..n
         /\ n < Len(timers) => timers[n + 1].left > t
  <2>1. CASE T = {}
    BY <1>1, <1>3, <2>1
  <2>2. CASE T # {}
    <3>1. PICK m \in 1..Len(timers) : timers[m].left > t /\ P = 1..(m - 1)
      BY <1>4, <2>2
    <3>2. m - 1 \in 0..Len(timers) /\ (m - 1) + 1 = m
      BY <1>1, <3>1
    <3> QED BY <3>1, <3>2
  <2> QED BY <2>1, <2>2
<1>6. PICK n \in 0..Len(timers) :
         /\ P = 1..n
         /\ n < Len(timers) => timers[n + 1].left > t
  BY <1>5
<1>7. Cardinality(P) = n
  <2> HIDE DEF P, T
  <2>1. n \in Nat
    BY <1>1
  <2>2. Cardinality(1..n) = n
    BY <2>1, FS_Interval
  <2> QED BY <1>6, <2>2
<1>8. \A i \in 1..n : timers[i].left <= t
  <2>1. \A i \in P : i \in 1..i /\ \A j \in 1..i : timers[j].left <= t
    BY <1>1
  <2> QED BY <1>6, <2>1
<1>9. TimersUpTo(timers, t) = n
  BY <1>7 DEF TimersUpTo
<1> QED BY <1>6, <1>8, <1>9

\* The processes whose timer elapsed.
LEMMA WokenType ==
  ASSUME NEW timers \in Seq(Timer)
  PROVE  /\ Woken(timers) \in Seq(Procs)
         /\ Len(Woken(timers)) = TimersUpTo(timers, 0)
         /\ \A i \in 1..TimersUpTo(timers, 0) : Woken(timers)[i] = timers[i].pcb
<1>1. TimersUpTo(timers, 0) \in 0..Len(timers) /\ Len(timers) \in Nat
  BY TimersUpToSplits, LenProperties
<1>2. \A i \in 1..TimersUpTo(timers, 0) : timers[i].pcb \in Procs
  <2>1. \A i \in 1..Len(timers) : timers[i] \in Timer
    BY ElementOfSeq
  <2>2. \A i \in 1..TimersUpTo(timers, 0) : i \in 1..Len(timers)
    BY <1>1
  <2> QED BY <2>1, <2>2 DEF Timer
<1>3. Woken(timers) \in [1..TimersUpTo(timers, 0) -> Procs]
  BY <1>2 DEF Woken
<1>4. Woken(timers) \in Seq(Procs)
  BY <1>1, <1>3, SeqDef
<1>5. Len(Woken(timers)) = TimersUpTo(timers, 0)
  BY <1>1, <1>3, <1>4, LenProperties
<1> QED BY <1>4, <1>5 DEF Woken

\* One tick less for each timer.
LEMMA TickedType ==
  ASSUME NEW timers \in Seq(Timer)
  PROVE  /\ Ticked(timers) \in Seq(Timer)
         /\ Len(Ticked(timers)) = Len(timers)
         /\ \A i \in 1..Len(timers) :
              /\ Ticked(timers)[i].pcb = timers[i].pcb
              /\ Ticked(timers)[i].left = timers[i].left - 1
<1>1. Len(timers) \in Nat /\ DOMAIN timers = 1..Len(timers)
  BY LenProperties
<1>2. \A i \in 1..Len(timers) : timers[i] \in Timer
  BY ElementOfSeq
<1>3. \A i \in 1..Len(timers) : [timers[i] EXCEPT !.left = @ - 1] \in Timer
  BY <1>2 DEF Timer
<1>4. Ticked(timers) \in [1..Len(timers) -> Timer]
  BY <1>1, <1>3 DEF Ticked
<1>5. Ticked(timers) \in Seq(Timer)
  BY <1>1, <1>4, SeqDef
<1>6. Len(Ticked(timers)) = Len(timers)
  BY <1>1, <1>4, <1>5, LenProperties
<1>7. \A i \in 1..Len(timers) :
        /\ Ticked(timers)[i].pcb = timers[i].pcb
        /\ Ticked(timers)[i].left = timers[i].left - 1
  BY <1>1, <1>2 DEF Ticked, Timer
<1> QED BY <1>5, <1>6, <1>7

\* An elapsed timer leaves the list, and no other one does.
LEMMA TimersSchedule ==
  ASSUME TimersInv, NEW timers, SameTimers(timers),
         timer_list' = SubSeq(timers, Len(Woken(timers)) + 1, Len(timers)),
         waiting_list' = waiting_list \ Range(Woken(timers))
  PROVE  /\ TimersInv'
         /\ Woken(timers) \in Seq(Procs)
         /\ IsInjective(Woken(timers))
         /\ Range(Woken(timers)) \subseteq TimerProcs
         /\ TimerProcs' = TimerProcs \ Range(Woken(timers))
         /\ \A i \in DOMAIN timer_list' : timer_list'[i].left > 0
<1> DEFINE n == TimersUpTo(timers, 0)
           W == Range(Woken(timers))
<1>1. /\ timers \in Seq(Timer)
      /\ Len(timers) \in Nat
      /\ Len(timers) = Len(timer_list)
      /\ DOMAIN timer_list = 1..Len(timers)
      /\ \A i \in 1..Len(timers) : timers[i] \in Timer /\ timers[i].left \in Int
  <2>1. \A i \in 1..Len(timers) : timers[i] \in Timer
    BY ElementOfSeq DEF SameTimers
  <2> QED BY <2>1, LenProperties DEF TimersInv, SameTimers, Timer
<1>2. n \in 0..Len(timers) /\ (n < Len(timers) => timers[n + 1].left > 0)
  BY <1>1, TimersUpToSplits
<1>3. /\ Woken(timers) \in Seq(Procs)
      /\ Len(Woken(timers)) = n
      /\ \A i \in 1..n : Woken(timers)[i] = timers[i].pcb
  BY <1>1, WokenType
<1>4. /\ \A i, j \in 1..Len(timers) : i < j => timers[i].pcb # timers[j].pcb
      /\ \A i, j \in 1..Len(timers) : i < j => timers[i].left <= timers[j].left
      /\ \A x : x \in TimerProcs <=> \E i \in 1..Len(timers) : timers[i].pcb = x
      /\ TimerProcs \subseteq waiting_list
  BY <1>1 DEF TimersInv, TimersSorted, SameTimers, TimerProcs
<1> HIDE DEF n
<1>5. \A i, j \in 1..Len(timers) : timers[i].pcb = timers[j].pcb => i = j
  BY <1>1, <1>4
<1>6. \A x : x \in W <=> \E i \in 1..n : timers[i].pcb = x
  BY <1>3, RangeOf
<1>7. IsInjective(Woken(timers))
  BY <1>2, <1>3, <1>5, RangeOf
<1>8. W \subseteq TimerProcs
  BY <1>2, <1>4, <1>6
<1>9. /\ timer_list' \in Seq(Timer)
      /\ Len(timer_list') = Len(timers) - n
      /\ \A i \in 1..(Len(timers) - n) : timer_list'[i] = timers[n + i]
  <2>1. \A i \in (n + 1)..Len(timers) : timers[i] \in Timer
    BY <1>1, <1>2
  <2> QED BY <1>1, <1>2, <1>3, <2>1, SubSeqProperties
<1>10. DOMAIN timer_list' = 1..(Len(timers) - n)
  BY <1>9, LenProperties
<1>11. \A i \in 1..(Len(timers) - n) : n + i \in 1..Len(timers) /\ n + i > n
  BY <1>1, <1>2
<1>12. TimerProcs' = TimerProcs \ W
  <2>1. \A x : x \in TimerProcs' <=> \E i \in 1..(Len(timers) - n) : timers[n + i].pcb = x
    BY <1>9, <1>10 DEF TimerProcs
  <2>2. \A x \in TimerProcs' : x \in TimerProcs /\ x \notin W
    BY <1>1, <1>2, <1>4, <1>5, <1>6, <1>11, <2>1
  <2>3. ASSUME NEW x \in TimerProcs, x \notin W PROVE x \in TimerProcs'
    <3>1. PICK i \in 1..Len(timers) : timers[i].pcb = x
      BY <1>4
    <3>2. i > n
      BY <1>2, <1>6, <2>3, <3>1
    <3>3. i - n \in 1..(Len(timers) - n) /\ n + (i - n) = i
      BY <1>1, <1>2, <3>2
    <3> QED BY <2>1, <3>1, <3>3
  <2> QED BY <2>2, <2>3
<1>13. \A i, j \in DOMAIN timer_list' :
         i < j => /\ timer_list'[i].left <= timer_list'[j].left
                  /\ timer_list'[i].pcb # timer_list'[j].pcb
  <2> SUFFICES ASSUME NEW i \in 1..(Len(timers) - n), NEW j \in 1..(Len(timers) - n), i < j
               PROVE  /\ timer_list'[i].left <= timer_list'[j].left
                      /\ timer_list'[i].pcb # timer_list'[j].pcb
    BY <1>10
  <2>1. n + i < n + j /\ n + i \in 1..Len(timers) /\ n + j \in 1..Len(timers)
    BY <1>2, <1>11
  <2>2. timer_list'[i] = timers[n + i] /\ timer_list'[j] = timers[n + j]
    BY <1>9
  <2>3. timers[n + i].left <= timers[n + j].left /\ timers[n + i].pcb # timers[n + j].pcb
    BY <1>4, <2>1
  <2> QED BY <2>2, <2>3
<1>14. \A i \in DOMAIN timer_list' : timer_list'[i].left > 0
  <2> SUFFICES ASSUME NEW i \in 1..(Len(timers) - n)
               PROVE  timers[n + i].left > 0
    BY <1>9, <1>10
  <2>1. n + 1 \in 1..Len(timers) /\ timers[n + 1].left > 0
    BY <1>1, <1>2
  <2>2. CASE i = 1
    BY <2>1, <2>2
  <2>3. CASE i # 1
    <3>1. n + 1 < n + i
      BY <1>2, <2>3
    <3>2. timers[n + 1].left <= timers[n + i].left
      BY <1>4, <1>11, <2>1, <3>1
    <3> QED BY <1>1, <1>11, <2>1, <3>2
  <2> QED BY <2>2, <2>3
<1>15. TimerProcs' \subseteq waiting_list'
  BY <1>4, <1>12
<1>16. TimersInv'
  BY <1>9, <1>13, <1>15 DEF TimersInv, TimersSorted
<1> QED BY <1>3, <1>7, <1>8, <1>12, <1>14, <1>16

\* Sleep: the new timer goes to its place, and the caller had none.
LEMMA TimersSleep ==
  ASSUME TimersInv, NEW p \in Procs, NEW c \in Int, p \notin waiting_list,
         timer_list' = TimerList_add(timer_list, [pcb |-> p, left |-> c]),
         waiting_list' = waiting_list \union {p}
  PROVE  TimersInv' /\ TimerProcs' = TimerProcs \union {p}
<1> DEFINE item == [pcb |-> p, left |-> c]
           n == TimersUpTo(timer_list, c)
           a == SubSeq(timer_list, 1, n)
           b == SubSeq(timer_list, n + 1, Len(timer_list))
           e == a \o <<item>>
<1>1. /\ timer_list \in Seq(Timer)
      /\ Len(timer_list) \in Nat
      /\ DOMAIN timer_list = 1..Len(timer_list)
      /\ item \in Timer
  BY LenProperties DEF TimersInv, Timer
<1>2. \A i \in 1..Len(timer_list) : timer_list[i] \in Timer /\ timer_list[i].left \in Int
  <2>1. \A i \in 1..Len(timer_list) : timer_list[i] \in Timer
    BY <1>1, ElementOfSeq
  <2> QED BY <2>1 DEF Timer
<1>3. /\ n \in 0..Len(timer_list)
      /\ \A i \in 1..n : timer_list[i].left <= c
      /\ n < Len(timer_list) => timer_list[n + 1].left > c
  BY <1>1, TimersUpToSplits
<1>4. /\ \A i, j \in 1..Len(timer_list) :
           i < j => /\ timer_list[i].left <= timer_list[j].left
                    /\ timer_list[i].pcb # timer_list[j].pcb
      /\ \A i \in 1..Len(timer_list) : timer_list[i].pcb # p
      /\ TimerProcs \subseteq waiting_list
  BY <1>1 DEF TimersInv, TimersSorted, TimerProcs
<1>5. timer_list' = e \o b
  <2>1. item.left = c
    OBVIOUS
  <2>2. TimerList_add(timer_list, item) = InsertAt(timer_list, n + 1, item)
    BY <2>1 DEF TimerList_add
  <2>3. (n + 1) - 1 = n
    BY <1>3
  <2>4. InsertAt(timer_list, n + 1, item)
          = SubSeq(timer_list, 1, (n + 1) - 1) \o <<item>> \o SubSeq(timer_list, n + 1, Len(timer_list))
    BY DEF InsertAt
  <2> HIDE DEF n
  <2> QED BY <2>2, <2>3, <2>4
<1>15. item.pcb = p /\ item.left = c
  OBVIOUS
<1> HIDE DEF n, item
<1>6. /\ a \in Seq(Timer)
      /\ Len(a) = n
      /\ \A i \in 1..n : a[i] = timer_list[i]
  <2>1. \A i \in 1..n : timer_list[i] \in Timer
    BY <1>1, <1>2, <1>3
  <2> QED BY <1>1, <1>3, <2>1, SubSeqProperties
<1>7. /\ b \in Seq(Timer)
      /\ Len(b) = Len(timer_list) - n
      /\ \A i \in 1..(Len(timer_list) - n) : b[i] = timer_list[n + i]
  <2>1. \A i \in (n + 1)..Len(timer_list) : timer_list[i] \in Timer
    BY <1>1, <1>2, <1>3
  <2>2. n + 1 \in Int /\ Len(timer_list) \in Int
    BY <1>1, <1>3
  <2>3. /\ b \in Seq(Timer)
        /\ Len(b) = IF n + 1 <= Len(timer_list) THEN Len(timer_list) - (n + 1) + 1 ELSE 0
        /\ \A i \in 1..(Len(timer_list) - (n + 1) + 1) : b[i] = timer_list[n + 1 + i - 1]
    BY <2>1, <2>2, SubSeqProperties
  <2> HIDE DEF b
  <2>4. Len(timer_list) - (n + 1) + 1 = Len(timer_list) - n
    BY <1>1, <1>3
  <2>5. \A i \in 1..(Len(timer_list) - n) : n + 1 + i - 1 = n + i
    BY <1>1, <1>3
  <2>6. \A i \in 1..(Len(timer_list) - n) : b[i] = timer_list[n + i]
    BY <2>3, <2>4, <2>5
  <2>7. Len(b) = Len(timer_list) - n
    <3>1. CASE n + 1 <= Len(timer_list)
      BY <2>3, <2>4, <3>1
    <3>2. CASE ~(n + 1 <= Len(timer_list))
      <4>1. n = Len(timer_list)
        <5>1. n \in Int /\ Len(timer_list) \in Int /\ n <= Len(timer_list)
          BY <1>1, <1>3
        <5> HIDE DEF a, e
        <5> QED BY <3>2, <5>1
      <4>2. Len(b) = 0
        BY <2>3, <3>2
      <4> QED BY <1>1, <4>1, <4>2
    <3> QED BY <3>1, <3>2
  <2> QED BY <2>3, <2>6, <2>7
<1> HIDE DEF a, b
<1>8. /\ e \in Seq(Timer)
      /\ Len(e) = n + 1
      /\ \A i \in 1..n : e[i] = timer_list[i]
      /\ e[n + 1] = item
  <2>1. Append(a, item) = e
    BY <1>1, <1>6, AppendIsConcat
  <2> QED BY <1>1, <1>3, <1>6, <2>1, AppendProperties
<1> HIDE DEF e
<1>9. /\ timer_list' \in Seq(Timer)
      /\ Len(timer_list') = Len(timer_list) + 1
      /\ DOMAIN timer_list' = 1..(Len(timer_list) + 1)
      /\ \A i \in 1..(Len(timer_list) + 1) :
           timer_list'[i] = IF i <= n + 1 THEN e[i] ELSE b[i - (n + 1)]
  <2> DEFINE tl == e \o b
  <2>1. /\ tl \in Seq(Timer)
        /\ Len(tl) = Len(e) + Len(b)
        /\ \A i \in 1..(Len(e) + Len(b)) : tl[i] = IF i <= Len(e) THEN e[i] ELSE b[i - Len(e)]
    BY <1>7, <1>8, ConcatProperties
  <2>3. timer_list' = tl
    BY <1>5
  <2> HIDE DEF tl
  <2>2. Len(e) + Len(b) = Len(timer_list) + 1
    BY <1>1, <1>3, <1>7, <1>8
  <2> QED BY <1>8, <2>1, <2>2, <2>3, LenProperties
<1>10. \A i \in 1..(Len(timer_list) + 1) :
         timer_list'[i] = IF i <= n THEN timer_list[i]
                          ELSE IF i = n + 1 THEN item ELSE timer_list[i - 1]
  <2> TAKE i \in 1..(Len(timer_list) + 1)
  <2>1. CASE i <= n
    BY <1>3, <1>8, <1>9, <2>1
  <2>2. CASE i = n + 1
    BY <1>3, <1>8, <1>9, <2>2
  <2>3. CASE i > n + 1
    <3>1. i - (n + 1) \in 1..(Len(timer_list) - n) /\ n + (i - (n + 1)) = i - 1
      BY <1>1, <1>3, <2>3
    <3>2. b[i - (n + 1)] = timer_list[i - 1]
      BY <1>7, <3>1
    <3> QED BY <1>3, <1>9, <2>3, <3>2
  <2> QED BY <1>3, <2>1, <2>2, <2>3
<1>12. \A i \in 1..Len(timer_list) : i > n => timer_list[i].left > c
  <2> SUFFICES ASSUME NEW i \in 1..Len(timer_list), i > n PROVE timer_list[i].left > c
    OBVIOUS
  <2>1. n + 1 \in 1..Len(timer_list) /\ timer_list[n + 1].left > c
    BY <1>1, <1>3
  <2>2. i = n + 1 \/ n + 1 < i
    BY <1>3
  <2>3. timer_list[n + 1].left <= timer_list[i].left
    BY <1>2, <1>4, <2>1, <2>2
  <2> QED BY <1>2, <2>1, <2>3
<1>13. \A i, j \in 1..(Len(timer_list) + 1) :
         i < j => /\ timer_list'[i].left <= timer_list'[j].left
                  /\ timer_list'[i].pcb # timer_list'[j].pcb
  <2> SUFFICES ASSUME NEW i \in 1..(Len(timer_list) + 1),
                      NEW j \in 1..(Len(timer_list) + 1), i < j
               PROVE  /\ timer_list'[i].left <= timer_list'[j].left
                      /\ timer_list'[i].pcb # timer_list'[j].pcb
    OBVIOUS
  <2>1. CASE j <= n
    <3>1. i \in 1..Len(timer_list) /\ j \in 1..Len(timer_list) /\ i <= n
      BY <1>1, <1>3, <2>1
    <3> QED BY <1>4, <1>10, <2>1, <3>1
  <2>2. CASE j = n + 1
    <3>1. i \in 1..n /\ i \in 1..Len(timer_list) /\ ~(j <= n)
      BY <1>1, <1>3, <2>2
    <3> QED BY <1>3, <1>4, <1>10, <1>15, <2>2, <3>1
  <2>3. CASE j > n + 1
    <3>1. j - 1 \in 1..Len(timer_list) /\ j - 1 > n /\ timer_list'[j] = timer_list[j - 1]
      BY <1>1, <1>3, <1>10, <2>3
    <3>2. CASE i <= n
      <4>1. i \in 1..Len(timer_list) /\ i < j - 1 /\ timer_list'[i] = timer_list[i]
        BY <1>1, <1>3, <1>10, <2>3, <3>2
      <4> QED BY <1>4, <3>1, <4>1
    <3>3. CASE i = n + 1
      <4>1. timer_list'[i] = item
        BY <1>3, <1>10, <3>3
      <4> QED BY <1>2, <1>4, <1>15, <1>12, <3>1, <4>1
    <3>4. CASE i > n + 1
      <4>1. i - 1 \in 1..Len(timer_list) /\ i - 1 < j - 1 /\ timer_list'[i] = timer_list[i - 1]
        BY <1>1, <1>3, <1>10, <3>4
      <4> QED BY <1>4, <3>1, <4>1
    <3> QED BY <1>3, <3>2, <3>3, <3>4
  <2> QED BY <1>3, <2>1, <2>2, <2>3
<1>14. TimerProcs' = TimerProcs \union {p}
  <2>1. /\ \A x : x \in TimerProcs <=> \E i \in 1..Len(timer_list) : timer_list[i].pcb = x
        /\ \A x : x \in TimerProcs' <=> \E i \in 1..(Len(timer_list) + 1) : timer_list'[i].pcb = x
    BY <1>1, <1>9 DEF TimerProcs
  <2>2. TimerProcs' \subseteq TimerProcs \union {p}
    <3> SUFFICES ASSUME NEW i \in 1..(Len(timer_list) + 1)
                 PROVE  timer_list'[i].pcb \in TimerProcs \union {p}
      BY <2>1
    <3>1. \/ i \in 1..Len(timer_list) /\ timer_list'[i] = timer_list[i]
          \/ timer_list'[i] = item
          \/ i - 1 \in 1..Len(timer_list) /\ timer_list'[i] = timer_list[i - 1]
      BY <1>1, <1>3, <1>10
    <3> QED BY <1>15, <2>1, <3>1
  <2>3. p \in TimerProcs'
    <3>1. n + 1 \in 1..(Len(timer_list) + 1) /\ timer_list'[n + 1] = item
      BY <1>1, <1>3, <1>10
    <3> QED BY <1>15, <2>1, <3>1
  <2>4. TimerProcs \subseteq TimerProcs'
    <3> SUFFICES ASSUME NEW i \in 1..Len(timer_list)
                 PROVE  timer_list[i].pcb \in TimerProcs'
      BY <2>1
    <3>1. CASE i <= n
      <4>1. i \in 1..(Len(timer_list) + 1) /\ timer_list'[i] = timer_list[i]
        BY <1>1, <1>10, <3>1
      <4> QED BY <2>1, <4>1
    <3>2. CASE i > n
      <4>1. i + 1 \in 1..(Len(timer_list) + 1) /\ timer_list'[i + 1] = timer_list[i]
        BY <1>1, <1>3, <1>10, <3>2
      <4> QED BY <2>1, <4>1
    <3> QED BY <1>3, <3>1, <3>2
  <2> QED BY <2>2, <2>3, <2>4
<1>16. TimerProcs' \subseteq waiting_list'
  BY <1>4, <1>14
<1>17. \A i, j \in DOMAIN timer_list' :
         i < j => /\ timer_list'[i].left <= timer_list'[j].left
                  /\ timer_list'[i].pcb # timer_list'[j].pcb
  BY <1>9, <1>13
<1>18. TimersInv'
  BY <1>9, <1>16, <1>17 DEF TimersInv, TimersSorted
<1> QED BY <1>14, <1>18

-----------------------------------------------------------------------------
(***************************************************************************)
(* The ready and waiting lists.                                            *)
(***************************************************************************)

\* The running process blocks and the first ready one runs, or nobody does.
LEMMA ListsBlock ==
  ASSUME ListsInv, running \in Procs, Block(running),
         RunNext \/ (ready_list = <<>> /\ running' = NULL /\ UNCHANGED ready_list)
  PROVE  /\ ListsInv'
         /\ waiting_list' = waiting_list \union {running}
         /\ ready_list # <<>> => running' \in Procs
<1>1. /\ waiting_list' = waiting_list \union {running}
      /\ status' = [status EXCEPT ![running] = "Waiting"]
  BY DEF Block
<1>2. /\ waiting_list' \subseteq Procs
      /\ status' \in [Procs -> {"Running", "Ready", "Waiting"}]
      /\ StatusMatchesLists'
  BY <1>1 DEF ListsInv, StatusMatchesLists
<1>3. CASE RunNext
  <2>1. ready_list # <<>> /\ running' = Head(ready_list) /\ ready_list' = Tail(ready_list)
    BY <1>3 DEF RunNext
  <2>2. /\ running' \in Procs
        /\ ready_list' \in Seq(Procs)
        /\ Range(ready_list) = Range(ready_list') \union {running'}
        /\ IsInjective(ready_list')
        /\ running' \notin Range(ready_list')
    BY <2>1, TailRange DEF ListsInv, OnOneList
  <2>3. OnOneList'
    BY <1>1, <2>2 DEF ListsInv, OnOneList
  <2> QED BY <1>1, <1>2, <2>1, <2>2, <2>3 DEF ListsInv
<1>4. CASE ready_list = <<>> /\ running' = NULL /\ UNCHANGED ready_list
  <2>1. Range(ready_list) = {}
    BY <1>4, EmptyRange
  <2>2. OnOneList'
    BY <1>1, <1>4, <2>1, SchedulerAssumption DEF ListsInv, OnOneList
  <2> QED BY <1>1, <1>2, <1>4, <2>2 DEF ListsInv
<1> QED BY <1>3, <1>4

\* Some blocked processes wake up, and the running process changes places
\* with the first ready one.
LEMMA ListsSchedule ==
  ASSUME ListsInv, running \in Procs, NEW timers, internal_schedule(timers),
         Woken(timers) \in Seq(Procs),
         IsInjective(Woken(timers)),
         Range(Woken(timers)) \subseteq waiting_list
  PROVE  ListsInv' /\ running' \in Procs
<1> DEFINE woken == Woken(timers)
           ready == woken \o ready_list
<1>1. /\ waiting_list' = waiting_list \ Range(woken)
      /\ \/ ready = <<>> /\ UNCHANGED <<running, ready_list, status>>
         \/ /\ ready # <<>>
            /\ running' = Head(ready)
            /\ ready_list' = Append(Tail(ready), running)
            /\ status' = [p \in Procs |->
                            IF p = Head(ready) THEN "Running"
                            ELSE IF p = running \/ p \in Range(woken) THEN "Ready"
                            ELSE status[p]]
  BY DEF internal_schedule, EnqueueReady
<1>2. woken \in Seq(Procs) /\ IsInjective(woken) /\ Range(woken) \subseteq waiting_list
  OBVIOUS
<1> HIDE DEF woken
<1>3. /\ ready \in Seq(Procs)
      /\ Range(ready) = Range(woken) \union Range(ready_list)
      /\ IsInjective(ready)
  BY <1>2, ConcatRange DEF ListsInv, OnOneList
<1> HIDE DEF ready
<1>4. CASE ready = <<>> /\ UNCHANGED <<running, ready_list, status>>
  <2>1. Range(woken) = {}
    BY <1>3, <1>4, EmptyRange
  <2>2. waiting_list' = waiting_list
    BY <1>1, <2>1
  <2>3. ListsInv'
    BY <1>4, <2>2 DEF ListsInv, OnOneList, StatusMatchesLists
  <2> QED BY <1>4, <2>3
<1>5. CASE /\ ready # <<>>
           /\ running' = Head(ready)
           /\ ready_list' = Append(Tail(ready), running)
           /\ status' = [p \in Procs |->
                           IF p = Head(ready) THEN "Running"
                           ELSE IF p = running \/ p \in Range(woken) THEN "Ready"
                           ELSE status[p]]
  <2>1. /\ Head(ready) \in Procs
        /\ Tail(ready) \in Seq(Procs)
        /\ Range(ready) = Range(Tail(ready)) \union {Head(ready)}
        /\ IsInjective(Tail(ready)) /\ Head(ready) \notin Range(Tail(ready))
    BY <1>3, <1>5, TailRange
  <2>2. running \notin Range(Tail(ready))
    BY <1>2, <1>3, <2>1 DEF ListsInv, OnOneList
  <2>3. /\ ready_list' \in Seq(Procs)
        /\ Range(ready_list') = Range(Tail(ready)) \union {running}
        /\ IsInjective(ready_list')
    <3> DEFINE rest == Tail(ready)
    <3>1. rest \in Seq(Procs) /\ IsInjective(rest) /\ running \notin Range(rest)
      BY <2>1, <2>2
    <3> HIDE DEF rest
    <3>2. /\ Append(rest, running) \in Seq(Procs)
          /\ Range(Append(rest, running)) = Range(rest) \union {running}
          /\ IsInjective(Append(rest, running))
      BY <3>1, AppendRange
    <3> QED BY <1>5, <3>2 DEF rest
  <2>4. OnOneList'
    BY <1>1, <1>2, <1>3, <1>5, <2>1, <2>3 DEF ListsInv, OnOneList
  <2>5. status' \in [Procs -> {"Running", "Ready", "Waiting"}]
    BY <1>5 DEF ListsInv
  <2>6. StatusMatchesLists'
    <3> SUFFICES ASSUME NEW p \in Procs
                 PROVE  p \in waiting_list' <=> status'[p] = "Waiting"
      BY DEF StatusMatchesLists
    <3>1. p \in waiting_list <=> status[p] = "Waiting"
      BY DEF ListsInv, StatusMatchesLists
    <3>2. running \notin waiting_list
      BY DEF ListsInv, OnOneList
    <3>3. p = Head(ready) => p \notin waiting_list'
      BY <1>1, <1>3, <2>1 DEF ListsInv, OnOneList
    <3> QED BY <1>1, <1>5, <3>1, <3>2, <3>3
  <2> QED BY <1>1, <1>5, <2>1, <2>3, <2>4, <2>5, <2>6 DEF ListsInv
<1> QED BY <1>1, <1>4, <1>5

-----------------------------------------------------------------------------
(***************************************************************************)
(* The steps of the scheduler.                                             *)
(***************************************************************************)

\* internal_schedule, called by the interrupt or by the process itself.
LEMMA ScheduleStep ==
  ASSUME ListsInv, TimersInv, running \in Procs, NEW timers, SameTimers(timers),
         internal_schedule(timers)
  PROVE  /\ ListsInv' /\ TimersInv'
         /\ running' \in Procs
         /\ \E W \in SUBSET TimerProcs : /\ waiting_list' = waiting_list \ W
                                         /\ TimerProcs' = TimerProcs \ W
         /\ \A i \in DOMAIN timer_list' : timer_list'[i].left > 0
<1>1. /\ timer_list' = SubSeq(timers, Len(Woken(timers)) + 1, Len(timers))
      /\ waiting_list' = waiting_list \ Range(Woken(timers))
  BY DEF internal_schedule
<1>2. /\ TimersInv'
      /\ Woken(timers) \in Seq(Procs)
      /\ IsInjective(Woken(timers))
      /\ Range(Woken(timers)) \subseteq TimerProcs
      /\ TimerProcs' = TimerProcs \ Range(Woken(timers))
      /\ \A i \in DOMAIN timer_list' : timer_list'[i].left > 0
  BY <1>1, TimersSchedule
<1>3. TimerProcs \subseteq waiting_list
  BY DEF TimersInv, TimersSorted
<1>4. ListsInv' /\ running' \in Procs
  BY <1>2, <1>3, ListsSchedule
<1> QED BY <1>1, <1>2, <1>4

\* The interrupt finds the timers one tick later, preempt finds them as they are.
LEMMA TimersNow ==
  ASSUME TimersInv
  PROVE  SameTimers(timer_list) /\ SameTimers(Ticked(timer_list))
<1>1. /\ timer_list \in Seq(Timer)
      /\ DOMAIN timer_list = 1..Len(timer_list)
      /\ \A i \in 1..Len(timer_list) : timer_list[i] \in Timer /\ timer_list[i].left \in Int
  <2>1. \A i \in 1..Len(timer_list) : timer_list[i] \in Timer
    BY ElementOfSeq DEF TimersInv
  <2> QED BY <2>1, LenProperties DEF TimersInv, Timer
<1>2. SameTimers(timer_list)
  BY <1>1 DEF SameTimers, TimersInv, TimersSorted
<1>3. /\ Ticked(timer_list) \in Seq(Timer)
      /\ Len(Ticked(timer_list)) = Len(timer_list)
      /\ \A i \in 1..Len(timer_list) :
           /\ Ticked(timer_list)[i].pcb = timer_list[i].pcb
           /\ Ticked(timer_list)[i].left = timer_list[i].left - 1
  BY <1>1, TickedType
<1>4. \A i, j \in 1..Len(timer_list) :
        i < j => Ticked(timer_list)[i].left <= Ticked(timer_list)[j].left
  <2> SUFFICES ASSUME NEW i \in 1..Len(timer_list), NEW j \in 1..Len(timer_list), i < j
               PROVE  timer_list[i].left - 1 <= timer_list[j].left - 1
    BY <1>3
  <2>1. timer_list[i].left <= timer_list[j].left
    BY <1>2 DEF SameTimers
  <2> QED BY <1>1, <2>1
<1> QED BY <1>2, <1>3, <1>4 DEF SameTimers

\* The invariant in its two parts and the rest of the types.
LEMMA SchedulerInvParts ==
  SchedulerInv <=> /\ ListsInv
                   /\ TimersInv
                   /\ syscall \in [Procs -> [num : SyscallNums, arg : Int]]
                   /\ syscall_retvalue \in [Procs -> Int]
                   /\ fault \in BOOLEAN
  BY DEF SchedulerInv, TypeOK, ListsInv, TimersInv

\* A system call is stored in the PCB with its number and its argument.
LEMMA SyscallType ==
  ASSUME syscall \in [Procs -> [num : SyscallNums, arg : Int]],
         NEW p, NEW num \in SyscallNums, NEW arg \in Int, Syscall(p, num, arg)
  PROVE  syscall' \in [Procs -> [num : SyscallNums, arg : Int]]
  BY DEF Syscall

\* Every step of the scheduler preserves the invariant, keeps each sleeper on
\* the waiting list and each blocked process that does not sleep where it is.
LEMMA SchedulerStep ==
  ASSUME SchedulerInv, Next
  PROVE  /\ SchedulerInv'
         /\ waiting_list' \ TimerProcs' = waiting_list \ TimerProcs
<1> USE SchedulerInvParts
<1>1. CASE TimerInterrupt
  <2>1. running \in Procs
    BY <1>1 DEF TimerInterrupt, ListsInv
  <2>2. internal_schedule(Ticked(timer_list))
    BY <1>1 DEF TimerInterrupt
  <2>3. SameTimers(Ticked(timer_list))
    BY TimersNow
  <2>4. UNCHANGED <<syscall, syscall_retvalue, fault>>
    BY <1>1 DEF TimerInterrupt
  <2>5. /\ ListsInv' /\ TimersInv'
        /\ \E W \in SUBSET TimerProcs : /\ waiting_list' = waiting_list \ W
                                        /\ TimerProcs' = TimerProcs \ W
    BY <2>1, <2>2, <2>3, ScheduleStep
  <2>6. SchedulerInv'
    BY <2>4, <2>5 DEF SchedulerInv, TypeOK, ListsInv, TimersInv
  <2> QED BY <2>5, <2>6
<1>2. CASE TimerInterruptNoProcess
  BY <1>2 DEF TimerInterruptNoProcess, Crash, schedVars, SchedulerInv, TypeOK, OnOneList,
              StatusMatchesLists, TimersSorted, TimerProcs
<1>3. ASSUME NEW p \in Procs \ Idle, Preempt(p)
      PROVE  /\ SchedulerInv'
             /\ waiting_list' \ TimerProcs' = waiting_list \ TimerProcs
  <2>1. /\ Syscall(p, "PREEMPT", 0)
        /\ running \in Procs
        /\ internal_schedule(timer_list)
        /\ UNCHANGED <<syscall_retvalue, fault>>
    BY <1>3 DEF Preempt, Syscall
  <2>2. SameTimers(timer_list)
    BY TimersNow
  <2>3. /\ ListsInv' /\ TimersInv'
        /\ \E W \in SUBSET TimerProcs : /\ waiting_list' = waiting_list \ W
                                        /\ TimerProcs' = TimerProcs \ W
    BY <2>1, <2>2, ScheduleStep
  <2>4. syscall' \in [Procs -> [num : SyscallNums, arg : Int]]
    <3>1. syscall \in [Procs -> [num : SyscallNums, arg : Int]]
      OBVIOUS
    <3>2. "PREEMPT" \in SyscallNums /\ 0 \in Int
      BY DEF SyscallNums
    <3> QED BY <2>1, <3>1, <3>2, SyscallType
  <2>5. SchedulerInv'
    BY <2>1, <2>3, <2>4 DEF SchedulerInv, TypeOK, ListsInv, TimersInv
  <2> QED BY <2>3, <2>5
<1>4. ASSUME NEW p \in Procs \ Idle, NEW c \in SleepTimes, Sleep(p, c)
      PROVE  /\ SchedulerInv'
             /\ waiting_list' \ TimerProcs' = waiting_list \ TimerProcs
  <2>1. /\ Syscall(p, "SLEEP", c)
        /\ running = p
        /\ timer_list' = TimerList_add(timer_list, [pcb |-> p, left |-> c])
        /\ Block(p)
        /\ RunNext \/ (ready_list = <<>> /\ running' = NULL /\ UNCHANGED ready_list)
        /\ UNCHANGED <<syscall_retvalue, fault>>
    BY <1>4 DEF Sleep, Syscall
  <2>2. ListsInv' /\ waiting_list' = waiting_list \union {p}
    BY <2>1, ListsBlock
  <2>3. p \notin waiting_list /\ c \in Int
    BY <2>1, SchedulerAssumption DEF ListsInv, OnOneList
  <2>4. TimersInv' /\ TimerProcs' = TimerProcs \union {p}
    BY <2>1, <2>2, <2>3, TimersSleep
  <2>5. syscall' \in [Procs -> [num : SyscallNums, arg : Int]]
    <3>1. syscall \in [Procs -> [num : SyscallNums, arg : Int]]
      OBVIOUS
    <3>2. "SLEEP" \in SyscallNums
      BY DEF SyscallNums
    <3> QED BY <2>1, <2>3, <3>1, <3>2, SyscallType
  <2>6. SchedulerInv'
    BY <2>1, <2>2, <2>4, <2>5 DEF SchedulerInv, TypeOK, ListsInv, TimersInv
  <2> QED BY <2>2, <2>3, <2>4, <2>6
<1>5. ASSUME NEW p \in Procs \ Idle, Return(p)
      PROVE  /\ SchedulerInv'
             /\ waiting_list' \ TimerProcs' = waiting_list \ TimerProcs
  <2>1. syscall' \in [Procs -> [num : SyscallNums, arg : Int]]
    BY <1>5 DEF Return, NoCall, SyscallNums
  <2>2. UNCHANGED <<running, ready_list, waiting_list, timer_list, status,
                    syscall_retvalue, fault>>
    BY <1>5 DEF Return, schedVars
  <2> QED BY <2>1, <2>2 DEF SchedulerInv, TypeOK, OnOneList, StatusMatchesLists,
                            TimersSorted, TimerProcs
<1> QED BY <1>1, <1>2, <1>3, <1>4, <1>5 DEF Next

\* With a process that never blocks there is always one to run.
SomeoneRuns ==
  /\ running \in Procs
  /\ Idle \intersect waiting_list = {}
  /\ ~fault

\* As long as that process does not run itself, it is ready.
LEMMA IdleIsReady ==
  ASSUME ListsInv, SomeoneRuns, Idle # {}, running \notin Idle
  PROVE  ready_list # <<>>
<1>1. PICK o \in Idle : o \in Procs
  BY SchedulerAssumption
<1>2. o \in Range(ready_list)
  BY <1>1 DEF ListsInv, OnOneList, SomeoneRuns
<1> QED BY <1>2, EmptyRange

\* A step of the scheduler leaves somebody to run.
LEMMA SomeoneRunsStep ==
  ASSUME SchedulerInv, SomeoneRuns, Idle # {}, Next
  PROVE  SomeoneRuns'
<1> USE SchedulerInvParts
<1>1. ASSUME NEW timers, SameTimers(timers), internal_schedule(timers)
      PROVE  running' \in Procs /\ Idle \intersect waiting_list' = {}
  BY <1>1, ScheduleStep DEF SomeoneRuns
<1>2. SameTimers(timer_list) /\ SameTimers(Ticked(timer_list))
  BY TimersNow
<1>3. CASE TimerInterrupt
  BY <1>1, <1>2, <1>3 DEF TimerInterrupt, SomeoneRuns
<1>4. CASE TimerInterruptNoProcess
  BY <1>4, SchedulerAssumption DEF TimerInterruptNoProcess, SomeoneRuns
<1>5. ASSUME NEW p \in Procs \ Idle, Preempt(p)
      PROVE  SomeoneRuns'
  BY <1>1, <1>2, <1>5 DEF Preempt, SomeoneRuns
<1>6. ASSUME NEW p \in Procs \ Idle, NEW c \in SleepTimes, Sleep(p, c)
      PROVE  SomeoneRuns'
  <2>1. /\ running = p
        /\ Block(p)
        /\ RunNext \/ (ready_list = <<>> /\ running' = NULL /\ UNCHANGED ready_list)
        /\ UNCHANGED fault
    BY <1>6 DEF Sleep, Syscall
  <2>2. ready_list # <<>>
    BY <2>1, IdleIsReady
  <2>3. running' \in Procs /\ waiting_list' = waiting_list \union {p}
    BY <2>1, <2>2, ListsBlock
  <2> QED BY <2>1, <2>3 DEF SomeoneRuns
<1>7. ASSUME NEW p \in Procs \ Idle, Return(p)
      PROVE  SomeoneRuns'
  BY <1>7 DEF Return, schedVars, SomeoneRuns
<1> QED BY <1>3, <1>4, <1>5, <1>6, <1>7 DEF Next

\* The first process runs, and the others are ready in some order.
LEMMA SchedulerInit == Init => SchedulerInv
<1> SUFFICES ASSUME Init PROVE SchedulerInv
  OBVIOUS
<1> DEFINE others == Procs \ {running}
           n == Cardinality(others)
<1>1. n \in Nat
  BY SchedulerAssumption, FS_Subset, FS_CardinalityType
<1> HIDE DEF n
<1>2. /\ ready_list \in [1..n -> others]
      /\ IsInjective(ready_list)
      /\ \A p \in others : \E i \in 1..n : ready_list[i] = p
  BY DEF Init, n, Bijection, Injection, Surjection
<1>3. ready_list \in Seq(Procs) /\ Len(ready_list) = n
  <2>1. ready_list \in [1..n -> Procs]
    BY <1>2
  <2>2. ready_list \in Seq(Procs)
    BY <1>1, <2>1, SeqDef
  <2> QED BY <1>1, <2>1, <2>2, LenProperties
<1>4. Range(ready_list) = others
  BY <1>2, <1>3, RangeOf
<1>5. TypeOK
  <2>1. /\ running \in Procs
        /\ waiting_list = {}
        /\ timer_list = <<>>
        /\ status = [p \in Procs |-> IF p = running THEN "Running" ELSE "Ready"]
        /\ syscall = [p \in Procs |-> NoCall]
        /\ syscall_retvalue = [p \in Procs |-> 0]
        /\ fault = FALSE
    BY DEF Init
  <2>2. NoCall \in [num : SyscallNums, arg : Int]
    BY DEF NoCall, SyscallNums
  <2>3. timer_list \in Seq(Timer)
    BY <2>1, EmptySeq
  <2>4. status \in [Procs -> {"Running", "Ready", "Waiting"}]
    BY <2>1
  <2>5. syscall \in [Procs -> [num : SyscallNums, arg : Int]]
    BY <2>1, <2>2
  <2>6. syscall_retvalue \in [Procs -> Int]
    BY <2>1
  <2>7. running \in Procs /\ waiting_list = {} /\ fault = FALSE
    BY <2>1
  <2> QED BY <1>3, <2>3, <2>4, <2>5, <2>6, <2>7 DEF TypeOK
<1>6. OnOneList /\ StatusMatchesLists /\ TimersSorted
  BY <1>2, <1>4 DEF Init, OnOneList, StatusMatchesLists, TimersSorted, TimerProcs
<1> QED BY <1>5, <1>6 DEF SchedulerInv

-----------------------------------------------------------------------------
(***************************************************************************)
(* The theorems.                                                           *)
(***************************************************************************)

\* The inductive invariant holds in every state of the scheduler.
THEOREM SchedulerInvariant == Spec => []SchedulerInv
<1>1. SchedulerInv /\ [Next]_vars => SchedulerInv'
  <2>1. SchedulerInv /\ UNCHANGED vars => SchedulerInv'
    BY DEF vars, SchedulerInv, TypeOK, OnOneList, StatusMatchesLists, TimersSorted, TimerProcs
  <2> QED BY <2>1, SchedulerStep
<1> QED BY <1>1, SchedulerInit, PTL DEF Spec

\* No handler of the scheduler breaks a type: the lists hold processes only,
\* and never the null process.
THEOREM SchedulerTypeOK == Spec => []TypeOK
  BY SchedulerInvariant, PTL DEF SchedulerInv

\* No process is lost or queued twice.
THEOREM SchedulerLists == Spec => []OnOneList
  BY SchedulerInvariant, PTL DEF SchedulerInv

\* The status of a process says whether it is on the waiting list.
THEOREM SchedulerStatus == Spec => []StatusMatchesLists
  BY SchedulerInvariant, PTL DEF SchedulerInv

\* The timers stay in the order in which internal_schedule expects them.
THEOREM SchedulerTimers == Spec => []TimersSorted
  BY SchedulerInvariant, PTL DEF SchedulerInv

\* Nobody oversleeps: after an interrupt no elapsed timer is left.
THEOREM SchedulerWakesOnTime == Spec => WokenOnTime
<1> DEFINE OnTime == TimerInterrupt => \A i \in DOMAIN timer_list' : timer_list'[i].left > 0
<1>1. SchedulerInv => OnTime
  <2> SUFFICES ASSUME SchedulerInv, TimerInterrupt
               PROVE  \A i \in DOMAIN timer_list' : timer_list'[i].left > 0
    OBVIOUS
  <2>1. ListsInv /\ TimersInv
    BY SchedulerInvParts
  <2>2. running \in Procs /\ internal_schedule(Ticked(timer_list))
    BY <2>1 DEF TimerInterrupt, ListsInv
  <2> QED BY <2>1, <2>2, TimersNow, ScheduleStep
<1> QED BY <1>1, SchedulerInvariant, PTL DEF Spec, WokenOnTime

\* The test program spawns sleeperFunction: with one process that makes no call
\* the cpu always has a process to run, and the timer handler never meets the
\* null one.
THEOREM SchedulerAlwaysRuns ==
  ASSUME Idle # {}
  PROVE  Spec => [](running \in Procs /\ ~fault)
<1>1. Init => SomeoneRuns
  BY DEF Init, SomeoneRuns
<1>2. SchedulerInv /\ SomeoneRuns /\ [Next]_vars => SomeoneRuns'
  <2>1. SomeoneRuns /\ UNCHANGED vars => SomeoneRuns'
    BY DEF SomeoneRuns, vars
  <2> QED BY <2>1, SomeoneRunsStep
<1>3. SomeoneRuns => running \in Procs /\ ~fault
  BY DEF SomeoneRuns
<1> QED BY <1>1, <1>2, <1>3, SchedulerInvariant, PTL DEF Spec

=============================================================================
