\* Four processes, with the interval timer on: all of them may be asleep at one time.
SPECIFICATION FairSpec
CONSTANTS
  p1 = p1
  p2 = p2
  p3 = p3
  p4 = p4
  NULL = NULL
  Procs <- MCProcs
  Idle = {}
  SleepTimes <- MCSleepTimes
INVARIANTS
  TypeOK
  OnOneList
  StatusMatchesLists
  TimersSorted
PROPERTIES
  WokenOnTime
  ReadyRuns
  SleeperRuns
\* The system stops for good after a null pointer.
CHECK_DEADLOCK FALSE
