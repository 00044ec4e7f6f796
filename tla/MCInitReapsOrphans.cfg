\* A process whose own parent has exited exits while init waits.
SPECIFICATION ProcSpec
CONSTANTS
  p0 = p0
  p1 = p1
  p2 = p2
  p3 = p3
  NULL = NULL
  Procs <- MCProcs
  Idle = {}
  SleepTimes = {}
  WaitPids <- MCWaitPids
  MaxPid = 5
INVARIANTS
  InitReapsOrphans
\* The system stops for good after a null pointer.
CHECK_DEADLOCK FALSE
