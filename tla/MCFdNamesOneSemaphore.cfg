\* Closing and opening again.
SPECIFICATION SemSpec
CONSTANTS
  p1 = p1
  p2 = p2
  p3 = p3
  idle = idle
  d1 = d1
  d2 = d2
  d3 = d3
  NULL = NULL
  Procs <- MCTwo
  Idle = {}
  SleepTimes = {}
  SemIds <- MCTwoSems
  OpenIds <- MCTwoSems
  InitCounts <- MCZero
  Fds <- MCFds
  Descs <- MCDescs3
  MaxSemaphores = 2
  MaxCount = 1
INVARIANTS
  FdNamesOneSemaphore
\* The system stops for good after a null pointer.
CHECK_DEADLOCK FALSE
