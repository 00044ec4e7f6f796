\* Three processes share a semaphore that all have opened, beside one that never blocks.
SPECIFICATION MCOpenedSpec
CONSTANTS
  p1 = p1
  p2 = p2
  p3 = p3
  idle = idle
  d1 = d1
  d2 = d2
  d3 = d3
  NULL = NULL
  Procs <- MCThreeWithIdle
  Idle <- MCIdle
  SleepTimes <- MCOneTick
  SemIds <- MCOneSem
  OpenIds = {}
  InitCounts <- MCZero
  Fds <- MCFd0
  Descs <- MCDescs3
  MaxSemaphores = 1
  MaxCount = 1
INVARIANTS
  CountMatchesWaiters
  NoFault
PROPERTIES
  WaiterServed
