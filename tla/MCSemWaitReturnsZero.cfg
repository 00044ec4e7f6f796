\* The return value of a process that waited.
SPECIFICATION SemSpec
CONSTANTS
  p1 = p1
  p2 = p2
  p3 = p3
  idle = idle
  d1 = d1
  d2 = d2
  d3 = d3
  NULL = NULL
  Procs <- MCTwoWithIdle
  Idle <- MCIdle
  SleepTimes = {}
  SemIds <- MCOneSem
  OpenIds <- MCOneSem
  InitCounts <- MCZero
  Fds <- MCFd0
  Descs <- MCDescs3
  MaxSemaphores = 1
  MaxCount = 1
PROPERTIES
  SemWaitReturnsZero
