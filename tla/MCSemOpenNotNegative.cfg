\* A process that exits with an open semaphore, and the next one in its PCB.
SPECIFICATION KernelSpec
CONSTANTS
  p0 = p0
  p1 = p1
  p2 = p2
  d1 = d1
  d2 = d2
  r1 = r1
  r2 = r2
  f1 = f1
  f2 = f2
  NULL = NULL
  Procs <- MCProcs
  Idle = {}
  SleepTimes = {}
  WaitPids <- MCAnyChild
  MaxPid = 3
  SemIds <- MCOne
  OpenIds <- MCOne
  InitCounts <- MCZero
  Fds <- MCFds
  Descs <- MCSemDescs
  MaxSemaphores = 1
  MaxCount = 0
  ResIds <- MCResIds
  ResTypes = {}
  Modes = {}
  ResFds = {}
  ResDescs <- MCResDescs
  MaxResources = 1
PROPERTIES
  SemOpenNotNegative
\* The system stops for good after a null pointer.
CHECK_DEADLOCK FALSE
