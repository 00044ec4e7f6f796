\* Three PCBs, that are used again, and the start of the system over its old lists, one semaphore and one resource.
SPECIFICATION KernelSpec
CONSTANTS
  p0 = p0
  p1 = p1
  p2 = p2
  d1 = d1
  d2 = d2
  r1 = r1
  r2 = r2
  f1 = f1
  f2 = f2
  NULL = NULL
  Procs <- MCProcs
  Idle = {}
  SleepTimes <- MCOneTick
  WaitPids <- MCAnyChild
  MaxPid = 3
  SemIds <- MCOne
  OpenIds <- MCOne
  InitCounts <- MCZero
  Fds <- MCFds
  Descs <- MCSemDescs
  MaxSemaphores = 1
  MaxCount = 0
  ResIds <- MCResIds
  ResTypes <- MCZero
  Modes <- MCModes
  ResFds <- MCFds
  ResDescs <- MCResDescs
  MaxResources = 1
SYMMETRY MCSymmetry
VIEW MCView
CONSTRAINT MCFewOpen
INVARIANTS
  OnePlaceEach
  BlockedForOneReason
  DescriptorsConsistent
  ResourcesConsistent
  NumbersDistinct
PROPERTIES
  LostOnlyByReuse
\* The system stops for good after a null pointer.
CHECK_DEADLOCK FALSE
