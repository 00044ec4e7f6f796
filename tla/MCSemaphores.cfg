\* Three processes, three ids and a wrong one, two semaphores at once, counters of 0 and below.
SPECIFICATION SemSpec
CONSTANTS
  p1 = p1
  p2 = p2
  p3 = p3
  idle = idle
  d1 = d1
  d2 = d2
  d3 = d3
  NULL = NULL
  Procs <- MCThree
  Idle = {}
  SleepTimes <- MCOneTick
  SemIds <- MCThreeSems
  OpenIds <- MCThreeSemsAndWrong
  InitCounts <- MCNegative
  Fds <- MCFds
  Descs <- MCDescs3
  MaxSemaphores = 2
  MaxCount = 1
SYMMETRY MCSymmetry
VIEW MCView
INVARIANTS
  SemTypeOK
  OnOneList
  StatusMatchesLists
  DescriptorsConsistent
  FdsCounted
  WaitersWithinCount
  BlockedOnce
PROPERTIES
  Implements
\* The system stops for good after a null pointer.
CHECK_DEADLOCK FALSE
