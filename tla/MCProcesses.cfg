\* init and three more PCBs, which four processes use one after the other.
SPECIFICATION ProcSpec
CONSTANTS
  p0 = p0
  p1 = p1
  p2 = p2
  p3 = p3
  NULL = NULL
  Procs <- MCProcs
  Idle = {}
  SleepTimes = {}
  WaitPids <- MCWaitPids
  MaxPid = 5
SYMMETRY MCSymmetry
INVARIANTS
  OnePlaceEach
  OneOwnerEach
  NoWaitForZombie
  WaitCanEnd
  StatusMatchesLists
PROPERTIES
  ReapedByOwner
\* The system stops for good after a null pointer.
CHECK_DEADLOCK FALSE
