\* Two writers and two readers, six values through two cells.
SPECIFICATION ClientSpec
CONSTANTS
  NULL = NULL
  Procs <- MCPids
  SemIds <- MCSemIds
  Handles <- MCHandles
  InitCounts <- MCInitCounts
  BUFFER_LENGTH = 2
  ITERATION = 3
INVARIANTS
  MutualExclusion
  InOrder
  UnitsConserved
PROPERTIES
  AllFinish
\* The program ends.
CHECK_DEADLOCK FALSE
