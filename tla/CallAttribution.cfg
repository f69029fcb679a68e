SPECIFICATION Spec
CONSTANTS
  Procs <- MCProcs
  PidOf <- DistinctPids
  Calls <- MCCalls
  ProcOf <- MCCallProcs
  ConnOf <- MCConnOf
  LogicalOf <- MCLogicalOf
  ToolOf <- MCToolOf
  Paths = {1}
  Shapes <- MCShapes
  Offsets = {0, 2}
  MaxTime = 2
  MaxCalls = 2
  MaxWrites = 2
  Window = 0
  MaxCandidates = 2
INVARIANTS
  CertainMarkerTrue
  TrueCallIsCandidate
  WrongCallIsDoubted
CHECK_DEADLOCK FALSE
