SPECIFICATION Spec
CONSTANTS
  Procs <- MCProcs
  PidOf <- SamePid
  Calls <- MCCalls
  ProcOf <- MCCallProcs
  ConnOf <- MCConnOf
  LogicalOf <- MCLogicalOf
  ToolOf <- MCToolOf
  Paths = {1}
  Shapes <- MCShapes
  Offsets = {0, 2}
  MaxTime = 3
  MaxCalls = 2
  MaxWrites = 1
  Window = 1
  MaxCandidates = 2
INVARIANTS
  CertainOfItsProcess
CHECK_DEADLOCK FALSE
