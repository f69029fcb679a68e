SPECIFICATION Spec
CONSTANTS
  Pids = {1, 2}
  MaxProcs = 4
  MaxShared = 1
  MaxEvents = 3
  MaxCandidates = 2
  Setups <- MCSetups
INVARIANTS
  CertainIsTrue
  TracedIsCertain
  CertaintyIsStable
CHECK_DEADLOCK FALSE
