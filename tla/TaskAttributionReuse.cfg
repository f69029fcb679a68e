SPECIFICATION Spec
CONSTANTS
  Pids = {1, 2}
  MaxProcs = 4
  MaxShared = 1
  MaxEvents = 3
  MaxCandidates = 8
  Setups <- MCSetups
INVARIANTS
  EveryRecordingAnswered
CHECK_DEADLOCK FALSE
