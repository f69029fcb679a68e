CONSTANTS
  Dialogues <- Early
  MaxHeader = 8
  MaxChunkLine = 3
  MaxTrailer = 5
  MaxBody = 2
  MaxPending = 2
SPECIFICATION Spec
CHECK_DEADLOCK FALSE
INVARIANTS
  PairedRight
