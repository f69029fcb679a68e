SPECIFICATION Spec
CONSTANTS
  Event <- MCEvent
  LongEvent <- MCLong
  Stream <- MCStream
  StreamOf <- MCStreamOf
  MonotonicNs <- MCMonotonicNs
  Batches <- MCBatches
  Modes <- MCAlwaysModes
  FsyncEvery = 2
  IoFaults = TRUE
  BufferPieces = 3
  MaxPieces = 6
  MaxSessions = 2
INVARIANT
  NoReturnedEventLost
