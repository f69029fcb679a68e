SPECIFICATION LossSpec
CONSTANTS
  t1 = t1
  t2 = t2
  Counter <- MCCounter
  Thread <- MCThread
  Stream <- MCStream
  Event <- MCEvent
  Batches <- MCBatches
  IssueLists <- MCIssueLists
  Losses <- MCLosses
  MaxObserved = 4
SYMMETRY MCSymmetry
INVARIANTS
  NoGapUncounted OvercountIsRegressions
