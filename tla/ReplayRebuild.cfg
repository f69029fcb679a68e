SPECIFICATION Spec
CONSTANTS
  a1 = a1
  a2 = a2
  b = b
  p1 = p1
  p2 = p2
  Bad = Bad
  Version <- MCVersion
  Id <- MCId
  IdOf <- MCIdOf
  Poison <- MCPoison
  Batches <- MCBatches
  Proc <- MCProc
  MaxLines = 2
  MaxCommits = 1
SYMMETRY MCSymmetry
INVARIANT
  RebuildPossible
