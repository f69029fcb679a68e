SPECIFICATION FairSpec
CONSTANTS
  t1 = t1
  t2 = t2
  t3 = t3
  p = p
  q = q
  NoOne = NoOne
  Thread <- MCThread
  Process <- MCProcess
  ProcessOf <- MCProcessOf
INVARIANTS
  SoleWriter NothingLeaked
PROPERTIES
  ReleaseCompletes
