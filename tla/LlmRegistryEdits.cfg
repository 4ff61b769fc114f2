SPECIFICATION FairSpec
CONSTANTS
  p1 = p1
  p2 = p2
  t1 = t1
  t2 = t2
  None = None
  Broken = Broken
  Procs = {p1, p2}
  Threads = {t1, t2}
  ProcOf <- TwoProcs
  Keys = {"a", "b"}
  FirstContent <- Mixed
  Ops <- Apart
  Edits <- Backup
  Choices = {"b"}
  MaxRequests = 1
  MaxSubmits = 2
  MaxEdits = 1
  MaxKeyLosses = 0
  MaxCrashes = 1
PROPERTIES EditsAreNotLost RequestsFinish
CHECK_DEADLOCK FALSE
