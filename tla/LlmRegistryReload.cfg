SPECIFICATION Spec
CONSTANTS
  p1 = p1
  p2 = p2
  t1 = t1
  t2 = t2
  None = None
  Broken = Broken
  Procs = {p1}
  Threads = {t1, t2}
  ProcOf <- OneProc
  Keys = {"a", "b"}
  FirstContent <- Solo
  Ops <- Rotations
  Edits <- HandEdits
  Choices = {"b"}
  MaxRequests = 2
  MaxSubmits = 1
  MaxEdits = 2
  MaxKeyLosses = 1
  MaxCrashes = 1
INVARIANTS ServesTheFile StaleOnlyIfMissed
PROPERTIES SnapshotsMoveForward
CHECK_DEADLOCK FALSE
