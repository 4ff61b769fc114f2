SPECIFICATION FairSpec
CONSTANTS
  d1 = d1
  None = None
  Docs = {d1}
  Loops = {1, 2}
  Loads = {1}
  MaxRebuilds = 1
INVARIANTS ActiveIsPolled
PROPERTIES ActiveIsRefreshed PollingEnds
CHECK_DEADLOCK FALSE
