SPECIFICATION FairSpec
CONSTANTS
  d1 = d1
  d2 = d2
  None = None
  Docs = {d1}
  Presets = {"a", "b", "c"}
  ChunkShape <- Shape
  DefaultPreset = "a"
  DeleteDocs = {d1}
  ChatDocs = {}
  MaxJobs = 3
  MaxCrashes = 1
  MaxFaults = 1
  MaxOutages = 1
INVARIANTS WindowHasOneOwner
PROPERTIES ImplementsWindow WindowCloses
CHECK_DEADLOCK FALSE
