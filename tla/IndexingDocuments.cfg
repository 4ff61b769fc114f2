SPECIFICATION FairSpec
CONSTANTS
  d1 = d1
  d2 = d2
  None = None
  Docs = {d1, d2}
  Presets = {"a", "b"}
  ChunkShape <- Shape
  DefaultPreset = "a"
  DeleteDocs = {d1, d2}
  ChatDocs = {d1}
  MaxJobs = 1
  MaxCrashes = 1
  MaxFaults = 1
  MaxOutages = 0
INVARIANTS RowsMatchMetadata VersionAgreement IndexedByOneThread PathHasFile NoOrphanFiles
PROPERTIES DocumentsSettle
CHECK_DEADLOCK FALSE
