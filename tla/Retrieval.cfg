SPECIFICATION DocumentSpec
CONSTANTS
  None = None
  Place <- FourChunks
  Scale = 7624512
  MaxAdjacent = 2
  MaxAdjacentChars = 3
  MaxMerged = 3
  MaxMergedChars = 3
  Algorithms = {"keyword", "hybrid"}
  Texts = {"p", "q", "r", "s"}
  RawPlans <- Plans
  MaxQueries = 4
  MaxGoals = 2
  MaxPerGoal = 2
  TopK = 1
  MaxActions = 2
  Found <- FoundLists
  MaxChanges = 1
  ChunkSize = 3
  ChunkOverlap = 1
  Documents <- SomeDocuments
INVARIANTS FusionRespectsRanks GoalsAreServed ContextIsSound StretchesSurvive ReadingOrder
PROPERTIES RequestAdvances
