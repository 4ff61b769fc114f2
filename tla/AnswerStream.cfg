SPECIFICATION FairSpec
CONSTANTS
  None = None
  Separator = 1
  Metadata = 1
  MinContent = 2
  Alphabet = {"[[", "NS", "u", "v", "c2", "r"}
  MaxTokens = 3
  MaxDelta = 2
  Replies <- SomeReplies
  Questions <- SomeQuestions
  Retrieved <- ThreeChunks
  Evidence = {3}
  Budgets <- ThreeBudgets
  MaxExcerpts = 3
INVARIANTS DoneShowsStored OneAttemptSpeaks MarkerIsHeld SourcesWereShown
PROPERTIES AnswerEnds
CHECK_DEADLOCK FALSE
