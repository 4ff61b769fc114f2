SPECIFICATION FairSpec
CONSTANTS
  r1 = r1
  r2 = r2
  r3 = r3
  k1 = k1
  None = None
  Requests = {r1, r2}
  Deleters = {k1}
  MaxSessions = 2
  MaxContextMessages = 8
  MaxFaults = 1
  MaxCrashes = 1
INVARIANTS SessionsHoldExchanges OutcomeIsStored ContextHasEarlierAnswers
PROPERTIES CleanupKeepsAnswers RequestsEnd
CHECK_DEADLOCK FALSE
