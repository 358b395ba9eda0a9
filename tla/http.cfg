SPECIFICATION FairSpec
CONSTANTS
  json = json
  raw = raw
  Calls = {json, raw}
  RawCalls = {raw}
  MaxRetries = 1
  Limited = TRUE
INVARIANTS RequestsAreStoppable RetriesAreUsedUp
PROPERTIES RetryingSpec EveryRequestSettles CloseEndsWork
