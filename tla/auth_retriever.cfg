SPECIFICATION FairSpec
CONSTANTS
  Callers = {c1, c2}
  Keys = {k1, k2}
  EmptyKey = None
  None = None
  MaxCached = 1
  Retriever = TRUE
  MayInvalidate = TRUE
INVARIANTS
  TokensStayWithTheirKey
PROPERTIES
  NoRefreshAfterClose
  EveryCallReturns
CHECK_DEADLOCK FALSE
