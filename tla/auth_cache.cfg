SPECIFICATION Spec
CONSTANTS
  Callers = {c1, c2, c3}
  Keys = {k1, k2, k3}
  EmptyKey = k3
  None = None
  MaxCached = 1
  Retriever = FALSE
  MayInvalidate = TRUE
SYMMETRY Symmetric
INVARIANTS
  OrderMatchesCache
  CacheBounded
  SingleFlight
  PromisesAreInFlight
  RequestsAreStoppable
PROPERTIES
  NewestTokenStays
CHECK_DEADLOCK FALSE
