SPECIFICATION Spec
CONSTANTS
  Callers = {c1, c2}
  Keys = {k1}
  EmptyKey = None
  None = None
  MaxCached = 1
  Retriever = FALSE
  MayInvalidate = TRUE
PROPERTIES
  MissForcesRefresh
CHECK_DEADLOCK FALSE
