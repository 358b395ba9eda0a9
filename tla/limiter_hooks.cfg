SPECIFICATION Spec
CONSTANTS
  Requests = {r1, r2, r3, r4}
  None = None
  MaxRequests = 2
  IntervalMs = 2
  MaxQueue = 2
  MaxQueueWaitMs = 1
  WarnAt = 2
  HooksMayThrow = TRUE
  MaxDepth = 2
  MaxSkew = 1
  MaxLate = 0
  LastArrival = 3
  MaxTime = 5
SYMMETRY Symmetric
INVARIANTS
  RateLimited
  ClosedIsQuiescent
CHECK_DEADLOCK FALSE
