SPECIFICATION FairSpec
CONSTANTS
  Requests = {r1, r2, r3}
  None = None
  MaxRequests = 1
  IntervalMs = 2
  MaxQueue = 2
  MaxQueueWaitMs = 2
  WarnAt = 1
  HooksMayThrow = FALSE
  MaxDepth = 2
  MaxSkew = 1
  MaxLate = 1
  LastArrival = 2
  MaxTime = 10
INVARIANTS
  NoLostWakeup
  WorkIsWanted
PROPERTIES
  EveryCallSettles
  AdmissionSpec
