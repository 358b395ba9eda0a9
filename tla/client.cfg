SPECIFICATION FairSpec
CONSTANTS
  Calls = {c1, d1}
  Inner = {i1, i2}
  Downloads = {d1}
  Closes = {k1, k2}
  ThrowingCallbacks = TRUE
INVARIANTS
  ReturnedMeansClosed
  NoSelfWait
PROPERTIES
  EveryCallSettles
CHECK_DEADLOCK FALSE
