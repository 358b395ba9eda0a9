SPECIFICATION Spec
CONSTANTS
  json = json
  raw = raw
  Calls = {json, raw}
  RawCalls = {raw}
  MaxRetries = 1
  Limited = TRUE
INVARIANTS TimeoutsThrow
