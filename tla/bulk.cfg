SPECIFICATION Spec
CONSTANTS
  Chars <- MCChars
  Wide <- MCWide
  Blank <- MCBlank
  NL <- MCNL
  Junk = Junk
  IsJson <- MCIsJson
  Exports <- MCExports
  PollInterval = 2
  MaxWait = 5
INVARIANTS
  YieldsAreExported
  DoneIsComplete
  NoStreamLeaks
  PollingIsBounded
CHECK_DEADLOCK FALSE
