CONSTANTS
  Chars <- MCChars
  MaxLen = 2
  Objs <- MCObjs
  Value <- MCValue
  Threads = {t1, t2}
  MaxCalls = 2
  Starts <- MCStarts
  SearchChars <- MCSearchChars
  Bytes <- MCBytes
  HighBytes <- MCHighBytes
  DebugBuild = TRUE
SPECIFICATION Spec
CHECK_DEADLOCK FALSE
INVARIANTS TypeOK HashReturned CompareToSound IndexOfSound EqualsSound DecodeSound CopySound DcheckOnlyOnRace
