SPECIFICATION Spec
CONSTANTS
  r1 = r1
  w1 = w1
  u1 = u1
  NoCall = NoCall
  Reads <- OneRead
  Writes <- Nothing
  Unlisted <- Nothing
  ReadOnly = FALSE
  MaxRetries = 1
\* every call returns once and the goroutines stop
CHECK_DEADLOCK FALSE
INVARIANT
  UnauthorizedAfterRefresh
