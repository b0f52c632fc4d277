SPECIFICATION FairSpec
CONSTANTS
  r1 = r1
  w1 = w1
  u1 = u1
  NoCall = NoCall
  Reads <- OneRead
  Writes <- OneWrite
  Unlisted <- OneUnlisted
  ReadOnly = FALSE
  MaxRetries = 2
\* every call returns once and the goroutines stop
CHECK_DEADLOCK FALSE
INVARIANTS
  AttemptsBounded
  RejectedTokenNotReused
  TokensAccounted
  WriteAppliedOnce
PROPERTIES
  CallsReturn
  ImplementsContract
