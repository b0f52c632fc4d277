SPECIFICATION UtilitiesSpec
CONSTANTS
  Millisecond = 4
  Width = 2097152
  MaxRetries = 4
  RetryAfters <- SomeAfters
  Resets <- SomeResets
  Lifetimes <- SomeLifetimes
  Timeout = 2
  Margin = 2
  NoLifetime = 5
  MaxTime = 9
  Numbers <- SomeNumbers
  Bounds <- Defaults
  Unset = Unset
  Junk = Junk
  Products = {p1, p2}
  Ops = {o1, o2}
  ConfigLike = {o1}
  Titles = {"old", "new"}
  Absent = Absent
  NoRun = NoRun
  MaxChanges = 3
SYMMETRY Symmetry
INVARIANTS SleepBounded AdviceFollowed SentWhileValid CachedWhileValid
INVARIANTS PlainOnlyToLoopback WritesOnlyOnRequest LimitsUsable
INVARIANTS PassMeansCurrent PassMeansCovered NothingPassesUnseen
CHECK_DEADLOCK FALSE
