CONSTANTS
  Requests = {r1, r2}
  KeyLimits <- TwoLimits
  Defaults <- TPMDefault
  Estimates = {3}
  Usages = {1, 4}
  Minute = 2
  IdleTimeout = 2
  Marks = {2, 3}
  MaxTime = 4
  MaxLimiters = 2
SYMMETRY Symmetry
SPECIFICATION Spec
INVARIANTS
  RateBound
  RetryAfterHonest
PROPERTIES
  EvictsOnlyFull
  ReplacesOnlyChanged
CHECK_DEADLOCK FALSE
