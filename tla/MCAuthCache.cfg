CONSTANTS
  Requests = {r1, r2}
  Admins = {a1, a2}
  Limits = {1}
  Expiries = {2, 4}
  TTL = 2
  MaxLag = 1
  MaxTime = 4
  MaxVersions = 3
SYMMETRY Symmetry
SPECIFICATION Spec
INVARIANTS
  BoundedStaleness
  StaleOnlyByRace

  
CHECK_DEADLOCK FALSE
