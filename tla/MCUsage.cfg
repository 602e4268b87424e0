CONSTANTS
  Requests = {r1, r2}
  ChanSize = 1
  BatchSize = 2
  Budget = 2
  Faults = {"crash", "store", "shutdown", "listen"}
  MaxRestarts = 1
SPECIFICATION FairSpec
INVARIANTS
  NeverOvercharged
  
PROPERTIES
  ImplementsLedger
  RecordsMoveOn
  TrackerCatchesUp
  StopsAfterSignal
CHECK_DEADLOCK FALSE
