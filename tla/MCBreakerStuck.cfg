CONSTANTS
  Requests = {r1, r2}
  Errors <- AllErrors
  Size = 1
  MinSamples = 1
  ThresholdNum = 1
  ThresholdDen = 2
  OpenTimeout = 1
  TicksPerSec = 1
  IdleTimeout = 9
  MaxLag = 1
  MaxTime = 4
  MaxBreakers = 1
  MaxSamples = 3
SPECIFICATION FairSpec
PROPERTIES
  ProbeResolves
CHECK_DEADLOCK FALSE
