CONSTANTS
  Requests = {r1, r2}
  Errors <- Faults
  Size = 2
  MinSamples = 2
  ThresholdNum = 1
  ThresholdDen = 2
  OpenTimeout = 2
  TicksPerSec = 1
  IdleTimeout = 3
  MaxLag = 1
  MaxTime = 6
  MaxBreakers = 2
  MaxSamples = 3
SYMMETRY Symmetry
SPECIFICATION Spec
INVARIANTS
  OneProbePerHalfOpen
  NoOrphanBreaker
PROPERTIES
  RefusesUntilTimeout
  TripsOnFreshSamples
  EvictsOnlyIdle
CHECK_DEADLOCK FALSE
