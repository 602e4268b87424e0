CONSTANTS
  RingSize = 3
  Weights = {0, 3}
  RingLag = 2
  MaxSec = 6
  RingSamples = 2
SPECIFICATION RingSpec
INVARIANTS
  RingHoldsWindow
  RateCountsRecent
