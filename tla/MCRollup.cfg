CONSTANTS
  Groups = {g1, g2}
  MaxHour = 2
  MaxRows = 2
  Limit = 3
SPECIFICATION RollupSpec
INVARIANTS
  RollupsSettle
PROPERTIES
  RollupsNeverShrink
CHECK_DEADLOCK FALSE
