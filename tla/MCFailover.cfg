CONSTANTS
  Requests = {r1, r2}
  Providers = {"p1", "p2"}
  NativeType = {"p2", "p3"}
  Routes <- MCRoutes
  Alias = "alias"
  RouteTTL = 2
  MaxLag = 1
  MaxTime = 4
  MaxVersions = 2
SYMMETRY Symmetry
SPECIFICATION Spec
INVARIANTS
  AnsweredByPriority
  ModelRestored
  BoundedRouteStaleness
CHECK_DEADLOCK FALSE
