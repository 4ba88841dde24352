CONSTANTS
  d1 = d1
  d2 = d2
  r1 = r1
  r2 = r2
  Dbs <- MCDbs
  Targets <- MCTargets
  Stops = {s1}
  Starts = {}
  OverlappingStops = FALSE
  Restored <- MCRestored
  LogBound <- MCLogBound
SPECIFICATION Spec
INVARIANTS
  StopStops
CHECK_DEADLOCK FALSE
