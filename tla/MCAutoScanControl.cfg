CONSTANTS
  d1 = d1
  d2 = d2
  r1 = r1
  r2 = r2
  Dbs <- MCDbs
  Targets <- MCTargets
  Stops = {s1}
  Starts <- MCStarts
  OverlappingStops = FALSE
  Restored <- MCRestored
  LogBound <- MCLogBound
SPECIFICATION FairSpec
INVARIANTS
  ControlTypeOK
  ContextControlsAll
  NothingSkipped
  InteractiveScanKeepsItsRows
PROPERTIES
  CancelledPollersEnd
CHECK_DEADLOCK FALSE
