CONSTANTS
  s1 = s1
  s2 = s2
  Slots = {s1, s2}
  Cols <- MCCols
  Rows <- MCRows
  Tables <- MCTables
  MaxItems = 1
  MaxLog = 3
  MaxFails = 1
SPECIFICATION Spec
SYMMETRY MCSymmetry
INVARIANTS
  ImagesTypeOK
  CacheFollowsLog
  StatementsUndo
  WarmRowsDecodeInFull
  DeltasAreTrue
CHECK_DEADLOCK FALSE
