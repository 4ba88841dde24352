CONSTANTS
  s1 = s1
  s2 = s2
  Slots = {s1, s2}
  Cols <- MCTwoCols
  Rows <- MCTwoColRows
  Tables <- MCCompressed
  MaxItems = 1
  MaxLog = 2
  MaxFails = 0
SPECIFICATION Spec
INVARIANT WhereIsTrue
CHECK_DEADLOCK FALSE
