CONSTANTS
  Formats = {"NONE", "ROW"}
  Parts = {1}
  Values <- MCValues
  MaxDdl = 3
  MaxLsn = 1
  MaxErrors = 1
SPECIFICATION FairSpec
INVARIANTS
  SchemaTypeOK
  DecodesWhatWasWritten
  RefusesOnlyWhatDiffers
  

  
CHECK_DEADLOCK FALSE
