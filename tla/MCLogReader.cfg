CONSTANTS
  ChunkSize = 2
  MaxFilesPerCall = 2
  MaxHistory = 2
  MaxLsn = 4
SPECIFICATION FairSpec
INVARIANTS
  ReaderTypeOK
  OnceInOrder
  NothingMissed
  BackupsAreRead
PROPERTIES
  PassEnds
CHECK_DEADLOCK FALSE
