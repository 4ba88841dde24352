CONSTANTS
  a = a
  b = b
  t = t
  new = new
  old = old
  tomb = tomb
  Dbs <- MCDbs
  Txns <- MCTxns
  Vals <- MCVals
  Tombstones <- MCTombstones
  Expired <- MCExpired
  MaxLsn = 1
  BatchSize = 2
  MaxFaults = 2
  MaxRestarts = 1
SPECIFICATION FairStoreSpec
INVARIANTS
  StoreTypeOK
  BatchInv
PROPERTIES
  Implementation
  
CHECK_DEADLOCK TRUE
