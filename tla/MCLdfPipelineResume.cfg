CONSTANTS
  db = db
  t1 = t1
  t2 = t2
  DB = db
  Dbs <- MCDbs
  Txns <- MCTxns
  Vals <- MCVals
  LongRunning <- MCLongRunning
  Tombstones = {}
  Expired = {}
  Sinces <- MCNoSince
  MaxLsn = 6
  Histories <- MCStoreHistories
  BatchSize = 2
  MaxErrors = 0
  MaxFaults = 0
  MaxRestarts = 1
VIEW MCView
SPECIFICATION Spec
INVARIANTS
  ResumeSkipsOnlyStored
