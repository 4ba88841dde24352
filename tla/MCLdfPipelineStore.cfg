CONSTANTS
  db = db
  t1 = t1
  t2 = t2
  DB = db
  Dbs <- MCDbs
  Txns <- MCTxns
  Vals <- MCVals
  LongRunning <- MCLongRunning
  Tombstones = {}
  Expired = {}
  Sinces <- MCSinces
  MaxLsn = 6
  Histories <- MCStoreHistories
  BatchSize = 2
  MaxErrors = 1
  MaxFaults = 1
  MaxRestarts = 0
VIEW MCView
SPECIFICATION Spec
INVARIANTS
  OnlyCommittedChanges
  RowsAreSound
  CheckpointCoversStored
  PollerCoversBuffered
