CONSTANTS
  db = db
  t1 = t1
  t2 = t2
  DB = db
  Dbs <- MCDbs
  Txns <- MCTxns
  Vals <- MCVals
  LongRunning <- MCLongRunning
  Tombstones = {}
  Expired = {}
  Sinces <- MCNoSince
  MaxLsn = 6
  Histories <- MCHistories
  BatchSize = 2
  MaxErrors = 1
  MaxFaults = 0
  MaxRestarts = 1
SPECIFICATION FairSpec
INVARIANTS
  PipelineTypeOK
  OnlyCommittedChanges
  RowsAreSound
  CheckpointCoversStored
  PollerCoversBuffered
PROPERTIES
  
  CommittedIsStored
