------------------------- MODULE DuckDBStoreProofs -------------------------
(***************************************************************************)
(* The invariants of DuckDBStore and that it implements EventStore, for    *)
(* any databases, transactions, values, batch size and number of faults.   *)
(*                                                                         *)
(* StoreTypeOK alone is not inductive: that count stays within the batch   *)
(* needs the part of BatchInv that says an open batch is never full, and   *)
(* that a flush of an empty batch may persist checkpoints needs the part   *)
(* that says nothing is buffered then.                                     *)
(***************************************************************************)
EXTENDS DuckDBStore, TLAPS

StoreInv == StoreTypeOK /\ BatchInv

(* g and a are fit to be the keys deleted and the rows inserted by a batch.*)
BatchFits(g, a) ==
  /\ g \in SUBSET (Dbs \X Lsns)
  /\ a \in SUBSET Row
  /\ \A r \in a : Key(r) \in g
  /\ \A r, s \in a : Key(r) = Key(s) => r = s

LEMMA KeyType == \A r \in Row : Key(r) \in Dbs \X Lsns
BY DEF Row, Key

(* Checkpoints stay checkpoints, whichever upserts of them went through.   *)
LEMMA FlushCheckpointsType ==
  ASSUME StoreInv, NEW stored \in SUBSET PendingDbs, FlushCheckpoints(stored)
  PROVE  /\ checkpoints' \in [Dbs -> 0..MaxLsn]
         /\ pendingCheckpoints' \in [Dbs -> 0..MaxLsn \cup {NoEntry}]
<1>1. pendingCheckpoints \in [Dbs -> 0..MaxLsn \cup {NoEntry}]
  BY DEF StoreInv, StoreTypeOK
<1>2. checkpoints \in [Dbs -> 0..MaxLsn]
  BY DEF StoreInv, StoreTypeOK
<1>3. \A d \in stored : d \in Dbs /\ pendingCheckpoints[d] \in 0..MaxLsn
  BY <1>1 DEF PendingDbs
<1>4. checkpoints' \in [Dbs -> 0..MaxLsn]
  BY <1>2, <1>3 DEF FlushCheckpoints
<1>5. pendingCheckpoints' \in [Dbs -> 0..MaxLsn \cup {NoEntry}]
  BY <1>1 DEF FlushCheckpoints
<1> QED BY <1>4, <1>5

LEMMA FaultsType ==
  ASSUME StoreInv, NEW n \in Nat, Faults(n)
  PROVE  faults' \in 0..MaxFaults
BY StoreAssumption DEF StoreInv, StoreTypeOK, Faults

LEMMA BeginBatchType ==
  ASSUME StoreInv, NEW n \in Nat, BeginBatch(n)
  PROVE  tx' \in {"open", "dead"} /\ faults' \in 0..MaxFaults
<1>1. CASE tx' = "open" /\ Faults(n)
  BY <1>1, FaultsType
<1>2. CASE tx' = "dead" /\ Faults(n + 1)
  BY <1>2, FaultsType
<1> QED BY <1>1, <1>2 DEF BeginBatch

(* Committing keeps (db_name, lsn) unique: the batch has deleted the key   *)
(* of every row it inserts.                                                *)
LEMMA CommittedRows ==
  ASSUME StoreInv, NEW g, NEW a, BatchFits(g, a),
         events' = {r \in events : Key(r) \notin g} \cup a
  PROVE  /\ events' \in SUBSET Row
         /\ \A r, s \in events' : Key(r) = Key(s) => r = s
BY DEF StoreInv, StoreTypeOK, BatchInv, BatchFits

LEMMA CommitBatchInv ==
  ASSUME StoreInv, NEW g, NEW a, BatchFits(g, a), NEW n \in 1..BatchSize,
         tx # "nil", CommitBatch(g, a, n),
         ttl' \in {"idle", "flushed"}, restarts' \in 0..MaxRestarts
  PROVE  StoreInv'
<1>1. CASE /\ events' = {r \in events : Key(r) \notin g} \cup a
           /\ EmptyBatch
           /\ count' = 0
           /\ \E stored \in SUBSET PendingDbs :
                FlushCheckpoints(stored) /\ BeginBatch(FlushFaults(stored))
           /\ result' = IF tx' = "open" THEN "nil" ELSE "err"
  <2>1. PICK stored \in SUBSET PendingDbs :
          FlushCheckpoints(stored) /\ BeginBatch(FlushFaults(stored))
    BY <1>1
  <2>2. FlushFaults(stored) \in Nat
    BY DEF FlushFaults
  <2>3. tx' \in {"open", "dead"} /\ faults' \in 0..MaxFaults
    BY <2>1, <2>2, BeginBatchType
  <2>4. /\ checkpoints' \in [Dbs -> 0..MaxLsn]
        /\ pendingCheckpoints' \in [Dbs -> 0..MaxLsn \cup {NoEntry}]
    BY <2>1, FlushCheckpointsType
  <2>5. /\ events' \in SUBSET Row
        /\ \A r, s \in events' : Key(r) = Key(s) => r = s
    BY <1>1, CommittedRows
  <2>6. StoreTypeOK'
    BY <1>1, <2>3, <2>4, <2>5, StoreAssumption DEF StoreTypeOK, EmptyBatch
  <2>7. BatchInv'
    BY <1>1, <2>3, <2>5, StoreAssumption DEF BatchInv, EmptyBatch
  <2> QED BY <2>6, <2>7 DEF StoreInv
<1>2. CASE /\ EmptyBatch
           /\ count' = n
           /\ tx' = "dead"
           /\ Faults(IF tx = "open" THEN 1 ELSE 0)
           /\ result' = "err"
           /\ UNCHANGED <<events, pendingCheckpoints, checkpoints>>
  <2>1. faults' \in 0..MaxFaults
    BY <1>2, FaultsType
  <2>2. StoreTypeOK'
    BY <1>2, <2>1, StoreAssumption DEF StoreInv, StoreTypeOK, EmptyBatch
  <2>3. BatchInv'
    BY <1>2 DEF StoreInv, BatchInv, EmptyBatch
  <2> QED BY <2>2, <2>3 DEF StoreInv
<1> QED BY <1>1, <1>2 DEF CommitBatch

LEMMA BufferInv ==
  ASSUME StoreInv, NEW g, NEW a, BatchFits(g, a), Buffer(g, a),
         ttl' \in {"idle", "flushed"}, restarts' \in 0..MaxRestarts
  PROVE  StoreInv'
<1>1. count + 1 \in 1..BatchSize /\ tx = "open"
  BY StoreAssumption DEF StoreInv, StoreTypeOK, BatchInv, Buffer
<1>2. CASE count + 1 >= BatchSize
  <2>1. CommitBatch(g, a, count + 1)
    BY <1>2 DEF Buffer
  <2> QED BY <1>1, <2>1, CommitBatchInv
<1>3. CASE ~(count + 1 >= BatchSize)
  <2>1. /\ gone' = g /\ added' = a /\ count' = count + 1 /\ result' = "nil"
        /\ Faults(0) /\ UNCHANGED <<events, tx, pendingCheckpoints, checkpoints>>
    BY <1>3 DEF Buffer
  <2>2. faults' \in 0..MaxFaults
    BY <2>1, FaultsType
  <2>3. StoreTypeOK'
    BY <1>1, <2>1, <2>2 DEF StoreInv, StoreTypeOK, BatchFits
  <2>4. BatchInv'
    BY <1>1, <1>3, <2>1, StoreAssumption DEF StoreInv, StoreTypeOK, BatchInv, BatchFits
  <2> QED BY <2>3, <2>4 DEF StoreInv
<1> QED BY <1>2, <1>3

LEMMA BatchStatementFailsInv ==
  ASSUME StoreInv, BatchStatementFails,
         ttl' \in {"idle", "flushed"}, restarts' \in 0..MaxRestarts
  PROVE  StoreInv'
<1>1. BeginBatch(IF tx = "open" THEN 1 ELSE 0)
  BY DEF BatchStatementFails, RestartBatch
<1>2. tx' \in {"open", "dead"} /\ faults' \in 0..MaxFaults
  BY <1>1, BeginBatchType
<1>3. StoreTypeOK'
  BY <1>2, StoreAssumption DEF StoreInv, StoreTypeOK, BatchStatementFails, RestartBatch, EmptyBatch
<1>4. BatchInv'
  BY <1>2, StoreAssumption DEF StoreInv, BatchInv, BatchStatementFails, RestartBatch, EmptyBatch
<1> QED BY <1>3, <1>4 DEF StoreInv

(* What each of the three buffering calls does to the batch.               *)
LEMMA WriteFits ==
  ASSUME StoreInv, NEW r \in Row
  PROVE  BatchFits(gone \cup {Key(r)}, {s \in added : Key(s) # Key(r)} \cup {r})
BY KeyType DEF StoreInv, StoreTypeOK, BatchInv, BatchFits

LEMMA DeleteLSNFits ==
  ASSUME StoreInv, NEW d \in Dbs, NEW l \in Lsns
  PROVE  BatchFits(gone \cup {<<d, l>>}, {s \in added : Key(s) # <<d, l>>})
BY DEF StoreInv, StoreTypeOK, BatchInv, BatchFits

LEMMA ViewType == ASSUME StoreInv PROVE View \in SUBSET Row
BY DEF StoreInv, StoreTypeOK, View

LEMMA DeleteTransactionFits ==
  ASSUME StoreInv, NEW d \in Dbs, NEW t \in Txns
  PROVE  BatchFits(gone \cup {Key(r) : r \in {s \in View : s.db = d /\ s.txn = t}},
                   {s \in added : ~(s.db = d /\ s.txn = t)})
<1>1. {Key(r) : r \in {s \in View : s.db = d /\ s.txn = t}} \in SUBSET (Dbs \X Lsns)
  BY KeyType, ViewType
<1> QED BY <1>1 DEF StoreInv, StoreTypeOK, BatchInv, BatchFits

LEMMA FlushBodyInv ==
  ASSUME StoreInv, FlushBody,
         ttl' \in {"idle", "flushed"}, restarts' \in 0..MaxRestarts
  PROVE  StoreInv'
<1>1. CASE count > 0 /\ CommitBatch(gone, added, count)
  <2>1. BatchFits(gone, added)
    BY DEF StoreInv, StoreTypeOK, BatchInv, BatchFits
  <2>2. count \in 1..BatchSize /\ tx # "nil"
    BY <1>1, StoreAssumption DEF StoreInv, StoreTypeOK, BatchInv
  <2> QED BY <1>1, <2>1, <2>2, CommitBatchInv
<1>2. CASE /\ count = 0
           /\ \E stored \in SUBSET PendingDbs :
                FlushCheckpoints(stored) /\ Faults(FlushFaults(stored))
           /\ result' = "nil"
           /\ UNCHANGED <<events, gone, added, tx, count>>
  <2>1. PICK stored \in SUBSET PendingDbs :
          FlushCheckpoints(stored) /\ Faults(FlushFaults(stored))
    BY <1>2
  <2>2. FlushFaults(stored) \in Nat
    BY DEF FlushFaults
  <2>3. faults' \in 0..MaxFaults
    BY <2>1, <2>2, FaultsType
  <2>4. /\ checkpoints' \in [Dbs -> 0..MaxLsn]
        /\ pendingCheckpoints' \in [Dbs -> 0..MaxLsn \cup {NoEntry}]
    BY <2>1, FlushCheckpointsType
  <2>5. StoreTypeOK'
    BY <1>2, <2>3, <2>4 DEF StoreInv, StoreTypeOK
  <2>6. BatchInv'
    BY <1>2 DEF StoreInv, BatchInv
  <2> QED BY <2>5, <2>6 DEF StoreInv
<1> QED BY <1>1, <1>2 DEF FlushBody

LEMMA ReopenInv ==
  ASSUME StoreInv, Reopen, restarts' \in 0..MaxRestarts
  PROVE  StoreInv'
<1>1. StoreTypeOK'
  BY StoreAssumption DEF StoreInv, StoreTypeOK, Reopen, EmptyBatch, NoEntry
<1>2. BatchInv'
  BY StoreAssumption DEF StoreInv, BatchInv, Reopen, EmptyBatch
<1> QED BY <1>1, <1>2 DEF StoreInv

-----------------------------------------------------------------------------
LEMMA StoreInitInv == StoreInit => StoreInv
BY StoreAssumption DEF StoreInit, StoreInv, StoreTypeOK, BatchInv, NoEntry

(* Every call, restart and step of the TTL worker keeps the invariant.     *)
LEMMA StoreNextInv ==
  ASSUME StoreInv, [StoreNext]_storeVars
  PROVE  StoreInv'
<1>1. ASSUME NEW r \in Row, Write(r) PROVE StoreInv'
  <2>1. ttl' \in {"idle", "flushed"} /\ restarts' \in 0..MaxRestarts
    BY <1>1 DEF StoreInv, StoreTypeOK, Write
  <2>2. CASE r.val \in Tombstones
    <3>1. UNCHANGED <<events, gone, added, tx, count, pendingCheckpoints, checkpoints,
                      faults, ttl, restarts>> /\ result' = "nil"
      BY <1>1, <2>2 DEF Write
    <3> QED BY <3>1 DEF StoreInv, StoreTypeOK, BatchInv
  <2>3. CASE Buffer(gone \cup {Key(r)}, {s \in added : Key(s) # Key(r)} \cup {r})
    BY <1>1, <2>1, <2>3, WriteFits, BufferInv
  <2>4. CASE BatchStatementFails
    BY <2>1, <2>4, BatchStatementFailsInv
  <2> QED BY <1>1, <2>2, <2>3, <2>4 DEF Write
<1>2. ASSUME NEW d \in Dbs, NEW l \in Lsns, DeleteLSN(d, l) PROVE StoreInv'
  <2>1. ttl' \in {"idle", "flushed"} /\ restarts' \in 0..MaxRestarts
    BY <1>2 DEF StoreInv, StoreTypeOK, DeleteLSN
  <2>2. CASE Buffer(gone \cup {<<d, l>>}, {s \in added : Key(s) # <<d, l>>})
    BY <2>1, <2>2, DeleteLSNFits, BufferInv
  <2>3. CASE BatchStatementFails
    BY <2>1, <2>3, BatchStatementFailsInv
  <2> QED BY <1>2, <2>2, <2>3 DEF DeleteLSN
<1>3. ASSUME NEW d \in Dbs, NEW t \in Txns, DeleteTransaction(d, t) PROVE StoreInv'
  <2>1. ttl' \in {"idle", "flushed"} /\ restarts' \in 0..MaxRestarts
    BY <1>3 DEF StoreInv, StoreTypeOK, DeleteTransaction
  <2>2. CASE Buffer(gone \cup {Key(r) : r \in {s \in View : s.db = d /\ s.txn = t}},
                    {s \in added : ~(s.db = d /\ s.txn = t)})
    BY <2>1, <2>2, DeleteTransactionFits, BufferInv
  <2>3. CASE DeleteTransactionFails
    <3>1. faults' \in 0..MaxFaults
      BY <2>3, FaultsType DEF DeleteTransactionFails
    <3>2. StoreTypeOK'
      BY <2>1, <2>3, <3>1 DEF DeleteTransactionFails, EmptyBatch, StoreInv, StoreTypeOK
    <3>3. BatchInv'
      BY <2>3 DEF DeleteTransactionFails, EmptyBatch, StoreInv, BatchInv
    <3> QED BY <3>2, <3>3 DEF StoreInv
  <2> QED BY <1>3, <2>2, <2>3 DEF DeleteTransaction
<1>4. ASSUME NEW d \in Dbs, NEW l \in 0..MaxLsn, SaveCheckpoint(d, l) PROVE StoreInv'
  BY <1>4 DEF SaveCheckpoint, StoreInv, StoreTypeOK, BatchInv
<1>5. CASE Flush
  BY <1>5, FlushBodyInv DEF Flush, StoreInv, StoreTypeOK
<1>6. CASE Reset
  <2>1. faults' \in 0..MaxFaults
    BY <1>6, FaultsType DEF Reset
  <2>2. StoreTypeOK'
    BY <1>6, <2>1, StoreAssumption DEF Reset, EmptyBatch, NoEntry, StoreInv, StoreTypeOK
  <2>3. BatchInv'
    BY <1>6, StoreAssumption DEF Reset, EmptyBatch, StoreInv, BatchInv
  <2> QED BY <2>2, <2>3 DEF StoreInv
<1>7. CASE TTLFlush
  <2>1. ttl' \in {"idle", "flushed"} /\ restarts' \in 0..MaxRestarts
    BY <1>7 DEF TTLFlush, StoreInv, StoreTypeOK
  <2> QED BY <1>7, <2>1, FlushBodyInv DEF TTLFlush
<1>8. CASE TTLDelete
  <2>1. faults' \in 0..MaxFaults
    BY <1>8, FaultsType DEF TTLDelete
  <2>2. events' \subseteq events
    BY <1>8 DEF TTLDelete
  <2>3. StoreTypeOK'
    BY <1>8, <2>1, <2>2 DEF TTLDelete, StoreInv, StoreTypeOK
  <2>4. BatchInv'
    BY <1>8, <2>2 DEF TTLDelete, StoreInv, BatchInv
  <2> QED BY <2>3, <2>4 DEF StoreInv
<1>9. CASE Restart
  <2>1. restarts' \in 0..MaxRestarts
    BY <1>9, StoreAssumption DEF Restart, StoreInv, StoreTypeOK
  <2> QED BY <1>9, <2>1, ReopenInv DEF Restart
<1>10. CASE Panic
  <2>1. restarts' \in 0..MaxRestarts
    BY <1>10 DEF Panic, StoreInv, StoreTypeOK
  <2> QED BY <1>10, <2>1, ReopenInv DEF Panic
<1>11. CASE UNCHANGED storeVars
  BY <1>11 DEF storeVars, StoreInv, StoreTypeOK, BatchInv
<1> QED BY <1>1, <1>2, <1>3, <1>4, <1>5, <1>6, <1>7, <1>8, <1>9, <1>10, <1>11 DEF StoreNext

(* In every reachable state the variables have their types, and the batch  *)
(* is consistent: nothing is buffered under a zero count, no full batch is *)
(* left open, and (db_name, lsn) is unique in the batch and in log_events. *)
THEOREM StoreInvariance == StoreSpec => [](StoreTypeOK /\ BatchInv)
<1>1. StoreInit => StoreInv
  BY StoreInitInv
<1>2. StoreInv /\ [StoreNext]_storeVars => StoreInv'
  BY StoreNextInv
<1>3. StoreInv => StoreTypeOK /\ BatchInv
  BY DEF StoreInv
<1> QED BY <1>1, <1>2, <1>3, PTL DEF StoreSpec

(* In particular count never leaves the batch, and what is buffered, saved *)
(* or stored is a row, a key or an LSN.                                    *)
THEOREM StoreTypes == StoreSpec => []StoreTypeOK
BY StoreInvariance, PTL

-----------------------------------------------------------------------------
(* The refinement.                                                         *)

(* What the batch g, a adds up to on top of the committed rows.            *)
Applied(g, a) == {r \in events : Key(r) \notin g} \cup a

(* A commit that works settles the whole batch; one that fails loses it.   *)
LEMMA CommitBatchStep ==
  ASSUME StoreInv, NEW g, NEW a, BatchFits(g, a), NEW n \in 1..BatchSize,
         CommitBatch(g, a, n)
  PROVE  \/ View' = Applied(g, a) /\ Abstract!Settle
         \/ Abstract!Lose
<1>1. CASE /\ events' = {r \in events : Key(r) \notin g} \cup a
           /\ EmptyBatch
           /\ \E stored \in SUBSET PendingDbs :
                FlushCheckpoints(stored) /\ BeginBatch(FlushFaults(stored))
  <2>1. View' = events' /\ View' = Applied(g, a)
    BY <1>1 DEF View, EmptyBatch, Applied
  <2>2. checkpoints' \in [Dbs -> 0..MaxLsn]
    BY <1>1, FlushCheckpointsType
  <2> QED BY <2>1, <2>2 DEF Abstract!Settle
<1>2. CASE EmptyBatch /\ result' = "err" /\ UNCHANGED <<events, checkpoints>>
  <2>1. View' = events
    BY <1>2 DEF View, EmptyBatch
  <2> QED BY <1>2, <2>1 DEF Abstract!Lose
<1> QED BY <1>1, <1>2 DEF CommitBatch

LEMMA BufferStep ==
  ASSUME StoreInv, NEW g, NEW a, BatchFits(g, a), Buffer(g, a)
  PROVE  \/ View' = Applied(g, a) /\ Abstract!Settle
         \/ Abstract!Lose
<1>1. CASE count + 1 >= BatchSize
  <2>1. count + 1 \in 1..BatchSize
    BY StoreAssumption DEF StoreInv, StoreTypeOK, BatchInv, Buffer
  <2>2. CommitBatch(g, a, count + 1)
    BY <1>1 DEF Buffer
  <2> QED BY <2>1, <2>2, CommitBatchStep
<1>2. CASE ~(count + 1 >= BatchSize)
  <2>1. gone' = g /\ added' = a /\ UNCHANGED <<events, checkpoints>>
    BY <1>2 DEF Buffer
  <2>2. View' = Applied(g, a)
    BY <2>1 DEF View, Applied
  <2> QED BY <2>1, <2>2 DEF Abstract!Settle
<1> QED BY <1>1, <1>2

LEMMA BatchStatementFailsStep ==
  ASSUME BatchStatementFails
  PROVE  Abstract!Lose
<1>1. View' = events
  BY DEF BatchStatementFails, RestartBatch, EmptyBatch, View
<1> QED BY <1>1 DEF BatchStatementFails, RestartBatch, Abstract!Lose

LEMMA ReopenStep == ASSUME Reopen PROVE Abstract!Restart
<1>1. View' = events
  BY DEF Reopen, EmptyBatch, View
<1> QED BY <1>1 DEF Reopen, Abstract!Restart

(* The rows a buffering call leaves are those the abstract call leaves.    *)
LEMMA WriteApplies ==
  ASSUME StoreInv, NEW r \in Row
  PROVE  Applied(gone \cup {Key(r)}, {s \in added : Key(s) # Key(r)} \cup {r})
           = {s \in View : ~Abstract!SameEvent(r, s)} \cup {r}
<1>1. \A s \in Row : Abstract!SameEvent(r, s) <=> Key(s) = Key(r)
  BY DEF Abstract!SameEvent, Key
<1>2. events \in SUBSET Row /\ added \in SUBSET Row
  BY DEF StoreInv, StoreTypeOK
<1>3. View \in SUBSET Row
  BY ViewType
<1>4. {s \in View : ~Abstract!SameEvent(r, s)} = {s \in View : Key(s) # Key(r)}
  BY <1>1, <1>3
<1>5. {s \in View : Key(s) # Key(r)}
        = {s \in events : Key(s) \notin gone \cup {Key(r)}} \cup {s \in added : Key(s) # Key(r)}
  BY DEF View
<1> QED BY <1>4, <1>5 DEF Applied

LEMMA DeleteLSNApplies ==
  ASSUME StoreInv, NEW d \in Dbs, NEW l \in Lsns
  PROVE  Applied(gone \cup {<<d, l>>}, {s \in added : Key(s) # <<d, l>>})
           = {s \in View : ~(s.db = d /\ s.lsn = l)}
BY DEF Applied, View, Key

(* A row of the transaction hides every other row with its key: the batch  *)
(* holds at most one row of a key, and has deleted the stored one.         *)
LEMMA DeleteTransactionApplies ==
  ASSUME StoreInv, NEW d \in Dbs, NEW t \in Txns
  PROVE  Applied(gone \cup {Key(r) : r \in {s \in View : s.db = d /\ s.txn = t}},
                 {s \in added : ~(s.db = d /\ s.txn = t)})
           = {s \in View : ~(s.db = d /\ s.txn = t)}
<1> DEFINE mine == {s \in View : s.db = d /\ s.txn = t}
           keys == {Key(r) : r \in mine}
<1>1. ASSUME NEW s \in events, Key(s) \notin gone
      PROVE  Key(s) \in keys <=> s.db = d /\ s.txn = t
  <2>1. s \in View
    BY <1>1 DEF View
  <2>2. ASSUME NEW r \in mine, Key(r) = Key(s) PROVE r = s
    <3>1. r \in events
      BY <1>1, <2>2 DEF View, StoreInv, BatchInv
    <3> QED BY <2>2, <3>1 DEF StoreInv, BatchInv
  <2> QED BY <2>1, <2>2
<1>2. {s \in events : Key(s) \notin gone \cup keys}
        = {s \in events : Key(s) \notin gone /\ ~(s.db = d /\ s.txn = t)}
  BY <1>1
<1> QED BY <1>2 DEF Applied, View

(* Flushing changes nothing a caller sees, and settles or loses.           *)
LEMMA FlushBodyStep ==
  ASSUME StoreInv, FlushBody
  PROVE  \/ UNCHANGED View /\ Abstract!Settle
         \/ Abstract!Lose
<1>1. CASE count > 0 /\ CommitBatch(gone, added, count)
  <2>1. BatchFits(gone, added)
    BY DEF StoreInv, StoreTypeOK, BatchInv, BatchFits
  <2>2. count \in 1..BatchSize
    BY <1>1, StoreAssumption DEF StoreInv, StoreTypeOK
  <2>3. View = Applied(gone, added)
    BY DEF View, Applied
  <2> QED BY <1>1, <2>1, <2>2, <2>3, CommitBatchStep
<1>2. CASE /\ count = 0
           /\ \E stored \in SUBSET PendingDbs :
                FlushCheckpoints(stored) /\ Faults(FlushFaults(stored))
           /\ UNCHANGED <<events, gone, added>>
  <2>1. View = events /\ View' = events
    BY <1>2 DEF View, StoreInv, BatchInv
  <2>2. checkpoints' \in [Dbs -> 0..MaxLsn]
    BY <1>2, FlushCheckpointsType
  <2> QED BY <1>2, <2>1, <2>2 DEF Abstract!Settle
<1> QED BY <1>1, <1>2 DEF FlushBody

(* Every step of the store is a step of EventStore or leaves it alone.     *)
LEMMA StoreStepRefines ==
  ASSUME StoreInv, [StoreNext]_storeVars
  PROVE  [Abstract!Next]_(Abstract!vars)
<1> USE DEF Abstract!Next
<1>1. ASSUME NEW r \in Row, Write(r) PROVE Abstract!Next
  <2>1. CASE r.val \in Tombstones
    <3>1. UNCHANGED <<events, gone, added, checkpoints>>
      BY <1>1, <2>1 DEF Write
    <3> QED BY <3>1 DEF View, Abstract!Settle
  <2>2. CASE Buffer(gone \cup {Key(r)}, {s \in added : Key(s) # Key(r)} \cup {r})
    <3>1. Abstract!Upsert(r) \/ Abstract!Lose
      BY <2>2, WriteFits, WriteApplies, BufferStep DEF Abstract!Upsert
    <3>2. r \in Abstract!Row
      BY DEF Row, Lsns, Abstract!Row, Abstract!Lsns
    <3> QED BY <3>1, <3>2
  <2>3. CASE BatchStatementFails
    BY <2>3, BatchStatementFailsStep
  <2> QED BY <1>1, <2>1, <2>2, <2>3 DEF Write
<1>2. ASSUME NEW d \in Dbs, NEW l \in Lsns, DeleteLSN(d, l) PROVE Abstract!Next
  <2>1. CASE Buffer(gone \cup {<<d, l>>}, {s \in added : Key(s) # <<d, l>>})
    <3>1. Abstract!RemoveLsn(d, l) \/ Abstract!Lose
      BY <2>1, DeleteLSNFits, DeleteLSNApplies, BufferStep DEF Abstract!RemoveLsn
    <3> QED BY <3>1 DEF Lsns, Abstract!Lsns
  <2>2. CASE BatchStatementFails
    BY <2>2, BatchStatementFailsStep
  <2> QED BY <1>2, <2>1, <2>2 DEF DeleteLSN
<1>3. ASSUME NEW d \in Dbs, NEW t \in Txns, DeleteTransaction(d, t) PROVE Abstract!Next
  <2>1. CASE Buffer(gone \cup {Key(r) : r \in {s \in View : s.db = d /\ s.txn = t}},
                    {s \in added : ~(s.db = d /\ s.txn = t)})
    <3>1. Abstract!RemoveTransaction(d, t) \/ Abstract!Lose
      BY <2>1, DeleteTransactionFits, DeleteTransactionApplies, BufferStep
         DEF Abstract!RemoveTransaction
    <3> QED BY <3>1
  <2>2. CASE DeleteTransactionFails
    <3>1. CASE UNCHANGED <<events, gone, added, checkpoints>>
      BY <3>1 DEF View, Abstract!Settle
    <3>2. CASE EmptyBatch /\ result' = "err" /\ UNCHANGED <<events, checkpoints>>
      <4>1. View' = events
        BY <3>2 DEF View, EmptyBatch
      <4> QED BY <3>2, <4>1 DEF Abstract!Lose
    <3> QED BY <2>2, <3>1, <3>2 DEF DeleteTransactionFails
  <2> QED BY <1>3, <2>1, <2>2 DEF DeleteTransaction
<1>4. ASSUME NEW d \in Dbs, NEW l \in 0..MaxLsn, SaveCheckpoint(d, l)
      PROVE  UNCHANGED Abstract!vars
  BY <1>4 DEF SaveCheckpoint, View, Abstract!vars
<1>5. CASE Flush
  BY <1>5, FlushBodyStep DEF Flush
<1>6. CASE Reset
  <2>1. View' = events' /\ UNCHANGED checkpoints
    BY <1>6 DEF Reset, EmptyBatch, View
  <2>2. CASE events' = {}
    BY <2>1, <2>2 DEF Abstract!Clear
  <2>3. CASE events' = events /\ result' = "err"
    BY <2>1, <2>3 DEF Abstract!Lose
  <2> QED BY <1>6, <2>2, <2>3 DEF Reset
<1>7. CASE TTLFlush
  BY <1>7, FlushBodyStep DEF TTLFlush
<1>8. CASE TTLDelete
  <2>1. UNCHANGED <<gone, added, checkpoints>>
    BY <1>8 DEF TTLDelete
  <2>2. CASE UNCHANGED events
    BY <2>1, <2>2 DEF View, Abstract!Settle
  <2>3. CASE /\ \A r \in OldEvents : Key(r) \notin gone
             /\ events' = events \ OldEvents
    <3>1. View' = View \ OldEvents
      BY <2>1, <2>3 DEF View, StoreInv, BatchInv
    <3>2. OldEvents \in SUBSET events
      BY DEF OldEvents
    <3> QED BY <2>1, <2>3, <3>1, <3>2 DEF Abstract!Expire
  <2> QED BY <1>8, <2>2, <2>3 DEF TTLDelete
<1>9. CASE Restart
  BY <1>9, ReopenStep DEF Restart
<1>10. CASE Panic
  BY <1>10, ReopenStep DEF Panic
<1>11. CASE UNCHANGED storeVars
  BY <1>11 DEF storeVars, View, Abstract!vars
<1> QED BY <1>1, <1>2, <1>3, <1>4, <1>5, <1>6, <1>7, <1>8, <1>9, <1>10, <1>11 DEF StoreNext

LEMMA StoreInitRefines == StoreInit => Abstract!Init
BY DEF StoreInit, View, Abstract!Init

(* The store, with its batches, commits, roll backs and checkpoints kept   *)
(* in memory, is a write-behind set of rows: what a call accepted is lost  *)
(* only by a step that reports an error or restarts, and a checkpoint      *)
(* becomes durable only when all that was accepted before it is.           *)
THEOREM StoreRefinesEventStore == StoreSpec => Implementation
<1>1. StoreInit => Abstract!Init
  BY StoreInitRefines
<1>2. StoreInv /\ [StoreNext]_storeVars => [Abstract!Next]_(Abstract!vars)
  BY StoreStepRefines
<1>3. StoreSpec => []StoreInv
  BY StoreInvariance DEF StoreInv
<1> QED BY <1>1, <1>2, <1>3, PTL DEF StoreSpec, Implementation, Abstract!Spec
=============================================================================
