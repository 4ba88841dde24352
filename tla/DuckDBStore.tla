---------------------------- MODULE DuckDBStore ----------------------------
(***************************************************************************)
(* internal/store/duckdb.go: the DuckDB file that holds the decoded events *)
(* (log_events) and the LSN checkpoints.  All pollers and scans share one  *)
(* DuckDBStore; its mutex makes every exported call one step here.  Writes *)
(* go into one open DuckDB transaction, the batch, which is committed when *)
(* BatchSize operations are in it or when somebody calls Flush.            *)
(*                                                                         *)
(* Every DuckDB call the code checks may fail, at most MaxFaults times in  *)
(* a behaviour.  result is what the last call returned to its caller.      *)
(***************************************************************************)
EXTENDS Integers, FiniteSets

CONSTANTS
  Dbs, Txns, Vals, MaxLsn,    (* As in EventStore.                         *)
  Tombstones,                 (* Vals of physical cleanup statements.      *)
  Expired,                    (* Vals whose event_time is over 30 days old.*)
  BatchSize,                  (* duckBatchSize.                            *)
  MaxFaults,                  (* Bound: DuckDB calls that fail.            *)
  MaxRestarts                 (* Bound: times the process is restarted.    *)

ASSUME StoreAssumption ==
  /\ MaxLsn \in Nat
  /\ BatchSize \in Nat \ {0}
  /\ MaxFaults \in Nat
  /\ MaxRestarts \in Nat

VARIABLES
  events,               (* log_events as committed.                        *)
  gone,                 (* Keys the open batch has deleted.                *)
  added,                (* Rows the open batch has inserted.               *)
  tx,                   (* s.tx: "open"; "dead", every use of it fails;    *)
                        (* "nil", the pointers are nil.                    *)
  count,                (* s.count.                                        *)
  pendingCheckpoints,   (* s.pendingCheckpoints; NoEntry: no such key.     *)
  checkpoints,          (* The checkpoints table; 0: no row, or ''.        *)
  result,               (* What the last call returned.                    *)
  ttl,                  (* Where the TTL worker is in runTTLCleanup.       *)
  faults, restarts      (* Bounds.                                         *)

storeVars == <<events, gone, added, tx, count, pendingCheckpoints, checkpoints,
               result, ttl, faults, restarts>>

Lsns == 1..MaxLsn
NoEntry == -1
Row == [db : Dbs, lsn : Lsns, txn : Txns, val : Vals]
Key(r) == <<r.db, r.lsn>>

(* log_events as a reader on the batch's own transaction would see it.     *)
View == {r \in events : Key(r) \notin gone} \cup added

PendingDbs == {d \in Dbs : pendingCheckpoints[d] # NoEntry}

StoreTypeOK ==
  /\ events \in SUBSET Row
  /\ added \in SUBSET Row
  /\ gone \in SUBSET (Dbs \X Lsns)
  /\ tx \in {"open", "dead", "nil"}
  /\ count \in 0..BatchSize
  /\ pendingCheckpoints \in [Dbs -> 0..MaxLsn \cup {NoEntry}]
  /\ checkpoints \in [Dbs -> 0..MaxLsn]
  /\ result \in {"nil", "err", "restarted"}
  /\ ttl \in {"idle", "flushed"}
  /\ faults \in 0..MaxFaults
  /\ restarts \in 0..MaxRestarts

StoreInit ==
  /\ events = {} /\ gone = {} /\ added = {}
  /\ tx = "open" /\ count = 0
  /\ pendingCheckpoints = [d \in Dbs |-> NoEntry]
  /\ checkpoints = [d \in Dbs |-> 0]
  /\ result = "nil" /\ ttl = "idle"
  /\ faults = 0 /\ restarts = 0

-----------------------------------------------------------------------------
(* Failures and the batch.                                                 *)

(* The step sees n more DuckDB calls fail.                                 *)
Faults(n) == faults + n <= MaxFaults /\ faults' = faults + n

(* beginBatch, after n failures: on an error s.tx is left as it was, a     *)
(* transaction that is already over.                                       *)
BeginBatch(n) ==
  \/ tx' = "open" /\ Faults(n)
  \/ tx' = "dead" /\ Faults(n + 1)

EmptyBatch == gone' = {} /\ added' = {}

(* restartBatch: roll the whole batch back and open another one.           *)
RestartBatch(n) ==
  /\ EmptyBatch
  /\ count' = 0
  /\ BeginBatch(n)
  /\ UNCHANGED <<events, pendingCheckpoints, checkpoints>>

(* flushCheckpoints: one upsert per database, in no fixed order, until one *)
(* fails.  The map is emptied only when all went through.                  *)
FlushCheckpoints(stored) ==
  /\ checkpoints' = [d \in Dbs |-> IF d \in stored THEN pendingCheckpoints[d]
                                                   ELSE checkpoints[d]]
  /\ pendingCheckpoints' = IF stored = PendingDbs
                           THEN [d \in Dbs |-> NoEntry]
                           ELSE pendingCheckpoints

FlushFaults(stored) == IF stored = PendingDbs THEN 0 ELSE 1

(* Mutant: the error of Commit is not looked at.                           *)
CommitBatchUnchecked(g, a, n) ==
  /\ \/ Faults(0) /\ events' = {r \in events : Key(r) \notin g} \cup a
     \/ Faults(1) /\ UNCHANGED events
  /\ EmptyBatch
  /\ FlushCheckpoints(PendingDbs)
  /\ count' = 0 /\ tx' = "open" /\ result' = "nil"

(* commitBatch of a batch that has deleted keys g and inserted rows a, in  *)
(* n operations.  A failed commit returns at once: no new batch, and count *)
(* is not reset.                                                           *)
CommitBatch(g, a, n) ==
  \/ /\ tx = "open"
     /\ events' = {r \in events : Key(r) \notin g} \cup a
     /\ EmptyBatch
     /\ count' = 0
     /\ \E stored \in SUBSET PendingDbs :
          FlushCheckpoints(stored) /\ BeginBatch(FlushFaults(stored))
     /\ result' = IF tx' = "open" THEN "nil" ELSE "err"
  \/ /\ EmptyBatch
     /\ count' = n
     /\ tx' = "dead"
     /\ Faults(IF tx = "open" THEN 1 ELSE 0)
     /\ result' = "err"
     /\ UNCHANGED <<events, pendingCheckpoints, checkpoints>>

(* Mutant: one operation too many is let into the batch.                   *)
BufferOneMore(g, a) ==
  /\ tx = "open"
  /\ IF count + 1 > BatchSize
     THEN CommitBatch(g, a, count + 1)
     ELSE /\ gone' = g /\ added' = a
          /\ count' = count + 1
          /\ result' = "nil"
          /\ Faults(0)
          /\ UNCHANGED <<events, tx, pendingCheckpoints, checkpoints>>

(* The tail of Write, DeleteLSN and DeleteTransaction: one more operation  *)
(* is in the batch, and the BatchSize-th commits it.                       *)
Buffer(g, a) ==
  /\ tx = "open"
  /\ IF count + 1 >= BatchSize
     THEN CommitBatch(g, a, count + 1)
     ELSE /\ gone' = g /\ added' = a
          /\ count' = count + 1
          /\ result' = "nil"
          /\ Faults(0)
          /\ UNCHANGED <<events, tx, pendingCheckpoints, checkpoints>>

-----------------------------------------------------------------------------
(* The process goes away and OpenDuckDB opens the file again.              *)
Reopen ==
  /\ EmptyBatch
  /\ count' = 0 /\ tx' = "open" /\ ttl' = "idle"
  /\ pendingCheckpoints' = [d \in Dbs |-> NoEntry]
  /\ result' = "restarted"
  /\ UNCHANGED <<events, checkpoints, faults>>

Restart ==
  /\ restarts < MaxRestarts
  /\ restarts' = restarts + 1
  /\ Reopen

(* Write, DeleteLSN and DeleteTransaction call a method of a nil *sql.Stmt *)
(* after a Reset that failed: a panic outside any HTTP handler.            *)
Panic == tx = "nil" /\ Reopen /\ UNCHANGED restarts

-----------------------------------------------------------------------------
(* A statement on the batch fails, and the caller discards the batch.      *)
BatchStatementFails ==
  /\ tx # "nil"
  /\ RestartBatch(IF tx = "open" THEN 1 ELSE 0)
  /\ result' = "err"

(* Mutant: the INSERT without the DELETE of its key before it.             *)
WriteInsertOnly(r) ==
  /\ Buffer(gone, added \cup {r}) \/ BatchStatementFails
  /\ UNCHANGED <<ttl, restarts>>

Write(r) ==
  /\ IF r.val \in Tombstones
     THEN /\ result' = "nil"
          /\ UNCHANGED <<events, gone, added, tx, count, pendingCheckpoints, checkpoints, faults>>
     ELSE \/ Buffer(gone \cup {Key(r)}, {s \in added : Key(s) # Key(r)} \cup {r})
          \/ BatchStatementFails
  /\ UNCHANGED <<ttl, restarts>>

DeleteLSN(d, l) ==
  /\ \/ Buffer(gone \cup {<<d, l>>}, {s \in added : Key(s) # <<d, l>>})
     \/ BatchStatementFails
  /\ UNCHANGED <<ttl, restarts>>

(* A failing statement is only reported.  Whether it also ends the DuckDB  *)
(* transaction depends on the error.                                       *)
DeleteTransactionFails ==
  /\ \/ tx = "open" /\ Faults(1) /\ UNCHANGED <<gone, added, tx>>
     \/ tx = "open" /\ Faults(1) /\ EmptyBatch /\ tx' = "dead"
     \/ tx = "dead" /\ Faults(0) /\ UNCHANGED <<gone, added, tx>>
  /\ result' = "err"
  /\ UNCHANGED <<events, count, pendingCheckpoints, checkpoints>>

DeleteTransaction(d, t) ==
  /\ \/ Buffer(gone \cup {Key(r) : r \in {s \in View : s.db = d /\ s.txn = t}},
               {s \in added : ~(s.db = d /\ s.txn = t)})
     \/ DeleteTransactionFails
  /\ UNCHANGED <<ttl, restarts>>

SaveCheckpoint(d, l) ==
  /\ pendingCheckpoints' = [pendingCheckpoints EXCEPT ![d] = l]
  /\ UNCHANGED <<events, gone, added, tx, count, checkpoints, result, ttl, faults, restarts>>

(* Mutants: checkpoints go ahead of the batch, or wait for a next one.     *)
FlushCheckpointsFirst ==
  /\ \E stored \in SUBSET PendingDbs :
       FlushCheckpoints(stored) /\ Faults(FlushFaults(stored))
  /\ result' = "nil"
  /\ UNCHANGED <<events, gone, added, tx, count>>

FlushBatchOnly ==
  \/ count > 0 /\ CommitBatch(gone, added, count)
  \/ /\ count = 0 /\ result' = "nil" /\ Faults(0)
     /\ UNCHANGED <<events, gone, added, tx, count, pendingCheckpoints, checkpoints>>

(* The body of Flush: the buffered operations if there are any, else just  *)
(* the checkpoints, whose failure is only printed.                         *)
FlushBody ==
  \/ count > 0 /\ CommitBatch(gone, added, count)
  \/ /\ count = 0
     /\ \E stored \in SUBSET PendingDbs :
          FlushCheckpoints(stored) /\ Faults(FlushFaults(stored))
     /\ result' = "nil"
     /\ UNCHANGED <<events, gone, added, tx, count>>

Flush == FlushBody /\ UNCHANGED <<ttl, restarts>>

(* Reset, by an interactive scan.                                          *)
Reset ==
  /\ EmptyBatch
  /\ count' = 0
  /\ pendingCheckpoints' = [d \in Dbs |-> NoEntry]
  /\ \/ /\ events' = {} /\ tx' = "open" /\ result' = "nil" /\ Faults(0)
     \/ /\ events' \in {{}, events}      \* beginBatch or the DELETE failed
        /\ tx' = "nil" /\ result' = "err" /\ Faults(1)
  /\ UNCHANGED <<checkpoints, ttl, restarts>>

(* runTTLCleanup: Flush, then, with the mutex released, a DELETE of its    *)
(* own.  DuckDB refuses it when the batch has deleted one of its rows.     *)
TTLFlush ==
  /\ ttl = "idle"
  /\ FlushBody
  /\ ttl' = IF result' = "nil" THEN "flushed" ELSE "idle"
  /\ UNCHANGED restarts

OldEvents == {r \in events : r.val \in Expired}

TTLDelete ==
  /\ ttl = "flushed"
  /\ ttl' = "idle"
  /\ \/ /\ \A r \in OldEvents : Key(r) \notin gone
        /\ events' = events \ OldEvents
        /\ Faults(0)
     \/ /\ \E r \in OldEvents : Key(r) \in gone
        /\ UNCHANGED events /\ Faults(0)
     \/ UNCHANGED events /\ Faults(1)
  /\ UNCHANGED <<gone, added, tx, count, pendingCheckpoints, checkpoints, result, restarts>>

StoreNext ==
  \/ \E r \in Row : Write(r)
  \/ \E d \in Dbs, l \in Lsns : DeleteLSN(d, l)
  \/ \E d \in Dbs, t \in Txns : DeleteTransaction(d, t)
  \/ \E d \in Dbs, l \in 0..MaxLsn : SaveCheckpoint(d, l)
  \/ Flush
  \/ Reset
  \/ TTLFlush
  \/ TTLDelete
  \/ Restart
  \/ Panic

StoreSpec == StoreInit /\ [][StoreNext]_storeVars

(* The pollers flush after every poll, five seconds apart.                 *)
FairStoreSpec == StoreSpec /\ WF_storeVars(Flush)

-----------------------------------------------------------------------------
(* Properties.                                                             *)

(* What makes Flush and the checkpoints right: an empty count means that   *)
(* nothing is buffered (Flush then persists checkpoints without a commit), *)
(* a full batch is never left open, an ended transaction holds nothing,    *)
(* and the DELETE before every INSERT keeps (db_name, lsn) unique, which   *)
(* the index uq_db_lsn would otherwise refuse.                             *)
BatchInv ==
  /\ count = 0 => gone = {} /\ added = {}
  /\ tx = "open" => count < BatchSize
  /\ tx # "open" => gone = {} /\ added = {}
  /\ tx = "nil" => count = 0
  /\ \A r \in added : Key(r) \in gone
  /\ \A r, s \in added : Key(r) = Key(s) => r = s
  /\ \A r, s \in events : Key(r) = Key(s) => r = s

(* The batch with its restarts, commits and flushes is a write-behind set  *)
(* of rows: a call that returned nil is undone only by a later call that   *)
(* returns an error or by a restart, and a checkpoint is persisted only    *)
(* when every write accepted before it is durable.                         *)
Abstract == INSTANCE EventStore WITH
  contents <- View, durable <- events, checkpoint <- checkpoints

Implementation == Abstract!Spec

(* "Non-fatal: checkpoint will be retried on next commitBatch": a saved    *)
(* checkpoint reaches the table under fair flushing.  The one way it may   *)
(* not is a failed commit, which leaves a dead transaction with a positive *)
(* count: every later Flush then fails until somebody writes.              *)
Wedged == tx = "dead" /\ count > 0

PendingCheckpointPersists ==
  \A d \in Dbs : pendingCheckpoints[d] # NoEntry
                  ~> (pendingCheckpoints[d] = NoEntry \/ Wedged)

(* "Write buffers a statement; commits automatically every batchSize       *)
(* records": a Write that fails leaves the other buffered statements to    *)
(* that commit.  restartBatch rolls them all back instead.                 *)
FailedWriteKeepsBatch ==
  [][\A r \in Row : Write(r) /\ result' = "err"
        => {s \in added : Key(s) # Key(r)} \subseteq View']_storeVars
=============================================================================
