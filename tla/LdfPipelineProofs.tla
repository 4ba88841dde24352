------------------------- MODULE LdfPipelineProofs -------------------------
(***************************************************************************)
(* The type invariant of LdfPipeline and that only changes of committed    *)
(* transactions reach the store, for any log, any number of failures and   *)
(* restarts, and any batch size.                                           *)
(*                                                                         *)
(* OnlyCommittedChanges is not inductive: it says nothing of what is on    *)
(* its way to the store.  Provenance adds that the statements of a COMMIT  *)
(* that are still to be written are changes of a committed transaction,    *)
(* and that what is kept for an open one are changes it logged.            *)
(***************************************************************************)
EXTENDS LdfPipeline, DuckDBStoreProofs

Stored == events \cup added

Justified(r) == CommittedBy(r.txn, Len(log)) /\ r.lsn \in DataLsns(r.txn)

StoredOK == \A r \in Stored : r.db = DB => Justified(r)
TodoOK == \A i \in DOMAIN todo : Justified(todo[i])
PendingOK == \A t \in Txns : \A i \in DOMAIN pending[t] : pending[t][i] \in DataLsns(t)

Provenance == StoredOK /\ TodoOK /\ PendingOK

(* PipelineTypeOK without the part about the store.                        *)
OwnTypeOK ==
  /\ log \in Seq(Record) /\ Len(log) <= MaxLsn
  /\ head \in 0..MaxLsn
  /\ proc \in {"down", "scan", "scanned", "idle", "read", "flush"}
  /\ schemaLoaded \in BOOLEAN
  /\ since \in Sinces \cup {0}
  /\ pending \in [Txns -> Seq(Lsns)]
  /\ beginTimes \in [Txns -> 0..MaxLsn]
  /\ excluded \in SUBSET Txns
  /\ ldfCheckpoint \in 0..MaxLsn
  /\ cursor \in 0..MaxLsn /\ maxLSN \in 0..MaxLsn /\ readTo \in 0..MaxLsn
  /\ todo \in Seq(Row)
  /\ errors \in 0..MaxErrors
  /\ reasons \in [Txns -> SUBSET Reasons]

PipelineInv == StoreInv /\ OwnTypeOK /\ Provenance

-----------------------------------------------------------------------------
(* The store under the pipeline.                                           *)

(* A step of the store on its own, or a write that fails on behalf of      *)
(* another database.                                                       *)
StoreStep ==
  \/ [StoreNext]_storeVars
  \/ BatchStatementFails /\ UNCHANGED <<ttl, restarts>>

LEMMA StoreStepInv == ASSUME StoreInv, StoreStep PROVE StoreInv'
<1>1. CASE BatchStatementFails /\ UNCHANGED <<ttl, restarts>>
  BY <1>1, BatchStatementFailsInv DEF StoreInv, StoreTypeOK
<1> QED BY <1>1, StoreNextInv DEF StoreStep

(* A batch that is committed or kept adds no rows but its own.             *)
LEMMA CommitBatchRows ==
  ASSUME NEW g, NEW a, NEW n, CommitBatch(g, a, n)
  PROVE  Stored' \subseteq events \cup a
BY DEF CommitBatch, EmptyBatch, Stored

LEMMA BufferRows ==
  ASSUME NEW g, NEW a, Buffer(g, a)
  PROVE  Stored' \subseteq events \cup a
<1>1. CASE count + 1 >= BatchSize
  <2>1. CommitBatch(g, a, count + 1)
    BY <1>1 DEF Buffer
  <2> QED BY <2>1, CommitBatchRows
<1>2. CASE ~(count + 1 >= BatchSize)
  BY <1>2 DEF Buffer, Stored
<1> QED BY <1>1, <1>2

LEMMA BatchStatementFailsRows == BatchStatementFails => Stored' \subseteq Stored
BY DEF BatchStatementFails, RestartBatch, EmptyBatch, Stored

LEMMA WriteRows ==
  ASSUME NEW r, Write(r)
  PROVE  Stored' \subseteq Stored \cup {r}
<1>1. CASE UNCHANGED <<events, added>>
  BY <1>1 DEF Stored
<1>2. CASE Buffer(gone \cup {Key(r)}, {s \in added : Key(s) # Key(r)} \cup {r})
  BY <1>2, BufferRows DEF Stored
<1>3. CASE BatchStatementFails
  BY <1>3, BatchStatementFailsRows
<1> QED BY <1>1, <1>2, <1>3 DEF Write

LEMMA DeleteLSNRows ==
  ASSUME NEW d, NEW l, DeleteLSN(d, l)
  PROVE  Stored' \subseteq Stored
<1>1. CASE Buffer(gone \cup {<<d, l>>}, {s \in added : Key(s) # <<d, l>>})
  BY <1>1, BufferRows DEF Stored
<1>2. CASE BatchStatementFails
  BY <1>2, BatchStatementFailsRows
<1> QED BY <1>1, <1>2 DEF DeleteLSN

LEMMA DeleteTransactionRows ==
  ASSUME NEW d, NEW t, DeleteTransaction(d, t)
  PROVE  Stored' \subseteq Stored
<1>1. CASE Buffer(gone \cup {Key(r) : r \in {s \in View : s.db = d /\ s.txn = t}},
                  {s \in added : ~(s.db = d /\ s.txn = t)})
  BY <1>1, BufferRows DEF Stored
<1>2. CASE DeleteTransactionFails
  BY <1>2 DEF DeleteTransactionFails, EmptyBatch, Stored
<1> QED BY <1>1, <1>2 DEF DeleteTransaction

LEMMA FlushRows == ASSUME Flush PROVE Stored' \subseteq Stored
<1>1. CASE CommitBatch(gone, added, count)
  BY <1>1, CommitBatchRows DEF Stored
<1>2. CASE UNCHANGED <<events, added>>
  BY <1>2 DEF Stored
<1> QED BY <1>1, <1>2 DEF Flush, FlushBody

-----------------------------------------------------------------------------
(* The log: what a transaction has logged stays logged.                    *)

LEMMA SameLog ==
  ASSUME UNCHANGED log
  PROVE  /\ \A r : Justified(r)' <=> Justified(r)
         /\ \A t : DataLsns(t)' = DataLsns(t)
BY DEF Justified, CommittedBy, Logged, DataLsns

LEMMA LogGrows ==
  ASSUME OwnTypeOK, NEW rec \in Record, log' = Append(log, rec)
  PROVE  /\ \A r : Justified(r) => Justified(r)'
         /\ \A t : DataLsns(t) \subseteq DataLsns(t)'
<1>1. Len(log') = Len(log) + 1 /\ Len(log) \in Nat /\ \A i \in 1..Len(log) : log'[i] = log[i]
  BY DEF OwnTypeOK
<1>2. ASSUME NEW t, NEW l \in DataLsns(t) PROVE l \in DataLsns(t)'
  BY <1>1, <1>2 DEF DataLsns
<1>3. ASSUME NEW t, CommittedBy(t, Len(log)) PROVE CommittedBy(t, Len(log))'
  BY <1>1, <1>3 DEF CommittedBy, Logged
<1> QED BY <1>2, <1>3 DEF Justified

LEMMA BlameType ==
  ASSUME OwnTypeOK, NEW pairs, Blame(pairs)
  PROVE  reasons' \in [Txns -> SUBSET Reasons]
BY DEF OwnTypeOK, Blame

LEMMA PassFailsType == ASSUME OwnTypeOK, PassFails PROVE errors' \in 0..MaxErrors
BY PipelineAssumption DEF OwnTypeOK, PassFails

LEMMA LenLogType == ASSUME OwnTypeOK PROVE Len(log) \in 0..MaxLsn
BY StoreAssumption DEF OwnTypeOK

(* Steps that put nothing new into the store, todo or pending.             *)
LEMMA ProvenanceKept ==
  ASSUME Provenance, UNCHANGED log, Stored' \subseteq Stored,
         todo' = todo \/ todo' = <<>>,
         \A t \in Txns : pending'[t] = pending[t] \/ pending'[t] = <<>>
  PROVE  Provenance'
<1>1. StoredOK'
  BY SameLog DEF Provenance, StoredOK
<1>2. TodoOK'
  BY SameLog DEF Provenance, TodoOK
<1>3. PendingOK'
  BY SameLog DEF Provenance, PendingOK
<1> QED BY <1>1, <1>2, <1>3 DEF Provenance

-----------------------------------------------------------------------------
(* One record.                                                             *)

LEMMA ReadingRecord ==
  ASSUME OwnTypeOK, NextLsn <= Len(log)
  PROVE  /\ NextLsn \in Lsns /\ NextLsn \in 1..Len(log)
         /\ log[NextLsn] \in Record /\ log[NextLsn].txn \in Txns
<1>1. NextLsn \in 1..Len(log)
  BY DEF OwnTypeOK, NextLsn
<1>2. log[NextLsn] \in Record
  BY <1>1 DEF OwnTypeOK
<1>3. NextLsn \in Lsns
  BY <1>1, LenLogType, StoreAssumption DEF Lsns
<1> QED BY <1>1, <1>2, <1>3 DEF Record

LEMMA ForgetType ==
  ASSUME OwnTypeOK, NEW t \in Txns, Forget(t)
  PROVE  /\ pending' \in [Txns -> Seq(Lsns)]
         /\ beginTimes' \in [Txns -> 0..MaxLsn]
         /\ excluded' \in SUBSET Txns
         /\ \A u \in Txns : pending'[u] = pending[u] \/ pending'[u] = <<>>
BY StoreAssumption DEF OwnTypeOK, Forget

LEMMA FreshMapsType ==
  ASSUME FreshMaps
  PROVE  /\ pending' \in [Txns -> Seq(Lsns)]
         /\ beginTimes' \in [Txns -> 0..MaxLsn]
         /\ excluded' \in SUBSET Txns
         /\ \A u \in Txns : pending'[u] = <<>>
BY StoreAssumption DEF FreshMaps, NoPending, NoTimes

(* The statements of t are rows that t's COMMIT justifies.                 *)
LEMMA StampedRows ==
  ASSUME OwnTypeOK, PendingOK, NEW l \in 1..Len(log), l \in Lsns, NEW t \in Txns,
         log[l].op = "commit", log[l].txn = t
  PROVE  /\ Stamped(l, t) \in Seq(Row)
         /\ \A i \in DOMAIN Stamped(l, t) : Justified(Stamped(l, t)[i])
<1>1. EventTime(l, t) \in Vals
  BY PipelineAssumption DEF OwnTypeOK, EventTime, Lsns
<1>2. pending[t] \in Seq(Lsns)
  BY DEF OwnTypeOK
<1>3. \A i \in 1..Len(pending[t]) : pending[t][i] \in Lsns /\ pending[t][i] \in DataLsns(t)
  BY <1>2 DEF PendingOK
<1>4. CommittedBy(t, Len(log))
  BY DEF CommittedBy, Logged
<1>5. Stamped(l, t) \in Seq(Row)
  BY <1>1, <1>2, <1>3, PipelineAssumption DEF Stamped, Row
<1>6. \A i \in 1..Len(pending[t]) : Justified(Stamped(l, t)[i])
  BY <1>3, <1>4 DEF Stamped, Justified
<1> QED BY <1>2, <1>5, <1>6 DEF Stamped

(* What one disjunct of handleScanRecord leaves behind.                    *)
RecordHandled ==
  /\ StoreStep
  /\ Provenance'
  /\ pending' \in [Txns -> Seq(Lsns)]
  /\ beginTimes' \in [Txns -> 0..MaxLsn]
  /\ excluded' \in SUBSET Txns
  /\ todo' \in Seq(Row)
  /\ proc' \in {proc, "flush"}

LEMMA DeleteTransactionIsStep ==
  ASSUME NEW t \in Txns, DeleteTransaction(DB, t)
  PROVE  StoreStep /\ Stored' \subseteq Stored
BY PipelineAssumption, DeleteTransactionRows DEF StoreStep, StoreNext

LEMMA ExcludeHandled ==
  ASSUME PipelineInv, UNCHANGED log, NEW t \in Txns, Exclude(t),
         beginTimes' \in [Txns -> 0..MaxLsn]
  PROVE  RecordHandled
<1>1. StoreStep /\ Stored' \subseteq Stored
  BY DeleteTransactionIsStep DEF Exclude
<1>2. pending' \in [Txns -> Seq(Lsns)] /\ excluded' \in SUBSET Txns
  BY DEF PipelineInv, OwnTypeOK, Exclude
<1>3. \A u \in Txns : pending'[u] = pending[u] \/ pending'[u] = <<>>
  BY DEF PipelineInv, OwnTypeOK, Exclude
<1>4. Provenance'
  BY <1>1, <1>3, ProvenanceKept DEF PipelineInv, Exclude
<1> QED BY <1>1, <1>2, <1>4 DEF RecordHandled, PipelineInv, OwnTypeOK, Exclude

LEMMA HandleHandled ==
  ASSUME PipelineInv, UNCHANGED log, NEW l \in 1..Len(log), l \in Lsns,
         NEW t \in Txns, log[l].txn = t,
         \/ HandleBegin(l, t) \/ HandleCommit(l, t)
         \/ HandleAbort(l, t) \/ HandleChange(l, t)
  PROVE  RecordHandled
<1> USE DEF PipelineInv
<1>0. /\ pending \in [Txns -> Seq(Lsns)] /\ beginTimes \in [Txns -> 0..MaxLsn]
      /\ excluded \in SUBSET Txns /\ todo \in Seq(Row)
  BY DEF OwnTypeOK
<1>1. ASSUME UNCHANGED <<storeVars, pending, todo>>
      PROVE  StoreStep /\ Provenance'
  <2>1. Stored' = Stored
    BY <1>1 DEF storeVars, Stored
  <2> QED BY <1>1, <2>1, ProvenanceKept DEF StoreStep
<1>2. CASE HandleBegin(l, t)
  <2>1. beginTimes' \in [Txns -> 0..MaxLsn]
    BY <1>0, <1>2, StoreAssumption DEF HandleBegin, Lsns
  <2>2. CASE Exclude(t)
    BY <2>1, <2>2, ExcludeHandled
  <2>3. CASE UNCHANGED <<storeVars, pending, excluded, proc, todo>>
    BY <1>0, <1>1, <2>1, <2>3 DEF RecordHandled
  <2> QED BY <1>2, <2>2, <2>3 DEF HandleBegin
<1>3. CASE HandleCommit(l, t)
  <2>1. UNCHANGED <<storeVars, proc>> /\ log[l].op = "commit"
    BY <1>3 DEF HandleCommit
  <2>2. Stored' = Stored /\ StoreStep
    BY <2>1 DEF storeVars, Stored, StoreStep
  <2>3. CASE Forget(t) /\ UNCHANGED todo
    <3>1. Provenance'
      BY <2>2, <2>3, ForgetType, ProvenanceKept
    <3> QED BY <1>0, <2>1, <2>2, <2>3, <3>1, ForgetType DEF RecordHandled
  <2>4. CASE todo' = Stamped(l, t) /\ UNCHANGED mapVars
    <3>1. todo' \in Seq(Row) /\ \A i \in DOMAIN todo' : Justified(todo'[i])
      BY <2>1, <2>4, StampedRows DEF Provenance
    <3>2. TodoOK'
      BY <3>1, SameLog DEF TodoOK
    <3>3. StoredOK' /\ PendingOK'
      BY <2>2, <2>4, SameLog DEF Provenance, StoredOK, PendingOK, mapVars
    <3> QED BY <1>0, <2>1, <2>2, <2>4, <3>1, <3>2, <3>3 DEF RecordHandled, Provenance, mapVars
  <2> QED BY <1>3, <2>3, <2>4 DEF HandleCommit
<1>4. CASE HandleAbort(l, t)
  <2>1. Forget(t) /\ UNCHANGED <<storeVars, proc, todo>>
    BY <1>4 DEF HandleAbort
  <2>2. Stored' = Stored /\ StoreStep
    BY <2>1 DEF storeVars, Stored, StoreStep
  <2>3. Provenance'
    BY <2>1, <2>2, ForgetType, ProvenanceKept
  <2> QED BY <1>0, <2>1, <2>2, <2>3, ForgetType DEF RecordHandled
<1>5. CASE HandleChange(l, t)
  <2>1. beginTimes' \in [Txns -> 0..MaxLsn]
    BY <1>0, <1>5 DEF HandleChange
  <2>2. CASE UNCHANGED <<storeVars, pending, excluded, proc, todo>>
    BY <1>0, <1>1, <2>1, <2>2 DEF RecordHandled
  <2>3. CASE Exclude(t)
    BY <2>1, <2>3, ExcludeHandled
  <2>4. CASE /\ DeleteLSN(DB, l)
             /\ proc' = IF proc = "read" /\ result' = "err" THEN "flush" ELSE proc
             /\ UNCHANGED <<pending, excluded, todo>>
    <3>1. StoreStep /\ Stored' \subseteq Stored
      BY <2>4, PipelineAssumption, DeleteLSNRows DEF StoreStep, StoreNext
    <3>2. Provenance'
      BY <2>4, <3>1, ProvenanceKept
    <3> QED BY <1>0, <2>1, <2>4, <3>1, <3>2 DEF RecordHandled
  <2>5. CASE /\ log[l].op = "data"
             /\ pending' = [pending EXCEPT ![t] = Append(@, l)]
             /\ UNCHANGED <<storeVars, excluded, proc, todo>>
    <3>1. pending' \in [Txns -> Seq(Lsns)]
      BY <1>0, <2>5
    <3>2. Stored' = Stored /\ StoreStep
      BY <2>5 DEF storeVars, Stored, StoreStep
    <3>3. l \in DataLsns(t)
      <4>1. log[l] \in Record
        BY DEF OwnTypeOK
      <4> QED BY <2>5, <4>1 DEF DataLsns, Record
    <3>4. \A u \in Txns : \A i \in DOMAIN pending'[u] : pending'[u][i] \in DataLsns(u)
      <4>1. \A u \in Txns \ {t} : pending'[u] = pending[u]
        BY <1>0, <2>5
      <4>2. pending'[t] = Append(pending[t], l) /\ pending[t] \in Seq(Lsns)
        BY <1>0, <2>5
      <4>3. \A i \in DOMAIN pending'[t] : pending'[t][i] \in DataLsns(t)
        BY <3>3, <4>2 DEF Provenance, PendingOK
      <4> QED BY <4>1, <4>3 DEF Provenance, PendingOK
    <3>5. Provenance'
      BY <2>5, <3>2, <3>4, SameLog DEF Provenance, StoredOK, TodoOK, PendingOK
    <3> QED BY <1>0, <2>1, <2>5, <3>1, <3>2, <3>5 DEF RecordHandled
  <2> QED BY <1>5, <2>2, <2>3, <2>4, <2>5 DEF HandleChange
<1> QED BY <1>2, <1>3, <1>4, <1>5

-----------------------------------------------------------------------------
(* One lemma per action that does more than move within a pass.            *)

LEMMA LogRecordInv ==
  ASSUME PipelineInv, NEW t \in Txns, NEW op \in Begins \cup Ends \cup Changes, LogRecord(op, t)
  PROVE  PipelineInv'
<1> DEFINE rec == [op |-> op, txn |-> t]
<1>1. rec \in Record /\ log' = Append(log, rec) /\ Len(log) < MaxLsn
  BY DEF LogRecord, Record
<1>2. UNCHANGED <<storeVars, head, procVars, reasons>>
  BY DEF LogRecord
<1>3. StoreInv'
  BY <1>2, StoreStepInv DEF PipelineInv, StoreStep
<1>4. log' \in Seq(Record) /\ Len(log') <= MaxLsn
  BY <1>1, StoreAssumption DEF PipelineInv, OwnTypeOK
<1>5. OwnTypeOK'
  BY <1>2, <1>4 DEF PipelineInv, OwnTypeOK, procVars, mapVars, passVars
<1>6. /\ \A r : Justified(r) => Justified(r)'
      /\ \A u : DataLsns(u) \subseteq DataLsns(u)'
  BY <1>1, LogGrows DEF PipelineInv
<1>7. Provenance'
  BY <1>2, <1>6 DEF PipelineInv, Provenance, StoredOK, TodoOK, PendingOK, Stored,
                    storeVars, procVars, mapVars
<1> QED BY <1>3, <1>5, <1>7 DEF PipelineInv

LEMMA HandleRecordInv == ASSUME PipelineInv, HandleRecord PROVE PipelineInv'
<1> DEFINE l == NextLsn
           t == log[NextLsn].txn
<1>1. /\ l \in Lsns /\ l \in 1..Len(log) /\ t \in Txns
  BY ReadingRecord DEF PipelineInv, HandleRecord
<1>2. UNCHANGED <<sourceVars, schemaLoaded, since, ldfCheckpoint>>
  BY DEF HandleRecord
<1>3. \/ HandleBegin(l, t) \/ HandleCommit(l, t)
      \/ HandleAbort(l, t) \/ HandleChange(l, t)
  BY DEF HandleRecord
<1>4. RecordHandled
  BY <1>1, <1>2, <1>3, HandleHandled DEF sourceVars
<1>5. /\ cursor' \in 0..MaxLsn /\ maxLSN' \in 0..MaxLsn /\ readTo' \in 0..MaxLsn
      /\ errors' \in 0..MaxErrors
  <2>1. CASE PassFails /\ LeavePass
    BY <2>1, StoreAssumption, PassFailsType DEF PipelineInv, LeavePass
  <2>2. CASE cursor' = l /\ maxLSN' = l /\ UNCHANGED <<readTo, errors>>
    BY <1>1, <2>2, StoreAssumption DEF PipelineInv, OwnTypeOK, Lsns
  <2> QED BY <2>1, <2>2 DEF HandleRecord
<1>6. reasons' \in [Txns -> SUBSET Reasons]
  BY BlameType DEF PipelineInv, HandleRecord
<1>7. OwnTypeOK'
  BY <1>2, <1>4, <1>5, <1>6 DEF PipelineInv, OwnTypeOK, RecordHandled, sourceVars
<1>8. StoreInv'
  BY <1>4, StoreStepInv DEF PipelineInv, RecordHandled
<1> QED BY <1>4, <1>7, <1>8 DEF PipelineInv, RecordHandled

LEMMA WriteNextInv == ASSUME PipelineInv, WriteNext PROVE PipelineInv'
<1> DEFINE r == Head(todo)
<1>1. todo \in Seq(Row) /\ todo # <<>> /\ r \in Row /\ 1 \in DOMAIN todo /\ r = todo[1]
  BY DEF PipelineInv, OwnTypeOK, WriteNext
<1>2. StoreStep /\ Stored' \subseteq Stored \cup {r}
  BY <1>1, WriteRows DEF WriteNext, StoreStep, StoreNext
<1>3. r.txn \in Txns /\ Justified(r)
  BY <1>1 DEF Row, PipelineInv, Provenance, TodoOK
<1>4. UNCHANGED <<sourceVars, proc, schemaLoaded, since, ldfCheckpoint, errors, passVars>>
  BY DEF WriteNext
<1>5. /\ pending' \in [Txns -> Seq(Lsns)]
      /\ beginTimes' \in [Txns -> 0..MaxLsn]
      /\ excluded' \in SUBSET Txns
      /\ \A u \in Txns : pending'[u] = pending[u] \/ pending'[u] = <<>>
  <2>1. CASE Forget(r.txn)
    BY <1>3, <2>1, ForgetType DEF PipelineInv
  <2>2. CASE UNCHANGED mapVars
    BY <2>2 DEF PipelineInv, OwnTypeOK, mapVars
  <2> QED BY <2>1, <2>2 DEF WriteNext
<1>6. todo' \in Seq(Row) /\ \A i \in DOMAIN todo' : i + 1 \in DOMAIN todo /\ todo'[i] = todo[i + 1]
  BY <1>1 DEF WriteNext
<1>7. reasons' \in [Txns -> SUBSET Reasons]
  BY BlameType DEF PipelineInv, WriteNext
<1>8. OwnTypeOK'
  BY <1>4, <1>5, <1>6, <1>7 DEF PipelineInv, OwnTypeOK, sourceVars, passVars
<1>9. StoredOK'
  BY <1>2, <1>3, <1>4, SameLog DEF PipelineInv, Provenance, StoredOK, sourceVars
<1>10. TodoOK'
  BY <1>4, <1>6, SameLog DEF PipelineInv, Provenance, TodoOK, sourceVars
<1>11. PendingOK'
  BY <1>4, <1>5, SameLog DEF PipelineInv, Provenance, PendingOK, sourceVars
<1> QED BY <1>2, <1>8, <1>9, <1>10, <1>11, StoreStepInv DEF PipelineInv, Provenance

(* What every other step comes to: no new rows, statements kept or dropped.*)
LEMMA QuietInv ==
  ASSUME PipelineInv, StoreStep, Stored' \subseteq Stored, OwnTypeOK', UNCHANGED log,
         todo' = todo \/ todo' = <<>>,
         \A t \in Txns : pending'[t] = pending[t] \/ pending'[t] = <<>>
  PROVE  PipelineInv'
BY StoreStepInv, ProvenanceKept DEF PipelineInv

LEMMA NoStoreStep ==
  ASSUME UNCHANGED storeVars
  PROVE  StoreStep /\ Stored' \subseteq Stored
BY DEF storeVars, Stored, StoreStep

LEMMA SaveCheckpointStep ==
  ASSUME NEW l \in 0..MaxLsn, SaveCheckpoint(DB, l)
  PROVE  StoreStep /\ Stored' \subseteq Stored
BY PipelineAssumption DEF SaveCheckpoint, Stored, StoreStep, StoreNext

LEMMA FlushStep == ASSUME Flush PROVE StoreStep /\ Stored' \subseteq Stored
BY FlushRows DEF StoreStep, StoreNext

LEMMA StartPassType ==
  ASSUME OwnTypeOK, NEW from \in 0..MaxLsn, StartPass(from)
  PROVE  cursor' \in 0..MaxLsn /\ maxLSN' \in 0..MaxLsn /\ readTo' \in 0..MaxLsn
BY StoreAssumption, LenLogType DEF StartPass

LEMMA LeavePassType ==
  ASSUME LeavePass
  PROVE  cursor' \in 0..MaxLsn /\ maxLSN' \in 0..MaxLsn /\ readTo' \in 0..MaxLsn
BY StoreAssumption DEF LeavePass

-----------------------------------------------------------------------------
LEMMA PipelineInitInv == Init => PipelineInv
<1> SUFFICES ASSUME Init PROVE PipelineInv
  OBVIOUS
<1>1. StoreInv
  BY StoreInitInv DEF Init
<1>2. OwnTypeOK
  <2>1. 0 \in 0..MaxLsn /\ 0 \in 0..MaxErrors /\ <<>> \in Seq(Row) /\ <<>> \in Seq(Record)
    BY StoreAssumption, PipelineAssumption
  <2>2. NoPending \in [Txns -> Seq(Lsns)] /\ NoTimes \in [Txns -> 0..MaxLsn]
    BY <2>1 DEF NoPending, NoTimes
  <2>3. Len(log) <= MaxLsn
    BY StoreAssumption DEF Init
  <2>4. reasons \in [Txns -> SUBSET Reasons]
    BY DEF Init
  <2> QED BY <2>1, <2>2, <2>3, <2>4 DEF Init, OwnTypeOK
<1>3. Provenance
  BY DEF Init, StoreInit, Provenance, StoredOK, TodoOK, PendingOK, Stored, NoPending
<1> QED BY <1>1, <1>2, <1>3 DEF PipelineInv

LEMMA ScanInv ==
  ASSUME PipelineInv, StartScan \/ ScanOpenFails \/ EndScan \/ ScanReadFails \/ AutoScanFlush
  PROVE  PipelineInv'
<1>1. checkpoints[DB] \in 0..MaxLsn
  BY PipelineAssumption DEF PipelineInv, StoreInv, StoreTypeOK
<1>2. CASE StartScan
  <2>1. StoreStep /\ Stored' \subseteq Stored
    BY <1>2, NoStoreStep DEF StartScan
  <2>2. ldfCheckpoint' \in 0..MaxLsn
    BY <1>1, <1>2 DEF StartScan
  <2>3. cursor' \in 0..MaxLsn /\ maxLSN' \in 0..MaxLsn /\ readTo' \in 0..MaxLsn
    <3>1. (IF since' = 0 THEN ldfCheckpoint' ELSE 0) \in 0..MaxLsn
      BY <2>2, StoreAssumption
    <3> QED BY <1>2, <3>1, StartPassType DEF PipelineInv, StartScan
  <2>4. reasons' \in [Txns -> SUBSET Reasons]
    BY <1>2, BlameType DEF PipelineInv, StartScan
  <2>5. OwnTypeOK'
    BY <1>2, <2>2, <2>3, <2>4, FreshMapsType DEF PipelineInv, OwnTypeOK, StartScan, sourceVars
  <2> QED BY <1>2, <2>1, <2>5, FreshMapsType, QuietInv DEF StartScan, sourceVars
<1>3. CASE ScanOpenFails
  <2>1. StoreStep /\ Stored' \subseteq Stored
    BY <1>3, NoStoreStep DEF ScanOpenFails
  <2>2. errors' \in 0..MaxErrors /\ reasons' \in [Txns -> SUBSET Reasons]
    BY <1>3, BlameType, PassFailsType DEF PipelineInv, ScanOpenFails
  <2>3. OwnTypeOK'
    BY <1>1, <1>3, <2>2, FreshMapsType
       DEF PipelineInv, OwnTypeOK, ScanOpenFails, sourceVars, passVars
  <2> QED BY <1>3, <2>1, <2>3, FreshMapsType, QuietInv DEF ScanOpenFails, sourceVars
<1>4. CASE EndScan
  <2>1. maxLSN \in 0..MaxLsn /\ ldfCheckpoint \in 0..MaxLsn
    BY DEF PipelineInv, OwnTypeOK
  <2>2. StoreStep /\ Stored' \subseteq Stored /\ ldfCheckpoint' \in 0..MaxLsn
    BY <1>4, <2>1, NoStoreStep, SaveCheckpointStep DEF EndScan
  <2>3. reasons' \in [Txns -> SUBSET Reasons]
    BY <1>4, BlameType DEF PipelineInv, EndScan
  <2>4. OwnTypeOK'
    BY <1>4, <2>2, <2>3, FreshMapsType, LeavePassType
       DEF PipelineInv, OwnTypeOK, EndScan, sourceVars
  <2> QED BY <1>4, <2>2, <2>4, FreshMapsType, QuietInv DEF EndScan, sourceVars
<1>5. CASE ScanReadFails
  <2>1. StoreStep /\ Stored' \subseteq Stored
    BY <1>5, NoStoreStep DEF ScanReadFails
  <2>2. errors' \in 0..MaxErrors /\ reasons' \in [Txns -> SUBSET Reasons]
    BY <1>5, BlameType, PassFailsType DEF PipelineInv, ScanReadFails
  <2>3. OwnTypeOK'
    BY <1>5, <2>2, FreshMapsType, LeavePassType
       DEF PipelineInv, OwnTypeOK, ScanReadFails, sourceVars
  <2> QED BY <1>5, <2>1, <2>3, FreshMapsType, QuietInv DEF ScanReadFails, sourceVars
<1>6. CASE AutoScanFlush
  <2>1. StoreStep /\ Stored' \subseteq Stored
    BY <1>6, FlushStep DEF AutoScanFlush
  <2>2. reasons' \in [Txns -> SUBSET Reasons]
    BY <1>6, BlameType DEF PipelineInv, AutoScanFlush
  <2>3. OwnTypeOK'
    BY <1>6, <2>2 DEF PipelineInv, OwnTypeOK, AutoScanFlush, sourceVars, mapVars, passVars
  <2> QED BY <1>6, <2>1, <2>3, QuietInv DEF AutoScanFlush, sourceVars, mapVars
<1> QED BY <1>2, <1>3, <1>4, <1>5, <1>6

LEMMA PollInv ==
  ASSUME PipelineInv, StartPoll \/ EndPoll \/ PollReadFails \/ PollFlush
  PROVE  PipelineInv'
<1>1. CASE StartPoll
  <2>1. StoreStep /\ Stored' \subseteq Stored
    BY <1>1, NoStoreStep DEF StartPoll
  <2>2. PICK stale \in SUBSET Txns :
          /\ pending' = [t \in Txns |-> IF t \in stale THEN <<>> ELSE pending[t]]
          /\ beginTimes' = [t \in Txns |-> IF t \in stale THEN 0 ELSE beginTimes[t]]
          /\ excluded' = excluded \ stale
          /\ Blame(stale \X {"stale"})
    BY <1>1, PipelineAssumption DEF StartPoll
  <2>3. reasons' \in [Txns -> SUBSET Reasons]
    BY <2>2, BlameType DEF PipelineInv
  <2>4. cursor' \in 0..MaxLsn /\ maxLSN' \in 0..MaxLsn /\ readTo' \in 0..MaxLsn
    <3>1. CASE StartPass(ldfCheckpoint)
      <4>1. ldfCheckpoint \in 0..MaxLsn
        BY DEF PipelineInv, OwnTypeOK
      <4> QED BY <3>1, <4>1, StartPassType DEF PipelineInv
    <3>2. CASE UNCHANGED passVars
      BY <3>2 DEF PipelineInv, OwnTypeOK, passVars
    <3> QED BY <1>1, <3>1, <3>2 DEF StartPoll
  <2>5. pending' \in [Txns -> Seq(Lsns)] /\ beginTimes' \in [Txns -> 0..MaxLsn]
    BY <2>2, StoreAssumption DEF PipelineInv, OwnTypeOK
  <2>6. OwnTypeOK'
    BY <1>1, <2>2, <2>3, <2>4, <2>5 DEF PipelineInv, OwnTypeOK, StartPoll, sourceVars
  <2> QED BY <1>1, <2>1, <2>2, <2>6, QuietInv DEF StartPoll, sourceVars
<1>2. CASE EndPoll
  <2>1. maxLSN \in 0..MaxLsn /\ ldfCheckpoint \in 0..MaxLsn
    BY DEF PipelineInv, OwnTypeOK
  <2>2. StoreStep /\ Stored' \subseteq Stored /\ ldfCheckpoint' \in 0..MaxLsn
    BY <1>2, <2>1, NoStoreStep, SaveCheckpointStep DEF EndPoll
  <2>3. reasons' \in [Txns -> SUBSET Reasons]
    BY <1>2, BlameType DEF PipelineInv, EndPoll
  <2>4. OwnTypeOK'
    BY <1>2, <2>2, <2>3, LeavePassType
       DEF PipelineInv, OwnTypeOK, EndPoll, sourceVars, mapVars
  <2> QED BY <1>2, <2>2, <2>4, QuietInv DEF EndPoll, sourceVars, mapVars
<1>3. CASE PollReadFails
  <2>1. StoreStep /\ Stored' \subseteq Stored
    BY <1>3, NoStoreStep DEF PollReadFails
  <2>2. errors' \in 0..MaxErrors /\ reasons' \in [Txns -> SUBSET Reasons]
    BY <1>3, BlameType, PassFailsType DEF PipelineInv, PollReadFails
  <2>3. OwnTypeOK'
    BY <1>3, <2>2, LeavePassType DEF PipelineInv, OwnTypeOK, PollReadFails, sourceVars, mapVars
  <2> QED BY <1>3, <2>1, <2>3, QuietInv DEF PollReadFails, sourceVars, mapVars
<1>4. CASE PollFlush
  <2>1. StoreStep /\ Stored' \subseteq Stored
    BY <1>4, FlushStep DEF PollFlush
  <2>2. reasons' \in [Txns -> SUBSET Reasons]
    BY <1>4, BlameType DEF PipelineInv, PollFlush
  <2>3. OwnTypeOK'
    BY <1>4, <2>2 DEF PipelineInv, OwnTypeOK, PollFlush, sourceVars, mapVars, passVars
  <2> QED BY <1>4, <2>1, <2>3, QuietInv DEF PollFlush, sourceVars, mapVars
<1> QED BY <1>1, <1>2, <1>3, <1>4

LEMMA OthersInv ==
  ASSUME PipelineInv, OthersFlush \/ OthersFail \/ Crash
  PROVE  PipelineInv'
<1>1. ASSUME StoreStep, Stored' \subseteq Stored, NEW pairs, Blame(pairs),
             UNCHANGED <<sourceVars, procVars>>
      PROVE  PipelineInv'
  <2>1. reasons' \in [Txns -> SUBSET Reasons]
    BY <1>1, BlameType DEF PipelineInv
  <2>2. OwnTypeOK'
    BY <1>1, <2>1 DEF PipelineInv, OwnTypeOK, sourceVars, procVars, mapVars, passVars
  <2> QED BY <1>1, <2>2, QuietInv DEF sourceVars, procVars, mapVars
<1>2. CASE OthersFlush
  BY <1>1, <1>2, FlushStep DEF OthersFlush
<1>3. CASE OthersFail
  BY <1>1, <1>3, BatchStatementFailsRows DEF OthersFail, StoreStep
<1>4. CASE Crash
  <2>1. StoreStep /\ Stored' \subseteq Stored
    BY <1>4 DEF Crash, Restart, Reopen, EmptyBatch, Stored, StoreStep, StoreNext
  <2>2. FreshMaps /\ LeavePass /\ ldfCheckpoint' = 0 /\ todo' = <<>> /\ since' = 0
        /\ proc' = "down" /\ schemaLoaded' = FALSE
        /\ UNCHANGED <<log, head, errors, reasons>>
    BY <1>4 DEF Crash, sourceVars
  <2>3. ldfCheckpoint' \in 0..MaxLsn /\ todo' \in Seq(Row)
    BY <2>2, StoreAssumption
  <2>4. OwnTypeOK'
    BY <2>2, <2>3, FreshMapsType, LeavePassType DEF PipelineInv, OwnTypeOK
  <2> QED BY <2>1, <2>2, <2>4, FreshMapsType, QuietInv
<1> QED BY <1>2, <1>3, <1>4

LEMMA TruncateInv ==
  ASSUME PipelineInv, NEW h \in 1..Len(log), Truncate(h)
  PROVE  PipelineInv'
<1>1. StoreStep /\ Stored' \subseteq Stored
  BY NoStoreStep DEF Truncate
<1>2. head' \in 0..MaxLsn
  <2>1. Len(log) \in 0..MaxLsn
    BY LenLogType DEF PipelineInv
  <2> QED BY <2>1, StoreAssumption DEF Truncate
<1>3. UNCHANGED <<log, procVars, reasons>>
  BY DEF Truncate
<1>4. OwnTypeOK'
  BY <1>2, <1>3 DEF PipelineInv, OwnTypeOK, procVars, mapVars, passVars
<1> QED BY <1>1, <1>3, <1>4, QuietInv DEF procVars, mapVars

LEMMA PipelineNextInv ==
  ASSUME PipelineInv, [Next]_vars
  PROVE  PipelineInv'
<1>1. CASE Source
  BY <1>1, LogRecordInv, TruncateInv DEF Source
<1>2. CASE UNCHANGED vars
  <2>1. UNCHANGED <<storeVars, sourceVars, procVars, reasons>>
    BY <1>2 DEF vars
  <2>2. StoreStep /\ Stored' \subseteq Stored
    BY <2>1, NoStoreStep
  <2>3. OwnTypeOK'
    BY <2>1 DEF PipelineInv, OwnTypeOK, sourceVars, procVars, mapVars, passVars
  <2> QED BY <2>1, <2>2, <2>3, QuietInv DEF sourceVars, procVars, mapVars
<1> QED BY <1>1, <1>2, HandleRecordInv, WriteNextInv, ScanInv, PollInv, OthersInv
       DEF Next, Pipeline, Scan, Poll

(* In every reachable state of the pipeline and the store under it the     *)
(* variables have their types.                                             *)
THEOREM PipelineTypes == Spec => []PipelineTypeOK
<1>1. Init => PipelineInv
  BY PipelineInitInv
<1>2. PipelineInv /\ [Next]_vars => PipelineInv'
  BY PipelineNextInv
<1>3. PipelineInv => PipelineTypeOK
  BY DEF PipelineInv, StoreInv, OwnTypeOK, PipelineTypeOK
<1> QED BY <1>1, <1>2, <1>3, PTL DEF Spec

(* Whatever the source logs, whichever reads, store calls and processes    *)
(* fail: a row in the store is a change, logged under that LSN, of a       *)
(* transaction whose COMMIT is in the log.                                 *)
THEOREM CommittedOnly == Spec => []OnlyCommittedChanges
<1>1. Init => PipelineInv
  BY PipelineInitInv
<1>2. PipelineInv /\ [Next]_vars => PipelineInv'
  BY PipelineNextInv
<1>3. PipelineInv => OnlyCommittedChanges
  <2> SUFFICES ASSUME PipelineInv, NEW t \in Txns, RowsOf(t, View) # {}
               PROVE  /\ CommittedBy(t, Len(log))
                      /\ \A r \in RowsOf(t, View) : r.lsn \in DataLsns(t)
    BY DEF OnlyCommittedChanges
  <2>1. \A r \in RowsOf(t, View) : r \in Stored /\ r.db = DB /\ r.txn = t
    BY DEF RowsOf, View, Stored
  <2>2. \A r \in RowsOf(t, View) : CommittedBy(t, Len(log)) /\ r.lsn \in DataLsns(t)
    BY <2>1 DEF PipelineInv, Provenance, StoredOK, Justified
  <2> QED BY <2>2
<1> QED BY <1>1, <1>2, <1>3, PTL DEF Spec

-----------------------------------------------------------------------------
(***************************************************************************)
(* Checkpoints cover what is stored, for any log, any number of failures   *)
(* and restarts, and any batch size: whatever ldfCheckpoint passed is at   *)
(* least buffered, and whatever the persisted checkpoint passed is stored, *)
(* unless a transaction has one of the reasons.                            *)
(* Without --since the persisted checkpoint never moves back.              *)
(*                                                                         *)
(* Both speak of transactions that have ended.  ReadOK says where their    *)
(* changes were before, at the position of the pass under way or, between  *)
(* passes, at the checkpoint that the next one starts from.                *)
(***************************************************************************)

(* A user transaction whose bookkeeping nobody has dropped.                *)
Clean(t) == User(t) /\ reasons[t] = {}

EndedBy(t, n) == Logged(t, Ends, n)

Has(rows, t, l) == \E r \in rows : r.db = DB /\ r.txn = t /\ r.lsn = l
Waiting(t, l) == \E i \in DOMAIN todo : todo[i].txn = t /\ todo[i].lsn = l
Kept(t, l) == \E i \in DOMAIN pending[t] : pending[t][i] = l

CoveredBy(rows, n) ==
  \A t \in Txns : Clean(t) /\ CommittedBy(t, n) => \A l \in DataLsns(t) : Has(rows, t, l)

(* Where the next record read follows.                                     *)
Pos == IF proc \in {"scan", "read"} THEN cursor ELSE ldfCheckpoint

(* A transaction logs between its BEGIN and its end.                       *)
LogOK ==
  /\ \A i \in 1..Len(log) :
       \E j \in 1..i : log[j].txn = log[i].txn /\ log[j].op \in Begins
  /\ \A i, j \in 1..Len(log) :
       i < j /\ log[i].txn = log[j].txn => log[i].op \notin Ends /\ log[j].op \notin Begins

PositionsOK ==
  /\ checkpoints[DB] <= Len(log) /\ pendingCheckpoints[DB] <= Len(log)
  /\ ldfCheckpoint <= Len(log) /\ cursor <= Len(log)
  /\ maxLSN \in {0, cursor}
  /\ proc = "read" => ldfCheckpoint <= cursor /\ (maxLSN = 0 => cursor = ldfCheckpoint)

CheckpointsOK ==
  /\ CoveredBy(events, checkpoints[DB]) /\ CoveredBy(View, checkpoints[DB])
  /\ CoveredBy(View, pendingCheckpoints[DB])
  /\ CoveredBy(View, ldfCheckpoint)

(* What is known of t when the records up to n were read.                  *)
ReadTo(t, n) ==
  /\ CommittedBy(t, n) => \A l \in DataLsns(t) : Has(View, t, l) \/ Waiting(t, l)
  /\ ~EndedBy(t, n) => \A l \in DataLsns(t) : l <= n => Kept(t, l)

ReadOK == \A t \in Txns : Clean(t) => ReadTo(t, Pos)

ExcludedOK == \A t \in excluded : Logged(t, {"beginInternal", "cleanup"}, Len(log))

WaitingOK ==
  todo # <<>> =>
    /\ proc \in {"scan", "read"}
    /\ \A i \in DOMAIN todo :
         /\ todo[i].db = DB /\ todo[i].val \notin Tombstones
         /\ CommittedBy(todo[i].txn, cursor)

CoverInv ==
  PipelineInv /\ LogOK /\ PositionsOK /\ CheckpointsOK /\ ReadOK /\ ExcludedOK /\ WaitingOK

-----------------------------------------------------------------------------
(* The log.                                                                *)

LEMMA LogFacts ==
  ASSUME UNCHANGED log
  PROVE  /\ \A t : User(t)' <=> User(t)
         /\ \A t, n : CommittedBy(t, n)' <=> CommittedBy(t, n)
         /\ \A t, n : EndedBy(t, n)' <=> EndedBy(t, n)
         /\ \A t : DataLsns(t)' = DataLsns(t)
BY DEF User, CommittedBy, EndedBy, Logged, DataLsns

LEMMA DataLsnsInLog == \A t : \A l \in DataLsns(t) : l \in 1..Len(log) /\ log[l].txn = t /\ log[l].op = "data"
BY DEF DataLsns

LEMMA CommittedIsEnded == \A t, n : CommittedBy(t, n) => EndedBy(t, n)
BY DEF CommittedBy, EndedBy, Logged, Ends

(* A BEGIN is the only one of its transaction.                             *)
LEMMA UserOps ==
  ASSUME OwnTypeOK, LogOK, NEW t, User(t)
  PROVE  ~Logged(t, {"beginInternal", "cleanup"}, Len(log))
<1>1. PICK i \in 1..Len(log) : log[i].txn = t /\ log[i].op = "begin"
  BY DEF User, Logged
<1>2. \A j \in 1..Len(log) : log[j].txn = t => log[j].op # "beginInternal"
  <2> SUFFICES ASSUME NEW j \in 1..Len(log), log[j].txn = t, log[j].op = "beginInternal"
               PROVE  FALSE
    OBVIOUS
  <2>1. i # j /\ i \in Nat /\ j \in Nat
    BY <1>1
  <2>2. i < j \/ j < i
    BY <2>1
  <2> QED BY <1>1, <2>2 DEF LogOK, Begins
<1> QED BY <1>2 DEF User, Logged

LEMMA ExcludedIsNotUser ==
  ASSUME OwnTypeOK, LogOK, ExcludedOK, NEW t \in excluded
  PROVE  ~User(t)
BY UserOps DEF ExcludedOK

(* A transaction that has a change by n, and no end, is in flight at n.    *)
LEMMA DataInFlight ==
  ASSUME LogOK, NEW t \in Txns, NEW n \in Nat, NEW l \in DataLsns(t), l <= n, ~EndedBy(t, n)
  PROVE  t \in InFlight(n)
<1>1. l \in 1..Len(log) /\ log[l].txn = t
  BY DataLsnsInLog
<1>2. PICK j \in 1..l : log[j].txn = t /\ log[j].op \in Begins
  BY <1>1 DEF LogOK
<1>3. j \in 1..n
  BY <1>1, <1>2
<1>4. Logged(t, Begins, n)
  BY <1>2, <1>3 DEF Logged
<1> QED BY <1>4 DEF InFlight, EndedBy

-----------------------------------------------------------------------------
(* What a call of the store leaves of the rows that a reader saw, View: W  *)
(* with or without a commit, or without the batch.                         *)

Settling ==
  \/ UNCHANGED <<events, checkpoints, pendingCheckpoints>>
  \/ /\ events' = View'
     /\ checkpoints'[DB] \in {checkpoints[DB], pendingCheckpoints[DB]}
     /\ pendingCheckpoints'[DB] \in {pendingCheckpoints[DB], NoEntry}

StoreCall(W) ==
  \/ View' = W /\ Settling
  \/ View' = events /\ result' = "err" /\ UNCHANGED <<events, checkpoints, pendingCheckpoints>>

LEMMA FlushCheckpointsCall ==
  ASSUME NEW stored, FlushCheckpoints(stored)
  PROVE  /\ checkpoints'[DB] \in {checkpoints[DB], pendingCheckpoints[DB]}
         /\ pendingCheckpoints'[DB] \in {pendingCheckpoints[DB], NoEntry}
BY PipelineAssumption DEF FlushCheckpoints

LEMMA CommitBatchCall ==
  ASSUME NEW g, NEW a, NEW n, CommitBatch(g, a, n), NEW W, W = Applied(g, a)
  PROVE  StoreCall(W)
<1>1. View' = events'
  BY DEF CommitBatch, EmptyBatch, View
<1>2. CASE /\ events' = {r \in events : Key(r) \notin g} \cup a
           /\ \E stored \in SUBSET PendingDbs : FlushCheckpoints(stored)
  BY <1>1, <1>2, FlushCheckpointsCall DEF StoreCall, Settling, Applied
<1>3. CASE result' = "err" /\ UNCHANGED <<events, pendingCheckpoints, checkpoints>>
  BY <1>1, <1>3 DEF StoreCall
<1> QED BY <1>2, <1>3 DEF CommitBatch

LEMMA BufferCall ==
  ASSUME NEW g, NEW a, Buffer(g, a), NEW W, W = Applied(g, a)
  PROVE  StoreCall(W)
<1>1. CASE count + 1 >= BatchSize
  <2>1. CommitBatch(g, a, count + 1)
    BY <1>1 DEF Buffer
  <2> QED BY <2>1, CommitBatchCall
<1>2. CASE ~(count + 1 >= BatchSize)
  <2>1. gone' = g /\ added' = a /\ UNCHANGED <<events, checkpoints, pendingCheckpoints>>
    BY <1>2 DEF Buffer
  <2>2. View' = Applied(g, a)
    BY <2>1 DEF View, Applied
  <2> QED BY <2>1, <2>2 DEF StoreCall, Settling
<1> QED BY <1>1, <1>2

LEMMA BatchStatementFailsCall ==
  ASSUME NEW W, BatchStatementFails
  PROVE  StoreCall(W)
<1>1. View' = events
  BY DEF BatchStatementFails, RestartBatch, EmptyBatch, View
<1> QED BY <1>1 DEF BatchStatementFails, RestartBatch, StoreCall

LEMMA WriteCall ==
  ASSUME StoreInv, NEW r \in Row, r.val \notin Tombstones, Write(r),
         NEW W, W = {s \in View : ~Abstract!SameEvent(r, s)} \cup {r}
  PROVE  StoreCall(W)
<1>1. W = Applied(gone \cup {Key(r)}, {s \in added : Key(s) # Key(r)} \cup {r})
  BY WriteApplies
<1>2. CASE Buffer(gone \cup {Key(r)}, {s \in added : Key(s) # Key(r)} \cup {r})
  BY <1>1, <1>2, BufferCall
<1> QED BY <1>2, BatchStatementFailsCall DEF Write

LEMMA DeleteLSNCall ==
  ASSUME StoreInv, NEW d \in Dbs, NEW l \in Lsns, DeleteLSN(d, l),
         NEW W, W = {s \in View : ~(s.db = d /\ s.lsn = l)}
  PROVE  StoreCall(W)
<1>1. W = Applied(gone \cup {<<d, l>>}, {s \in added : Key(s) # <<d, l>>})
  BY DeleteLSNApplies
<1>2. CASE Buffer(gone \cup {<<d, l>>}, {s \in added : Key(s) # <<d, l>>})
  BY <1>1, <1>2, BufferCall
<1> QED BY <1>2, BatchStatementFailsCall DEF DeleteLSN

LEMMA DeleteTransactionCall ==
  ASSUME StoreInv, NEW d \in Dbs, NEW t \in Txns, DeleteTransaction(d, t),
         NEW W, W = {s \in View : ~(s.db = d /\ s.txn = t)}
  PROVE  StoreCall(W) \/ StoreCall(View)
<1> DEFINE g == gone \cup {Key(r) : r \in {s \in View : s.db = d /\ s.txn = t}}
           a == {s \in added : ~(s.db = d /\ s.txn = t)}
<1>1. CASE Buffer(g, a)
  <2>1. W = Applied(g, a)
    BY DeleteTransactionApplies
  <2> HIDE DEF g, a
  <2> QED BY <1>1, <2>1, BufferCall
<1>2. CASE DeleteTransactionFails
  <2>1. result' = "err" /\ UNCHANGED <<events, checkpoints, pendingCheckpoints>>
    BY <1>2 DEF DeleteTransactionFails
  <2>2. View' = View \/ View' = events
    BY <1>2 DEF DeleteTransactionFails, EmptyBatch, View
  <2> QED BY <2>1, <2>2 DEF StoreCall, Settling
<1> QED BY <1>1, <1>2 DEF DeleteTransaction

LEMMA FlushCall == ASSUME StoreInv, Flush PROVE StoreCall(View)
<1>1. CASE CommitBatch(gone, added, count)
  <2>1. View = Applied(gone, added)
    BY DEF View, Applied
  <2> QED BY <1>1, <2>1, CommitBatchCall
<1>2. CASE /\ count = 0
           /\ \E stored \in SUBSET PendingDbs : FlushCheckpoints(stored)
           /\ UNCHANGED <<events, gone, added>>
  <2>1. View = events /\ View' = events'
    BY <1>2 DEF View, StoreInv, BatchInv
  <2>2. Settling
    BY <1>2, <2>1, FlushCheckpointsCall DEF Settling
  <2> QED BY <1>2, <2>1, <2>2 DEF StoreCall
<1> QED BY <1>1, <1>2 DEF Flush, FlushBody

-----------------------------------------------------------------------------
(* Steps that leave the log and lose no row of a clean transaction.        *)

Survives ==
  /\ UNCHANGED log
  /\ \A t \in Txns : Clean(t)' => Clean(t) /\ \A l : Has(View, t, l) => Has(View, t, l)'

LEMMA BlameFacts ==
  ASSUME OwnTypeOK, NEW pairs, Blame(pairs), NEW t \in Txns, reasons'[t] = {}
  PROVE  reasons[t] = {} /\ \A why \in Reasons : <<t, why>> \notin pairs
BY DEF OwnTypeOK, Blame

LEMMA CallSurvives ==
  ASSUME OwnTypeOK, UNCHANGED log, NEW W, StoreCall(W),
         NEW pairs, Blame(pairs), StoreBlame \subseteq pairs,
         \A t \in Txns : Clean(t)' => \A l : Has(View, t, l) => Has(W, t, l)
  PROVE  Survives
<1> SUFFICES ASSUME NEW t \in Txns, Clean(t)'
             PROVE  Clean(t) /\ \A l : Has(View, t, l) => Has(View, t, l)'
  BY DEF Survives
<1>1. User(t) /\ reasons'[t] = {}
  BY LogFacts DEF Clean
<1>2. Clean(t)
  BY <1>1, BlameFacts DEF Clean
<1>3. CASE View' = W
  <2>1. ASSUME NEW l, Has(View, t, l) PROVE Has(View, t, l)'
    <3>1. Has(W, t, l)
      BY <2>1
    <3> QED BY <1>3, <3>1 DEF Has
  <2> QED BY <1>2, <2>1
<1>4. CASE View' = events /\ result' = "err"
  <2>1. \A r \in added : r.txn # t
    <3> SUFFICES ASSUME NEW r \in added, r.txn = t PROVE FALSE
      OBVIOUS
    <3>1. <<t, "store">> \in pairs
      BY <1>4 DEF StoreBlame
    <3> QED BY <1>1, <3>1, BlameFacts DEF Reasons
  <2> QED BY <1>2, <1>4, <2>1 DEF Has, View
<1> QED BY <1>2, <1>3, <1>4 DEF StoreCall

LEMMA QuietSurvives ==
  ASSUME OwnTypeOK, UNCHANGED <<log, events, gone, added>>,
         UNCHANGED reasons \/ \E pairs : Blame(pairs)
  PROVE  Survives
<1> SUFFICES ASSUME NEW t \in Txns, Clean(t)'
             PROVE  Clean(t) /\ \A l : Has(View, t, l) => Has(View, t, l)'
  BY DEF Survives
<1>1. User(t) /\ reasons'[t] = {}
  BY LogFacts DEF Clean
<1>2. Clean(t)
  BY <1>1, BlameFacts DEF Clean
<1>3. View' = View
  BY DEF View
<1> QED BY <1>2, <1>3 DEF Has

LEMMA CoveredStays ==
  ASSUME Survives, NEW n, CoveredBy(View, n)
  PROVE  CoveredBy(View, n)'
<1> SUFFICES ASSUME NEW t \in Txns, Clean(t)', CommittedBy(t, n)', NEW l \in DataLsns(t)'
             PROVE  Has(View, t, l)'
  BY DEF CoveredBy
<1>1. Clean(t) /\ CommittedBy(t, n) /\ l \in DataLsns(t)
  BY LogFacts DEF Survives
<1> QED BY <1>1 DEF CoveredBy, Survives

LEMMA CheckpointsStay ==
  ASSUME CheckpointsOK, Survives, Settling,
         ldfCheckpoint' \in {ldfCheckpoint, checkpoints[DB]}
  PROVE  CheckpointsOK'
<1>1. \A n : CoveredBy(View, n) => CoveredBy(View, n)'
  BY CoveredStays
<1>2. CoveredBy(View, NoEntry)'
  BY DEF CoveredBy, CommittedBy, Logged, NoEntry
<1>3. CASE UNCHANGED <<events, checkpoints, pendingCheckpoints>>
  <2>1. CoveredBy(events, checkpoints[DB])'
    <3> SUFFICES ASSUME NEW t \in Txns, Clean(t)', CommittedBy(t, checkpoints[DB])',
                        NEW l \in DataLsns(t)'
                 PROVE  Has(events, t, l)'
      BY DEF CoveredBy
    <3>1. Clean(t) /\ CommittedBy(t, checkpoints[DB]) /\ l \in DataLsns(t)
      BY <1>3, LogFacts DEF Survives
    <3> QED BY <1>3, <3>1 DEF CheckpointsOK, CoveredBy, Has
  <2> QED BY <1>1, <1>3, <2>1 DEF CheckpointsOK
<1>4. CASE /\ events' = View'
           /\ checkpoints'[DB] \in {checkpoints[DB], pendingCheckpoints[DB]}
           /\ pendingCheckpoints'[DB] \in {pendingCheckpoints[DB], NoEntry}
  <2>1. CoveredBy(View, checkpoints[DB])'
    BY <1>1, <1>4 DEF CheckpointsOK
  <2>2. CoveredBy(events, checkpoints[DB])'
    BY <1>4, <2>1 DEF CoveredBy
  <2> QED BY <1>1, <1>2, <1>4, <2>1, <2>2 DEF CheckpointsOK
<1> QED BY <1>3, <1>4 DEF Settling

LEMMA CallSettles == ASSUME NEW W, StoreCall(W) PROVE Settling
BY DEF StoreCall, Settling

LEMMA FlushSurvives ==
  ASSUME PipelineInv, UNCHANGED log, Flush, Blame(StoreBlame)
  PROVE  Survives /\ Settling
<1>1. StoreCall(View)
  BY FlushCall DEF PipelineInv
<1> QED BY <1>1, CallSettles, CallSurvives DEF PipelineInv

LEMMA RowsAreLogged ==
  ASSUME PipelineInv, NEW r \in View, r.db = DB
  PROVE  r.lsn \in DataLsns(r.txn)
BY DEF PipelineInv, Provenance, StoredOK, Stored, Justified, View

LEMMA DeleteLSNSurvives ==
  ASSUME PipelineInv, UNCHANGED log, NEW k \in Lsns, log[k].op = "nonBase", DeleteLSN(DB, k),
         NEW pairs, Blame(pairs), StoreBlame \subseteq pairs
  PROVE  Survives /\ Settling
<1> DEFINE W == {s \in View : ~(s.db = DB /\ s.lsn = k)}
<1>1. StoreCall(W)
  BY DeleteLSNCall, PipelineAssumption DEF PipelineInv
<1>2. ASSUME NEW t \in Txns, NEW l, Has(View, t, l) PROVE Has(W, t, l)
  BY <1>2, RowsAreLogged, DataLsnsInLog DEF Has
<1> HIDE DEF W
<1> QED BY <1>1, <1>2, CallSettles, CallSurvives DEF PipelineInv

LEMMA DeleteTransactionSurvives ==
  ASSUME PipelineInv, UNCHANGED log, NEW u \in Txns, ~User(u), DeleteTransaction(DB, u),
         NEW pairs, Blame(pairs), StoreBlame \subseteq pairs
  PROVE  Survives /\ Settling
<1> DEFINE W == {s \in View : ~(s.db = DB /\ s.txn = u)}
<1>1. StoreCall(W) \/ StoreCall(View)
  BY DeleteTransactionCall, PipelineAssumption DEF PipelineInv
<1>2. ASSUME NEW t \in Txns, Clean(t)', NEW l, Has(View, t, l) PROVE Has(W, t, l)
  <2>1. t # u
    BY <1>2, LogFacts DEF Clean
  <2> QED BY <1>2, <2>1 DEF Has
<1> HIDE DEF W
<1> QED BY <1>1, <1>2, CallSettles, CallSurvives DEF PipelineInv

(* A row written takes the place of one only if it is of the same change.  *)
LEMMA WriteSurvives ==
  ASSUME PipelineInv, WaitingOK, WriteNext
  PROVE  /\ Survives /\ Settling
         /\ \A t \in Txns : \A l :
              Clean(t)' /\ Head(todo).txn = t /\ Head(todo).lsn = l => Has(View, t, l)'
<1> DEFINE r == Head(todo)
           W == {s \in View : ~Abstract!SameEvent(r, s)} \cup {r}
<1>1. todo \in Seq(Row) /\ todo # <<>> /\ 1 \in DOMAIN todo /\ r = todo[1] /\ r \in Row
  BY DEF PipelineInv, OwnTypeOK, WriteNext
<1>2. r.db = DB /\ r.val \notin Tombstones /\ r.lsn \in DataLsns(r.txn)
  BY <1>1 DEF WaitingOK, PipelineInv, Provenance, TodoOK, Justified
<1>3. StoreCall(W)
  BY <1>1, <1>2, WriteCall DEF PipelineInv, WriteNext
<1>4. ASSUME NEW t \in Txns, NEW l, Has(View, t, l) PROVE Has(W, t, l)
  <2>1. PICK s \in View : s.db = DB /\ s.txn = t /\ s.lsn = l
    BY <1>4 DEF Has
  <2>2. CASE Abstract!SameEvent(r, s)
    <3>1. r.lsn = l /\ r.txn = t
      BY <1>2, <2>1, <2>2, RowsAreLogged, DataLsnsInLog DEF Abstract!SameEvent
    <3> QED BY <1>2, <3>1 DEF Has
  <2>3. CASE ~Abstract!SameEvent(r, s)
    BY <2>1, <2>3 DEF Has
  <2> QED BY <2>2, <2>3
<1>5. UNCHANGED log /\ Blame(StoreBlame)
  BY DEF WriteNext, sourceVars
<1>6. ASSUME NEW t \in Txns, NEW l, Clean(t)', r.txn = t, r.lsn = l
      PROVE  Has(View, t, l)'
  <2>1. CASE View' = W
    BY <1>2, <1>6, <2>1 DEF Has
  <2>2. CASE result' = "err"
    <3>1. t \in {todo[i].txn : i \in DOMAIN todo}
      BY <1>1, <1>6
    <3>2. <<t, "store">> \in StoreBlame
      BY <2>2, <3>1 DEF StoreBlame
    <3> QED BY <1>5, <1>6, <3>2, BlameFacts DEF Clean, Reasons, PipelineInv
  <2> QED BY <1>3, <2>1, <2>2 DEF StoreCall
<1> HIDE DEF W
<1>7. Survives /\ Settling
  BY <1>3, <1>4, <1>5, CallSettles, CallSurvives DEF PipelineInv
<1> QED BY <1>6, <1>7

-----------------------------------------------------------------------------
(* Where the changes of a transaction are.                                 *)

(* The position stays: what was kept is kept, what waited is stored.       *)
LEMMA ReadStays ==
  ASSUME ReadOK, Survives, Pos' = Pos,
         \A t \in Txns : Clean(t)' /\ ~EndedBy(t, Pos) =>
           \A l : Kept(t, l) => Kept(t, l)',
         \A t \in Txns : Clean(t)' =>
           \A l : Waiting(t, l) => Waiting(t, l)' \/ Has(View, t, l)'
  PROVE  ReadOK'
<1> SUFFICES ASSUME NEW t \in Txns, Clean(t)' PROVE ReadTo(t, Pos)'
  BY DEF ReadOK
<1>1. Clean(t) /\ ReadTo(t, Pos)
  BY DEF Survives, ReadOK
<1>2. /\ DataLsns(t)' = DataLsns(t)
      /\ CommittedBy(t, Pos)' <=> CommittedBy(t, Pos)
      /\ EndedBy(t, Pos)' <=> EndedBy(t, Pos)
  BY LogFacts DEF Survives
<1>3. CommittedBy(t, Pos) => \A l \in DataLsns(t) : Has(View, t, l)' \/ Waiting(t, l)'
  BY <1>1 DEF ReadTo, Survives
<1>4. ~EndedBy(t, Pos) => \A l \in DataLsns(t) : l <= Pos => Kept(t, l)'
  BY <1>1 DEF ReadTo
<1> QED BY <1>2, <1>3, <1>4 DEF ReadTo

(* Whoever takes over at n knows nothing of what is in flight, and says so.*)
LEMMA ReadFresh ==
  ASSUME LogOK, Survives, NEW n \in Nat, Pos' = n, CoveredBy(View, n),
         \A t \in InFlight(n) : reasons'[t] # {}
  PROVE  ReadOK'
<1> SUFFICES ASSUME NEW t \in Txns, Clean(t)' PROVE ReadTo(t, Pos)'
  BY DEF ReadOK
<1>1. Clean(t) /\ t \notin InFlight(n)
  BY DEF Survives, Clean
<1>2. /\ DataLsns(t)' = DataLsns(t)
      /\ CommittedBy(t, Pos)' <=> CommittedBy(t, n)
      /\ EndedBy(t, Pos)' <=> EndedBy(t, n)
  BY LogFacts DEF Survives
<1>3. CommittedBy(t, n) => \A l \in DataLsns(t) : Has(View, t, l)'
  BY <1>1 DEF CoveredBy, Survives
<1>4. ~EndedBy(t, n) => \A l \in DataLsns(t) : ~(l <= n)
  BY <1>1, DataInFlight
<1> QED BY <1>2, <1>3, <1>4 DEF ReadTo

(* Nothing waits at the end of a pass: what it has read is in the store.   *)
LEMMA ReadCovers ==
  ASSUME ReadOK, todo = <<>>
  PROVE  CoveredBy(View, Pos)
BY DEF ReadOK, ReadTo, Waiting, CoveredBy

LEMMA HandedOff ==
  ASSUME OwnTypeOK, NEW n, NEW pairs, Blame(pairs), InFlight(n) \X {"handoff"} \subseteq pairs
  PROVE  \A t \in InFlight(n) : reasons'[t] # {}
<1> SUFFICES ASSUME NEW t \in InFlight(n), reasons'[t] = {} PROVE FALSE
  OBVIOUS
<1>1. t \in Txns /\ <<t, "handoff">> \in pairs
  BY DEF InFlight
<1> QED BY <1>1, BlameFacts DEF Reasons

LEMMA ExcludedStays ==
  ASSUME ExcludedOK, UNCHANGED log, excluded' \subseteq excluded
  PROVE  ExcludedOK'
BY DEF ExcludedOK, Logged

-----------------------------------------------------------------------------
(* The steps that read no record.                                          *)

LEMMA CheckpointInLog ==
  ASSUME PipelineInv, PositionsOK
  PROVE  /\ checkpoints[DB] \in Nat /\ checkpoints[DB] <= Len(log)
         /\ ldfCheckpoint \in Nat /\ cursor \in Nat /\ Len(log) \in Nat
BY PipelineAssumption DEF PipelineInv, StoreInv, StoreTypeOK, OwnTypeOK, PositionsOK

(* Checkpoints stay in the log, whichever of them a call persists.         *)
LEMMA SettledInLog ==
  ASSUME PipelineInv, PositionsOK, Settling, UNCHANGED log
  PROVE  checkpoints'[DB] <= Len(log)' /\ pendingCheckpoints'[DB] <= Len(log)'
<1>1. NoEntry <= Len(log)
  BY CheckpointInLog DEF NoEntry
<1> QED BY <1>1 DEF Settling, PositionsOK

LEMMA NothingWaits ==
  ASSUME WaitingOK, todo' = todo, proc \notin {"scan", "read"}
  PROVE  todo = <<>> /\ WaitingOK'
BY DEF WaitingOK

LEMMA StartScanCover == ASSUME CoverInv, StartScan PROVE CoverInv'
<1> USE DEF CoverInv
<1>1. PipelineInv'
  BY ScanInv
<1>2. /\ proc = "down" /\ proc' = "scan" /\ UNCHANGED <<storeVars, sourceVars, todo>>
      /\ ldfCheckpoint' = checkpoints[DB] /\ cursor' \in {0, checkpoints[DB]} /\ maxLSN' = 0
      /\ excluded' = {}
  BY DEF StartScan, StartPass, FreshMaps
<1>3. UNCHANGED <<log, events, gone, added, checkpoints, pendingCheckpoints>>
  BY <1>2 DEF storeVars, sourceVars
<1>4. Survives
  BY <1>3, QuietSurvives DEF StartScan, PipelineInv
<1>5. Settling
  BY <1>3 DEF Settling
<1>6. LogOK' /\ ExcludedOK'
  BY <1>2, <1>3, ExcludedStays DEF LogOK
<1>7. PositionsOK'
  BY <1>2, <1>3, CheckpointInLog DEF PositionsOK
<1>8. CheckpointsOK'
  BY <1>2, <1>4, <1>5, CheckpointsStay
<1>9. ReadOK'
  <2>1. PICK n \in {0, checkpoints[DB]} : cursor' = n
    BY <1>2
  <2>2. n \in Nat /\ Pos' = n
    BY <1>2, <2>1, CheckpointInLog DEF Pos
  <2>3. CoveredBy(View, n)
    <3>1. CoveredBy(View, 0)
      BY DEF CoveredBy, CommittedBy, Logged
    <3> QED BY <2>1, <3>1 DEF CheckpointsOK
  <2>4. InFlight(n) \X {"handoff"} \subseteq InFlight(cursor') \X {"handoff"}
    BY <2>1 DEF InFlight, Logged
  <2>5. \A t \in InFlight(n) : reasons'[t] # {}
    BY <2>4, HandedOff DEF StartScan, PipelineInv
  <2> QED BY <1>4, <2>2, <2>3, <2>5, ReadFresh
<1>10. WaitingOK'
  BY <1>2, NothingWaits
<1> QED BY <1>1, <1>6, <1>7, <1>8, <1>9, <1>10

LEMMA ScanOpenFailsCover == ASSUME CoverInv, ScanOpenFails PROVE CoverInv'
<1> USE DEF CoverInv
<1>1. PipelineInv'
  BY ScanInv
<1>2. /\ proc = "down" /\ proc' = "scanned" /\ UNCHANGED <<storeVars, sourceVars, todo, passVars>>
      /\ ldfCheckpoint' = checkpoints[DB] /\ excluded' = {}
  BY DEF ScanOpenFails, FreshMaps
<1>3. UNCHANGED <<log, events, gone, added, checkpoints, pendingCheckpoints, cursor, maxLSN>>
  BY <1>2 DEF storeVars, sourceVars, passVars
<1>4. Survives
  BY <1>3, QuietSurvives DEF ScanOpenFails, PipelineInv
<1>5. Settling
  BY <1>3 DEF Settling
<1>6. LogOK' /\ ExcludedOK'
  BY <1>2, <1>3, ExcludedStays DEF LogOK
<1>7. PositionsOK'
  BY <1>2, <1>3, CheckpointInLog DEF PositionsOK
<1>8. CheckpointsOK'
  BY <1>2, <1>4, <1>5, CheckpointsStay
<1>9. ReadOK'
  <2>1. PICK n \in Nat : n = checkpoints[DB]
    BY CheckpointInLog
  <2>2. Pos' = n /\ CoveredBy(View, n)
    BY <1>2, <2>1 DEF Pos, CheckpointsOK
  <2>3. InFlight(n) \X {"handoff"} \subseteq InFlight(ldfCheckpoint') \X {"handoff"}
    BY <1>2, <2>1 DEF InFlight, Logged
  <2>4. \A t \in InFlight(n) : reasons'[t] # {}
    BY <2>3, HandedOff DEF ScanOpenFails, PipelineInv
  <2> QED BY <1>4, <2>2, <2>4, ReadFresh
<1>10. WaitingOK'
  BY <1>2, NothingWaits
<1> QED BY <1>1, <1>6, <1>7, <1>8, <1>9, <1>10

(* The checkpoint a pass leaves: its last record, or none of its own.      *)
PassEnds ==
  /\ UNCHANGED <<events, gone, added, checkpoints>>
  /\ \/ maxLSN # 0 /\ ldfCheckpoint' = maxLSN /\ pendingCheckpoints'[DB] = maxLSN
     \/ UNCHANGED <<ldfCheckpoint, pendingCheckpoints>>

LEMMA PassEndsCheckpoints ==
  ASSUME CheckpointsOK, ReadOK, PositionsOK, Survives, PassEnds, todo = <<>>, Pos = cursor
  PROVE  CheckpointsOK' /\ CoveredBy(View, ldfCheckpoint')
<1>1. \A n : CoveredBy(View, n) => CoveredBy(View, n)'
  BY CoveredStays
<1>2. CoveredBy(View, cursor)
  BY ReadCovers
<1>3. CoveredBy(View, ldfCheckpoint')
  BY <1>2 DEF PassEnds, PositionsOK, CheckpointsOK
<1>4. CoveredBy(View, pendingCheckpoints'[DB])
  BY <1>2 DEF PassEnds, PositionsOK, CheckpointsOK
<1>5. CoveredBy(events, checkpoints[DB])'
  <2> SUFFICES ASSUME NEW t \in Txns, Clean(t)', CommittedBy(t, checkpoints[DB])',
                      NEW l \in DataLsns(t)'
               PROVE  Has(events, t, l)'
    BY DEF CoveredBy
  <2>1. Clean(t) /\ CommittedBy(t, checkpoints[DB]) /\ l \in DataLsns(t)
    BY LogFacts DEF Survives, PassEnds
  <2> QED BY <2>1 DEF CheckpointsOK, CoveredBy, Has, PassEnds
<1> QED BY <1>1, <1>3, <1>4, <1>5 DEF CheckpointsOK, PassEnds

LEMMA SaveCheckpointRows ==
  ASSUME NEW l, SaveCheckpoint(DB, l), pendingCheckpoints \in [Dbs -> Int]
  PROVE  UNCHANGED <<events, gone, added, checkpoints>> /\ pendingCheckpoints'[DB] = l
BY PipelineAssumption DEF SaveCheckpoint

LEMMA PendingType == ASSUME PipelineInv PROVE pendingCheckpoints \in [Dbs -> Int]
BY StoreAssumption DEF PipelineInv, StoreInv, StoreTypeOK, NoEntry

LEMMA EndScanCover == ASSUME CoverInv, EndScan PROVE CoverInv'
<1> USE DEF CoverInv
<1>1. PipelineInv'
  BY ScanInv
<1>2. /\ proc = "scan" /\ proc' = "scanned" /\ UNCHANGED <<sourceVars, todo>> /\ todo = <<>>
      /\ excluded' = {} /\ cursor' = 0 /\ maxLSN' = 0 /\ Pos = cursor
  BY DEF EndScan, PassOver, Reading, FreshMaps, LeavePass, Pos
<1>3. PassEnds /\ UNCHANGED log
  BY PendingType, SaveCheckpointRows DEF EndScan, PassEnds, storeVars, sourceVars
<1>4. Survives
  BY <1>3, QuietSurvives DEF EndScan, PipelineInv, PassEnds
<1>5. LogOK' /\ ExcludedOK'
  BY <1>2, <1>3, ExcludedStays DEF LogOK
<1>6. PositionsOK'
  BY <1>2, <1>3, CheckpointInLog DEF PositionsOK, PassEnds
<1>7. CheckpointsOK' /\ CoveredBy(View, ldfCheckpoint')
  BY <1>2, <1>3, <1>4, PassEndsCheckpoints
<1>8. ReadOK'
  <2>1. PICK n \in Nat : n = ldfCheckpoint'
    BY <1>3, CheckpointInLog DEF PassEnds, PositionsOK
  <2>2. Pos' = n /\ CoveredBy(View, n)
    BY <1>2, <1>7, <2>1 DEF Pos
  <2>3. InFlight(n) \X {"handoff"} \subseteq InFlight(ldfCheckpoint') \X {"handoff"}
    BY <2>1 DEF InFlight, Logged
  <2>4. \A t \in InFlight(n) : reasons'[t] # {}
    BY <2>3, HandedOff DEF EndScan, PipelineInv
  <2> QED BY <1>4, <2>2, <2>4, ReadFresh
<1>9. WaitingOK'
  BY <1>2 DEF WaitingOK
<1> QED BY <1>1, <1>5, <1>6, <1>7, <1>8, <1>9

LEMMA ScanReadFailsCover == ASSUME CoverInv, ScanReadFails PROVE CoverInv'
<1> USE DEF CoverInv
<1>1. PipelineInv'
  BY ScanInv
<1>2. /\ proc' = "scanned" /\ UNCHANGED <<storeVars, sourceVars, todo, ldfCheckpoint>>
      /\ todo = <<>> /\ excluded' = {} /\ cursor' = 0 /\ maxLSN' = 0
  BY DEF ScanReadFails, Reading, FreshMaps, LeavePass
<1>3. UNCHANGED <<log, events, gone, added, checkpoints, pendingCheckpoints>>
  BY <1>2 DEF storeVars, sourceVars
<1>4. Survives
  BY <1>3, QuietSurvives DEF ScanReadFails, PipelineInv
<1>5. Settling
  BY <1>3 DEF Settling
<1>6. LogOK' /\ ExcludedOK'
  BY <1>2, <1>3, ExcludedStays DEF LogOK
<1>7. PositionsOK'
  BY <1>2, <1>3, CheckpointInLog DEF PositionsOK
<1>8. CheckpointsOK'
  BY <1>2, <1>4, <1>5, CheckpointsStay
<1>9. ReadOK'
  <2>1. PICK n \in Nat : n = ldfCheckpoint
    BY CheckpointInLog
  <2>2. Pos' = n /\ CoveredBy(View, n)
    BY <1>2, <2>1 DEF Pos, CheckpointsOK
  <2>3. \A t \in InFlight(n) : reasons'[t] # {}
    BY <2>1, HandedOff DEF ScanReadFails, PipelineInv
  <2> QED BY <1>4, <2>2, <2>3, ReadFresh
<1>10. WaitingOK'
  BY <1>2 DEF WaitingOK
<1> QED BY <1>1, <1>6, <1>7, <1>8, <1>9, <1>10

(* Steps of the store alone, and what does not move the position.          *)
LEMMA StandStill ==
  ASSUME CoverInv, PipelineInv', Survives, Settling,
         UNCHANGED <<ldfCheckpoint, cursor, maxLSN, pending, todo, excluded>>,
         proc' = proc \/ {proc, proc'} \cap {"scan", "read"} = {}
  PROVE  CoverInv'
<1> USE DEF CoverInv
<1>1. UNCHANGED log
  BY DEF Survives
<1>2. LogOK' /\ ExcludedOK'
  BY <1>1, ExcludedStays DEF LogOK
<1>3. PositionsOK'
  BY <1>1, SettledInLog DEF PositionsOK
<1>4. CheckpointsOK'
  BY CheckpointsStay
<1>5. Pos' = Pos
  BY DEF Pos
<1>6. ReadOK'
  BY <1>5, ReadStays DEF Kept, Waiting
<1>7. WaitingOK'
  BY <1>1, LogFacts DEF WaitingOK
<1> QED BY <1>2, <1>3, <1>4, <1>6, <1>7

LEMMA FlushesCover ==
  ASSUME CoverInv, AutoScanFlush \/ PollFlush \/ OthersFlush
  PROVE  CoverInv'
<1>1. PipelineInv'
  BY ScanInv, PollInv, OthersInv DEF CoverInv
<1>2. UNCHANGED log /\ Flush /\ Blame(StoreBlame)
  BY DEF AutoScanFlush, PollFlush, OthersFlush, sourceVars
<1>3. UNCHANGED <<ldfCheckpoint, cursor, maxLSN, pending, todo, excluded>>
  BY DEF AutoScanFlush, PollFlush, OthersFlush, procVars, mapVars, passVars
<1>4. proc' = proc \/ {proc, proc'} \cap {"scan", "read"} = {}
  BY DEF AutoScanFlush, PollFlush, OthersFlush, procVars
<1> QED BY <1>1, <1>2, <1>3, <1>4, FlushSurvives, StandStill DEF CoverInv

LEMMA OthersFailCover == ASSUME CoverInv, OthersFail PROVE CoverInv'
<1>1. PipelineInv'
  BY OthersInv DEF CoverInv
<1>2. UNCHANGED log /\ Blame(StoreBlame) /\ StoreCall(View)
  BY BatchStatementFailsCall DEF OthersFail, sourceVars
<1>3. UNCHANGED <<proc, ldfCheckpoint, cursor, maxLSN, pending, todo, excluded>>
  BY DEF OthersFail, procVars, mapVars, passVars
<1>4. Survives /\ Settling
  BY <1>2, CallSurvives, CallSettles DEF CoverInv, PipelineInv
<1> QED BY <1>1, <1>3, <1>4, StandStill

LEMMA TruncateCover ==
  ASSUME CoverInv, NEW h \in 1..Len(log), Truncate(h)
  PROVE  CoverInv'
<1>1. PipelineInv'
  BY TruncateInv DEF CoverInv
<1>2. UNCHANGED <<log, events, gone, added, checkpoints, pendingCheckpoints, reasons>>
  BY DEF Truncate, storeVars
<1>3. UNCHANGED <<proc, ldfCheckpoint, cursor, maxLSN, pending, todo, excluded>>
  BY DEF Truncate, procVars, mapVars, passVars
<1>4. Survives /\ Settling
  BY <1>2, QuietSurvives DEF Settling, CoverInv, PipelineInv
<1> QED BY <1>1, <1>3, <1>4, StandStill

LEMMA UnchangedCover == ASSUME CoverInv, UNCHANGED vars PROVE CoverInv'
<1>1. PipelineInv'
  BY PipelineNextInv DEF CoverInv
<1>2. UNCHANGED <<log, events, gone, added, checkpoints, pendingCheckpoints, reasons>>
  BY DEF vars, storeVars, sourceVars
<1>3. UNCHANGED <<proc, ldfCheckpoint, cursor, maxLSN, pending, todo, excluded>>
  BY DEF vars, procVars, mapVars, passVars
<1>4. Survives /\ Settling
  BY <1>2, QuietSurvives DEF Settling, CoverInv, PipelineInv
<1> QED BY <1>1, <1>3, <1>4, StandStill

(* What a poll drops as stale it says so of.                               *)
LEMMA StartPollCover == ASSUME CoverInv, StartPoll PROVE CoverInv'
<1> USE DEF CoverInv
<1>1. PipelineInv'
  BY PollInv
<1>2. /\ proc = "idle" /\ proc' = IF schemaLoaded THEN "read" ELSE "flush"
      /\ UNCHANGED <<storeVars, sourceVars, todo, ldfCheckpoint>>
      /\ IF schemaLoaded THEN cursor' = ldfCheckpoint /\ maxLSN' = 0
                         ELSE UNCHANGED <<cursor, maxLSN>>
  BY DEF StartPoll, StartPass, passVars
<1>3. UNCHANGED <<log, events, gone, added, checkpoints, pendingCheckpoints>>
  BY <1>2 DEF storeVars, sourceVars
<1>4. PICK stale \in SUBSET {t \in LongRunning : beginTimes[t] # 0} :
        /\ pending' = [t \in Txns |-> IF t \in stale THEN <<>> ELSE pending[t]]
        /\ excluded' = excluded \ stale
        /\ Blame(stale \X {"stale"})
  BY DEF StartPoll
<1>5. Survives /\ Settling
  BY <1>3, <1>4, QuietSurvives DEF Settling, PipelineInv
<1>6. LogOK' /\ ExcludedOK'
  BY <1>3, <1>4, ExcludedStays DEF LogOK
<1>7. PositionsOK'
  BY <1>2, <1>3, CheckpointInLog DEF PositionsOK
<1>8. CheckpointsOK'
  BY <1>2, <1>5, CheckpointsStay
<1>9. Pos' = Pos
  BY <1>2 DEF Pos
<1>10. ASSUME NEW t \in Txns, Clean(t)' PROVE pending'[t] = pending[t]
  <2>1. t \notin stale
    <3>1. <<t, "stale">> \notin stale \X {"stale"}
      BY <1>4, <1>10, BlameFacts DEF Clean, PipelineInv, Reasons
    <3> QED BY <3>1
  <2> QED BY <1>4, <2>1
<1>11. ReadOK'
  BY <1>2, <1>5, <1>9, <1>10, ReadStays DEF Kept, Waiting
<1>12. WaitingOK'
  BY <1>2, NothingWaits
<1> QED BY <1>1, <1>6, <1>7, <1>8, <1>11, <1>12

LEMMA EndPollCover == ASSUME CoverInv, EndPoll PROVE CoverInv'
<1> USE DEF CoverInv
<1>1. PipelineInv'
  BY PollInv
<1>2. /\ proc = "read" /\ proc' = "flush" /\ UNCHANGED <<sourceVars, todo, mapVars>> /\ todo = <<>>
      /\ cursor' = 0 /\ maxLSN' = 0 /\ Pos = cursor
  BY DEF EndPoll, PassOver, Reading, LeavePass, Pos
<1>3. PassEnds /\ UNCHANGED log
  BY PendingType, SaveCheckpointRows DEF EndPoll, PassEnds, storeVars, sourceVars
<1>4. Survives
  BY <1>3, QuietSurvives DEF EndPoll, PipelineInv, PassEnds
<1>5. LogOK' /\ ExcludedOK'
  BY <1>2, <1>3, ExcludedStays DEF LogOK, mapVars
<1>6. PositionsOK'
  BY <1>2, <1>3, CheckpointInLog DEF PositionsOK, PassEnds
<1>7. CheckpointsOK'
  BY <1>2, <1>3, <1>4, PassEndsCheckpoints
<1>8. ldfCheckpoint' = cursor
  BY <1>2 DEF EndPoll, PositionsOK
<1>9. Pos' = Pos
  BY <1>2, <1>8 DEF Pos
<1>10. ReadOK'
  BY <1>2, <1>4, <1>9, ReadStays DEF Kept, Waiting, mapVars
<1>11. WaitingOK'
  BY <1>2 DEF WaitingOK
<1> QED BY <1>1, <1>5, <1>6, <1>7, <1>10, <1>11

(* A poll that fails goes back to the checkpoint and keeps its maps: they  *)
(* are right again but for transactions that it saw end.                   *)
LEMMA ReadBack ==
  ASSUME LogOK, PipelineInv, PositionsOK, Survives, Pos' = ldfCheckpoint,
         CoveredBy(View, ldfCheckpoint), NEW n \in Nat, ldfCheckpoint <= n,
         \A t \in Replayed(n) : reasons'[t] # {},
         \A t \in Txns : Clean(t)' /\ ~EndedBy(t, n) =>
           \A l \in DataLsns(t) : l <= ldfCheckpoint => Kept(t, l)'
  PROVE  ReadOK'
<1> SUFFICES ASSUME NEW t \in Txns, Clean(t)' PROVE ReadTo(t, Pos)'
  BY DEF ReadOK
<1> DEFINE c == ldfCheckpoint
<1>1. Clean(t) /\ t \notin Replayed(n) /\ c \in Nat
  BY CheckpointInLog DEF Survives, Clean
<1>2. /\ DataLsns(t)' = DataLsns(t)
      /\ CommittedBy(t, Pos)' <=> CommittedBy(t, c)
      /\ EndedBy(t, Pos)' <=> EndedBy(t, c)
  BY LogFacts DEF Survives
<1>3. CommittedBy(t, c) => \A l \in DataLsns(t) : Has(View, t, l)'
  BY <1>1 DEF CoveredBy, Survives
<1>4. ASSUME ~EndedBy(t, c), NEW l \in DataLsns(t), l <= c PROVE Kept(t, l)'
  <2>1. t \in InFlight(c)
    BY <1>1, <1>4, DataInFlight
  <2>2. ~EndedBy(t, n)
    BY <1>1, <2>1 DEF Replayed, EndedBy
  <2> QED BY <1>4, <2>2
<1> QED BY <1>2, <1>3, <1>4 DEF ReadTo

LEMMA ReplayedBlamed ==
  ASSUME OwnTypeOK, NEW n, NEW pairs, Blame(pairs), Replayed(n) \X {"replay"} \subseteq pairs
  PROVE  \A t \in Replayed(n) : reasons'[t] # {}
<1> SUFFICES ASSUME NEW t \in Replayed(n), reasons'[t] = {} PROVE FALSE
  OBVIOUS
<1>1. t \in Txns /\ <<t, "replay">> \in pairs
  BY DEF Replayed, InFlight
<1> QED BY <1>1, BlameFacts DEF Reasons

LEMMA PollReadFailsCover == ASSUME CoverInv, PollReadFails PROVE CoverInv'
<1> USE DEF CoverInv
<1>1. PipelineInv'
  BY PollInv
<1>2. /\ proc = "read" /\ proc' = "flush" /\ todo = <<>> /\ cursor' = 0 /\ maxLSN' = 0
      /\ UNCHANGED <<storeVars, sourceVars, todo, ldfCheckpoint, mapVars>>
  BY DEF PollReadFails, Reading, LeavePass
<1>3. UNCHANGED <<log, events, gone, added, checkpoints, pendingCheckpoints, pending, excluded>>
  BY <1>2 DEF storeVars, sourceVars, mapVars
<1>4. Survives /\ Settling
  BY <1>3, QuietSurvives DEF PollReadFails, Settling, PipelineInv
<1>5. LogOK' /\ ExcludedOK'
  BY <1>3, ExcludedStays DEF LogOK
<1>6. PositionsOK'
  BY <1>2, <1>3, CheckpointInLog DEF PositionsOK
<1>7. CheckpointsOK'
  BY <1>2, <1>4, CheckpointsStay
<1>8. ReadOK'
  <2>1. Pos = cursor /\ Pos' = ldfCheckpoint /\ ldfCheckpoint <= cursor /\ cursor \in Nat
        /\ ldfCheckpoint \in Nat
    BY <1>2, CheckpointInLog DEF Pos, PositionsOK
  <2>2. \A t \in Replayed(cursor) : reasons'[t] # {}
    BY ReplayedBlamed DEF PollReadFails, PipelineInv
  <2>3. ASSUME NEW t \in Txns, Clean(t)', ~EndedBy(t, cursor),
               NEW l \in DataLsns(t), l <= ldfCheckpoint
        PROVE  Kept(t, l)'
    <3>1. l <= cursor
      BY <2>1, <2>3, DataLsnsInLog
    <3>2. Kept(t, l)
      BY <1>4, <2>1, <2>3, <3>1 DEF Survives, ReadOK, ReadTo
    <3> QED BY <1>3, <3>2 DEF Kept
  <2> QED BY <1>4, <2>1, <2>2, <2>3, ReadBack DEF CheckpointsOK
<1>9. WaitingOK'
  BY <1>2 DEF WaitingOK
<1> QED BY <1>1, <1>5, <1>6, <1>7, <1>8, <1>9

LEMMA WriteNextCover == ASSUME CoverInv, WriteNext PROVE CoverInv'
<1> USE DEF CoverInv
<1> DEFINE r == Head(todo)
<1>1. PipelineInv'
  BY WriteNextInv
<1>2. /\ UNCHANGED <<log, proc, ldfCheckpoint, cursor, maxLSN>>
      /\ 1 \in DOMAIN todo /\ r = todo[1]
      /\ \A i \in DOMAIN todo : i = 1 \/ (i - 1 \in DOMAIN todo' /\ todo'[i - 1] = todo[i])
      /\ \A i \in DOMAIN todo' : i + 1 \in DOMAIN todo /\ todo'[i] = todo[i + 1]
  <2>1. todo \in Seq(Row) /\ todo # <<>> /\ todo' = Tail(todo)
    BY DEF WriteNext, PipelineInv, OwnTypeOK
  <2>2. UNCHANGED <<log, proc, ldfCheckpoint, cursor, maxLSN>>
    BY DEF WriteNext, sourceVars, passVars
  <2>3. Len(todo) \in Nat \ {0} /\ DOMAIN todo = 1..Len(todo) /\ DOMAIN todo' = 1..(Len(todo) - 1)
    BY <2>1
  <2>4. 1 \in DOMAIN todo /\ r = todo[1]
    BY <2>1
  <2>5. \A i \in DOMAIN todo' : i + 1 \in DOMAIN todo /\ todo'[i] = todo[i + 1]
    BY <2>1
  <2>6. \A i \in DOMAIN todo : i = 1 \/ (i - 1 \in DOMAIN todo' /\ todo'[i - 1] = todo[i])
    <3> SUFFICES ASSUME NEW i \in DOMAIN todo, i # 1
                 PROVE  i - 1 \in DOMAIN todo' /\ todo'[i - 1] = todo[i]
      OBVIOUS
    <3> DEFINE k == i - 1
    <3>1. i \in 1..Len(todo) /\ Len(todo) \in Nat
      BY <2>3
    <3>2. k \in 1..(Len(todo) - 1) /\ k + 1 = i
      BY <3>1
    <3>3. k \in DOMAIN todo'
      BY <2>3, <3>2
    <3> QED BY <2>5, <3>2, <3>3
  <2> QED BY <2>2, <2>4, <2>5, <2>6
<1>3. /\ Survives /\ Settling
      /\ \A t \in Txns : \A l : Clean(t)' /\ r.txn = t /\ r.lsn = l => Has(View, t, l)'
  BY WriteSurvives
<1>4. proc \in {"scan", "read"} /\ CommittedBy(r.txn, cursor) /\ Pos = cursor /\ Pos' = Pos
  BY <1>2 DEF WaitingOK, Pos
<1>5. excluded' \subseteq excluded /\ \A t \in Txns : t = r.txn \/ pending'[t] = pending[t]
  BY DEF WriteNext, Forget, mapVars, PipelineInv, OwnTypeOK
<1>6. LogOK' /\ ExcludedOK'
  BY <1>2, <1>5, ExcludedStays DEF LogOK
<1>7. PositionsOK'
  BY <1>2, <1>3, SettledInLog DEF PositionsOK
<1>8. CheckpointsOK'
  BY <1>2, <1>3, CheckpointsStay
<1>9. ReadOK'
  <2>1. ASSUME NEW t \in Txns, Clean(t)', ~EndedBy(t, Pos), NEW l, Kept(t, l) PROVE Kept(t, l)'
    <3>1. t # r.txn
      BY <1>4, <2>1, CommittedIsEnded
    <3> QED BY <1>5, <2>1, <3>1 DEF Kept
  <2>2. ASSUME NEW t \in Txns, Clean(t)', NEW l, Waiting(t, l)
        PROVE  Waiting(t, l)' \/ Has(View, t, l)'
    <3>1. PICK i \in DOMAIN todo : todo[i].txn = t /\ todo[i].lsn = l
      BY <2>2 DEF Waiting
    <3>2. CASE i = 1
      BY <1>2, <1>3, <2>2, <3>1, <3>2
    <3>3. CASE i # 1
      BY <1>2, <3>1, <3>3 DEF Waiting
    <3> QED BY <3>2, <3>3
  <2> QED BY <1>3, <1>4, <2>1, <2>2, ReadStays
<1>10. WaitingOK'
  BY <1>2, <1>4, LogFacts DEF WaitingOK
<1> QED BY <1>1, <1>6, <1>7, <1>8, <1>9, <1>10

LEMMA CrashCover == ASSUME CoverInv, Crash PROVE CoverInv'
<1> USE DEF CoverInv
<1>1. PipelineInv'
  BY OthersInv
<1>2. /\ proc' = "down" /\ ldfCheckpoint' = 0 /\ todo' = <<>> /\ cursor' = 0 /\ maxLSN' = 0
      /\ excluded' = {} /\ UNCHANGED <<log, reasons, events, checkpoints>>
      /\ View' = events /\ pendingCheckpoints'[DB] = NoEntry
  BY PipelineAssumption
     DEF Crash, FreshMaps, LeavePass, Restart, Reopen, EmptyBatch, View, sourceVars
<1>3. LogOK' /\ ExcludedOK' /\ WaitingOK'
  BY <1>2, ExcludedStays DEF LogOK, WaitingOK
<1>4. PositionsOK'
  BY <1>2, CheckpointInLog DEF PositionsOK, NoEntry
<1>5. \A t : ~CommittedBy(t, 0)' /\ ~CommittedBy(t, NoEntry)'
  BY DEF CommittedBy, Logged, NoEntry
<1>6. CheckpointsOK'
  <2>1. CoveredBy(events, checkpoints[DB])'
    <3> SUFFICES ASSUME NEW t \in Txns, Clean(t)', CommittedBy(t, checkpoints[DB])',
                        NEW l \in DataLsns(t)'
                 PROVE  Has(events, t, l)'
      BY DEF CoveredBy
    <3>1. Clean(t) /\ CommittedBy(t, checkpoints[DB]) /\ l \in DataLsns(t)
      BY <1>2, LogFacts DEF Clean
    <3> QED BY <1>2, <3>1 DEF CheckpointsOK, CoveredBy, Has
  <2>2. CoveredBy(View, checkpoints[DB])'
    BY <1>2, <2>1 DEF CoveredBy
  <2> QED BY <1>2, <1>5, <2>1, <2>2 DEF CheckpointsOK, CoveredBy
<1>7. ReadOK'
  <2>1. Pos' = 0
    BY <1>2 DEF Pos
  <2>2. \A t : \A l \in DataLsns(t)' : ~(l <= 0)
    BY <1>2, LogFacts, DataLsnsInLog
  <2> QED BY <1>5, <2>1, <2>2 DEF ReadOK, ReadTo
<1> QED BY <1>1, <1>3, <1>4, <1>6, <1>7

-----------------------------------------------------------------------------
(* The log grows.                                                          *)

LEMMA LogRecordFacts ==
  ASSUME OwnTypeOK, LogOK, NEW op \in Begins \cup Ends \cup Changes, NEW u \in Txns,
         LogRecord(op, u)
  PROVE  /\ Len(log) \in Nat /\ Len(log') = Len(log) + 1
         /\ log'[Len(log) + 1] = [op |-> op, txn |-> u]
         /\ \A i \in 1..Len(log) : log'[i] = log[i]
<1>1. [op |-> op, txn |-> u] \in Record
  BY DEF Record
<1> QED BY <1>1 DEF LogRecord, OwnTypeOK

LEMMA LogRecordOK ==
  ASSUME OwnTypeOK, LogOK, NEW op \in Begins \cup Ends \cup Changes, NEW u \in Txns,
         LogRecord(op, u)
  PROVE  LogOK'
<1> DEFINE n == Len(log)
<1>1. /\ n \in Nat /\ Len(log') = n + 1
      /\ log'[n + 1] = [op |-> op, txn |-> u]
      /\ \A i \in 1..n : log'[i] = log[i]
  BY LogRecordFacts
<1>2. IF op \in Begins THEN ~Logged(u, Begins, n) ELSE Logged(u, Begins, n) /\ ~Logged(u, Ends, n)
  BY DEF LogRecord, Active, InFlight
<1> HIDE DEF n
<1>3. ASSUME NEW i \in 1..(n + 1)
      PROVE  \E j \in 1..i : log'[j].txn = log'[i].txn /\ log'[j].op \in Begins
  <2>1. CASE i \in 1..n
    <3>1. PICK j \in 1..i : log[j].txn = log[i].txn /\ log[j].op \in Begins
      BY <2>1 DEF LogOK, n
    <3>2. j \in 1..n
      BY <1>1, <2>1, <3>1
    <3> QED BY <1>1, <2>1, <3>1, <3>2
  <2>2. CASE i = n + 1 /\ op \in Begins
    BY <1>1, <2>2
  <2>3. CASE i = n + 1 /\ op \notin Begins
    <3>1. PICK j \in 1..n : log[j].txn = u /\ log[j].op \in Begins
      BY <1>2, <2>3 DEF Logged
    <3>2. j \in 1..i
      BY <1>1, <2>3
    <3> QED BY <1>1, <2>3, <3>1, <3>2
  <2> QED BY <1>1, <2>1, <2>2, <2>3
<1>4. ASSUME NEW i \in 1..(n + 1), NEW j \in 1..(n + 1), i < j, log'[i].txn = log'[j].txn
      PROVE  log'[i].op \notin Ends /\ log'[j].op \notin Begins
  <2>1. i \in 1..n /\ log'[i] = log[i]
    BY <1>1, <1>4
  <2>2. CASE j \in 1..n
    BY <1>1, <1>4, <2>1, <2>2 DEF LogOK, n
  <2>3. CASE j = n + 1
    <3>1. log[i].txn = u /\ log'[j].op = op
      BY <1>1, <1>4, <2>1, <2>3
    <3>2. PICK k \in 1..i : log[k].txn = u /\ log[k].op \in Begins
      BY <2>1, <3>1 DEF LogOK, n
    <3>3. k \in 1..n
      BY <1>1, <2>1, <3>2
    <3>4. op \notin Begins /\ ~Logged(u, Ends, n)
      BY <1>2, <3>2, <3>3 DEF Logged
    <3> QED BY <2>1, <3>1, <3>4 DEF Logged
  <2> QED BY <1>1, <2>2, <2>3
<1> QED BY <1>1, <1>3, <1>4 DEF LogOK

(* The history up to k is what it was, and so is that of others.           *)
LEMMA LogRecordKeeps ==
  ASSUME OwnTypeOK, LogOK, NEW op \in Begins \cup Ends \cup Changes, NEW u \in Txns,
         LogRecord(op, u)
  PROVE  /\ \A t : \A ops : \A k \in Int : k <= Len(log) => (Logged(t, ops, k)' <=> Logged(t, ops, k))
         /\ \A t : \A l \in DataLsns(t)' : l <= Len(log) => l \in DataLsns(t)
         /\ \A t : t # u => DataLsns(t)' = DataLsns(t) /\ (User(t)' <=> User(t))
         /\ \A t : \A k \in Int : k <= Len(log) /\ EndedBy(t, k) => t # u
         /\ DataLsns(u) # {} => (User(u)' => User(u))
         /\ \A t : \A ops : Logged(t, ops, Len(log)) => Logged(t, ops, Len(log))'
<1> DEFINE n == Len(log)
<1>1. /\ n \in Nat /\ Len(log') = n + 1
      /\ log'[n + 1] = [op |-> op, txn |-> u]
      /\ \A i \in 1..n : log'[i] = log[i]
  BY LogRecordFacts
<1>2. IF op \in Begins THEN ~Logged(u, Begins, n) ELSE Logged(u, Begins, n) /\ ~Logged(u, Ends, n)
  BY DEF LogRecord, Active, InFlight
<1> HIDE DEF n
<1>3. ASSUME NEW t, NEW ops, NEW k \in Int, k <= n
      PROVE  Logged(t, ops, k)' <=> Logged(t, ops, k)
  BY <1>1, <1>3 DEF Logged
<1>4. ASSUME NEW t, NEW l \in DataLsns(t)', l <= n PROVE l \in DataLsns(t)
  BY <1>1, <1>4 DEF DataLsns, n
<1>5. ASSUME NEW t, NEW ops
      PROVE  Logged(t, ops, Len(log))' <=> Logged(t, ops, n) \/ (t = u /\ op \in ops)
  <2>1. \A i \in 1..(n + 1) : i \in 1..n \/ i = n + 1
    BY <1>1
  <2>2. 1..n \subseteq 1..(n + 1) /\ n + 1 \in 1..(n + 1)
    BY <1>1
  <2> QED BY <1>1, <2>1, <2>2 DEF Logged
<1>6. ASSUME NEW t, t # u PROVE DataLsns(t)' = DataLsns(t) /\ (User(t)' <=> User(t))
  <2>1. DataLsns(t)' \subseteq DataLsns(t)
    BY <1>1, <1>6 DEF DataLsns, n
  <2>2. DataLsns(t) \subseteq DataLsns(t)'
    BY <1>1 DEF DataLsns, n
  <2> QED BY <1>5, <1>6, <2>1, <2>2 DEF User, n
<1>7. ASSUME NEW t, NEW k \in Int, k <= n, EndedBy(t, k) PROVE t # u
  <2>1. PICK i \in 1..k : log[i].txn = t /\ log[i].op \in Ends
    BY <1>7 DEF EndedBy, Logged
  <2>2. i \in 1..n
    BY <1>1, <1>7
  <2>3. PICK j \in 1..i : log[j].txn = t /\ log[j].op \in Begins
    BY <2>1, <2>2 DEF LogOK, n
  <2>4. Logged(t, Ends, n) /\ Logged(t, Begins, n)
    BY <1>1, <2>1, <2>2, <2>3 DEF Logged
  <2> QED BY <1>2, <2>4
<1>8. ASSUME DataLsns(u) # {}, User(u)' PROVE User(u)
  <2>1. PICK i \in 1..n : log[i].txn = u
    BY <1>8 DEF DataLsns, n
  <2>2. PICK j \in 1..i : log[j].txn = u /\ log[j].op \in Begins
    BY <2>1 DEF LogOK, n
  <2>3. op # "begin"
    BY <1>1, <1>2, <2>1, <2>2 DEF Logged, Begins
  <2> QED BY <1>5, <1>8, <2>3 DEF User, n
<1> QED BY <1>3, <1>4, <1>5, <1>6, <1>7, <1>8 DEF n

LEMMA LogRecordCover ==
  ASSUME CoverInv, NEW op \in Begins \cup Ends \cup Changes, NEW u \in Txns, LogRecord(op, u)
  PROVE  CoverInv'
<1> USE DEF CoverInv
<1>1. PipelineInv' /\ OwnTypeOK
  BY LogRecordInv DEF PipelineInv
<1>2. UNCHANGED <<storeVars, procVars, reasons>> /\ View' = View
  BY DEF LogRecord, View, storeVars
<1>3. UNCHANGED <<events, checkpoints, pendingCheckpoints, proc, pending, excluded, todo,
                  ldfCheckpoint, cursor, maxLSN>>
  BY <1>2 DEF storeVars, procVars, mapVars, passVars
<1>4. /\ \A t : \A ops : \A k \in Int : k <= Len(log) => (Logged(t, ops, k)' <=> Logged(t, ops, k))
      /\ \A t : \A l \in DataLsns(t)' : l <= Len(log) => l \in DataLsns(t)
      /\ \A t : t # u => DataLsns(t)' = DataLsns(t) /\ (User(t)' <=> User(t))
      /\ \A t : \A k \in Int : k <= Len(log) /\ EndedBy(t, k) => t # u
      /\ DataLsns(u) # {} => (User(u)' => User(u))
      /\ \A t : \A ops : Logged(t, ops, Len(log)) => Logged(t, ops, Len(log))'
  BY <1>1, LogRecordKeeps
<1>5. LogOK'
  BY <1>1, LogRecordOK
<1>6. PositionsOK'
  <2>1. Len(log) \in Nat /\ Len(log') = Len(log) + 1
    BY <1>1, LogRecordFacts
  <2>2. /\ checkpoints[DB] \in Int /\ pendingCheckpoints[DB] \in Int
        /\ ldfCheckpoint \in Int /\ cursor \in Int
    BY PendingType, CheckpointInLog, PipelineAssumption
  <2>3. \A k \in Int : k <= Len(log) => k <= Len(log')
    BY <2>1
  <2> QED BY <1>3, <2>2, <2>3 DEF PositionsOK
<1>7. ASSUME NEW t \in Txns, Clean(t)', NEW k \in Int, k <= Len(log), CommittedBy(t, k)'
      PROVE  Clean(t) /\ CommittedBy(t, k) /\ DataLsns(t)' = DataLsns(t)
  <2>1. CommittedBy(t, k)
    BY <1>4, <1>7 DEF CommittedBy
  <2>2. t # u
    BY <1>4, <1>7, <2>1, CommittedIsEnded
  <2> QED BY <1>2, <1>4, <1>7, <2>1, <2>2 DEF Clean
<1>8. CheckpointsOK'
  <2>1. \A k \in Int : k <= Len(log) /\ CoveredBy(events, k) => CoveredBy(events, k)'
    BY <1>3, <1>7 DEF CoveredBy, Has
  <2>2. \A k \in Int : k <= Len(log) /\ CoveredBy(View, k) => CoveredBy(View, k)'
    BY <1>2, <1>7 DEF CoveredBy, Has
  <2>3. /\ checkpoints[DB] \in Int /\ pendingCheckpoints[DB] \in Int /\ ldfCheckpoint \in Int
    BY PendingType, CheckpointInLog, PipelineAssumption
  <2> QED BY <1>3, <2>1, <2>2, <2>3 DEF CheckpointsOK, PositionsOK
<1>9. ReadOK'
  <2> SUFFICES ASSUME NEW t \in Txns, Clean(t)' PROVE ReadTo(t, Pos)'
    BY DEF ReadOK
  <2>1. PICK k \in Int : k = Pos /\ k <= Len(log)
    BY CheckpointInLog DEF Pos, PositionsOK
  <2>2. Pos' = k
    BY <1>3, <2>1 DEF Pos
  <2>3. ASSUME CommittedBy(t, k)', NEW l \in DataLsns(t)'
        PROVE  Has(View, t, l)' \/ Waiting(t, l)'
    <3>1. Clean(t) /\ CommittedBy(t, k) /\ l \in DataLsns(t)
      BY <1>7, <2>1, <2>3
    <3>2. Has(View, t, l) \/ Waiting(t, l)
      BY <2>1, <3>1 DEF ReadOK, ReadTo
    <3> QED BY <1>2, <1>3, <3>2 DEF Has, Waiting
  <2>4. ASSUME ~EndedBy(t, k)', NEW l \in DataLsns(t)', l <= k PROVE Kept(t, l)'
    <3>1. l \in Int
      BY DEF DataLsns
    <3>2. l \in DataLsns(t) /\ ~EndedBy(t, k)
      BY <1>1, <1>4, <2>1, <2>4, <3>1, LenLogType DEF EndedBy
    <3>3. Clean(t)
      BY <1>2, <1>4, <3>2 DEF Clean
    <3>4. Kept(t, l)
      BY <2>1, <2>4, <3>2, <3>3 DEF ReadOK, ReadTo
    <3> QED BY <1>3, <3>4 DEF Kept
  <2> QED BY <2>2, <2>3, <2>4 DEF ReadTo
<1>10. ExcludedOK'
  BY <1>3, <1>4 DEF ExcludedOK
<1>11. WaitingOK'
  <2>1. cursor \in Int /\ cursor <= Len(log)
    BY CheckpointInLog DEF PositionsOK
  <2>2. \A t : CommittedBy(t, cursor) => CommittedBy(t, cursor)'
    BY <1>3, <1>4, <2>1 DEF CommittedBy
  <2> QED BY <1>3, <2>2 DEF WaitingOK
<1> QED BY <1>1, <1>5, <1>6, <1>8, <1>9, <1>10, <1>11

-----------------------------------------------------------------------------
(* A record is read.                                                       *)

(* Between the position and the record read there is only what was skipped.*)
LEMMA NoneBetween ==
  ASSUME OwnTypeOK, NEW l \in 1..Len(log), l = NextLsn, NEW t, t \notin Skipped
  PROVE  /\ cursor < l
         /\ \A i \in 1..l : log[i].txn = t => i <= cursor \/ i = l
<1>1. cursor \in Nat /\ head \in Nat /\ l \in Nat
  BY DEF OwnTypeOK
<1>2. cursor < l
  BY <1>1 DEF NextLsn
<1>3. ASSUME NEW i \in 1..l, log[i].txn = t, ~(i <= cursor), i # l PROVE FALSE
  <2>1. i \in (cursor + 1)..head
    BY <1>1, <1>3 DEF NextLsn
  <2> QED BY <1>3, <2>1 DEF Skipped
<1> QED BY <1>2, <1>3

LEMMA LoggedTo ==
  ASSUME OwnTypeOK, NEW l \in 1..Len(log), l = NextLsn, NEW t, t \notin Skipped, NEW ops
  PROVE  Logged(t, ops, l) <=> Logged(t, ops, cursor) \/ (log[l].txn = t /\ log[l].op \in ops)
<1>1. /\ cursor < l /\ cursor \in Nat /\ l \in Nat
      /\ \A i \in 1..l : log[i].txn = t => i <= cursor \/ i = l
  BY NoneBetween DEF OwnTypeOK
<1>2. 1..cursor \subseteq 1..l /\ l \in 1..l
  BY <1>1
<1>3. \A i \in 1..l : log[i].txn = t => i \in 1..cursor \/ i = l
  BY <1>1
<1> QED BY <1>2, <1>3 DEF Logged

LEMMA RecordSurvives ==
  ASSUME CoverInv, HandleRecord, NEW l \in 1..Len(log), l \in Lsns, l = NextLsn,
         NEW u \in Txns, log[l].txn = u
  PROVE  Survives /\ Settling /\ ExcludedOK' /\ UNCHANGED log
<1> USE DEF CoverInv
<1>1. OwnTypeOK /\ UNCHANGED log
  BY DEF HandleRecord, PipelineInv, sourceVars
<1>2. PICK pairs : Blame(pairs) /\ StoreBlame \subseteq pairs
  BY DEF HandleRecord
<1>3. ASSUME UNCHANGED storeVars PROVE Survives /\ Settling
  BY <1>1, <1>2, <1>3, QuietSurvives DEF Settling, storeVars
<1>4. ASSUME Exclude(u), log[l].op \in {"beginInternal", "cleanup"}
      PROVE  Survives /\ Settling /\ ExcludedOK'
  <2>1. Logged(u, {"beginInternal", "cleanup"}, Len(log))
    BY <1>4 DEF Logged
  <2>2. ~User(u)
    BY <1>1, <2>1, UserOps
  <2>3. Survives /\ Settling
    BY <1>1, <1>2, <1>4, <2>2, DeleteTransactionSurvives DEF Exclude
  <2>4. ExcludedOK'
    BY <1>1, <1>4, <2>1 DEF Exclude, ExcludedOK, Logged
  <2> QED BY <2>3, <2>4
<1>5. ASSUME excluded' \subseteq excluded PROVE ExcludedOK'
  BY <1>1, <1>5, ExcludedStays
<1>6. CASE HandleBegin(l, u)
  BY <1>3, <1>4, <1>5, <1>1, <1>6 DEF HandleBegin
<1>7. CASE HandleCommit(l, u)
  BY <1>3, <1>5, <1>1, <1>7 DEF HandleCommit, Forget, mapVars
<1>8. CASE HandleAbort(l, u)
  BY <1>3, <1>5, <1>1, <1>8 DEF HandleAbort, Forget
<1>9. CASE HandleChange(l, u)
  <2>1. CASE UNCHANGED <<storeVars, excluded>>
    BY <1>1, <1>3, <1>5, <2>1
  <2>2. CASE log[l].op = "cleanup" /\ Exclude(u)
    BY <1>1, <1>4, <2>2
  <2>3. CASE log[l].op = "nonBase" /\ DeleteLSN(DB, l) /\ UNCHANGED excluded
    BY <1>1, <1>2, <1>5, <2>3, DeleteLSNSurvives
  <2> QED BY <1>9, <2>1, <2>2, <2>3 DEF HandleChange
<1> QED BY <1>1, <1>6, <1>7, <1>8, <1>9 DEF HandleRecord

(* A record moves only what is known of its own transaction.               *)
LEMMA OthersPending ==
  ASSUME OwnTypeOK, NEW l, NEW u \in Txns, NEW t \in Txns, t # u,
         \/ HandleBegin(l, u) \/ HandleCommit(l, u)
         \/ HandleAbort(l, u) \/ HandleChange(l, u)
  PROVE  pending'[t] = pending[t]
<1>1. CASE Exclude(u)
  BY <1>1 DEF Exclude, OwnTypeOK
<1>2. CASE Forget(u)
  BY <1>2 DEF Forget, OwnTypeOK
<1>3. CASE pending' = [pending EXCEPT ![u] = Append(@, l)]
  BY <1>3 DEF OwnTypeOK
<1> QED BY <1>1, <1>2, <1>3 DEF HandleBegin, HandleCommit, HandleAbort, HandleChange, mapVars

(* Its end finds all its changes kept, and sends them on their way.        *)
LEMMA CommitWaits ==
  ASSUME OwnTypeOK, NEW l, NEW t \in Txns, HandleCommit(l, t), t \notin excluded,
         ~(since # 0 /\ EventTime(l, t) < since), NEW k, Kept(t, k)
  PROVE  Waiting(t, k)'
<1>1. PICK i \in DOMAIN pending[t] : pending[t][i] = k
  BY DEF Kept
<1>2. pending[t] \in Seq(Lsns)
  BY DEF OwnTypeOK
<1>3. pending[t] # <<>> /\ i \in 1..Len(pending[t])
  BY <1>1, <1>2
<1>4. todo' = Stamped(l, t)
  BY <1>3 DEF HandleCommit
<1>5. i \in DOMAIN Stamped(l, t) /\ Stamped(l, t)[i].txn = t /\ Stamped(l, t)[i].lsn = k
  BY <1>1, <1>3 DEF Stamped
<1> QED BY <1>4, <1>5 DEF Waiting

LEMMA ReadRecord ==
  ASSUME CoverInv, HandleRecord, NEW l \in 1..Len(log), l \in Lsns, l = NextLsn,
         NEW u \in Txns, log[l].txn = u, Survives, NEW t \in Txns, Clean(t)'
  PROVE  /\ CommittedBy(t, l) => \A k \in DataLsns(t) : Has(View, t, k)' \/ Waiting(t, k)'
         /\ ~EndedBy(t, l) => \A k \in DataLsns(t) : k <= l => Kept(t, k)'
<1> USE DEF CoverInv
<1>1. /\ OwnTypeOK /\ todo = <<>> /\ Pos = cursor
      /\ \/ HandleBegin(l, u) \/ HandleCommit(l, u)
         \/ HandleAbort(l, u) \/ HandleChange(l, u)
  BY DEF HandleRecord, Reading, Pos, PipelineInv
<1>2. Clean(t) /\ t \notin Skipped
  <2>1. PICK pairs : Blame(pairs) /\ Skipped \X {"gap"} \subseteq pairs
    BY DEF HandleRecord
  <2>2. <<t, "gap">> \notin Skipped \X {"gap"}
    BY <1>1, <2>1, BlameFacts DEF Clean, Reasons
  <2> QED BY <2>2 DEF Survives
<1>3. /\ CommittedBy(t, cursor) => \A k \in DataLsns(t) : Has(View, t, k)'
      /\ ~EndedBy(t, cursor) => \A k \in DataLsns(t) : k <= cursor => Kept(t, k)
  BY <1>1, <1>2 DEF ReadOK, ReadTo, Waiting, Survives
<1>4. /\ CommittedBy(t, l) <=> CommittedBy(t, cursor) \/ (u = t /\ log[l].op = "commit")
      /\ EndedBy(t, l) <=> EndedBy(t, cursor) \/ (u = t /\ log[l].op \in Ends)
  BY <1>1, <1>2, LoggedTo DEF CommittedBy, EndedBy
<1>5. \A k \in DataLsns(t) : k <= l => k <= cursor \/ (k = l /\ u = t /\ log[l].op = "data")
  <2> SUFFICES ASSUME NEW k \in DataLsns(t), k <= l, ~(k <= cursor)
               PROVE  k = l /\ u = t /\ log[l].op = "data"
    OBVIOUS
  <2>1. k \in 1..l /\ log[k].txn = t /\ log[k].op = "data"
    BY DataLsnsInLog
  <2> QED BY <1>1, <1>2, <2>1, NoneBetween
<1>6. CASE t # u
  BY <1>1, <1>3, <1>4, <1>5, <1>6, OthersPending DEF Kept
<1>7. CASE t = u
  <2>1. \A i \in 1..Len(log) : i < l /\ log[i].txn = t => log[i].op \notin Ends
    BY <1>7 DEF LogOK
  <2>2. ~EndedBy(t, cursor) /\ ~CommittedBy(t, cursor)
    <3>1. cursor \in Nat /\ cursor < l
      BY <1>1, <1>2, NoneBetween DEF OwnTypeOK
    <3>2. ~EndedBy(t, cursor)
      BY <2>1, <3>1 DEF EndedBy, Logged
    <3> QED BY <3>2, CommittedIsEnded
  <2>3. CASE log[l].op \in Begins
    <3>1. \A k \in DataLsns(t) : ~(k <= cursor)
      <4>1. cursor \in Nat /\ cursor < l
        BY <1>1, <1>2, NoneBetween DEF OwnTypeOK
      <4>2. \A k \in DataLsns(t) : ~(k < l)
        BY <1>7, <2>3, DataLsnsInLog DEF LogOK
      <4>3. \A k \in DataLsns(t) : k \in Nat
        BY DataLsnsInLog
      <4> QED BY <4>1, <4>2, <4>3
    <3>2. log[l].op \notin {"commit", "data"}
      BY <2>3 DEF Begins
    <3> QED BY <1>4, <1>5, <2>2, <3>1, <3>2
  <2>4. CASE log[l].op = "commit"
    <3>1. EndedBy(t, l)
      BY <1>4, <1>7, <2>4 DEF Ends
    <3>2. \A k \in DataLsns(t) : k <= cursor
      <4> SUFFICES ASSUME NEW k \in DataLsns(t) PROVE k <= cursor
        OBVIOUS
      <4>1. k \in 1..Len(log) /\ log[k].txn = t /\ log[k].op = "data"
        BY DataLsnsInLog
      <4>2. ~(l < k)
        BY <1>7, <2>4, <4>1 DEF LogOK, Ends
      <4>3. k <= l
        BY <4>1, <4>2
      <4> QED BY <1>5, <2>4, <4>3
    <3>3. \A k \in DataLsns(t) : Kept(t, k)
      BY <1>3, <2>2, <3>2
    <3>4. HandleCommit(l, t)
      BY <1>1, <1>7, <2>4 DEF HandleBegin, HandleAbort, HandleChange, Begins, Changes
    <3>5. t \notin excluded
      BY <1>1, <1>2, ExcludedIsNotUser DEF Clean
    <3>6. ~(since # 0 /\ EventTime(l, t) < since)
      <4> SUFFICES ASSUME since # 0, EventTime(l, t) < since PROVE FALSE
        OBVIOUS
      <4>1. PICK pairs : Blame(pairs) /\ {t} \X {"since"} \subseteq pairs
        BY <1>7, <2>4 DEF HandleRecord
      <4>2. <<t, "since">> \notin {t} \X {"since"}
        BY <1>1, <4>1, BlameFacts DEF Clean, Reasons
      <4> QED BY <4>2
    <3> QED BY <1>1, <3>1, <3>3, <3>4, <3>5, <3>6, CommitWaits
  <2>5. CASE log[l].op = "abort"
    BY <1>4, <1>7, <2>2, <2>5 DEF Ends
  <2>6. CASE log[l].op \in Changes
    <3>1. HandleChange(l, t) /\ ~CommittedBy(t, l)
      BY <1>1, <1>4, <1>7, <2>2, <2>6 DEF HandleBegin, HandleAbort, HandleCommit, Begins, Changes
    <3>2. t \notin excluded
      BY <1>1, <1>2, ExcludedIsNotUser DEF Clean
    <3>3. log[l].op # "cleanup"
      BY <1>2, <1>7 DEF Clean, User, Logged
    <3>4. CASE log[l].op = "nonBase"
      <4>1. UNCHANGED pending
        BY <3>1, <3>2, <3>4 DEF HandleChange
      <4> QED BY <1>3, <1>5, <2>2, <3>1, <3>4, <4>1 DEF Kept
    <3>5. CASE log[l].op = "data"
      <4>1. pending'[t] = Append(pending[t], l) /\ pending[t] \in Seq(Lsns)
        BY <1>1, <3>1, <3>2, <3>5 DEF HandleChange, OwnTypeOK
      <4>2. Kept(t, l)'
        <5>1. Len(pending[t]) + 1 \in DOMAIN pending'[t] /\ pending'[t][Len(pending[t]) + 1] = l
          BY <4>1
        <5> QED BY <5>1 DEF Kept
      <4>3. \A k : Kept(t, k) => Kept(t, k)'
        <5>1. \A i \in DOMAIN pending[t] : i \in DOMAIN pending'[t] /\ pending'[t][i] = pending[t][i]
          BY <4>1
        <5> QED BY <5>1 DEF Kept
      <4> QED BY <1>3, <1>5, <2>2, <3>1, <4>2, <4>3
    <3> QED BY <2>6, <3>3, <3>4, <3>5 DEF Changes
  <2>7. log[l] \in Record
    BY <1>1 DEF OwnTypeOK
  <2> QED BY <2>3, <2>4, <2>5, <2>6, <2>7 DEF Record, Ends
<1> QED BY <1>6, <1>7

LEMMA HandleRecordCover == ASSUME CoverInv, HandleRecord PROVE CoverInv'
<1> USE DEF CoverInv
<1>1. PipelineInv'
  BY HandleRecordInv
<1>2. PICK l \in 1..Len(log), u \in Txns : l \in Lsns /\ l = NextLsn /\ log[l].txn = u
  BY ReadingRecord DEF HandleRecord, PipelineInv
<1>3. /\ Survives /\ Settling /\ ExcludedOK' /\ UNCHANGED log
  BY <1>2, RecordSurvives
<1>4. /\ todo = <<>> /\ proc \in {"scan", "read"} /\ UNCHANGED ldfCheckpoint
      /\ \/ HandleBegin(l, u) \/ HandleCommit(l, u)
         \/ HandleAbort(l, u) \/ HandleChange(l, u)
      /\ IF proc' = "flush" THEN cursor' = 0 /\ maxLSN' = 0 ELSE cursor' = l /\ maxLSN' = l
  BY <1>2 DEF HandleRecord, Reading, LeavePass
<1>5. proc' = proc \/ (proc = "read" /\ proc' = "flush" /\ todo' = todo)
  BY <1>4 DEF HandleBegin, HandleCommit, HandleAbort, HandleChange, Exclude
<1>6. ldfCheckpoint \in Nat /\ cursor \in Nat /\ l \in Nat /\ cursor < l
  <2>1. ldfCheckpoint \in Nat /\ cursor \in Nat /\ head \in Nat
    BY DEF PipelineInv, OwnTypeOK
  <2> QED BY <1>2, <2>1 DEF NextLsn
<1>7. LogOK'
  BY <1>3 DEF LogOK
<1>8. PositionsOK'
  BY <1>3, <1>4, <1>5, <1>6, SettledInLog DEF PositionsOK
<1>9. CheckpointsOK'
  BY <1>3, <1>4, CheckpointsStay
<1>10. ReadOK'
  <2>1. ASSUME NEW t \in Txns, Clean(t)'
        PROVE  /\ CommittedBy(t, l) => \A k \in DataLsns(t) : Has(View, t, k)' \/ Waiting(t, k)'
               /\ ~EndedBy(t, l) => \A k \in DataLsns(t) : k <= l => Kept(t, k)'
    BY <1>2, <1>3, <2>1, ReadRecord
  <2>2. CASE proc' = proc
    <3>1. Pos' = l
      BY <1>4, <2>2 DEF Pos
    <3> SUFFICES ASSUME NEW t \in Txns, Clean(t)' PROVE ReadTo(t, Pos)'
      BY DEF ReadOK
    <3>2. /\ DataLsns(t)' = DataLsns(t)
          /\ CommittedBy(t, Pos)' <=> CommittedBy(t, l)
          /\ EndedBy(t, Pos)' <=> EndedBy(t, l)
      BY <1>3, <3>1, LogFacts
    <3> QED BY <2>1, <3>1, <3>2 DEF ReadTo
  <2>3. CASE proc = "read" /\ proc' = "flush"
    <3>1. Pos' = ldfCheckpoint /\ ldfCheckpoint <= l
      BY <1>4, <1>6, <2>3 DEF Pos, PositionsOK
    <3>2. \A t \in Replayed(l) : reasons'[t] # {}
      <4>1. PICK pairs : Blame(pairs) /\ Replayed(l) \X {"replay"} \subseteq pairs
        BY <1>2, <2>3 DEF HandleRecord
      <4> QED BY <4>1, ReplayedBlamed DEF PipelineInv
    <3>3. ASSUME NEW t \in Txns, Clean(t)', ~EndedBy(t, l), NEW k \in DataLsns(t), k <= ldfCheckpoint
          PROVE  Kept(t, k)'
      <4>1. k <= l
        BY <1>6, <3>1, <3>3, DataLsnsInLog
      <4> QED BY <2>1, <3>3, <4>1
    <3> QED BY <1>3, <1>6, <3>1, <3>2, <3>3, ReadBack DEF CheckpointsOK
  <2> QED BY <1>5, <2>2, <2>3
<1>11. WaitingOK'
  <2>1. CASE todo' = todo
    BY <1>4, <2>1 DEF WaitingOK
  <2>2. CASE HandleCommit(l, u) /\ todo' = Stamped(l, u)
    <3>1. proc' = proc /\ cursor' = l /\ log[l].op = "commit"
      BY <1>4, <2>2 DEF HandleCommit
    <3>2. EventTime(l, u) \in Lsns
      BY <1>2, StoreAssumption DEF EventTime, Lsns, PipelineInv, OwnTypeOK
    <3>3. EventTime(l, u) \notin Tombstones
      BY <3>2, PipelineAssumption
    <3>4. CommittedBy(u, l)
      BY <1>2, <1>6, <3>1 DEF CommittedBy, Logged
    <3>5. CommittedBy(u, cursor)'
      BY <1>3, <3>1, <3>4, LogFacts
    <3>6. \A i \in DOMAIN todo' :
            todo'[i].db = DB /\ todo'[i].val = EventTime(l, u) /\ todo'[i].txn = u
      BY <2>2 DEF Stamped
    <3> QED BY <1>4, <3>1, <3>3, <3>5, <3>6 DEF WaitingOK
  <2> QED BY <1>4, <2>1, <2>2 DEF HandleBegin, HandleCommit, HandleAbort, HandleChange, Exclude
<1> QED BY <1>1, <1>3, <1>7, <1>8, <1>9, <1>10, <1>11

-----------------------------------------------------------------------------
LEMMA CoverInit == Init => CoverInv
<1> SUFFICES ASSUME Init PROVE CoverInv
  OBVIOUS
<1>1. PipelineInv
  BY PipelineInitInv
<1>2. /\ log = <<>> /\ proc = "down" /\ ldfCheckpoint = 0 /\ cursor = 0 /\ maxLSN = 0
      /\ excluded = {} /\ todo = <<>>
      /\ checkpoints[DB] = 0 /\ pendingCheckpoints[DB] = NoEntry
  BY PipelineAssumption DEF Init, StoreInit
<1>3. Len(log) = 0
  BY <1>2
<1>4. \A t, n : ~Logged(t, {"begin"}, Len(log))
  BY <1>3 DEF Logged
<1>5. \A t : ~Clean(t)
  BY <1>4 DEF Clean, User
<1>6. LogOK /\ PositionsOK
  BY <1>2, <1>3 DEF LogOK, PositionsOK, NoEntry
<1>7. CheckpointsOK /\ ReadOK /\ ExcludedOK /\ WaitingOK
  BY <1>2, <1>5 DEF CheckpointsOK, CoveredBy, ReadOK, ExcludedOK, WaitingOK
<1> QED BY <1>1, <1>6, <1>7 DEF CoverInv

LEMMA CoverNext == CoverInv /\ [Next]_vars => CoverInv'
<1> SUFFICES ASSUME CoverInv, [Next]_vars PROVE CoverInv'
  OBVIOUS
<1>1. CASE Source
  BY <1>1, LogRecordCover, TruncateCover DEF Source
<1>2. CASE Scan \/ ScanOpenFails \/ ScanReadFails
  BY <1>2, StartScanCover, EndScanCover, FlushesCover, ScanOpenFailsCover, ScanReadFailsCover DEF Scan
<1>3. CASE Poll \/ PollReadFails
  BY <1>3, StartPollCover, EndPollCover, FlushesCover, PollReadFailsCover DEF Poll
<1> QED BY <1>1, <1>2, <1>3, HandleRecordCover, WriteNextCover, FlushesCover, OthersFailCover,
           CrashCover, UnchangedCover DEF Next, Pipeline

(* What a restart resumes after is stored: whatever is logged, fails or is *)
(* restarted, all changes of a user transaction that the persisted         *)
(* checkpoint has passed are durable, or it has one of the reasons.        *)
THEOREM RestartsResumeAfterStored == Spec => []CheckpointCoversStored
<1>1. CoverInv => CheckpointCoversStored
  <2> SUFFICES ASSUME CoverInv, NEW t \in Txns, User(t), CommittedBy(t, checkpoints[DB]),
                      reasons[t] \subseteq {}
               PROVE  StoredIn(events, t)
    BY DEF CheckpointCoversStored, Covered
  <2>1. Clean(t)
    BY DEF Clean
  <2> QED BY <2>1 DEF CoverInv, CheckpointsOK, CoveredBy, Has, StoredIn, RowsOf
<1> QED BY <1>1, CoverInit, CoverNext, PTL DEF Spec

(* The same one level up, of what the poller's own checkpoint has passed   *)
(* and what the store has accepted.                                        *)
THEOREM PollsPassOnlyBuffered == Spec => []PollerCoversBuffered
<1>1. CoverInv => PollerCoversBuffered
  <2> SUFFICES ASSUME CoverInv, NEW t \in Txns, User(t), CommittedBy(t, ldfCheckpoint),
                      reasons[t] = {}
               PROVE  StoredIn(View, t)
    BY DEF PollerCoversBuffered
  <2>1. Clean(t)
    BY DEF Clean
  <2> QED BY <2>1 DEF CoverInv, CheckpointsOK, CoveredBy, Has, StoredIn, RowsOf
<1> QED BY <1>1, CoverInit, CoverNext, PTL DEF Spec

-----------------------------------------------------------------------------
(* Without --since.  Checkpoints do not overtake what is pending, nor that *)
(* what the pass has come to.                                              *)

ForwardOK ==
  /\ since = 0
  /\ pendingCheckpoints[DB] = NoEntry \/ checkpoints[DB] <= pendingCheckpoints[DB]
  /\ IF proc = "down" THEN pendingCheckpoints[DB] = NoEntry
     ELSE checkpoints[DB] <= ldfCheckpoint /\ pendingCheckpoints[DB] <= ldfCheckpoint
  /\ proc = "scan" => ldfCheckpoint <= cursor

Forward == checkpoints'[DB] >= checkpoints[DB]

LEMMA ForwardTypes ==
  ASSUME PipelineInv
  PROVE  /\ checkpoints[DB] \in Nat
         /\ pendingCheckpoints[DB] \in Nat \/ pendingCheckpoints[DB] = NoEntry
         /\ ldfCheckpoint \in Nat /\ cursor \in Nat /\ maxLSN \in Nat
BY PipelineAssumption DEF PipelineInv, StoreInv, StoreTypeOK, OwnTypeOK

(* Steps that leave the pass, or what is known of it, where it is.         *)
LEMMA SettledForward ==
  ASSUME PipelineInv, PipelineInv', ForwardOK, Settling, ldfCheckpoint' = ldfCheckpoint,
         since' = since, proc' = proc \/ (proc # "down" /\ proc' \notin {"down", "scan"}),
         cursor' = cursor \/ proc # "scan" \/ proc' # "scan" \/ cursor <= cursor'
  PROVE  ForwardOK' /\ Forward
<1>1. /\ checkpoints[DB] \in Nat
      /\ pendingCheckpoints[DB] \in Nat \/ pendingCheckpoints[DB] = NoEntry
      /\ ldfCheckpoint \in Nat /\ cursor \in Nat
  BY ForwardTypes
<1>2. checkpoints'[DB] \in Nat /\ cursor' \in Nat
  BY PipelineAssumption DEF PipelineInv, StoreInv, StoreTypeOK, OwnTypeOK
<1>3. checkpoints'[DB] = checkpoints[DB]
      \/ (checkpoints'[DB] = pendingCheckpoints[DB] /\ pendingCheckpoints[DB] # NoEntry)
  BY <1>2 DEF Settling, NoEntry
<1>4. pendingCheckpoints'[DB] \in {pendingCheckpoints[DB], NoEntry}
  BY DEF Settling
<1>5. /\ since' = 0
      /\ pendingCheckpoints'[DB] = NoEntry \/ checkpoints'[DB] <= pendingCheckpoints'[DB]
      /\ checkpoints'[DB] >= checkpoints[DB]
  BY <1>1, <1>3, <1>4 DEF ForwardOK, NoEntry
<1>6. IF proc' = "down" THEN pendingCheckpoints'[DB] = NoEntry
      ELSE checkpoints'[DB] <= ldfCheckpoint' /\ pendingCheckpoints'[DB] <= ldfCheckpoint'
  BY <1>1, <1>3, <1>4 DEF ForwardOK, NoEntry
<1>7. proc' = "scan" => ldfCheckpoint' <= cursor'
  BY <1>1, <1>2 DEF ForwardOK
<1> QED BY <1>5, <1>6, <1>7 DEF ForwardOK, Forward

(* The end of a pass saves the last LSN it read.                           *)
LEMMA PassEndsForward ==
  ASSUME CoverInv, ForwardOK, EndScan \/ EndPoll
  PROVE  ForwardOK' /\ Forward
<1>1. /\ checkpoints[DB] \in Nat
      /\ pendingCheckpoints[DB] \in Nat \/ pendingCheckpoints[DB] = NoEntry
      /\ ldfCheckpoint \in Nat /\ cursor \in Nat
  BY ForwardTypes DEF CoverInv
<1>2. proc \in {"scan", "read"} /\ since' = 0 /\ proc' \notin {"down", "scan"}
  BY DEF EndScan, EndPoll, PassOver, Reading, ForwardOK
<1>3. ldfCheckpoint <= cursor /\ maxLSN \in {0, cursor}
  BY <1>2 DEF ForwardOK, CoverInv, PositionsOK
<1>4. checkpoints'[DB] = checkpoints[DB]
      /\ \/ maxLSN # 0 /\ ldfCheckpoint' = maxLSN /\ pendingCheckpoints'[DB] = maxLSN
         \/ UNCHANGED ldfCheckpoint /\ pendingCheckpoints'[DB] = pendingCheckpoints[DB]
  BY PendingType, SaveCheckpointRows DEF EndScan, EndPoll, storeVars, CoverInv
<1> QED BY <1>1, <1>2, <1>3, <1>4 DEF ForwardOK, Forward, NoEntry

LEMMA RestartForward ==
  ASSUME CoverInv, ForwardOK, Sinces \subseteq {0}, StartScan \/ ScanOpenFails \/ Crash
  PROVE  ForwardOK' /\ Forward
<1>1. checkpoints[DB] \in Nat /\ checkpoints'[DB] = checkpoints[DB]
  BY ForwardTypes DEF CoverInv, StartScan, ScanOpenFails, Crash, Restart, Reopen, storeVars
<1>2. pendingCheckpoints'[DB] = NoEntry
  BY PipelineAssumption
     DEF ForwardOK, StartScan, ScanOpenFails, Crash, Restart, Reopen, storeVars
<1>3. since' = 0
  BY DEF ForwardOK, StartScan, ScanOpenFails, Crash
<1>4. /\ proc' # "down" => ldfCheckpoint' = checkpoints[DB]
      /\ proc' = "scan" => cursor' = ldfCheckpoint'
  BY <1>3 DEF StartScan, StartPass, ScanOpenFails, Crash
<1> QED BY <1>1, <1>2, <1>3, <1>4 DEF ForwardOK, Forward, NoEntry

LEMMA RecordForward ==
  ASSUME CoverInv, CoverInv', ForwardOK, HandleRecord
  PROVE  ForwardOK' /\ Forward
<1>1. PICK l \in 1..Len(log), u \in Txns : l \in Lsns /\ l = NextLsn /\ log[l].txn = u
  BY ReadingRecord DEF HandleRecord, CoverInv, PipelineInv
<1>2. Settling
  BY <1>1, RecordSurvives
<1>3. UNCHANGED <<ldfCheckpoint, since>> /\ (cursor' = l \/ proc' = "flush")
  BY <1>1 DEF HandleRecord
<1>4. proc \in {"scan", "read"} /\ proc' \in {proc, "flush"}
  BY DEF HandleRecord, Reading, HandleBegin, HandleCommit, HandleAbort, HandleChange, Exclude
<1>5. cursor <= l
  <2>1. cursor \in Nat /\ head \in Nat
    BY DEF CoverInv, PipelineInv, OwnTypeOK
  <2> QED BY <1>1, <2>1 DEF NextLsn
<1> QED BY <1>2, <1>3, <1>4, <1>5, SettledForward DEF CoverInv

LEMMA ForwardNext ==
  ASSUME CoverInv, CoverInv', ForwardOK, Sinces \subseteq {0}, [Next]_vars
  PROVE  ForwardOK' /\ Forward
<1>1. PipelineInv /\ PipelineInv' /\ StoreInv
  BY DEF CoverInv, PipelineInv
<1>2. CASE Source \/ UNCHANGED vars
  <2>1. UNCHANGED <<storeVars, procVars>>
    BY <1>2 DEF Source, LogRecord, Truncate, vars
  <2>2. Settling /\ UNCHANGED <<ldfCheckpoint, since, proc, cursor>>
    BY <2>1 DEF Settling, storeVars, procVars, passVars
  <2> QED BY <1>1, <2>2, SettledForward
<1>3. CASE StartScan \/ ScanOpenFails \/ Crash
  BY <1>3, RestartForward
<1>4. CASE EndScan \/ EndPoll
  BY <1>4, PassEndsForward
<1>5. CASE ScanReadFails \/ StartPoll \/ PollReadFails
  <2>1. Settling /\ UNCHANGED <<ldfCheckpoint>>
    BY <1>5 DEF ScanReadFails, StartPoll, PollReadFails, Settling, storeVars
  <2>2. since' = since /\ proc # "down" /\ proc' \notin {"down", "scan"}
    BY <1>5 DEF ScanReadFails, StartPoll, PollReadFails, Reading, ForwardOK
  <2> QED BY <1>1, <2>1, <2>2, SettledForward
<1>6. CASE AutoScanFlush \/ PollFlush \/ OthersFlush
  <2>1. Settling
    BY <1>1, <1>6, FlushCall, CallSettles DEF AutoScanFlush, PollFlush, OthersFlush
  <2>2. /\ UNCHANGED <<ldfCheckpoint, since, cursor>>
        /\ proc' = proc \/ (proc # "down" /\ proc' \notin {"down", "scan"})
    BY <1>6 DEF AutoScanFlush, PollFlush, OthersFlush, procVars, passVars
  <2> QED BY <1>1, <2>1, <2>2, SettledForward
<1>7. CASE OthersFail
  <2>1. Settling
    BY <1>7, BatchStatementFailsCall, CallSettles DEF OthersFail
  <2>2. UNCHANGED <<ldfCheckpoint, since, cursor, proc>>
    BY <1>7 DEF OthersFail, procVars, passVars
  <2> QED BY <1>1, <2>1, <2>2, SettledForward
<1>8. CASE WriteNext
  <2>1. Settling
    BY <1>8, WriteSurvives DEF CoverInv
  <2>2. UNCHANGED <<ldfCheckpoint, since, cursor, proc>>
    BY <1>8 DEF WriteNext, passVars
  <2> QED BY <1>1, <2>1, <2>2, SettledForward
<1>9. CASE HandleRecord
  BY <1>9, RecordForward
<1> QED BY <1>2, <1>3, <1>4, <1>5, <1>6, <1>7, <1>8, <1>9 DEF Next, Pipeline, Scan, Poll

(* Without --since the persisted checkpoint never moves back, whatever     *)
(* fails or is restarted.                                                  *)
THEOREM CheckpointOnlyAdvances ==
  ASSUME Sinces \subseteq {0}
  PROVE  Spec => CheckpointNeverMovesBack
<1>1. Init => ForwardOK
  BY PipelineAssumption DEF Init, StoreInit, ForwardOK, NoEntry
<1>2. CoverInv /\ CoverInv' /\ ForwardOK /\ [Next]_vars => ForwardOK'
  BY ForwardNext
<1>3. CoverInv /\ CoverInv' /\ ForwardOK /\ [Next]_vars => [checkpoints'[DB] >= checkpoints[DB]]_vars
  BY ForwardNext DEF Forward
<1> QED BY <1>1, <1>2, <1>3, CoverInit, CoverNext, PTL DEF Spec, CheckpointNeverMovesBack

-----------------------------------------------------------------------------
(***************************************************************************)
(* The rows of a transaction whose bookkeeping was not lost are those of a *)
(* user's, and carry the time of its BEGIN; for any log, any number of     *)
(* failures and restarts, with or without --since.                         *)
(*                                                                         *)
(* A row is stamped at its COMMIT, from what the maps of the pass hold of  *)
(* its transaction then.  TimesOK says that they are right for whatever is *)
(* in flight at the position that ReadOK speaks of.                         *)
(***************************************************************************)

Known(t) == reasons[t] \subseteq {"store", "since"}

Internal == {"beginInternal", "cleanup"}

Sound(r) ==
  Known(r.txn) =>
    /\ User(r.txn)
    /\ r.val \in 1..Len(log) /\ log[r.val] = [op |-> "begin", txn |-> r.txn]

RowsOK ==
  /\ \A r \in Stored : r.db = DB => Sound(r)
  /\ \A i \in DOMAIN todo : Sound(todo[i])

(* What the maps hold of t when it is in flight at n.                      *)
Timed(t, n) ==
  /\ beginTimes[t] \in 1..Len(log)
  /\ log[beginTimes[t]].op \in Begins /\ log[beginTimes[t]].txn = t
  /\ Logged(t, Internal, n) => t \in excluded

TimesOK == \A t \in Txns : Known(t) /\ t \in InFlight(Pos) => Timed(t, Pos)

SoundInv == RowsOK /\ TimesOK

-----------------------------------------------------------------------------
(* Reasons only ever add up.                                               *)
Remembers ==
  /\ UNCHANGED log
  /\ \A t \in Txns : Known(t)' => Known(t)

LEMMA BlameRemembers ==
  ASSUME OwnTypeOK, UNCHANGED log, UNCHANGED reasons \/ \E pairs : Blame(pairs)
  PROVE  Remembers
BY DEF OwnTypeOK, Blame, Remembers, Known

LEMMA KnownUnblamed ==
  ASSUME OwnTypeOK, NEW pairs, Blame(pairs), NEW t \in Txns, Known(t)'
  PROVE  \A why \in {"handoff", "stale", "replay", "gap"} : <<t, why>> \notin pairs
BY DEF OwnTypeOK, Blame, Known, Reasons

LEMMA SameInFlight ==
  ASSUME UNCHANGED log
  PROVE  /\ \A n : InFlight(n)' = InFlight(n)
         /\ \A t : \A ops : \A n : Logged(t, ops, n)' <=> Logged(t, ops, n)
BY DEF InFlight, Logged

(* Rows and statements that a step leaves were rows or statements before.  *)
LEMMA RowsMove ==
  ASSUME PipelineInv, RowsOK, Remembers,
         \A r \in Stored' : r \in Stored \/ \E i \in DOMAIN todo : r = todo[i],
         \A i \in DOMAIN todo' : \E j \in DOMAIN todo : todo'[i] = todo[j]
  PROVE  RowsOK'
<1>1. ASSUME NEW r, r.txn \in Txns, Sound(r) PROVE Sound(r)'
  BY <1>1 DEF Sound, Remembers, Known, User, Logged
<1>2. /\ \A r \in Stored : r.txn \in Txns
      /\ \A i \in DOMAIN todo : todo[i].txn \in Txns
  <2>1. events \subseteq Row /\ added \subseteq Row
    BY DEF PipelineInv, StoreInv, StoreTypeOK
  <2>2. \A i \in DOMAIN todo : todo[i] \in Row
    BY DEF PipelineInv, OwnTypeOK
  <2> QED BY <2>1, <2>2 DEF Stored, Row
<1>3. \A r \in Stored' : r.db = DB => Sound(r)'
  BY <1>1, <1>2 DEF RowsOK
<1>4. ASSUME NEW i \in DOMAIN todo' PROVE Sound(todo[i])'
  <2>1. PICK j \in DOMAIN todo : todo'[i] = todo[j]
    BY <1>4
  <2>2. PICK r : r = todo'[i] /\ r = todo[j]
    BY <2>1
  <2>3. Sound(r)'
    BY <1>1, <1>2, <2>2 DEF RowsOK
  <2> QED BY <2>2, <2>3 DEF Sound
<1> QED BY <1>3, <1>4 DEF RowsOK

LEMMA RowsStay ==
  ASSUME PipelineInv, RowsOK, Remembers, Stored' \subseteq Stored, todo' = todo \/ todo' = <<>>
  PROVE  RowsOK'
<1>1. \A i \in DOMAIN todo' : \E j \in DOMAIN todo : todo'[i] = todo[j]
  OBVIOUS
<1> QED BY <1>1, RowsMove

(* The position stays, and so do the maps of what is in flight there.      *)
LEMMA TimesStay ==
  ASSUME TimesOK, Remembers, Pos' = Pos,
         \A t \in Txns : Known(t)' /\ t \in InFlight(Pos) =>
           /\ beginTimes'[t] = beginTimes[t]
           /\ t \in excluded => t \in excluded'
  PROVE  TimesOK'
<1> SUFFICES ASSUME NEW t \in Txns, Known(t)', t \in InFlight(Pos)' PROVE Timed(t, Pos)'
  BY DEF TimesOK
<1>1. t \in InFlight(Pos) /\ (Logged(t, Internal, Pos)' <=> Logged(t, Internal, Pos))
  BY SameInFlight DEF Remembers
<1>2. Timed(t, Pos)
  BY <1>1 DEF TimesOK, Remembers
<1> QED BY <1>1, <1>2 DEF Timed, Remembers

(* Whoever takes over at n has no maps of what is in flight, and says so.  *)
LEMMA TimesFresh ==
  ASSUME Remembers, NEW n, Pos' = n, \A t \in InFlight(n) : ~Known(t)'
  PROVE  TimesOK'
<1>1. InFlight(Pos)' = InFlight(n)
  BY SameInFlight DEF Remembers
<1> QED BY <1>1 DEF TimesOK

LEMMA HandedOffUnknown ==
  ASSUME OwnTypeOK, NEW n, NEW pairs, Blame(pairs), InFlight(n) \X {"handoff"} \subseteq pairs
  PROVE  \A t \in InFlight(n) : ~Known(t)'
<1> SUFFICES ASSUME NEW t \in InFlight(n), Known(t)' PROVE FALSE
  OBVIOUS
<1>1. t \in Txns /\ <<t, "handoff">> \in pairs
  BY DEF InFlight
<1> QED BY <1>1, KnownUnblamed

(* The maps are right for what is in flight at n, the new position.        *)
LEMMA TimesAt ==
  ASSUME Remembers, NEW n, Pos' = n,
         \A t \in Txns : Known(t)' /\ t \in InFlight(n) => Timed(t, n)'
  PROVE  TimesOK'
<1> SUFFICES ASSUME NEW t \in Txns, Known(t)', t \in InFlight(Pos)' PROVE Timed(t, Pos)'
  BY DEF TimesOK
<1>1. t \in InFlight(n)
  BY SameInFlight DEF Remembers
<1>2. Timed(t, n)'
  BY <1>1
<1> QED BY <1>2 DEF Timed

(* A poll that fails keeps its maps: they are right again for whatever was *)
(* in flight at the checkpoint and has not ended since.                    *)
LEMMA TimesBack ==
  ASSUME Remembers, OwnTypeOK, Pos' = ldfCheckpoint, NEW n \in Nat, ldfCheckpoint <= n,
         \A t \in Replayed(n) : ~Known(t)',
         \A t \in Txns : Known(t)' /\ t \in InFlight(n) => Timed(t, n)'
  PROVE  TimesOK'
<1>1. PICK c \in Nat : c = ldfCheckpoint /\ c <= n
  BY DEF OwnTypeOK
<1>2. \A t : \A ops : Logged(t, ops, c) => Logged(t, ops, n)
  BY <1>1 DEF Logged
<1>3. ASSUME NEW t \in Txns, Known(t)', t \in InFlight(c) PROVE Timed(t, c)'
  <2>1. t \in InFlight(n)
    BY <1>1, <1>2, <1>3 DEF Replayed, InFlight
  <2>2. Timed(t, n)'
    BY <1>3, <2>1
  <2>3. Logged(t, Internal, c)' => Logged(t, Internal, n)'
    BY <1>2, SameInFlight DEF Remembers
  <2> QED BY <2>2, <2>3 DEF Timed
<1> QED BY <1>1, <1>3, TimesAt

LEMMA ReplayedUnknown ==
  ASSUME OwnTypeOK, NEW n, NEW pairs, Blame(pairs), Replayed(n) \X {"replay"} \subseteq pairs
  PROVE  \A t \in Replayed(n) : ~Known(t)'
<1> SUFFICES ASSUME NEW t \in Replayed(n), Known(t)' PROVE FALSE
  OBVIOUS
<1>1. t \in Txns /\ <<t, "replay">> \in pairs
  BY DEF Replayed, InFlight
<1> QED BY <1>1, KnownUnblamed

-----------------------------------------------------------------------------
(* The steps that read no record.                                          *)

LEMMA HandOffSound ==
  ASSUME CoverInv, SoundInv, StartScan \/ ScanOpenFails \/ EndScan \/ ScanReadFails
  PROVE  SoundInv'
<1>1. OwnTypeOK /\ PipelineInv
  BY DEF CoverInv, PipelineInv
<1>2. UNCHANGED <<log, todo>>
  BY DEF StartScan, ScanOpenFails, EndScan, ScanReadFails, sourceVars
<1>3. Stored' \subseteq Stored
  <2>1. CASE UNCHANGED storeVars
    BY <2>1, NoStoreStep
  <2>2. CASE EndScan
    BY <1>1, <2>1, <2>2, SaveCheckpointStep DEF EndScan, OwnTypeOK
  <2> QED BY <2>1, <2>2 DEF StartScan, ScanOpenFails, ScanReadFails
<1>4. PICK n, pairs : /\ Pos' = n /\ Blame(pairs)
                      /\ InFlight(n) \X {"handoff"} \subseteq pairs
  <2>1. CASE StartScan
    <3>1. PICK n : n = cursor'
      OBVIOUS
    <3>2. Pos' = n
      BY <2>1, <3>1 DEF StartScan, Pos
    <3>3. InFlight(n) \X {"handoff"} \subseteq InFlight(cursor') \X {"handoff"}
      BY <3>1 DEF InFlight, Logged
    <3> QED BY <2>1, <3>2, <3>3 DEF StartScan
  <2>2. CASE ScanOpenFails
    <3>1. PICK n : n = ldfCheckpoint'
      OBVIOUS
    <3>2. Pos' = n
      BY <2>2, <3>1 DEF ScanOpenFails, Pos
    <3>3. InFlight(n) \X {"handoff"} \subseteq InFlight(ldfCheckpoint') \X {"handoff"}
      BY <3>1 DEF InFlight, Logged
    <3> QED BY <2>2, <3>2, <3>3 DEF ScanOpenFails
  <2>3. CASE EndScan
    <3>1. PICK n : n = ldfCheckpoint'
      OBVIOUS
    <3>2. Pos' = n
      BY <2>3, <3>1 DEF EndScan, Pos
    <3>3. InFlight(n) \X {"handoff"} \subseteq InFlight(ldfCheckpoint') \X {"handoff"}
      BY <3>1 DEF InFlight, Logged
    <3> QED BY <2>3, <3>2, <3>3 DEF EndScan
  <2>4. CASE ScanReadFails
    BY <2>4 DEF ScanReadFails, Pos
  <2> QED BY <2>1, <2>2, <2>3, <2>4
<1>5. Remembers
  BY <1>1, <1>2, <1>4, BlameRemembers
<1>6. TimesOK'
  BY <1>1, <1>4, <1>5, HandedOffUnknown, TimesFresh
<1> QED BY <1>1, <1>2, <1>3, <1>5, <1>6, RowsStay DEF SoundInv

(* Steps that leave the maps and the position, and steps of the store.     *)
LEMMA StandStillSound ==
  ASSUME CoverInv, SoundInv, UNCHANGED <<log, todo, beginTimes, excluded>>, Pos' = Pos,
         Stored' \subseteq Stored, UNCHANGED reasons \/ \E pairs : Blame(pairs)
  PROVE  SoundInv'
<1>1. Remembers
  BY BlameRemembers DEF CoverInv, PipelineInv
<1> QED BY <1>1, RowsStay, TimesStay DEF SoundInv, CoverInv

LEMMA FlushesSound ==
  ASSUME CoverInv, SoundInv, AutoScanFlush \/ PollFlush \/ OthersFlush \/ OthersFail
  PROVE  SoundInv'
<1>1. UNCHANGED <<log, todo, beginTimes, excluded>> /\ \E pairs : Blame(pairs)
  BY DEF AutoScanFlush, PollFlush, OthersFlush, OthersFail, sourceVars, procVars, mapVars
<1>2. Pos' = Pos
  BY DEF AutoScanFlush, PollFlush, OthersFlush, OthersFail, procVars, passVars, Pos
<1>3. Stored' \subseteq Stored
  BY FlushRows, BatchStatementFailsRows DEF AutoScanFlush, PollFlush, OthersFlush, OthersFail
<1> QED BY <1>1, <1>2, <1>3, StandStillSound

LEMMA EndPollSound == ASSUME CoverInv, SoundInv, EndPoll PROVE SoundInv'
<1>1. UNCHANGED <<log, todo, beginTimes, excluded>> /\ \E pairs : Blame(pairs)
  BY DEF EndPoll, sourceVars, mapVars
<1>2. Pos' = Pos
  BY DEF EndPoll, Pos, CoverInv, PositionsOK
<1>3. Stored' \subseteq Stored
  BY NoStoreStep, SaveCheckpointStep DEF EndPoll, CoverInv, PipelineInv, OwnTypeOK
<1> QED BY <1>1, <1>2, <1>3, StandStillSound

LEMMA StuttersSound ==
  ASSUME CoverInv, SoundInv, UNCHANGED vars \/ \E h \in 1..Len(log) : Truncate(h)
  PROVE  SoundInv'
<1>1. UNCHANGED <<storeVars, log, procVars, reasons>>
  BY DEF Truncate, vars, sourceVars
<1>2. UNCHANGED <<log, todo, beginTimes, excluded>> /\ Pos' = Pos
  BY <1>1 DEF procVars, mapVars, passVars, Pos
<1> QED BY <1>1, <1>2, NoStoreStep, StandStillSound

(* What a poll drops as stale it says so of.                               *)
LEMMA StartPollSound == ASSUME CoverInv, SoundInv, StartPoll PROVE SoundInv'
<1>1. OwnTypeOK /\ UNCHANGED <<log, todo, storeVars>>
  BY DEF StartPoll, sourceVars, CoverInv, PipelineInv
<1>2. PICK stale \in SUBSET {t \in LongRunning : beginTimes[t] # 0} :
        /\ beginTimes' = [t \in Txns |-> IF t \in stale THEN 0 ELSE beginTimes[t]]
        /\ excluded' = excluded \ stale
        /\ Blame(stale \X {"stale"})
  BY DEF StartPoll
<1>3. Pos' = Pos
  BY DEF StartPoll, StartPass, passVars, Pos
<1>4. Remembers
  BY <1>1, <1>2, BlameRemembers
<1>5. ASSUME NEW t \in Txns, Known(t)'
      PROVE  beginTimes'[t] = beginTimes[t] /\ (t \in excluded => t \in excluded')
  <2>1. t \notin stale
    <3>1. <<t, "stale">> \notin stale \X {"stale"}
      BY <1>1, <1>2, <1>5, KnownUnblamed
    <3> QED BY <3>1
  <2> QED BY <1>2, <2>1
<1>6. TimesOK'
  BY <1>3, <1>4, <1>5, TimesStay DEF SoundInv
<1> QED BY <1>1, <1>4, <1>6, NoStoreStep, RowsStay DEF SoundInv, CoverInv

LEMMA PollReadFailsSound == ASSUME CoverInv, SoundInv, PollReadFails PROVE SoundInv'
<1>1. OwnTypeOK /\ UNCHANGED <<log, todo, storeVars, beginTimes, excluded>>
  BY DEF PollReadFails, sourceVars, mapVars, CoverInv, PipelineInv
<1>2. Pos = cursor /\ Pos' = ldfCheckpoint /\ ldfCheckpoint <= cursor /\ cursor \in Nat
  BY DEF PollReadFails, Pos, CoverInv, PipelineInv, OwnTypeOK, PositionsOK
<1>3. Remembers
  BY <1>1, BlameRemembers DEF PollReadFails
<1>4. PICK n \in Nat : n = cursor /\ ldfCheckpoint <= n
  BY <1>2
<1>5. \A t \in Replayed(n) : ~Known(t)'
  BY <1>1, <1>4, ReplayedUnknown DEF PollReadFails
<1>6. ASSUME NEW t \in Txns, Known(t)', t \in InFlight(n) PROVE Timed(t, n)'
  <2>1. Timed(t, n)
    BY <1>2, <1>3, <1>4, <1>6 DEF SoundInv, TimesOK, Remembers
  <2>2. Logged(t, Internal, n)' <=> Logged(t, Internal, n)
    BY <1>1, SameInFlight
  <2> QED BY <1>1, <2>1, <2>2 DEF Timed
<1>7. TimesOK'
  BY <1>1, <1>2, <1>3, <1>4, <1>5, <1>6, TimesBack
<1> QED BY <1>1, <1>3, <1>7, NoStoreStep, RowsStay DEF SoundInv, CoverInv

LEMMA CrashSound == ASSUME CoverInv, SoundInv, Crash PROVE SoundInv'
<1>1. UNCHANGED <<log, reasons>> /\ todo' = <<>> /\ Pos' = 0
  BY DEF Crash, sourceVars, Pos
<1>2. Stored' \subseteq Stored
  BY DEF Crash, Restart, Reopen, EmptyBatch, Stored
<1>3. Remembers
  BY <1>1 DEF Remembers, Known
<1>4. InFlight(0) = {}
  BY DEF InFlight, Logged
<1>5. TimesOK'
  BY <1>1, <1>3, <1>4, TimesFresh
<1> QED BY <1>1, <1>2, <1>3, <1>5, RowsStay DEF SoundInv, CoverInv

(* A transaction whose COMMIT is read is no longer in flight.              *)
LEMMA WriteNextSound == ASSUME CoverInv, SoundInv, WriteNext PROVE SoundInv'
<1>1. OwnTypeOK /\ PipelineInv
  BY DEF CoverInv, PipelineInv
<1>2. todo \in Seq(Row) /\ todo # <<>> /\ todo' = Tail(todo)
  BY <1>1 DEF WriteNext, OwnTypeOK
<1>3. PICK r : r = Head(todo) /\ 1 \in DOMAIN todo /\ r = todo[1]
  BY <1>2
<1>4. Remembers
  BY <1>1, BlameRemembers DEF WriteNext, sourceVars
<1>5. Pos' = Pos /\ CommittedBy(r.txn, Pos)
  BY <1>3 DEF WriteNext, passVars, Pos, CoverInv, WaitingOK
<1>6. ASSUME NEW t \in Txns, t \in InFlight(Pos)
      PROVE  beginTimes'[t] = beginTimes[t] /\ (t \in excluded => t \in excluded')
  <2>1. t # r.txn
    BY <1>5, <1>6, CommittedIsEnded DEF InFlight, EndedBy
  <2>2. CASE Forget(r.txn)
    BY <1>1, <2>1, <2>2 DEF Forget, OwnTypeOK
  <2>3. CASE UNCHANGED mapVars
    BY <2>3 DEF mapVars
  <2> QED BY <1>3, <2>2, <2>3 DEF WriteNext
<1>7. TimesOK'
  BY <1>4, <1>5, <1>6, TimesStay DEF SoundInv
<1>8. \A s \in Stored' : s \in Stored \/ \E i \in DOMAIN todo : s = todo[i]
  BY <1>3, WriteRows DEF WriteNext
<1>9. \A i \in DOMAIN todo' : \E j \in DOMAIN todo : todo'[i] = todo[j]
  <2>1. \A i \in DOMAIN todo' : i + 1 \in DOMAIN todo /\ todo'[i] = todo[i + 1]
    BY <1>2
  <2> QED BY <2>1
<1> QED BY <1>1, <1>4, <1>7, <1>8, <1>9, RowsMove DEF SoundInv

(* Nothing that is committed, or read, changes when the log grows.         *)
LEMMA LogRecordSound ==
  ASSUME CoverInv, SoundInv, NEW op \in Begins \cup Ends \cup Changes, NEW u \in Txns,
         LogRecord(op, u)
  PROVE  SoundInv'
<1>1. OwnTypeOK /\ PipelineInv /\ LogOK
  BY DEF CoverInv, PipelineInv
<1>2. UNCHANGED <<events, added, todo, reasons, beginTimes, excluded, proc, cursor, ldfCheckpoint>>
  BY DEF LogRecord, storeVars, procVars, mapVars, passVars
<1>3. /\ \A t : \A ops : \A k \in Int : k <= Len(log) => (Logged(t, ops, k)' <=> Logged(t, ops, k))
      /\ \A t : t # u => (User(t)' <=> User(t))
      /\ \A t : \A k \in Int : k <= Len(log) /\ EndedBy(t, k) => t # u
  BY <1>1, LogRecordKeeps
<1>4. /\ Len(log) \in Nat /\ Len(log') = Len(log) + 1
      /\ \A i \in 1..Len(log) : log'[i] = log[i]
  BY <1>1, LogRecordFacts
<1>5. ASSUME NEW r, Justified(r), Sound(r) PROVE Sound(r)'
  <2>1. PICK t : t = r.txn
    OBVIOUS
  <2>2. t # u
    BY <1>3, <1>4, <1>5, <2>1, CommittedIsEnded DEF Justified
  <2>3. User(t)' <=> User(t)
    BY <1>3, <2>2
  <2>4. Known(t)' <=> Known(t)
    BY <1>2 DEF Known
  <2>5. Known(t) => User(t) /\ r.val \in 1..Len(log) /\ log[r.val] = [op |-> "begin", txn |-> t]
    BY <1>5, <2>1 DEF Sound
  <2>6. r.val \in 1..Len(log) => r.val \in 1..Len(log') /\ log'[r.val] = log[r.val]
    BY <1>4
  <2> QED BY <2>1, <2>3, <2>4, <2>5, <2>6 DEF Sound
<1>6. RowsOK'
  <2>1. \A r \in Stored' : r.db = DB => Sound(r)'
    BY <1>1, <1>2, <1>5 DEF SoundInv, RowsOK, Stored, PipelineInv, Provenance, StoredOK
  <2>2. ASSUME NEW i \in DOMAIN todo' PROVE Sound(todo[i])'
    <3>1. PICK r : r = todo'[i] /\ r = todo[i]
      BY <1>2
    <3>2. Sound(r)'
      BY <1>1, <1>2, <1>5, <3>1 DEF SoundInv, RowsOK, PipelineInv, Provenance, TodoOK
    <3> QED BY <3>1, <3>2 DEF Sound
  <2> QED BY <2>1, <2>2 DEF RowsOK
<1>7. TimesOK'
  <2>1. PICK n \in Int : n = Pos /\ n <= Len(log)
    BY <1>1 DEF Pos, CoverInv, PositionsOK, OwnTypeOK
  <2>2. Pos' = n
    BY <1>2, <2>1 DEF Pos
  <2>3. ASSUME NEW t \in Txns, Known(t)', t \in InFlight(n)' PROVE Timed(t, n)'
    <3>1. t \in InFlight(n) /\ Known(t)
      BY <1>2, <1>3, <2>1, <2>3 DEF InFlight, Known
    <3>2. Timed(t, n)
      BY <2>1, <3>1 DEF SoundInv, TimesOK
    <3>3. Logged(t, Internal, n)' <=> Logged(t, Internal, n)
      BY <1>3, <2>1
    <3>4. beginTimes[t] \in 1..Len(log') /\ log'[beginTimes[t]] = log[beginTimes[t]]
      BY <1>4, <3>2 DEF Timed
    <3> QED BY <1>2, <3>2, <3>3, <3>4 DEF Timed
  <2>4. ASSUME NEW t \in Txns, Known(t)', t \in InFlight(Pos)' PROVE Timed(t, Pos)'
    <3>1. t \in InFlight(n)'
      BY <2>2, <2>4 DEF InFlight
    <3> QED BY <2>2, <2>3, <2>4, <3>1 DEF Timed
  <2> QED BY <2>4 DEF TimesOK
<1> QED BY <1>6, <1>7 DEF SoundInv

-----------------------------------------------------------------------------
(* A record is read.                                                       *)

(* It moves only what is known of its own transaction.                     *)
LEMMA OthersTimes ==
  ASSUME OwnTypeOK, NEW l, NEW u \in Txns, NEW t \in Txns, t # u,
         \/ HandleBegin(l, u) \/ HandleCommit(l, u)
         \/ HandleAbort(l, u) \/ HandleChange(l, u)
  PROVE  beginTimes'[t] = beginTimes[t] /\ (t \in excluded => t \in excluded')
<1>1. CASE Forget(u)
  BY <1>1 DEF Forget, OwnTypeOK
<1>2. CASE UNCHANGED beginTimes \/ beginTimes' = [beginTimes EXCEPT ![u] = l]
  <2>1. beginTimes'[t] = beginTimes[t]
    BY <1>2 DEF OwnTypeOK
  <2>2. Forget(u) \/ excluded \subseteq excluded'
    BY DEF HandleBegin, HandleCommit, HandleAbort, HandleChange, Exclude, mapVars
  <2> QED BY <1>1, <2>1, <2>2
<1> QED BY <1>1, <1>2 DEF HandleBegin, HandleCommit, HandleAbort, HandleChange, mapVars

(* What handleScanRecord makes of a record, whether it returns an error or *)
(* not, is right for whatever is in flight after it.                       *)
LEMMA RecordTimed ==
  ASSUME CoverInv, SoundInv, HandleRecord, NEW l \in 1..Len(log), l = NextLsn,
         NEW u \in Txns, log[l].txn = u, NEW t \in Txns, Known(t), t \notin Skipped,
         t \in InFlight(l)
  PROVE  /\ beginTimes'[t] \in 1..Len(log)
         /\ log[beginTimes'[t]].op \in Begins /\ log[beginTimes'[t]].txn = t
         /\ Logged(t, Internal, l) => t \in excluded'
<1>1. /\ OwnTypeOK /\ LogOK /\ Pos = cursor
      /\ \/ HandleBegin(l, u) \/ HandleCommit(l, u)
         \/ HandleAbort(l, u) \/ HandleChange(l, u)
  BY DEF HandleRecord, Reading, Pos, CoverInv, PipelineInv
<1>2. \A ops : Logged(t, ops, l) <=> Logged(t, ops, cursor) \/ (u = t /\ log[l].op \in ops)
  BY <1>1, LoggedTo
<1>3. Logged(t, Begins, l) /\ ~Logged(t, Ends, l)
  BY DEF InFlight
<1>4. ASSUME Logged(t, Begins, cursor) PROVE Timed(t, cursor)
  BY <1>1, <1>2, <1>3, <1>4 DEF SoundInv, TimesOK, InFlight
<1>5. CASE t # u
  <2>1. Timed(t, cursor)
    BY <1>2, <1>3, <1>4, <1>5
  <2>2. beginTimes'[t] = beginTimes[t] /\ (t \in excluded => t \in excluded')
    BY <1>1, <1>5, OthersTimes
  <2> QED BY <1>2, <1>5, <2>1, <2>2 DEF Timed
<1>6. CASE t = u /\ log[l].op \in Begins
  <2>1. HandleBegin(l, t)
    BY <1>1, <1>6 DEF HandleCommit, HandleAbort, HandleChange, Begins, Changes
  <2>2. beginTimes'[t] = l
    BY <1>1, <2>1 DEF HandleBegin, OwnTypeOK
  <2>3. ~Logged(t, Internal, cursor)
    <3> SUFFICES ASSUME NEW i \in 1..cursor, log[i].txn = t PROVE FALSE
      BY DEF Logged
    <3>1. cursor < l /\ cursor \in Nat
      BY <1>1, NoneBetween DEF OwnTypeOK
    <3>2. i \in 1..Len(log) /\ i < l
      BY <3>1
    <3> QED BY <1>1, <1>6, <3>2 DEF LogOK
  <2>4. Logged(t, Internal, l) => t \in excluded'
    BY <1>2, <2>1, <2>3 DEF HandleBegin, Exclude, Internal
  <2> QED BY <1>6, <2>2, <2>4
<1>7. CASE t = u /\ log[l].op \in Changes
  <2>1. HandleChange(l, t)
    BY <1>1, <1>7 DEF HandleBegin, HandleCommit, HandleAbort, Begins, Changes
  <2>2. Timed(t, cursor)
    BY <1>2, <1>3, <1>4, <1>7 DEF Begins, Changes
  <2>3. UNCHANGED beginTimes /\ excluded \subseteq excluded'
    BY <2>1 DEF HandleChange, Exclude
  <2>4. log[l].op = "cleanup" => t \in excluded'
    BY <2>1 DEF HandleChange, Exclude
  <2>5. log[l].op # "beginInternal"
    BY <1>7 DEF Changes
  <2>6. Logged(t, Internal, l) => t \in excluded'
    BY <1>2, <2>2, <2>3, <2>4, <2>5 DEF Timed, Internal
  <2> QED BY <2>2, <2>3, <2>6 DEF Timed
<1>8. log[l] \in Record
  BY <1>1 DEF OwnTypeOK
<1>9. t = u => log[l].op \notin Ends
  BY <1>2, <1>3
<1> QED BY <1>5, <1>6, <1>7, <1>8, <1>9 DEF Record

(* The statements of a COMMIT are stamped with the time of its BEGIN, and  *)
(* those of an internal transaction are dropped.                           *)
LEMMA StampedSound ==
  ASSUME CoverInv, SoundInv, Reading, NEW l \in 1..Len(log), l = NextLsn,
         NEW u \in Txns, log[l].txn = u, log[l].op = "commit", u \notin excluded,
         Known(u), u \notin Skipped
  PROVE  /\ User(u)
         /\ EventTime(l, u) \in 1..Len(log)
         /\ log[EventTime(l, u)] = [op |-> "begin", txn |-> u]
<1>1. OwnTypeOK /\ LogOK /\ Pos = cursor
  BY DEF Reading, Pos, CoverInv, PipelineInv
<1>2. /\ cursor < l /\ cursor \in Nat
      /\ \A i \in 1..l : log[i].txn = u => i <= cursor \/ i = l
  BY <1>1, NoneBetween DEF OwnTypeOK
<1>3. \A i \in 1..Len(log) : log[i].txn = u => i \in 1..cursor \/ i = l
  <2> SUFFICES ASSUME NEW i \in 1..Len(log), log[i].txn = u, i # l PROVE i \in 1..cursor
    OBVIOUS
  <2>1. ~(l < i)
    BY <1>1 DEF LogOK, Ends
  <2>2. i \in 1..l
    BY <2>1
  <2> QED BY <1>2, <2>2
<1>4. u \in InFlight(cursor)
  <2>1. PICK j \in 1..l : log[j].txn = u /\ log[j].op \in Begins
    BY <1>1 DEF LogOK
  <2>2. j # l
    BY <2>1 DEF Begins
  <2>3. Logged(u, Begins, cursor)
    BY <1>2, <2>1, <2>2 DEF Logged
  <2>4. ~Logged(u, Ends, cursor)
    BY <1>1, <1>2 DEF Logged, LogOK
  <2> QED BY <2>3, <2>4 DEF InFlight
<1>5. PICK b \in 1..Len(log) : /\ b = beginTimes[u]
                               /\ log[b].op \in Begins /\ log[b].txn = u
                               /\ ~Logged(u, Internal, cursor)
  BY <1>1, <1>4 DEF SoundInv, TimesOK, Timed
<1>6. EventTime(l, u) = b
  BY <1>5 DEF EventTime
<1>7. b \in 1..cursor
  BY <1>3, <1>5 DEF Begins
<1>8. log[b].op = "begin"
  BY <1>5, <1>7 DEF Logged, Internal, Begins
<1>9. log[b] = [op |-> "begin", txn |-> u]
  <2>1. log[b] \in Record
    BY <1>1, <1>5 DEF OwnTypeOK
  <2> QED BY <1>5, <1>8, <2>1 DEF Record
<1>10. ~Logged(u, {"cleanup"}, Len(log))
  BY <1>3, <1>5 DEF Logged, Internal
<1>11. Logged(u, {"begin"}, Len(log))
  BY <1>5, <1>8 DEF Logged
<1> QED BY <1>6, <1>9, <1>10, <1>11 DEF User

LEMMA HandleRecordSound == ASSUME CoverInv, SoundInv, HandleRecord PROVE SoundInv'
<1>1. OwnTypeOK /\ PipelineInv
  BY DEF CoverInv, PipelineInv
<1>2. PICK l \in 1..Len(log), u \in Txns : l \in Lsns /\ l = NextLsn /\ log[l].txn = u
  BY <1>1, ReadingRecord DEF HandleRecord
<1>3. /\ Reading /\ todo = <<>> /\ proc \in {"scan", "read"}
      /\ UNCHANGED <<log, ldfCheckpoint>>
      /\ \/ HandleBegin(l, u) \/ HandleCommit(l, u)
         \/ HandleAbort(l, u) \/ HandleChange(l, u)
      /\ IF proc' = "flush" THEN cursor' = 0 ELSE cursor' = l
  BY <1>2 DEF HandleRecord, Reading, LeavePass, sourceVars
<1>4. PICK pairs : /\ Blame(pairs) /\ Skipped \X {"gap"} \subseteq pairs
                   /\ proc = "read" /\ proc' = "flush" => Replayed(l) \X {"replay"} \subseteq pairs
  BY <1>2 DEF HandleRecord
<1>5. Remembers
  BY <1>1, <1>3, <1>4, BlameRemembers
<1>6. ASSUME NEW t \in Txns, Known(t)' PROVE Known(t) /\ t \notin Skipped
  <2>1. <<t, "gap">> \notin Skipped \X {"gap"}
    BY <1>1, <1>4, <1>6, KnownUnblamed
  <2> QED BY <1>5, <1>6, <2>1 DEF Remembers
<1>7. ASSUME NEW t \in Txns, Known(t)', t \in InFlight(l) PROVE Timed(t, l)'
  <2>1. /\ beginTimes'[t] \in 1..Len(log)
        /\ log[beginTimes'[t]].op \in Begins /\ log[beginTimes'[t]].txn = t
        /\ Logged(t, Internal, l) => t \in excluded'
    BY <1>2, <1>6, <1>7, RecordTimed
  <2>2. Logged(t, Internal, l)' <=> Logged(t, Internal, l)
    BY <1>3, SameInFlight
  <2> QED BY <1>3, <2>1, <2>2 DEF Timed
<1>8. proc' = proc \/ (proc = "read" /\ proc' = "flush")
  BY <1>3 DEF HandleBegin, HandleCommit, HandleAbort, HandleChange, Exclude
<1>9. TimesOK'
  <2>1. CASE proc' = proc
    <3>1. Pos' = l
      BY <1>3, <2>1 DEF Pos
    <3> QED BY <1>5, <1>7, <3>1, TimesAt
  <2>2. CASE proc = "read" /\ proc' = "flush"
    <3>1. Pos' = ldfCheckpoint
      BY <1>3, <2>2 DEF Pos
    <3>2. l \in Nat /\ ldfCheckpoint <= l
      <4>1. /\ ldfCheckpoint \in Nat /\ cursor \in Nat /\ head \in Nat
            /\ ldfCheckpoint <= cursor
        BY <1>1, <2>2 DEF OwnTypeOK, CoverInv, PositionsOK
      <4> QED BY <1>2, <4>1 DEF NextLsn
    <3>3. \A t \in Replayed(l) : ~Known(t)'
      BY <1>1, <1>4, <2>2, ReplayedUnknown
    <3> QED BY <1>1, <1>5, <1>7, <3>1, <3>2, <3>3, TimesBack
  <2> QED BY <1>8, <2>1, <2>2
<1>10. Stored' \subseteq Stored
  <2>1. CASE UNCHANGED storeVars
    BY <2>1, NoStoreStep
  <2> QED BY <1>3, <2>1, DeleteTransactionRows, DeleteLSNRows
          DEF HandleBegin, HandleCommit, HandleAbort, HandleChange, Exclude
<1>11. CASE todo' = todo
  BY <1>1, <1>5, <1>9, <1>10, <1>11, RowsStay DEF SoundInv
<1>12. CASE log[l].op = "commit" /\ u \notin excluded /\ todo' = Stamped(l, u)
  <2>1. \A r \in Stored' : r.db = DB => Sound(r)'
    <3>1. \A r \in Stored : r.txn \in Txns
      <4>1. events \subseteq Row /\ added \subseteq Row
        BY <1>1 DEF PipelineInv, StoreInv, StoreTypeOK
      <4> QED BY <4>1 DEF Stored, Row
    <3>2. ASSUME NEW r \in Stored, r.db = DB PROVE Sound(r)'
      BY <1>5, <3>1, <3>2 DEF Sound, SoundInv, RowsOK, Remembers, Known, User, Logged
    <3> QED BY <1>10, <3>2
  <2>2. ASSUME NEW i \in DOMAIN todo' PROVE Sound(todo[i])'
    <3>1. PICK r : r = todo'[i] /\ r.txn = u /\ r.val = EventTime(l, u)
      <4>1. \A k \in DOMAIN Stamped(l, u) :
              Stamped(l, u)[k].txn = u /\ Stamped(l, u)[k].val = EventTime(l, u)
        BY DEF Stamped
      <4> QED BY <1>12, <2>2, <4>1
    <3>2. ASSUME Known(u)'
          PROVE  /\ User(u) /\ r.val \in 1..Len(log)
                 /\ log[r.val] = [op |-> "begin", txn |-> u]
      BY <1>2, <1>3, <1>6, <1>12, <3>1, <3>2, StampedSound
    <3>3. Sound(r)'
      BY <1>3, <3>1, <3>2 DEF Sound, Known, User, Logged
    <3> QED BY <3>1, <3>3 DEF Sound
  <2>3. RowsOK'
    BY <2>1, <2>2 DEF RowsOK
  <2> QED BY <1>9, <2>3 DEF SoundInv
<1>13. todo' = todo \/ (log[l].op = "commit" /\ u \notin excluded /\ todo' = Stamped(l, u))
  BY <1>3 DEF HandleBegin, HandleCommit, HandleAbort, HandleChange, Exclude
<1> QED BY <1>11, <1>12, <1>13

-----------------------------------------------------------------------------
LEMMA SoundInit == Init => SoundInv
<1> SUFFICES ASSUME Init PROVE SoundInv
  OBVIOUS
<1>1. Stored = {} /\ todo = <<>> /\ Pos = 0
  BY DEF Init, StoreInit, Stored, Pos
<1>2. InFlight(0) = {}
  BY DEF InFlight, Logged
<1> QED BY <1>1, <1>2 DEF SoundInv, RowsOK, TimesOK

LEMMA SoundNext == CoverInv /\ SoundInv /\ [Next]_vars => SoundInv'
<1> SUFFICES ASSUME CoverInv, SoundInv, [Next]_vars PROVE SoundInv'
  OBVIOUS
<1>1. CASE Source
  BY <1>1, LogRecordSound, StuttersSound DEF Source
<1>2. CASE Scan \/ ScanOpenFails \/ ScanReadFails
  BY <1>2, HandOffSound, FlushesSound DEF Scan
<1>3. CASE Poll \/ PollReadFails
  BY <1>3, StartPollSound, EndPollSound, FlushesSound, PollReadFailsSound DEF Poll
<1> QED BY <1>1, <1>2, <1>3, HandleRecordSound, WriteNextSound, FlushesSound, CrashSound,
           StuttersSound DEF Next, Pipeline

(* Whatever is logged, fails or is restarted: a row is stored only for a   *)
(* transaction of a user, with the time of its BEGIN, unless a hand-off, a *)
(* gap, a replay or pruneStalePollState lost what was known of it.         *)
THEOREM StoredRowsAreUsers == Spec => []RowsAreSound
<1>1. SoundInv => RowsAreSound
  <2> SUFFICES ASSUME SoundInv, NEW t \in Txns, reasons[t] \subseteq {"store", "since"},
                      NEW r \in RowsOf(t, View)
               PROVE  User(t) /\ log[r.val] = [op |-> "begin", txn |-> t]
    BY DEF RowsAreSound
  <2>1. r \in Stored /\ r.db = DB /\ r.txn = t
    BY DEF RowsOf, View, Stored
  <2> QED BY <2>1 DEF SoundInv, RowsOK, Sound, Known
<1> QED BY <1>1, CoverInit, CoverNext, SoundInit, SoundNext, PTL DEF Spec
=============================================================================
