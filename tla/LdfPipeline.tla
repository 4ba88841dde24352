---------------------------- MODULE LdfPipeline ----------------------------
(***************************************************************************)
(* cmd/logrecovery/serve.go: the life of one database in the auto-scan     *)
(* pipeline.  runServe restores the checkpoints, scanDatabase reads the    *)
(* active log once, then startLDFPoller polls it every five seconds.       *)
(* Every record read goes through handleScanRecord, which keeps the        *)
(* statements of an open transaction in memory and writes them to the      *)
(* store at its COMMIT.  The store is DuckDBStore, shared with the pollers *)
(* of other databases, which show here as flushes and failed writes at any *)
(* moment.                                                                 *)
(*                                                                         *)
(* The source log is a sequence; an LSN is an index into it and stands for *)
(* the time of its record as well.  0 is the empty LSN and the zero time.  *)
(***************************************************************************)
EXTENDS DuckDBStore, Sequences, SequencesExt

CONSTANTS
  DB,           (* The database this pipeline follows.                     *)
  Histories,    (* What the source logs is a prefix of one of these.       *)
  LongRunning,  (* Transactions that may stay open for more than 2 hours.  *)
  Sinces,       (* Boundaries --since may give; 0: "all".                  *)
  MaxErrors     (* Bound: passes over the log that fail.                   *)

(* The val of a row is its time here, an LSN.  Cleanup statements are left *)
(* out before the store sees them.                                         *)
ASSUME PipelineAssumption ==
  /\ DB \in Dbs
  /\ Lsns \subseteq Vals /\ Tombstones \cap Lsns = {}
  /\ LongRunning \subseteq Txns
  /\ Sinces \subseteq 0..MaxLsn
  /\ MaxErrors \in Nat

VARIABLES
  log,            (* Source: all the records it ever wrote.                *)
  head,           (* Source: the active log is what follows this LSN.      *)
  proc,           (* What the goroutine of DB is doing.                    *)
  schemaLoaded,   (* appSchemas[DB] is there.                              *)
  since,          (* effectiveSince of the current scan, 0 in a poll.      *)
  pending,        (* Generated statements of each transaction, as LSNs.    *)
  beginTimes, excluded,
  ldfCheckpoint,  (* ldfCheckpoint[DB].                                    *)
  cursor,         (* LSN of the last record read in this pass.             *)
  maxLSN,
  readTo,         (* End of the log when this pass began.                  *)
  todo,           (* Statements of a COMMIT still to be written.           *)
  errors,         (* Bound.                                                *)
  reasons         (* History: why a transaction may not be stored right.   *)

sourceVars == <<log, head>>
mapVars == <<pending, beginTimes, excluded>>
passVars == <<cursor, maxLSN, readTo>>
procVars == <<proc, schemaLoaded, since, ldfCheckpoint, todo, errors, mapVars, passVars>>
vars == <<storeVars, sourceVars, procVars, reasons>>

Begins == {"begin", "beginInternal"}
Ends == {"commit", "abort"}
Changes == {"data",      (* Generate returns a statement.                  *)
            "nonBase",   (* Generate returns nil: not a base-table change. *)
            "cleanup"}   (* isPhysicalCleanupDelete.                       *)
Record == [op : Begins \cup Ends \cup Changes, txn : Txns]

Reasons == {"handoff",   (* A scan or a restart dropped its bookkeeping.   *)
            "stale",     (* pruneStalePollState did.                       *)
            "replay",    (* A failed poll ended it, and is read again.     *)
            "gap",       (* A record of it left the active log unread.     *)
            "since",     (* It began before --since.                       *)
            "store"}     (* A failing store call dropped a row of it.      *)

(* The state of a transaction after the first n records.                   *)
Logged(t, ops, n) == \E i \in 1..n : log[i].txn = t /\ log[i].op \in ops
InFlight(n) == {t \in Txns : Logged(t, Begins, n) /\ ~Logged(t, Ends, n)}
Active == InFlight(Len(log))

NoPending == [t \in Txns |-> <<>>]
NoTimes == [t \in Txns |-> 0]

(* The blames of a step: a set of pairs <<transaction, reason>>.           *)
Blame(pairs) ==
  reasons' = [t \in Txns |-> reasons[t] \cup {why \in Reasons : <<t, why>> \in pairs}]

(* Whose rows a failing store call may have dropped: those in the batch    *)
(* and the one being written.                                              *)
StoreBlame ==
  IF result' = "err"
  THEN ({r.txn : r \in added} \cup {todo[i].txn : i \in DOMAIN todo}) \X {"store"}
  ELSE {}

PipelineTypeOK ==
  /\ StoreTypeOK
  /\ log \in Seq(Record) /\ Len(log) <= MaxLsn
  /\ head \in 0..MaxLsn
  /\ proc \in {"down", "scan", "scanned", "idle", "read", "flush"}
  /\ schemaLoaded \in BOOLEAN
  /\ since \in Sinces \cup {0}
  /\ pending \in [Txns -> Seq(Lsns)]
  /\ beginTimes \in [Txns -> 0..MaxLsn]
  /\ excluded \in SUBSET Txns
  /\ ldfCheckpoint \in 0..MaxLsn
  /\ cursor \in 0..MaxLsn /\ maxLSN \in 0..MaxLsn /\ readTo \in 0..MaxLsn
  /\ todo \in Seq(Row)
  /\ errors \in 0..MaxErrors
  /\ reasons \in [Txns -> SUBSET Reasons]

Init ==
  /\ StoreInit
  /\ log = <<>> /\ head = 0
  /\ proc = "down" /\ schemaLoaded = FALSE /\ since = 0
  /\ pending = NoPending /\ beginTimes = NoTimes /\ excluded = {}
  /\ ldfCheckpoint = 0 /\ cursor = 0 /\ maxLSN = 0 /\ readTo = 0
  /\ todo = <<>> /\ errors = 0
  /\ reasons = [t \in Txns |-> {}]

-----------------------------------------------------------------------------
(* The source (external).                                                  *)

LogRecord(op, t) ==
  /\ Len(log) < MaxLsn
  /\ IF op \in Begins THEN ~Logged(t, Begins, Len(log)) ELSE t \in Active
  /\ log' = Append(log, [op |-> op, txn |-> t])
  /\ \E h \in Histories : IsPrefix(log', h)
  /\ UNCHANGED <<storeVars, head, procVars, reasons>>

(* A log backup frees the log up to h.  The log from the BEGIN of the      *)
(* oldest open transaction stays.                                          *)
Truncate(h) ==
  /\ head < h
  /\ \A t \in Active : ~Logged(t, Begins, h)
  /\ head' = h
  /\ UNCHANGED <<storeVars, log, procVars, reasons>>

-----------------------------------------------------------------------------
(* Reading.                                                                *)

Reading == proc \in {"scan", "read"} /\ todo = <<>>

(* fn_dblog(NULL,NULL) lists the active log; the cursor only filters it.   *)
NextLsn == IF cursor < head THEN head + 1 ELSE cursor + 1

(* Whose records were truncated before this pass came to them.             *)
Skipped == {log[i].txn : i \in (cursor + 1)..head}

(* A pass reads at least what the log held when it began.                  *)
PassOver == Reading /\ NextLsn > readTo

StartPass(from) ==
  /\ cursor' = from
  /\ maxLSN' = 0
  /\ readTo' = Len(log)

PassFails == errors < MaxErrors /\ errors' = errors + 1

(* The variables of the pass go out of scope.                              *)
LeavePass == cursor' = 0 /\ maxLSN' = 0 /\ readTo' = 0

FreshMaps == pending' = NoPending /\ beginTimes' = NoTimes /\ excluded' = {}

Forget(t) ==
  /\ pending' = [pending EXCEPT ![t] = <<>>]
  /\ beginTimes' = [beginTimes EXCEPT ![t] = 0]
  /\ excluded' = excluded \ {t}

(* st.DeleteTransaction for a transaction found to be internal.  Its error *)
(* ends a poll; a scan counts it and reads on.                             *)
Exclude(t) ==
  /\ excluded' = excluded \cup {t}
  /\ pending' = [pending EXCEPT ![t] = <<>>]
  /\ DeleteTransaction(DB, t)
  /\ proc' = IF proc = "read" /\ result' = "err" THEN "flush" ELSE proc
  /\ UNCHANGED todo

(* Mutants: the time of BEGIN is not kept; internal ones are not excluded. *)
HandleBeginNoTime(l, t) ==
  /\ log[l].op \in Begins
  /\ UNCHANGED beginTimes
  /\ \/ log[l].op = "beginInternal" /\ Exclude(t)
     \/ log[l].op = "begin" /\ UNCHANGED <<storeVars, pending, excluded, proc, todo>>

HandleBeginAllUsers(l, t) ==
  /\ log[l].op \in Begins
  /\ beginTimes' = [beginTimes EXCEPT ![t] = l]
  /\ UNCHANGED <<storeVars, pending, excluded, proc, todo>>

(* handleScanRecord, one disjunct per return.                              *)
HandleBegin(l, t) ==
  /\ log[l].op \in Begins
  /\ beginTimes' = [beginTimes EXCEPT ![t] = l]
  /\ \/ log[l].op = "beginInternal" /\ Exclude(t)
     \/ log[l].op = "begin" /\ UNCHANGED <<storeVars, pending, excluded, proc, todo>>

EventTime(l, t) == IF beginTimes[t] = 0 THEN l ELSE beginTimes[t]

(* The statements of t, stamped at its COMMIT.                             *)
Stamped(l, t) ==
  [i \in 1..Len(pending[t]) |->
    [db |-> DB, lsn |-> pending[t][i], txn |-> t, val |-> EventTime(l, t)]]

(* The statements are written one by one, by WriteNext.                    *)
HandleCommit(l, t) ==
  LET dropped == \/ t \in excluded
                 \/ since # 0 /\ EventTime(l, t) < since
                 \/ pending[t] = <<>>
  IN
  /\ log[l].op = "commit"
  /\ \/ dropped /\ Forget(t) /\ UNCHANGED todo
     \/ ~dropped /\ todo' = Stamped(l, t) /\ UNCHANGED mapVars
  /\ UNCHANGED <<storeVars, proc>>

(* Mutant: an ABORT is handled as a COMMIT.                                *)
HandleAbortAsCommit(l, t) ==
  /\ log[l].op = "abort"
  /\ todo' = Stamped(l, t)
  /\ UNCHANGED <<storeVars, proc, mapVars>>

HandleAbort(l, t) ==
  /\ log[l].op = "abort"
  /\ Forget(t)
  /\ UNCHANGED <<storeVars, proc, todo>>

(* Mutant: a change is written when it is read.                            *)
HandleChangeAtOnce(l, t) ==
  /\ log[l].op \in Changes
  /\ UNCHANGED beginTimes
  /\ \/ t \in excluded /\ UNCHANGED <<storeVars, pending, excluded, proc, todo>>
     \/ t \notin excluded /\ log[l].op = "cleanup" /\ Exclude(t)
     \/ /\ t \notin excluded /\ log[l].op \in {"data", "nonBase"}
        /\ todo' = <<[db |-> DB, lsn |-> l, txn |-> t, val |-> EventTime(l, t)]>>
        /\ UNCHANGED <<storeVars, pending, excluded, proc>>

HandleChange(l, t) ==
  /\ log[l].op \in Changes
  /\ UNCHANGED beginTimes
  /\ \/ t \in excluded /\ UNCHANGED <<storeVars, pending, excluded, proc, todo>>
     \/ t \notin excluded /\ log[l].op = "cleanup" /\ Exclude(t)
     \/ /\ t \notin excluded /\ log[l].op = "nonBase"
        /\ DeleteLSN(DB, l)
        /\ proc' = IF proc = "read" /\ result' = "err" THEN "flush" ELSE proc
        /\ UNCHANGED <<pending, excluded, todo>>
     \/ /\ t \notin excluded /\ log[l].op = "data"
        /\ pending' = [pending EXCEPT ![t] = Append(@, l)]
        /\ UNCHANGED <<storeVars, excluded, proc, todo>>

(* A transaction that a failed poll saw both go on and end will be read    *)
(* again from the checkpoint, without what was known of it before that.    *)
Replayed(n) == {t \in InFlight(ldfCheckpoint) : Logged(t, Ends, n)}

HandleRecord ==
  LET l == NextLsn
      t == log[l].txn
      tooOld == IF log[l].op = "commit" /\ since # 0 /\ EventTime(l, t) < since
                THEN {t} ELSE {}
      replayed == IF proc = "read" /\ proc' = "flush" THEN Replayed(l) ELSE {}
  IN
  /\ Reading
  /\ l <= Len(log)
  /\ \/ HandleBegin(l, t)
     \/ HandleCommit(l, t)
     \/ HandleAbort(l, t)
     \/ HandleChange(l, t)
  /\ IF proc' = "flush" THEN PassFails /\ LeavePass
     ELSE cursor' = l /\ maxLSN' = l /\ UNCHANGED <<readTo, errors>>
  /\ Blame((Skipped \X {"gap"}) \cup (tooOld \X {"since"})
              \cup (replayed \X {"replay"}) \cup StoreBlame)
  /\ UNCHANGED <<sourceVars, schemaLoaded, since, ldfCheckpoint>>

(* writeToStore: an error is counted, and the statement is not kept.       *)
WriteNext ==
  /\ todo # <<>>
  /\ Write(Head(todo))
  /\ todo' = Tail(todo)
  /\ IF Len(todo) = 1 THEN Forget(Head(todo).txn) ELSE UNCHANGED mapVars
  /\ Blame(StoreBlame)
  /\ UNCHANGED <<sourceVars, proc, schemaLoaded, since, ldfCheckpoint, errors, passVars>>

-----------------------------------------------------------------------------
(* Mutant: the checkpoint is taken from the map of unsaved ones.           *)
StartScanUnsaved ==
  /\ proc = "down"
  /\ proc' = "scan"
  /\ schemaLoaded' = TRUE
  /\ ldfCheckpoint' = pendingCheckpoints[DB]
  /\ since' \in Sinces
  /\ StartPass(0)
  /\ FreshMaps
  /\ UNCHANGED <<storeVars, sourceVars, todo, errors, reasons>>

(* scanDatabase, in runAutoScan, after runServe loaded the checkpoints.    *)
StartScan ==
  /\ proc = "down"
  /\ proc' = "scan"
  /\ schemaLoaded' = TRUE
  /\ ldfCheckpoint' = checkpoints[DB]
  /\ since' \in Sinces
  /\ StartPass(IF since' = 0 THEN ldfCheckpoint' ELSE 0)
  /\ FreshMaps
  /\ Blame(InFlight(cursor') \X {"handoff"})
  /\ UNCHANGED <<storeVars, sourceVars, todo, errors>>

(* No connection, or schema.Extract fails.                                 *)
ScanOpenFails ==
  /\ proc = "down" /\ PassFails
  /\ proc' = "scanned"
  /\ schemaLoaded' = FALSE
  /\ ldfCheckpoint' = checkpoints[DB]
  /\ FreshMaps
  /\ Blame(InFlight(ldfCheckpoint') \X {"handoff"})
  /\ UNCHANGED <<storeVars, sourceVars, since, todo, passVars>>

(* The maps of the scan were its own: the poller begins with empty ones.   *)
EndScan ==
  /\ PassOver /\ proc = "scan"
  /\ proc' = "scanned"
  /\ since' = 0
  /\ IF maxLSN # 0 THEN ldfCheckpoint' = maxLSN /\ SaveCheckpoint(DB, maxLSN)
                   ELSE UNCHANGED <<storeVars, ldfCheckpoint>>
  /\ FreshMaps
  /\ Blame((InFlight(ldfCheckpoint') \X {"handoff"}) \cup (Skipped \X {"gap"}))
  /\ LeavePass
  /\ UNCHANGED <<sourceVars, schemaLoaded, todo, errors>>

ScanReadFails ==
  /\ Reading /\ proc = "scan" /\ PassFails
  /\ proc' = "scanned"
  /\ since' = 0
  /\ FreshMaps
  /\ Blame(InFlight(ldfCheckpoint) \X {"handoff"})
  /\ LeavePass
  /\ UNCHANGED <<storeVars, sourceVars, schemaLoaded, ldfCheckpoint, todo>>

AutoScanFlush ==
  /\ proc = "scanned"
  /\ Flush /\ Blame(StoreBlame)
  /\ proc' = "idle"
  /\ UNCHANGED <<sourceVars, schemaLoaded, since, ldfCheckpoint, todo, errors, mapVars, passVars>>

-----------------------------------------------------------------------------
(* Mutant: the maps are made anew for every poll.                          *)
StartPollFresh ==
  /\ proc = "idle"
  /\ proc' = IF schemaLoaded THEN "read" ELSE "flush"
  /\ FreshMaps
  /\ IF schemaLoaded THEN StartPass(ldfCheckpoint) ELSE UNCHANGED passVars
  /\ UNCHANGED <<storeVars, sourceVars, schemaLoaded, since, ldfCheckpoint, todo, errors, reasons>>

(* pollLDF, then the Flush of startLDFPoller.                              *)
StartPoll ==
  /\ proc = "idle"
  /\ proc' = IF schemaLoaded THEN "read" ELSE "flush"
  /\ \E stale \in SUBSET {t \in LongRunning : beginTimes[t] # 0} :
       /\ pending' = [t \in Txns |-> IF t \in stale THEN <<>> ELSE pending[t]]
       /\ beginTimes' = [t \in Txns |-> IF t \in stale THEN 0 ELSE beginTimes[t]]
       /\ excluded' = excluded \ stale
       /\ Blame(stale \X {"stale"})
  /\ IF schemaLoaded THEN StartPass(ldfCheckpoint) ELSE UNCHANGED passVars
  /\ UNCHANGED <<storeVars, sourceVars, schemaLoaded, since, ldfCheckpoint, todo, errors>>

(* Mutants: the checkpoint is the end of the log, read or not; a poll that *)
(* read nothing saves its empty maxLSN.                                    *)
EndPollAtEndOfLog ==
  /\ PassOver /\ proc = "read"
  /\ proc' = "flush"
  /\ ldfCheckpoint' = Len(log) /\ SaveCheckpoint(DB, Len(log))
  /\ Blame(Skipped \X {"gap"})
  /\ LeavePass
  /\ UNCHANGED <<sourceVars, schemaLoaded, since, todo, errors, mapVars>>

EndPollUnguarded ==
  /\ PassOver /\ proc = "read"
  /\ proc' = "flush"
  /\ ldfCheckpoint' = maxLSN /\ SaveCheckpoint(DB, maxLSN)
  /\ Blame(Skipped \X {"gap"})
  /\ LeavePass
  /\ UNCHANGED <<sourceVars, schemaLoaded, since, todo, errors, mapVars>>

EndPoll ==
  /\ PassOver /\ proc = "read"
  /\ proc' = "flush"
  /\ IF maxLSN # 0 /\ maxLSN # ldfCheckpoint
     THEN ldfCheckpoint' = maxLSN /\ SaveCheckpoint(DB, maxLSN)
     ELSE UNCHANGED <<storeVars, ldfCheckpoint>>
  /\ Blame(Skipped \X {"gap"})
  /\ LeavePass
  /\ UNCHANGED <<sourceVars, schemaLoaded, since, todo, errors, mapVars>>

(* The read fails somewhere: the maps stay, the checkpoint does not move.  *)
PollReadFails ==
  /\ Reading /\ proc = "read" /\ PassFails
  /\ proc' = "flush"
  /\ Blame(Replayed(cursor) \X {"replay"})
  /\ LeavePass
  /\ UNCHANGED <<storeVars, sourceVars, schemaLoaded, since, ldfCheckpoint, todo, mapVars>>

(* Mutant: a poll does not flush.                                          *)
PollWithoutFlush ==
  /\ proc = "flush"
  /\ proc' = "idle"
  /\ UNCHANGED <<storeVars, sourceVars, schemaLoaded, since, ldfCheckpoint, todo, errors,
                  mapVars, passVars, reasons>>

PollFlush ==
  /\ proc = "flush"
  /\ Flush /\ Blame(StoreBlame)
  /\ proc' = "idle"
  /\ UNCHANGED <<sourceVars, schemaLoaded, since, ldfCheckpoint, todo, errors, mapVars, passVars>>

-----------------------------------------------------------------------------
(* The rest of the process: the pollers of other databases and the TTL     *)
(* worker flush the shared batch, a failing write of theirs discards it.   *)
OthersFlush ==
  /\ Flush
  /\ Blame(StoreBlame)
  /\ UNCHANGED <<sourceVars, procVars>>

OthersFail ==
  /\ BatchStatementFails
  /\ Blame(StoreBlame)
  /\ UNCHANGED <<ttl, restarts, sourceVars, procVars>>

Crash ==
  /\ Restart
  /\ proc' = "down" /\ schemaLoaded' = FALSE /\ since' = 0
  /\ FreshMaps
  /\ ldfCheckpoint' = 0 /\ todo' = <<>>
  /\ LeavePass
  /\ UNCHANGED <<sourceVars, errors, reasons>>

Source ==
  \/ \E t \in Txns, op \in Begins \cup Ends \cup Changes : LogRecord(op, t)
  \/ \E h \in 1..Len(log) : Truncate(h)

Scan == StartScan \/ EndScan \/ AutoScanFlush
Poll == StartPoll \/ EndPoll \/ PollFlush
Pipeline == Scan \/ Poll \/ HandleRecord \/ WriteNext

Next ==
  \/ Source
  \/ Pipeline
  \/ ScanOpenFails \/ ScanReadFails \/ PollReadFails
  \/ OthersFlush
  \/ OthersFail
  \/ Crash

Spec == Init /\ [][Next]_vars

(* The goroutine of DB runs on: the ticker fires every five seconds and    *)
(* nothing it waits for is held back.                                      *)
FairSpec == Spec /\ WF_vars(Pipeline)

-----------------------------------------------------------------------------
(* Properties.                                                             *)

User(t) == Logged(t, {"begin"}, Len(log)) /\ ~Logged(t, {"cleanup"}, Len(log))
DataLsns(t) == {l \in 1..Len(log) : log[l] = [op |-> "data", txn |-> t]}
CommittedBy(t, n) == Logged(t, {"commit"}, n)

RowsOf(t, rows) == {r \in rows : r.db = DB /\ r.txn = t}
StoredIn(rows, t) == \A l \in DataLsns(t) : \E r \in RowsOf(t, rows) : r.lsn = l

(* Whatever fails, restarts or is read twice: a row is in the store only   *)
(* for a base-table change of a transaction that has committed.            *)
OnlyCommittedChanges ==
  \A t \in Txns : RowsOf(t, View) # {} =>
    /\ CommittedBy(t, Len(log))
    /\ \A r \in RowsOf(t, View) : r.lsn \in DataLsns(t)

(* Unless its bookkeeping was lost, the transaction of a stored row is a   *)
(* user's, not one that handleScanRecord excludes, and the row carries the *)
(* BEGIN time of its transaction.                                          *)
RowsAreSound ==
  \A t \in Txns : reasons[t] \subseteq {"store", "since"} =>
    \A r \in RowsOf(t, View) :
      User(t) /\ log[r.val] = [op |-> "begin", txn |-> t]

(* What a restart resumes after is stored: when the persisted checkpoint   *)
(* is past the COMMIT of a user transaction, all its changes are durable,  *)
(* except for the transactions with a reason not in tolerated.             *)
Covered(tolerated) ==
  \A t \in Txns :
    User(t) /\ CommittedBy(t, checkpoints[DB]) /\ reasons[t] \subseteq tolerated
      => StoredIn(events, t)

CheckpointCoversStored == Covered({})

(* The same one level up: what ldfCheckpoint passed is at least buffered.  *)
PollerCoversBuffered ==
  \A t \in Txns :
    User(t) /\ CommittedBy(t, ldfCheckpoint) /\ reasons[t] = {} => StoredIn(View, t)

(* Without --since, the persisted checkpoint never moves back: no poll or  *)
(* restart goes back to records of transactions it has accounted for.      *)
(* (A scan with --since starts over, and may end before the checkpoint     *)
(* when the rest of the log is truncated under it.)                        *)
CheckpointNeverMovesBack == [][checkpoints'[DB] >= checkpoints[DB]]_vars

(* Every committed user transaction is stored in the end, or there is a    *)
(* reason; or the initial scan could not load the schema, after which no   *)
(* poll reads anything.                                                    *)
CommittedIsStored ==
  \A t \in Txns :
    User(t) /\ CommittedBy(t, Len(log))
      ~> StoredIn(events, t) \/ reasons[t] # {} \/ ~schemaLoaded

-----------------------------------------------------------------------------
(* What comments of the code say, and the code does not do.                *)

(* scanDatabase: "On restart it resumes from the persisted LSN checkpoint, *)
(* skipping events already stored in the DB": while such a scan runs, the  *)
(* changes before the checkpoint of committed transactions are stored.     *)
ResumeSkipsOnlyStored ==
  proc = "scan" /\ since = 0 =>
    \A t \in Txns : User(t) /\ CommittedBy(t, Len(log)) =>
      \A l \in DataLsns(t) :
        l <= ldfCheckpoint => \E r \in RowsOf(t, View) : r.lsn = l

(* fillGapFromBackups reads the backups "that cover the LSN gap between    *)
(* checkpointLSN and the current active log start": records that left the  *)
(* active log unread are stored as well.                                   *)
GapIsFilled == Covered({"gap"})
=============================================================================
