----------------------------- MODULE LogReader -----------------------------
(***************************************************************************)
(* internal/logparser: LDFReader pages through the active log with         *)
(* fn_dblog, TRNReader through log backups with fn_dump_dblog; and the     *)
(* four ways cmd/logrecovery/serve.go puts them together for one pass:     *)
(*   resume   scanDatabase, from a checkpoint or from the active log's     *)
(*            head                                                         *)
(*   history  scanDatabase with --since and --historical: the log backups  *)
(*            of that time, then the active log                            *)
(*   poll     pollLDF, from the checkpoint                                 *)
(*   gap      pollLDF after fn_dblog refused that: the log backups from    *)
(*            the checkpoint on, then the active log                       *)
(* Meanwhile the source logs, backs its log up and truncates it.           *)
(*                                                                         *)
(* An LSN is a number and stands for the time of its record; the records   *)
(* the queries filter out have none.  The active log and a sequence of     *)
(* backups hold consecutive LSNs, so a page is an interval.                *)
(***************************************************************************)
EXTENDS Naturals, Sequences, FiniteSets

CONSTANTS
  ChunkSize,        (* LOGRECOVERY_LOG_CHUNK_SIZE.                         *)
  MaxFilesPerCall,  (* Log backups in one call of fn_dump_dblog, and in    *)
                    (* one gap fill.                                       *)
  MaxHistory,       (* TOP (512) of historicalLogBackupFiles.              *)
  MaxLsn            (* Bound: LSNs.                                        *)

ASSUME ReaderAssumption ==
  /\ ChunkSize \in Nat \ {0}
  /\ MaxFilesPerCall \in Nat \ {0}
  /\ MaxHistory \in Nat \ {0}
  /\ MaxLsn \in Nat

VARIABLES
  logEnd,     (* Source: the last LSN.                                     *)
  head,       (* Source: the active log is what follows this LSN.          *)
  backups,    (* Source: the last LSN of each log backup, oldest first.    *)
  mode,       (* Which pass this is.                                       *)
  stage,      (* What it reads.                                            *)
  from,       (* The LSN it shall begin after: --since, or the checkpoint. *)
  perCall,    (* Backups in one call: 1 for URL devices.                   *)
  file,       (* The first backup of the current call.                     *)
  lastFile,   (* The last backup on the list.                              *)
  paging,     (* A page is being handed to the handler.                    *)
  cursor, at, pageEnd,  (* The page is at+1..pageEnd, it began after ...   *)
  count,      (* The records of this page.                                 *)
  delivered,  (* What the handler got, in this order.                      *)
  turn,       (* Len(delivered) when the active log's turn came.           *)
  cancelled,  (* The context is done.                                      *)
  (* History: the log's end when the pass began, the LSNs the listed       *)
  (* backups hold, those only backups have; and if a backup failed.        *)
  endThen, listed, wanted, trnFailed

sourceVars == <<logEnd, head, backups>>
passVars == <<mode, from, perCall, lastFile, endThen, listed, wanted>>
pageVars == <<paging, cursor, at, pageEnd, count>>
outVars == <<delivered, turn>>
vars == <<sourceVars, passVars, stage, file, pageVars, outVars, cancelled, trnFailed>>

Lower(a, b) == IF a < b THEN a ELSE b
Higher(a, b) == IF a < b THEN b ELSE a

Delivered == {delivered[i] : i \in DOMAIN delivered}

ReaderTypeOK ==
  /\ logEnd \in 0..MaxLsn /\ head \in 0..logEnd
  /\ backups \in Seq(0..logEnd)
  /\ mode \in {"none", "resume", "history", "poll", "gap"}
  /\ stage \in {"idle", "trn", "ldf", "done", "failed"}
  /\ from \in 0..MaxLsn /\ perCall \in {1, MaxFilesPerCall}
  /\ file \in Nat /\ lastFile \in 0..Len(backups)
  /\ paging \in BOOLEAN
  /\ cursor \in 0..logEnd /\ at \in 0..logEnd /\ pageEnd \in at..logEnd
  /\ count \in 0..ChunkSize
  /\ delivered \in Seq(1..logEnd) /\ turn \in 0..Len(delivered)
  /\ cancelled \in BOOLEAN /\ trnFailed \in BOOLEAN
  /\ endThen \in 0..logEnd
  /\ listed \in SUBSET (1..logEnd) /\ wanted \in SUBSET (1..logEnd)

Init ==
  /\ logEnd = 0 /\ head = 0 /\ backups = <<>>
  /\ mode = "none" /\ stage = "idle" /\ from = 0 /\ perCall = 1
  /\ file = 0 /\ lastFile = 0
  /\ paging = FALSE /\ cursor = 0 /\ at = 0 /\ pageEnd = 0 /\ count = 0
  /\ delivered = <<>> /\ turn = 0
  /\ cancelled = FALSE /\ trnFailed = FALSE
  /\ endThen = 0 /\ listed = {} /\ wanted = {}

-----------------------------------------------------------------------------
(* The source.                                                             *)

LogRecord ==
  /\ logEnd < MaxLsn /\ logEnd' = logEnd + 1
  /\ UNCHANGED <<head, backups, passVars, stage, file, pageVars, outVars, cancelled, trnFailed>>

LastBackup == IF backups = <<>> THEN 0 ELSE backups[Len(backups)]

BackUpLog ==
  /\ LastBackup < logEnd /\ backups' = Append(backups, logEnd)
  /\ UNCHANGED <<logEnd, head, passVars, stage, file, pageVars, outVars, cancelled, trnFailed>>

(* What has been backed up may be truncated, at once or later.             *)
Truncate ==
  /\ head < LastBackup /\ head' \in head + 1..LastBackup
  /\ UNCHANGED <<logEnd, backups, passVars, stage, file, pageVars, outVars, cancelled, trnFailed>>

-----------------------------------------------------------------------------
(* Which backups a pass lists: those in i..j.                              *)

FirstOf(i) == IF i = 1 THEN 0 ELSE backups[i - 1]
HeldBy(i, j) == {l \in 1..logEnd : i <= j /\ FirstOf(i) < l /\ l <= backups[j]}

CountBefore(l) == Cardinality({i \in DOMAIN backups : backups[i] < l})

(* previous_backup, or else the first of selected_backups.                 *)
HistoryFirst(since) == Higher(CountBefore(since), 1)
HistoryLast(since) == Lower(CountBefore(since) + MaxHistory, Len(backups))

(* Mutant of GapFirst: a backup is selected by its first_lsn.              *)
GapFirstByStart(lsn, old) ==
  Higher(Cardinality({i \in DOMAIN backups : FirstOf(i) < lsn}), old) + 1

(* Those that reach the checkpoint and are not older than 7 days: older    *)
(* ones are any that came first.                                           *)
GapFirst(lsn, old) == Higher(CountBefore(lsn), old) + 1
GapLast(lsn, old) == Lower(GapFirst(lsn, old) + MaxFilesPerCall - 1, Len(backups))

-----------------------------------------------------------------------------
(* A pass begins.                                                          *)

Begin(m, lsn, i, j) ==
  /\ mode' = m /\ from' = lsn
  /\ perCall' \in (IF m = "history" \/ m = "gap" THEN {1, MaxFilesPerCall} ELSE {1})
  /\ file' = i /\ lastFile' = j
  /\ listed' = HeldBy(i, j)
  /\ paging' = FALSE /\ at' = 0 /\ pageEnd' = 0 /\ count' = 0

Resume ==
  /\ stage = "idle" /\ stage' = "ldf"
  /\ \E m \in {"resume", "poll"}, lsn \in 0..logEnd : Begin(m, lsn, 1, 0) /\ cursor' = lsn
  /\ endThen' = logEnd /\ wanted' = {}
  /\ UNCHANGED <<sourceVars, outVars, cancelled, trnFailed>>

History ==
  /\ stage = "idle" /\ backups # <<>>
  /\ \E since \in 1..logEnd :
       /\ Begin("history", since - 1, HistoryFirst(since), HistoryLast(since))
       /\ wanted' = IF Len(backups) - CountBefore(since) <= MaxHistory
                    THEN {l \in 1..head : l >= since} ELSE {}
  /\ stage' = "trn" /\ cursor' = 0
  /\ endThen' = logEnd
  /\ UNCHANGED <<sourceVars, outVars, cancelled, trnFailed>>

(* fn_dblog refuses the LSN a poll begins after, which it no longer has.   *)
(* TRNReader is given the same LSN.                                        *)
FillGap ==
  /\ stage = "ldf" /\ mode = "poll" /\ 0 < from /\ from < head /\ ~paging /\ delivered = <<>>
  /\ \E old \in 0..Len(backups) :
       LET i == GapFirst(from, old) IN
       /\ Begin("gap", from, i, GapLast(from, old))
       /\ wanted' = IF old <= CountBefore(from) /\ Len(backups) - CountBefore(from) <= MaxFilesPerCall
                    THEN from + 1 .. head ELSE {}
       /\ stage' = IF i <= Len(backups) THEN "trn" ELSE "ldf"
       /\ cursor' = IF i <= Len(backups) THEN from ELSE 0
  /\ UNCHANGED <<sourceVars, outVars, cancelled, trnFailed, endThen>>

-----------------------------------------------------------------------------
(* Pages.                                                                  *)

LastInCall == Lower(file + perCall - 1, lastFile)

(* The records the query can see: those after lo, up to hi.                *)
QueryPage(lo, hi) ==
  /\ ~paging /\ paging' = TRUE
  /\ LET after == Higher(cursor, lo) IN
     /\ at' = after
     /\ pageEnd' = Higher(after, Lower(after + ChunkSize, hi))
     /\ count' = pageEnd' - after
  /\ UNCHANGED <<sourceVars, passVars, stage, file, cursor, outVars, cancelled, trnFailed>>

QueryLdf == stage = "ldf" /\ QueryPage(head, logEnd)
QueryTrn == stage = "trn" /\ QueryPage(FirstOf(file), backups[LastInCall])

(* The active log's turn, from its head: WithStartLSN is not called.       *)
TurnToLdf ==
  /\ stage' = "ldf" /\ cursor' = 0 /\ paging' = FALSE
  /\ at' = 0 /\ pageEnd' = 0 /\ count' = 0
  /\ turn' = Len(delivered)

Finish(how) ==
  /\ stage' = how /\ paging' = FALSE
  /\ UNCHANGED <<cursor, at, pageEnd, count, turn>>

(* Mutant of HandleRecord: no seenLSNs.                                    *)
HandleUnseen ==
  /\ paging /\ at < pageEnd /\ ~cancelled
  /\ at' = at + 1
  /\ delivered' = Append(delivered, at + 1)
  /\ UNCHANGED <<sourceVars, passVars, stage, file, paging, cursor, pageEnd, count, turn, cancelled, trnFailed>>

(* scanDatabase's handler drops an LSN it has seen, pollLDF's does not.    *)
HandleRecord ==
  /\ paging /\ at < pageEnd /\ ~cancelled
  /\ at' = at + 1
  /\ delivered' = IF mode = "history" /\ at + 1 \in Delivered THEN delivered
                  ELSE Append(delivered, at + 1)
  /\ UNCHANGED <<sourceVars, passVars, stage, file, paging, cursor, pageEnd, count, turn, cancelled, trnFailed>>

(* The handler returns Canceled: Read returns it, and both callers go on   *)
(* as after a Read without an error.                                       *)
HandleCancelled ==
  /\ paging /\ at < pageEnd /\ cancelled
  /\ (stage = "trn" /\ TurnToLdf) \/ (stage = "ldf" /\ Finish("done"))
  /\ UNCHANGED <<sourceVars, passVars, file, delivered, cancelled, trnFailed>>

(* A query fails, or pollLDF's handler does.  After backups both callers   *)
(* go on with the active log.                                              *)
ReadFails ==
  /\ stage \in {"trn", "ldf"}
  /\ (stage = "trn" /\ TurnToLdf /\ trnFailed' = TRUE)
     \/ (stage = "ldf" /\ Finish("failed") /\ UNCHANGED trnFailed)
  /\ UNCHANGED <<sourceVars, passVars, file, delivered, cancelled>>

PageIsOver == paging /\ at = pageEnd

(* Mutant of NextPage: the page after it is the one after the next LSN.    *)
NextPageSkipsOne ==
  /\ PageIsOver /\ count = ChunkSize /\ paging' = FALSE /\ cursor' = pageEnd + 1
  /\ UNCHANGED <<sourceVars, passVars, stage, file, at, pageEnd, count, outVars, cancelled, trnFailed>>

(* A full page: there may be more.  pageEnd is past cursor, so that the    *)
(* pagination advances.                                                    *)
NextPage ==
  /\ PageIsOver /\ count = ChunkSize /\ paging' = FALSE /\ cursor' = pageEnd
  /\ UNCHANGED <<sourceVars, passVars, stage, file, at, pageEnd, count, outVars, cancelled, trnFailed>>

(* Mutant of EndRead: an empty page of the active log is asked for again.  *)
EndReadWaits ==
  /\ PageIsOver /\ count < ChunkSize
  /\ \/ /\ stage = "trn" /\ LastInCall < lastFile
        /\ file' = LastInCall + 1 /\ cursor' = (IF mode = "gap" THEN from ELSE 0)
        /\ paging' = FALSE
        /\ UNCHANGED <<stage, at, pageEnd, count, turn>>
     \/ /\ stage = "trn" /\ LastInCall = lastFile /\ TurnToLdf /\ UNCHANGED file
     \/ /\ stage = "ldf" /\ count > 0 /\ Finish("done") /\ UNCHANGED file
     \/ /\ stage = "ldf" /\ count = 0 /\ paging' = FALSE
        /\ UNCHANGED <<stage, file, cursor, at, pageEnd, count, turn>>
  /\ UNCHANGED <<sourceVars, passVars, delivered, cancelled, trnFailed>>

(* A page that is not full is the last.  The next call begins at startLSN  *)
(* again.                                                                  *)
EndRead ==
  /\ PageIsOver /\ count < ChunkSize
  /\ \/ /\ stage = "trn" /\ LastInCall < lastFile
        /\ file' = LastInCall + 1 /\ cursor' = (IF mode = "gap" THEN from ELSE 0)
        /\ paging' = FALSE
        /\ UNCHANGED <<stage, at, pageEnd, count, turn>>
     \/ /\ stage = "trn" /\ LastInCall = lastFile /\ TurnToLdf /\ UNCHANGED file
     \/ /\ stage = "ldf" /\ Finish("done") /\ UNCHANGED file
  /\ UNCHANGED <<sourceVars, passVars, delivered, cancelled, trnFailed>>

Cancel ==
  /\ stage \in {"trn", "ldf"} /\ ~cancelled /\ cancelled' = TRUE
  /\ UNCHANGED <<sourceVars, passVars, stage, file, pageVars, outVars, trnFailed>>

-----------------------------------------------------------------------------
Read == QueryLdf \/ QueryTrn \/ HandleRecord \/ HandleCancelled \/ NextPage \/ EndRead

Next ==
  \/ LogRecord \/ BackUpLog \/ Truncate
  \/ Resume \/ History \/ FillGap
  \/ Read \/ ReadFails \/ Cancel

Spec == Init /\ [][Next]_vars

(* Queries return and the handler does: the pass goes on.                  *)
FairSpec == Spec /\ WF_vars(Read)

-----------------------------------------------------------------------------
(* The handler gets the records of one reader in the order of their LSNs,  *)
(* each of them once, across pages and calls; and no record of the active  *)
(* log that the backups delivered before, except after a gap fill.         *)
OnceInOrder ==
  \A i, j \in DOMAIN delivered :
    i < j => IF i <= turn /\ turn < j
             THEN mode # "gap" => delivered[i] # delivered[j]
             ELSE delivered[i] < delivered[j]

MaxSeen == IF delivered = <<>> THEN 0 ELSE CHOOSE l \in Delivered : \A k \in Delivered : k <= l

(* When a pass ends without an error, whatever it was to read and its      *)
(* maxLSN has passed was handed over: except what was truncated before its *)
(* turn came and is in no backup on the list, or in one that failed.  A    *)
(* cancelled pass may stop anywhere, and then has not come to what the     *)
(* active log still held before the backups of a gap fill.                 *)
NothingMissed ==
  stage = "done" =>
    \A l \in from + 1 .. (IF cancelled THEN MaxSeen ELSE Higher(endThen, MaxSeen)) :
      \/ l \in Delivered
      \/ l <= head /\ (trnFailed \/ l \notin listed)
      \/ cancelled /\ mode = "gap" /\ l \notin listed

(* With --since, and after a stale checkpoint, all that was truncated but  *)
(* logged since is read from the backups, unless they are too many for the *)
(* query or, for a gap, too old.                                           *)
BackupsAreRead ==
  mode \in {"history", "gap"} /\ stage = "done" /\ ~trnFailed /\ ~cancelled => wanted \subseteq Delivered

(* A pass ends, also while the log grows, is backed up and truncated.      *)
PassEnds == stage \in {"trn", "ldf"} ~> stage \in {"done", "failed"}
=============================================================================
