-------------------------- MODULE AutoScanControl --------------------------
(***************************************************************************)
(* cmd/logrecovery/serve.go: what starts, stops and runs at the same time. *)
(* runAutoScan scans the target databases one after the other and then     *)
(* starts a poller for each; the TTL worker runs beside them.  They are    *)
(* ended by contexts.  POST /api/stop cancels the current context and      *)
(* replaces it, POST /api/start runs an interactive scan that first        *)
(* empties the store all of them write to.                                 *)
(*                                                                         *)
(* A context is a number; bgCtx and bgCancel are plain variables that no   *)
(* lock protects.  Every log record stands for a committed transaction     *)
(* with one row, and the store is the set of rows a reader would see:      *)
(* LdfPipeline has what happens to a record, DuckDBStore to a row.         *)
(***************************************************************************)
EXTENDS Naturals, Sequences, FiniteSets

CONSTANTS
  Dbs,               (* Databases.                                         *)
  Targets,           (* What resolveTargetDBs returns: some of Dbs.        *)
  Stops,             (* POST /api/stop requests.                           *)
  Starts,            (* POST /api/start requests.                          *)
  OverlappingStops,  (* A Stop may come while another is being handled.    *)
  Restored,          (* Checkpoints an earlier run may have left.          *)
  LogBound           (* Bound: records in the log of each database.        *)

ASSUME ControlAssumption ==
  /\ Targets \in Seq(Dbs)
  /\ IsFiniteSet(Stops)
  /\ OverlappingStops \in BOOLEAN
  /\ LogBound \in [Dbs -> Nat]
  /\ Restored \subseteq [Dbs -> Nat]
  /\ \A c \in Restored : \A d \in Dbs : c[d] <= LogBound[d]

VARIABLES
  logEnd,         (* Source: the last LSN of each database.                *)
  bgCtx,          (* The context new goroutines get.                       *)
  bgCancel,       (* The context bgCancel() cancels.                       *)
  contexts,       (* The number of contexts made so far.                   *)
  cancelled,      (* The contexts that are done.                           *)
  auto,           (* Where runAutoScan is.                                 *)
  left,           (* Databases its current loop still has to visit.        *)
  scan,           (* The pass of scanDatabase.                             *)
  poller,         (* Where the poller of each database is.                 *)
  poll,           (* The pass of each poller.                              *)
  ttlWorker,      (* Where the goroutine of StartTTLWorker is.             *)
  stop, newCtx,   (* Where each Stop is, and the context it has made.      *)
  request,        (* Where each interactive scan is.                       *)
  reqDb, reqAt,   (* Its database and the last LSN it has read.            *)
  scanMu,         (* scanMu is locked.                                     *)
  appSchemas,     (* Databases with an entry in appSchemas.                *)
  ldfCheckpoint,
  stored,         (* The rows of the store, as <<database, LSN>>.          *)
  wiped           (* History: rows that a Reset has deleted.               *)

sharedVars == <<appSchemas, ldfCheckpoint, stored, wiped>>
ctxVars == <<bgCtx, bgCancel, contexts, cancelled>>
autoVars == <<auto, left, scan>>
pollVars == <<poller, poll>>
stopVars == <<stop, newCtx>>
startVars == <<request, reqDb, reqAt, scanMu>>
vars == <<logEnd, sharedVars, ctxVars, autoVars, pollVars, ttlWorker, stopVars, startVars>>

Contexts == 1..(Cardinality(Stops) + 1)

(* A pass over a log: its context, the last LSN read, and maxLSN.  The     *)
(* locals of a pass, and of a request, are reset when it ends.             *)
Pass == [ctx : Contexts, at : Nat, max : Nat]
NoDb == "none"
NoPass == [ctx |-> 1, at |-> 0, max |-> 0]

RowsUpTo(d, l) == {d} \X (1..l)
Logged == UNION {RowsUpTo(d, logEnd[d]) : d \in Dbs}

ControlTypeOK ==
  /\ logEnd \in [Dbs -> Nat] /\ \A d \in Dbs : logEnd[d] <= LogBound[d]
  /\ bgCtx \in Contexts /\ bgCancel \in Contexts
  /\ contexts \in Contexts /\ cancelled \in SUBSET Contexts
  /\ auto \in {"connect", "next", "launch", "scan", "spawn", "ended"}
  /\ left \in Seq(Dbs) /\ scan \in Pass
  /\ poller \in [Dbs -> {"none", "wait", "poll", "ended"}]
  /\ poll \in [Dbs -> Pass]
  /\ ttlWorker \in {"running", "ended"}
  /\ stop \in [Stops -> {"ready", "cancelled", "replaced", "done"}]
  /\ newCtx \in [Stops -> Contexts]
  /\ request \in [Starts -> {"ready", "opening", "reset", "reading", "ended"}]
  /\ reqDb \in [Starts -> Dbs \cup {NoDb}] /\ reqAt \in [Starts -> Nat]
  /\ scanMu \in BOOLEAN
  /\ appSchemas \in SUBSET Dbs
  /\ ldfCheckpoint \in [Dbs -> Nat]
  /\ stored \subseteq Logged /\ wiped \subseteq Logged

(* runServe: what earlier runs stored is there, and their checkpoints are  *)
(* restored.                                                               *)
Init ==
  /\ ldfCheckpoint \in Restored
  /\ logEnd = ldfCheckpoint
  /\ stored = Logged /\ wiped = {}
  /\ appSchemas = {}
  /\ bgCtx = 1 /\ bgCancel = 1 /\ contexts = 1 /\ cancelled = {}
  /\ auto = "connect" /\ left = Targets /\ scan = NoPass
  /\ poller = [d \in Dbs |-> "none"] /\ poll = [d \in Dbs |-> NoPass]
  /\ ttlWorker = "running"
  /\ stop = [s \in Stops |-> "ready"] /\ newCtx = [s \in Stops |-> 1]
  /\ request = [r \in Starts |-> "ready"]
  /\ reqDb = [r \in Starts |-> NoDb] /\ reqAt = [r \in Starts |-> 0]
  /\ scanMu = FALSE

(* A transaction of d commits at the source.                               *)
LogRecord(d) ==
  /\ logEnd[d] < LogBound[d]
  /\ logEnd' = [logEnd EXCEPT ![d] = @ + 1]
  /\ UNCHANGED <<sharedVars, ctxVars, autoVars, pollVars, ttlWorker, stopVars, startVars>>

-----------------------------------------------------------------------------
(* One pass over the log of d.  The handlers look at the context first.    *)

StartPass(d) == [ctx |-> bgCtx, at |-> ldfCheckpoint[d], max |-> 0]
IdlePass(p) == [p EXCEPT !.at = 0, !.max = 0]
ReadNext(p) == [p EXCEPT !.at = @ + 1, !.max = p.at + 1]

(* A record is handled.                                                    *)
CanRead(p, d) == p.ctx \notin cancelled /\ p.at < logEnd[d]
(* Read returns without an error other than Canceled.                      *)
ReadIsOver(p, d) == p.at = logEnd[d] \/ p.ctx \in cancelled

-----------------------------------------------------------------------------
(* runAutoScan.                                                            *)

Connect ==
  /\ auto = "connect" /\ auto' \in {"next", "ended"}
  /\ UNCHANGED <<logEnd, sharedVars, ctxVars, left, scan, pollVars, ttlWorker, stopVars, startVars>>

(* The select at the top of the loop reads bgCtx ...                       *)
CheckContext ==
  /\ auto = "next" /\ left # <<>>
  /\ auto' = IF bgCtx \in cancelled THEN "ended" ELSE "launch"
  /\ UNCHANGED <<logEnd, sharedVars, ctxVars, left, scan, pollVars, ttlWorker, stopVars, startVars>>

(* ... and the call of scanDatabase reads it again.                        *)
LaunchScan ==
  LET d == Head(left) IN
  /\ auto = "launch" /\ auto' = "scan"
  /\ appSchemas' = appSchemas \cup {d}
  /\ scan' = StartPass(d)
  /\ UNCHANGED <<logEnd, ldfCheckpoint, stored, wiped, ctxVars, left, pollVars, ttlWorker, stopVars, startVars>>

(* The source cannot be opened, its schema or its log cannot be read: the  *)
(* error is shown, and the next database is next.                          *)
ScanFails ==
  /\ auto \in {"launch", "scan"} /\ auto' = "next"
  /\ left' = Tail(left) /\ scan' = NoPass
  /\ UNCHANGED <<logEnd, sharedVars, ctxVars, pollVars, ttlWorker, stopVars, startVars>>

ScanRecord ==
  LET d == Head(left) IN
  /\ auto = "scan" /\ CanRead(scan, d)
  /\ scan' = ReadNext(scan)
  /\ stored' = stored \cup {<<d, scan.at + 1>>}
  /\ UNCHANGED <<logEnd, appSchemas, ldfCheckpoint, wiped, ctxVars, auto, left, pollVars, ttlWorker, stopVars, startVars>>

EndScan ==
  LET d == Head(left) IN
  /\ auto = "scan" /\ auto' = "next" /\ ReadIsOver(scan, d)
  /\ ldfCheckpoint' = IF scan.max # 0 THEN [ldfCheckpoint EXCEPT ![d] = scan.max] ELSE ldfCheckpoint
  /\ left' = Tail(left) /\ scan' = NoPass
  /\ UNCHANGED <<logEnd, appSchemas, stored, wiped, ctxVars, pollVars, ttlWorker, stopVars, startVars>>

(* All databases are scanned; the flush loses nothing here.                *)
AutoFlush ==
  /\ auto = "next" /\ left = <<>>
  /\ auto' = "spawn" /\ left' = Targets
  /\ UNCHANGED <<logEnd, sharedVars, ctxVars, scan, pollVars, ttlWorker, stopVars, startVars>>

(* go startLDFPoller(bgCtx, ...): each go statement reads bgCtx.           *)
SpawnPoller ==
  /\ auto = "spawn" /\ left # <<>>
  /\ poller' = [poller EXCEPT ![Head(left)] = "wait"]
  /\ poll' = [poll EXCEPT ![Head(left)].ctx = bgCtx]
  /\ left' = Tail(left)
  /\ auto' = IF Len(left) = 1 THEN "ended" ELSE "spawn"
  /\ UNCHANGED <<logEnd, sharedVars, ctxVars, scan, ttlWorker, stopVars, startVars>>

AutoScan == Connect \/ CheckContext \/ LaunchScan \/ ScanRecord \/ EndScan \/ AutoFlush \/ SpawnPoller

-----------------------------------------------------------------------------
(* startLDFPoller and pollLDF.                                             *)

(* select may take the ticker's branch although the context is done.  A    *)
(* poll that finds no schema or fails before it reads changes nothing.     *)
StartPoll(d) ==
  /\ poller[d] = "wait" /\ d \in appSchemas
  /\ poller' = [poller EXCEPT ![d] = "poll"]
  /\ poll' = [poll EXCEPT ![d].at = ldfCheckpoint[d], ![d].max = 0]
  /\ UNCHANGED <<logEnd, sharedVars, ctxVars, autoVars, ttlWorker, stopVars, startVars>>

(* Mutant of PollRecord: maxLSN moves before the context is looked at.     *)
PollRecordBeforeCheck(d) ==
  /\ poller[d] = "poll" /\ poll[d].at < logEnd[d]
  /\ poll' = [poll EXCEPT ![d] = ReadNext(poll[d])]
  /\ stored' = IF poll[d].ctx \in cancelled THEN stored
               ELSE stored \cup {<<d, poll[d].at + 1>>}
  /\ UNCHANGED <<logEnd, appSchemas, ldfCheckpoint, wiped, ctxVars, autoVars, poller, ttlWorker, stopVars, startVars>>

PollRecord(d) ==
  /\ poller[d] = "poll" /\ CanRead(poll[d], d)
  /\ poll' = [poll EXCEPT ![d] = ReadNext(poll[d])]
  /\ stored' = stored \cup {<<d, poll[d].at + 1>>}
  /\ UNCHANGED <<logEnd, appSchemas, ldfCheckpoint, wiped, ctxVars, autoVars, poller, ttlWorker, stopVars, startVars>>

(* startLSN is ldfCheckpoint[d] still: nobody else writes it by now.       *)
EndPoll(d) ==
  /\ poller[d] = "poll" /\ ReadIsOver(poll[d], d)
  /\ poller' = [poller EXCEPT ![d] = "wait"]
  /\ ldfCheckpoint' = IF poll[d].max \notin {0, ldfCheckpoint[d]}
                      THEN [ldfCheckpoint EXCEPT ![d] = poll[d].max] ELSE ldfCheckpoint
  /\ poll' = [poll EXCEPT ![d] = IdlePass(@)]
  /\ UNCHANGED <<logEnd, appSchemas, stored, wiped, ctxVars, autoVars, ttlWorker, stopVars, startVars>>

PollReadFails(d) ==
  /\ poller[d] = "poll"
  /\ poller' = [poller EXCEPT ![d] = "wait"]
  /\ poll' = [poll EXCEPT ![d] = IdlePass(@)]
  /\ UNCHANGED <<logEnd, sharedVars, ctxVars, autoVars, ttlWorker, stopVars, startVars>>

(* Mutant of PollerEnds: it looks at the global context, not at its own.   *)
PollerEndsByGlobal(d) ==
  /\ poller[d] = "wait" /\ bgCtx \in cancelled
  /\ poller' = [poller EXCEPT ![d] = "ended"]
  /\ UNCHANGED <<logEnd, sharedVars, ctxVars, autoVars, poll, ttlWorker, stopVars, startVars>>

PollerEnds(d) ==
  /\ poller[d] = "wait" /\ poll[d].ctx \in cancelled
  /\ poller' = [poller EXCEPT ![d] = "ended"]
  /\ UNCHANGED <<logEnd, sharedVars, ctxVars, autoVars, poll, ttlWorker, stopVars, startVars>>

Poller(d) == StartPoll(d) \/ PollRecord(d) \/ EndPoll(d) \/ PollReadFails(d) \/ PollerEnds(d)

(* The TTL worker has the first context.                                   *)
TTLWorkerEnds ==
  /\ ttlWorker = "running" /\ 1 \in cancelled
  /\ ttlWorker' = "ended"
  /\ UNCHANGED <<logEnd, sharedVars, ctxVars, autoVars, pollVars, stopVars, startVars>>

-----------------------------------------------------------------------------
(* handleStop.  bgCtx, bgCancel = context.WithCancel(...) is two stores.   *)

UnderWay(s) == stop[s] \in {"cancelled", "replaced"}

(* Mutant of StopCancel: the old context is replaced, not cancelled.       *)
StopCancelsNothing(s) ==
  /\ stop[s] = "ready" /\ (OverlappingStops \/ \A q \in Stops : ~UnderWay(q))
  /\ stop' = [stop EXCEPT ![s] = "cancelled"]
  /\ contexts' = contexts + 1 /\ newCtx' = [newCtx EXCEPT ![s] = contexts + 1]
  /\ UNCHANGED <<logEnd, sharedVars, bgCtx, bgCancel, cancelled, autoVars, pollVars, ttlWorker, startVars>>

StopCancel(s) ==
  /\ stop[s] = "ready" /\ (OverlappingStops \/ \A q \in Stops : ~UnderWay(q))
  /\ stop' = [stop EXCEPT ![s] = "cancelled"]
  /\ cancelled' = cancelled \cup {bgCancel}
  /\ contexts' = contexts + 1 /\ newCtx' = [newCtx EXCEPT ![s] = contexts + 1]
  /\ UNCHANGED <<logEnd, sharedVars, bgCtx, bgCancel, autoVars, pollVars, ttlWorker, startVars>>

StopSetCtx(s) ==
  /\ stop[s] = "cancelled" /\ stop' = [stop EXCEPT ![s] = "replaced"]
  /\ bgCtx' = newCtx[s]
  /\ UNCHANGED <<logEnd, sharedVars, bgCancel, contexts, cancelled, newCtx, autoVars, pollVars, ttlWorker, startVars>>

StopSetCancel(s) ==
  /\ stop[s] = "replaced" /\ stop' = [stop EXCEPT ![s] = "done"]
  /\ bgCancel' = newCtx[s] /\ newCtx' = [newCtx EXCEPT ![s] = 1]
  /\ UNCHANGED <<logEnd, sharedVars, bgCtx, contexts, cancelled, autoVars, pollVars, ttlWorker, startVars>>

Stop(s) == StopCancel(s) \/ StopSetCtx(s) \/ StopSetCancel(s)

-----------------------------------------------------------------------------
(* handleStart and runScan.                                                *)

(* Mutant of Start: no TryLock.                                            *)
StartUnlocked(r, d) ==
  /\ request[r] = "ready" /\ request' = [request EXCEPT ![r] = "opening"]
  /\ scanMu' = TRUE /\ reqDb' = [reqDb EXCEPT ![r] = d]
  /\ UNCHANGED <<logEnd, sharedVars, ctxVars, autoVars, pollVars, ttlWorker, stopVars, reqAt>>

Start(r, d) ==
  /\ request[r] = "ready" /\ ~scanMu
  /\ request' = [request EXCEPT ![r] = "opening"]
  /\ scanMu' = TRUE /\ reqDb' = [reqDb EXCEPT ![r] = d]
  /\ UNCHANGED <<logEnd, sharedVars, ctxVars, autoVars, pollVars, ttlWorker, stopVars, reqAt>>

(* TryLock fails: "scan already running".                                  *)
StartRefused(r) ==
  /\ request[r] = "ready" /\ scanMu
  /\ request' = [request EXCEPT ![r] = "ended"]
  /\ UNCHANGED <<logEnd, sharedVars, ctxVars, autoVars, pollVars, ttlWorker, stopVars, reqDb, reqAt, scanMu>>

LoadSchema(r) ==
  /\ request[r] = "opening" /\ request' = [request EXCEPT ![r] = "reset"]
  /\ appSchemas' = appSchemas \cup {reqDb[r]}
  /\ UNCHANGED <<logEnd, ldfCheckpoint, stored, wiped, ctxVars, autoVars, pollVars, ttlWorker, stopVars, reqDb, reqAt, scanMu>>

ResetStore(r) ==
  /\ request[r] = "reset" /\ request' = [request EXCEPT ![r] = "reading"]
  /\ stored' = {} /\ wiped' = wiped \cup stored
  /\ UNCHANGED <<logEnd, appSchemas, ldfCheckpoint, ctxVars, autoVars, pollVars, ttlWorker, stopVars, reqDb, reqAt, scanMu>>

(* Mutant of RequestRecord: one record too many.                           *)
RequestRecordPastEnd(r) ==
  /\ request[r] = "reading" /\ reqAt[r] <= logEnd[reqDb[r]]
  /\ reqAt' = [reqAt EXCEPT ![r] = @ + 1]
  /\ stored' = stored \cup {<<reqDb[r], reqAt[r] + 1>>}
  /\ UNCHANGED <<logEnd, appSchemas, ldfCheckpoint, wiped, ctxVars, autoVars, pollVars, ttlWorker, stopVars, request, reqDb, scanMu>>

(* No context: a Stop does not reach the interactive scan.                 *)
RequestRecord(r) ==
  /\ request[r] = "reading" /\ reqAt[r] < logEnd[reqDb[r]]
  /\ reqAt' = [reqAt EXCEPT ![r] = @ + 1]
  /\ stored' = stored \cup {<<reqDb[r], reqAt[r] + 1>>}
  /\ UNCHANGED <<logEnd, appSchemas, ldfCheckpoint, wiped, ctxVars, autoVars, pollVars, ttlWorker, stopVars, request, reqDb, scanMu>>

(* The scan is over or has failed on the way; the deferred Unlock.         *)
RequestEnds(r) ==
  /\ request[r] \in {"opening", "reset", "reading"}
  /\ request' = [request EXCEPT ![r] = "ended"]
  /\ scanMu' = FALSE
  /\ reqDb' = [reqDb EXCEPT ![r] = NoDb] /\ reqAt' = [reqAt EXCEPT ![r] = 0]
  /\ UNCHANGED <<logEnd, sharedVars, ctxVars, autoVars, pollVars, ttlWorker, stopVars>>

Request(r) ==
  (\E d \in Dbs : Start(r, d)) \/ StartRefused(r) \/ LoadSchema(r) \/ ResetStore(r) \/ RequestRecord(r) \/ RequestEnds(r)

-----------------------------------------------------------------------------
Next ==
  \/ \E d \in Dbs : LogRecord(d) \/ Poller(d)
  \/ AutoScan \/ ScanFails \/ TTLWorkerEnds
  \/ \E s \in Stops : Stop(s)
  \/ \E r \in Starts : Request(r)

Spec == Init /\ [][Next]_vars

(* The goroutines run on and their queries return.  A poller whose context *)
(* is done and whose ticker has fired as well takes either branch of the   *)
(* select at random, so not for ever the same one.                         *)
FairSpec ==
  /\ Spec
  /\ WF_vars(AutoScan)
  /\ \A d \in Dbs : WF_vars(EndPoll(d)) /\ SF_vars(PollerEnds(d))
  /\ \A s \in Stops : WF_vars(StopSetCtx(s)) /\ WF_vars(StopSetCancel(s))

-----------------------------------------------------------------------------
(* What a context was handed to and has not ended yet.                     *)
Running(c) ==
  \/ auto = "scan" /\ scan.ctx = c
  \/ \E d \in Dbs : poller[d] \in {"wait", "poll"} /\ poll[d].ctx = c
  \/ ttlWorker = "running" /\ c = 1

(* Line 70: between two Stops, everything that runs under a context ends   *)
(* by itself or at the next Stop: no context is lost while in use.         *)
ContextControlsAll ==
  (\A s \in Stops : ~UnderWay(s)) => \A c \in Contexts : Running(c) => c \in cancelled \cup {bgCancel}

(* Every LSN a checkpoint has passed was handled, also when a pass was     *)
(* cancelled or failed half-way: its row is stored, or was until an        *)
(* interactive scan emptied the store.                                     *)
NothingSkipped ==
  \A d \in Dbs : RowsUpTo(d, ldfCheckpoint[d]) \subseteq stored \cup wiped

(* While an interactive scan reads, everything it has read is in the       *)
(* store: no other scan empties it, whatever the pollers do.               *)
InteractiveScanKeepsItsRows ==
  \A r \in Starts : request[r] = "reading" => RowsUpTo(reqDb[r], reqAt[r]) \subseteq stored

(* A poller whose context is cancelled ends, in the middle of a poll too.  *)
CancelledPollersEnd ==
  \A d \in Dbs :
    (poller[d] \in {"wait", "poll"} /\ poll[d].ctx \in cancelled) ~> poller[d] = "ended"

(* "Context controlling all auto-scan / poller goroutines": after a Stop   *)
(* no auto-scan and no poller runs that was not told to end.  Not so: an   *)
(* auto-scan that survives the moment of the Stop goes on with the new     *)
(* context.                                                                *)
StopStops ==
  (\E s \in Stops : stop[s] = "done") => \A c \in Contexts : Running(c) => c \in cancelled
=============================================================================
