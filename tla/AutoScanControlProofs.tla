----------------------- MODULE AutoScanControlProofs -----------------------
(***************************************************************************)
(* About AutoScanControl, for any number of databases, Stops and           *)
(* interactive scans, overlapping Stops included: no checkpoint passes a   *)
(* record that was not handled, no interactive scan loses what it has      *)
(* read, and the variables have their types.  Without overlapping Stops:   *)
(* whatever runs under a context can be stopped.                           *)
(*                                                                         *)
(* The first needs the same of every pass under way, the second that       *)
(* scanMu is held by exactly the one interactive scan that runs, the last  *)
(* that only the step between two assignments of a Stop parts bgCtx from   *)
(* bgCancel.                                                               *)
(***************************************************************************)
EXTENDS AutoScanControl, FiniteSetTheorems, TLAPS

Kept == stored \cup wiped

(* The rows up to where a pass has come are kept; maxLSN is that LSN.      *)
PassOK(p, d) == p.max \in {0, p.at} /\ RowsUpTo(d, p.at) \subseteq Kept

PassRec == [ctx : Nat, at : Nat, max : Nat]

PassTypes ==
  /\ ldfCheckpoint \in [Dbs -> Nat]
  /\ left \in Seq(Dbs)
  /\ scan \in PassRec
  /\ poller \in [Dbs -> {"none", "wait", "poll", "ended"}]
  /\ poll \in [Dbs -> PassRec]
  /\ bgCtx \in Nat /\ contexts \in Nat /\ newCtx \in [Stops -> Nat]

PassesOK ==
  /\ auto \in {"launch", "scan"} => left # <<>>
  /\ auto = "scan" => PassOK(scan, Head(left))
  /\ \A d \in Dbs : poller[d] = "poll" => PassOK(poll[d], d)

SkipInv == PassTypes /\ PassesOK /\ NothingSkipped

-----------------------------------------------------------------------------
(* Steps that move no checkpoint and no pass, and lose no row.             *)
LEMMA QuietStep ==
  ASSUME SkipInv, Kept \subseteq Kept', PassTypes',
         UNCHANGED <<ldfCheckpoint, scan, poll, poller>>,
         (auto' = auto /\ left' = left) \/ auto' \notin {"launch", "scan"}
  PROVE  SkipInv'
BY DEF SkipInv, PassesOK, PassOK, NothingSkipped, Kept

LEMMA MoreRows ==
  ASSUME NEW d, NEW l \in Nat, RowsUpTo(d, l) \subseteq Kept, stored' = stored \cup {<<d, l + 1>>},
         UNCHANGED wiped
  PROVE  RowsUpTo(d, l + 1) \subseteq Kept' /\ Kept \subseteq Kept'
BY DEF RowsUpTo, Kept

(* What the operators on passes return.                                    *)
LEMMA PassRecords ==
  /\ NoPass \in PassRec
  /\ \A p \in PassRec : /\ ReadNext(p) \in PassRec
                        /\ ReadNext(p).at = p.at + 1 /\ ReadNext(p).max = p.at + 1
                        /\ IdlePass(p) \in PassRec
                        /\ p.at \in Nat /\ p.max \in Nat
<1>1. NoPass \in PassRec
  BY DEF NoPass, PassRec
<1>2. ASSUME NEW p \in PassRec
      PROVE  /\ ReadNext(p) \in PassRec
             /\ ReadNext(p).at = p.at + 1 /\ ReadNext(p).max = p.at + 1
             /\ IdlePass(p) \in PassRec
             /\ p.at \in Nat /\ p.max \in Nat
  <2>1. p.at \in Nat /\ p.max \in Nat /\ p.at + 1 \in Nat
    BY DEF PassRec
  <2>2. IdlePass(p) \in PassRec
    BY DEF PassRec, IdlePass
  <2>3. ReadNext(p) \in PassRec /\ ReadNext(p).at = p.at + 1 /\ ReadNext(p).max = p.at + 1
    BY <2>1 DEF PassRec, ReadNext
  <2> QED BY <2>1, <2>2, <2>3
<1> QED BY <1>1, <1>2

LEMMA SkipInit == Init => SkipInv
<1> SUFFICES ASSUME Init PROVE SkipInv
  OBVIOUS
<1>1. ldfCheckpoint \in [Dbs -> Nat] /\ logEnd = ldfCheckpoint /\ stored = Logged
  BY ControlAssumption DEF Init
<1>2. PassTypes
  BY <1>1, ControlAssumption, PassRecords DEF Init, PassTypes
<1>3. NothingSkipped
  BY <1>1 DEF NothingSkipped, Logged
<1> QED BY <1>2, <1>3 DEF Init, SkipInv, PassesOK

LEMMA AutoScanSkip ==
  ASSUME SkipInv, AutoScan \/ ScanFails
  PROVE  SkipInv'
<1> DEFINE d == Head(left)
<1>1. CASE Connect \/ AutoFlush
  <2>1. PassTypes'
    BY <1>1, ControlAssumption DEF SkipInv, PassTypes, Connect, AutoFlush, sharedVars, ctxVars, pollVars, stopVars
  <2> QED BY <1>1, <2>1, QuietStep DEF Connect, AutoFlush, sharedVars, pollVars, Kept
<1>2. CASE CheckContext
  <2>1. UNCHANGED <<sharedVars, ctxVars, left, scan, pollVars, stopVars>> /\ left # <<>>
        /\ auto' # "scan"
    BY <1>2 DEF CheckContext
  <2> QED BY <2>1 DEF SkipInv, PassTypes, PassesOK, PassOK, NothingSkipped, Kept, sharedVars,
                      ctxVars, pollVars, stopVars
<1>3. CASE LaunchScan
  <2>1. left # <<>> /\ d \in Dbs
    BY <1>3 DEF SkipInv, PassTypes, PassesOK, LaunchScan
  <2>2. scan' = StartPass(d) /\ UNCHANGED <<ldfCheckpoint, stored, wiped, ctxVars, left, pollVars, stopVars>>
    BY <1>3 DEF LaunchScan
  <2>3. scan' \in PassRec /\ scan'.max = 0 /\ scan'.at = ldfCheckpoint[d]
    BY <2>1, <2>2 DEF SkipInv, PassTypes, StartPass, PassRec
  <2>4. PassTypes'
    BY <2>2, <2>3 DEF SkipInv, PassTypes, ctxVars, pollVars, stopVars
  <2>5. RowsUpTo(d, scan'.at) \subseteq Kept'
    BY <2>1, <2>2, <2>3 DEF SkipInv, NothingSkipped, Kept
  <2>6. PassesOK' /\ NothingSkipped'
    BY <2>1, <2>2, <2>3, <2>5 DEF SkipInv, PassesOK, PassOK, NothingSkipped, Kept, pollVars
  <2> QED BY <2>4, <2>6 DEF SkipInv
<1>4. CASE ScanFails
  <2>1. left # <<>> /\ left' = Tail(left) /\ scan' = NoPass /\ auto' = "next"
        /\ UNCHANGED <<sharedVars, ctxVars, pollVars, stopVars>>
    BY <1>4 DEF SkipInv, PassesOK, ScanFails
  <2>2. PassTypes'
    BY <2>1, PassRecords DEF SkipInv, PassTypes, sharedVars, ctxVars, pollVars, stopVars
  <2> QED BY <2>1, <2>2 DEF SkipInv, PassesOK, PassOK, NothingSkipped, Kept, sharedVars, pollVars
<1>5. CASE ScanRecord
  <2>1. left # <<>> /\ d \in Dbs /\ PassOK(scan, d) /\ scan.at \in Nat
    BY <1>5, PassRecords DEF SkipInv, PassTypes, PassesOK, ScanRecord
  <2>2. /\ scan' = ReadNext(scan) /\ stored' = stored \cup {<<d, scan.at + 1>>}
        /\ UNCHANGED <<ldfCheckpoint, wiped, ctxVars, auto, left, pollVars, stopVars>>
    BY <1>5 DEF ScanRecord
  <2>3. scan' \in PassRec /\ scan'.at = scan.at + 1 /\ scan'.max = scan.at + 1
    BY <2>2, PassRecords DEF SkipInv, PassTypes
  <2>6. PassTypes'
    BY <2>2, <2>3 DEF SkipInv, PassTypes, ctxVars, pollVars, stopVars
  <2>4. RowsUpTo(d, scan.at + 1) \subseteq Kept' /\ Kept \subseteq Kept'
    BY <2>1, <2>2, MoreRows DEF PassOK
  <2>5. PassesOK' /\ NothingSkipped'
    BY <2>1, <2>2, <2>3, <2>4 DEF SkipInv, PassesOK, PassOK, NothingSkipped, Kept, pollVars
  <2> QED BY <2>6, <2>5 DEF SkipInv
<1>6. CASE EndScan
  <2>1. left # <<>> /\ d \in Dbs /\ PassOK(scan, d) /\ scan.max \in Nat
    BY <1>6, PassRecords DEF SkipInv, PassTypes, PassesOK, EndScan
  <2>2. /\ auto' = "next" /\ left' = Tail(left) /\ scan' = NoPass
        /\ ldfCheckpoint' = IF scan.max # 0 THEN [ldfCheckpoint EXCEPT ![d] = scan.max] ELSE ldfCheckpoint
        /\ UNCHANGED <<stored, wiped, ctxVars, pollVars, stopVars>>
    BY <1>6 DEF EndScan
  <2>3. PassTypes'
    BY <2>1, <2>2, PassRecords DEF SkipInv, PassTypes, ctxVars, pollVars, stopVars
  <2>4. NothingSkipped'
    BY <2>1, <2>2 DEF SkipInv, PassTypes, PassOK, NothingSkipped, Kept
  <2> QED BY <2>2, <2>3, <2>4 DEF SkipInv, PassesOK, PassOK, Kept, pollVars
<1>7. CASE SpawnPoller
  <2>1. left # <<>> /\ d \in Dbs /\ left' = Tail(left) /\ auto' \in {"ended", "spawn"}
        /\ poller' = [poller EXCEPT ![d] = "wait"]
        /\ poll' = [poll EXCEPT ![d].ctx = bgCtx]
        /\ UNCHANGED <<sharedVars, ctxVars, scan, stopVars>>
    BY <1>7 DEF SkipInv, PassTypes, SpawnPoller
  <2>4. poll' \in [Dbs -> PassRec]
    BY <2>1 DEF SkipInv, PassTypes, PassRec
  <2>2. PassTypes'
    BY <2>1, <2>4 DEF SkipInv, PassTypes, sharedVars, ctxVars, stopVars
  <2>3. \A c \in Dbs : poller'[c] = "poll" => poller[c] = "poll" /\ poll'[c] = poll[c]
    BY <2>1 DEF SkipInv, PassTypes
  <2> QED BY <2>1, <2>2, <2>3 DEF SkipInv, PassesOK, PassOK, NothingSkipped, Kept, sharedVars
<1> QED BY <1>1, <1>2, <1>3, <1>4, <1>5, <1>6, <1>7 DEF AutoScan

LEMMA PollerSkip ==
  ASSUME SkipInv, NEW d \in Dbs, Poller(d)
  PROVE  SkipInv'
<1> DEFINE p == poll[d]
<1>1. p \in PassRec /\ p.at \in Nat /\ p.max \in Nat
  BY PassRecords DEF SkipInv, PassTypes
<1>2. CASE StartPoll(d)
  <2>1. /\ poll' = [poll EXCEPT ![d].at = ldfCheckpoint[d], ![d].max = 0]
        /\ poller' = [poller EXCEPT ![d] = "poll"]
        /\ UNCHANGED <<sharedVars, ctxVars, autoVars, stopVars>>
    BY <1>2 DEF StartPoll
  <2>2. poll' \in [Dbs -> PassRec] /\ poll'[d].at = ldfCheckpoint[d] /\ poll'[d].max = 0
    BY <2>1 DEF SkipInv, PassTypes, PassRec
  <2>3. PassTypes'
    BY <2>1, <2>2 DEF SkipInv, PassTypes, sharedVars, ctxVars, autoVars, stopVars
  <2>4. \A c \in Dbs \ {d} : poller'[c] = poller[c] /\ poll'[c] = poll[c]
    BY <2>1 DEF SkipInv, PassTypes
  <2>5. RowsUpTo(d, poll'[d].at) \subseteq Kept'
    BY <2>1, <2>2 DEF SkipInv, NothingSkipped, Kept, sharedVars
  <2> QED BY <2>1, <2>2, <2>3, <2>4, <2>5
          DEF SkipInv, PassesOK, PassOK, NothingSkipped, Kept, sharedVars, autoVars
<1>3. CASE PollRecord(d)
  <2>1. /\ poll' = [poll EXCEPT ![d] = ReadNext(p)] /\ poller[d] = "poll"
        /\ stored' = stored \cup {<<d, p.at + 1>>}
        /\ UNCHANGED <<ldfCheckpoint, wiped, ctxVars, autoVars, poller, stopVars>>
    BY <1>3 DEF PollRecord
  <2>2. poll' \in [Dbs -> PassRec] /\ poll'[d].at = p.at + 1 /\ poll'[d].max = p.at + 1
    BY <1>1, <2>1, PassRecords DEF SkipInv, PassTypes
  <2>3. PassTypes'
    BY <2>1, <2>2 DEF SkipInv, PassTypes, ctxVars, autoVars, stopVars
  <2>4. \A c \in Dbs \ {d} : poll'[c] = poll[c]
    BY <2>1 DEF SkipInv, PassTypes
  <2>5. RowsUpTo(d, p.at + 1) \subseteq Kept' /\ Kept \subseteq Kept'
    BY <1>1, <2>1, MoreRows DEF SkipInv, PassesOK, PassOK
  <2> QED BY <2>1, <2>2, <2>3, <2>4, <2>5
          DEF SkipInv, PassesOK, PassOK, NothingSkipped, Kept, autoVars
<1>4. CASE EndPoll(d) \/ PollReadFails(d)
  <2>1. /\ poll' = [poll EXCEPT ![d] = IdlePass(p)] /\ poller[d] = "poll"
        /\ poller' = [poller EXCEPT ![d] = "wait"]
        /\ UNCHANGED <<stored, wiped, ctxVars, autoVars, stopVars>>
        /\ \/ ldfCheckpoint' = ldfCheckpoint
           \/ p.max # 0 /\ ldfCheckpoint' = [ldfCheckpoint EXCEPT ![d] = p.max]
    BY <1>4 DEF EndPoll, PollReadFails, sharedVars
  <2>2. poll' \in [Dbs -> PassRec]
    BY <1>1, <2>1, PassRecords DEF SkipInv, PassTypes
  <2>3. ldfCheckpoint' \in [Dbs -> Nat]
    BY <1>1, <2>1 DEF SkipInv, PassTypes
  <2>4. PassTypes'
    BY <2>1, <2>2, <2>3 DEF SkipInv, PassTypes, ctxVars, autoVars, stopVars
  <2>5. NothingSkipped'
    BY <2>1 DEF SkipInv, PassTypes, PassesOK, PassOK, NothingSkipped, Kept
  <2>6. \A c \in Dbs : poller'[c] = "poll" => poller[c] = "poll" /\ poll'[c] = poll[c]
    BY <2>1 DEF SkipInv, PassTypes
  <2> QED BY <2>1, <2>4, <2>5, <2>6 DEF SkipInv, PassesOK, PassOK, Kept, autoVars
<1>5. CASE PollerEnds(d)
  <2>1. /\ poller' = [poller EXCEPT ![d] = "ended"]
        /\ UNCHANGED <<sharedVars, ctxVars, autoVars, poll, stopVars>>
    BY <1>5 DEF PollerEnds
  <2>2. PassTypes'
    BY <2>1 DEF SkipInv, PassTypes, sharedVars, ctxVars, autoVars, stopVars
  <2>3. \A c \in Dbs : poller'[c] = "poll" => poller[c] = "poll"
    BY <2>1 DEF SkipInv, PassTypes
  <2> QED BY <2>1, <2>2, <2>3 DEF SkipInv, PassesOK, PassOK, NothingSkipped, Kept, sharedVars, autoVars
<1> QED BY <1>2, <1>3, <1>4, <1>5 DEF Poller

LEMMA StopSkip ==
  ASSUME SkipInv, NEW s \in Stops, Stop(s)
  PROVE  SkipInv'
<1>1. UNCHANGED <<sharedVars, autoVars, pollVars>>
  BY DEF Stop, StopCancel, StopSetCtx, StopSetCancel
<1>2. bgCtx' \in Nat /\ contexts' \in Nat /\ newCtx' \in [Stops -> Nat]
  <2>1. CASE StopCancel(s)
    BY <2>1 DEF SkipInv, PassTypes, StopCancel
  <2>2. CASE StopSetCtx(s)
    BY <2>2 DEF SkipInv, PassTypes, StopSetCtx
  <2>3. CASE StopSetCancel(s)
    BY <2>3 DEF SkipInv, PassTypes, StopSetCancel
  <2> QED BY <2>1, <2>2, <2>3 DEF Stop
<1>3. PassTypes'
  BY <1>1, <1>2 DEF SkipInv, PassTypes, sharedVars, autoVars, pollVars
<1> QED BY <1>1, <1>3, QuietStep DEF sharedVars, autoVars, pollVars, Kept

LEMMA RequestSkip ==
  ASSUME SkipInv, NEW r \in Starts, Request(r)
  PROVE  SkipInv'
<1>1. UNCHANGED <<ldfCheckpoint, ctxVars, autoVars, pollVars, stopVars>>
  BY DEF Request, Start, StartRefused, LoadSchema, ResetStore, RequestRecord, RequestEnds, sharedVars
<1>2. Kept \subseteq Kept'
  <2>1. CASE UNCHANGED <<stored, wiped>>
    BY <2>1 DEF Kept
  <2>2. CASE ResetStore(r) \/ RequestRecord(r)
    BY <2>2 DEF ResetStore, RequestRecord, Kept
  <2> QED BY <2>1, <2>2 DEF Request, Start, StartRefused, LoadSchema, RequestEnds, sharedVars
<1>3. PassTypes'
  BY <1>1 DEF SkipInv, PassTypes, ctxVars, autoVars, pollVars, stopVars
<1> QED BY <1>1, <1>2, <1>3, QuietStep DEF autoVars, pollVars

LEMMA SkipNext == SkipInv /\ [Next]_vars => SkipInv'
<1> SUFFICES ASSUME SkipInv, [Next]_vars PROVE SkipInv'
  OBVIOUS
<1>1. CASE UNCHANGED <<sharedVars, ctxVars, autoVars, pollVars, stopVars>>
  BY <1>1 DEF SkipInv, PassTypes, PassesOK, PassOK, NothingSkipped, Kept, sharedVars, ctxVars,
              autoVars, pollVars, stopVars
<1>2. ASSUME NEW d \in Dbs, LogRecord(d) PROVE SkipInv'
  BY <1>1, <1>2 DEF LogRecord
<1>3. CASE TTLWorkerEnds
  BY <1>1, <1>3 DEF TTLWorkerEnds
<1>4. CASE UNCHANGED vars
  BY <1>1, <1>4 DEF vars
<1> QED BY <1>2, <1>3, <1>4, AutoScanSkip, PollerSkip, StopSkip, RequestSkip DEF Next

(* No checkpoint passes an LSN that was not handled, whatever is           *)
(* cancelled, fails, or runs at the same time.                             *)
THEOREM ControlSkipsNothing == Spec => []NothingSkipped
<1>1. SkipInv => NothingSkipped
  BY DEF SkipInv
<1> QED BY SkipInit, SkipNext, <1>1, PTL DEF Spec

-----------------------------------------------------------------------------
(* Interactive scans.                                                      *)

Active(r) == request[r] \in {"opening", "reset", "reading"}

ScanInv ==
  /\ request \in [Starts -> {"ready", "opening", "reset", "reading", "ended"}]
  /\ reqDb \in [Starts -> Dbs \cup {NoDb}] /\ reqAt \in [Starts -> Nat]
  /\ \A r \in Starts : Active(r) => scanMu
  /\ \A r, q \in Starts : Active(r) /\ Active(q) => r = q
  /\ \A r \in Starts : request[r] \in {"ready", "opening", "reset"} => reqAt[r] = 0
  /\ InteractiveScanKeepsItsRows

LEMMA OthersKeepRows ==
  ASSUME ScanInv, UNCHANGED startVars, stored \subseteq stored'
  PROVE  ScanInv'
BY DEF ScanInv, Active, InteractiveScanKeepsItsRows, startVars

LEMMA RequestScan ==
  ASSUME ScanInv, NEW r \in Starts, Request(r)
  PROVE  ScanInv'
<1> USE DEF ScanInv, Active, InteractiveScanKeepsItsRows
<1>1. ASSUME NEW d \in Dbs, Start(r, d) PROVE ScanInv'
  BY <1>1 DEF Start, sharedVars
<1>2. CASE StartRefused(r)
  BY <1>2 DEF StartRefused, sharedVars
<1>3. CASE LoadSchema(r)
  BY <1>3 DEF LoadSchema
<1>4. CASE ResetStore(r)
  BY <1>4 DEF ResetStore, RowsUpTo
<1>5. CASE RequestRecord(r)
  BY <1>5 DEF RequestRecord, RowsUpTo
<1>6. CASE RequestEnds(r)
  BY <1>6 DEF RequestEnds, sharedVars
<1> QED BY <1>1, <1>2, <1>3, <1>4, <1>5, <1>6 DEF Request

(* What an interactive scan has read stays in the store while it reads.    *)
THEOREM InteractiveScanIsSafe == Spec => []InteractiveScanKeepsItsRows
<1>1. Init => ScanInv
  BY DEF Init, ScanInv, Active, InteractiveScanKeepsItsRows
<1>2. ScanInv /\ [Next]_vars => ScanInv'
  <2> SUFFICES ASSUME ScanInv, [Next]_vars PROVE ScanInv'
    OBVIOUS
  <2>1. CASE UNCHANGED startVars /\ stored \subseteq stored'
    BY <2>1, OthersKeepRows
  <2>2. ASSUME NEW d \in Dbs, LogRecord(d) \/ Poller(d) PROVE ScanInv'
    BY <2>1, <2>2 DEF LogRecord, Poller, StartPoll, PollRecord, EndPoll, PollReadFails, PollerEnds, sharedVars
  <2>3. CASE AutoScan \/ ScanFails \/ TTLWorkerEnds
    BY <2>1, <2>3 DEF AutoScan, Connect, CheckContext, LaunchScan, ScanRecord, EndScan, AutoFlush,
                      SpawnPoller, ScanFails, TTLWorkerEnds, sharedVars
  <2>4. ASSUME NEW s \in Stops, Stop(s) PROVE ScanInv'
    BY <2>1, <2>4 DEF Stop, StopCancel, StopSetCtx, StopSetCancel, sharedVars
  <2>5. CASE UNCHANGED vars
    BY <2>1, <2>5 DEF vars, sharedVars
  <2> QED BY <2>2, <2>3, <2>4, <2>5, RequestScan DEF Next
<1>3. ScanInv => InteractiveScanKeepsItsRows
  BY DEF ScanInv
<1> QED BY <1>1, <1>2, <1>3, PTL DEF Spec
-----------------------------------------------------------------------------
(* Contexts.                                                               *)

(* What runs was given the current context, or one that is done.  While a  *)
(* Stop is under way bgCancel still ends the context before it.            *)
ContextInv ==
  /\ \A c \in Contexts : Running(c) => c \in cancelled \cup {bgCtx}
  /\ (\A s \in Stops : ~UnderWay(s)) => bgCtx = bgCancel
  /\ \A s, q \in Stops : UnderWay(s) /\ UnderWay(q) => s = q
  /\ \A s \in Stops : stop[s] = "cancelled" => bgCtx \in cancelled
  /\ \A s \in Stops : stop[s] = "replaced" => bgCtx = newCtx[s]

(* Nothing begins to run but under the current context.                    *)
LEMMA RunsUnderCurrent ==
  ASSUME ContextInv, UNCHANGED <<ctxVars, stopVars>>,
         \A c \in Contexts : Running(c)' => Running(c) \/ c = bgCtx
  PROVE  ContextInv'
BY DEF ContextInv, UnderWay, ctxVars, stopVars

LEMMA GoroutineContext ==
  ASSUME PassTypes, ContextInv,
         \/ AutoScan \/ ScanFails \/ TTLWorkerEnds
         \/ \E d \in Dbs : LogRecord(d) \/ Poller(d)
         \/ \E r \in Starts : Request(r)
  PROVE  ContextInv'
<1>1. UNCHANGED <<ctxVars, stopVars>>
  BY DEF AutoScan, Connect, CheckContext, LaunchScan, ScanRecord, EndScan, AutoFlush, SpawnPoller,
         ScanFails, TTLWorkerEnds, LogRecord, Poller, StartPoll, PollRecord, EndPoll, PollReadFails,
         PollerEnds, Request, Start, StartRefused, LoadSchema, ResetStore, RequestRecord, RequestEnds
<1> SUFFICES ASSUME NEW c \in Contexts, Running(c)' PROVE Running(c) \/ c = bgCtx
  BY <1>1, RunsUnderCurrent
<1>2. ttlWorker' = "running" => ttlWorker = "running"
  BY DEF AutoScan, Connect, CheckContext, LaunchScan, ScanRecord, EndScan, AutoFlush, SpawnPoller,
         ScanFails, TTLWorkerEnds, LogRecord, Poller, StartPoll, PollRecord, EndPoll, PollReadFails,
         PollerEnds, Request, Start, StartRefused, LoadSchema, ResetStore, RequestRecord, RequestEnds
<1>3. auto' = "scan" => (auto = "scan" /\ scan'.ctx = scan.ctx) \/ scan'.ctx = bgCtx
  <2>1. CASE LaunchScan
    BY <2>1 DEF LaunchScan, StartPass
  <2>2. CASE ScanRecord
    BY <2>2 DEF ScanRecord, ReadNext, PassTypes, PassRec
  <2>3. CASE UNCHANGED <<auto, scan>>
    BY <2>3
  <2>4. CASE auto' # "scan"
    BY <2>4
  <2> QED BY <2>1, <2>2, <2>3, <2>4
          DEF AutoScan, Connect, CheckContext, EndScan, AutoFlush, SpawnPoller,
              ScanFails, TTLWorkerEnds, LogRecord, Poller, StartPoll, PollRecord, EndPoll, PollReadFails,
              PollerEnds, Request, Start, StartRefused, LoadSchema, ResetStore, RequestRecord, RequestEnds,
              autoVars
<1>4. \A d \in Dbs : poller'[d] \in {"wait", "poll"} =>
        (poller[d] \in {"wait", "poll"} /\ poll'[d].ctx = poll[d].ctx) \/ poll'[d].ctx = bgCtx
  <2>1. CASE UNCHANGED pollVars
    BY <2>1 DEF pollVars
  <2>2. CASE SpawnPoller
    BY <2>2 DEF SpawnPoller, PassTypes, PassRec
  <2>3. ASSUME NEW d \in Dbs, Poller(d)
        PROVE  \A e \in Dbs : poller'[e] \in {"wait", "poll"} =>
                 poller[e] \in {"wait", "poll"} /\ poll'[e].ctx = poll[e].ctx
    <3>1. \A e \in Dbs \ {d} : poller'[e] = poller[e] /\ poll'[e] = poll[e]
      BY <2>3 DEF Poller, StartPoll, PollRecord, EndPoll, PollReadFails, PollerEnds, PassTypes
    <3>2. poll'[d].ctx = poll[d].ctx
      <4>1. poll \in [Dbs -> PassRec] /\ poll[d] \in PassRec
        BY <2>3 DEF PassTypes
      <4>2. CASE StartPoll(d)
        BY <4>1, <4>2 DEF StartPoll, PassRec
      <4>3. CASE PollRecord(d)
        BY <4>1, <4>3 DEF PollRecord, ReadNext, PassRec
      <4>4. CASE EndPoll(d) \/ PollReadFails(d)
        BY <4>1, <4>4 DEF EndPoll, PollReadFails, IdlePass, PassRec
      <4> QED BY <2>3, <4>2, <4>3, <4>4 DEF Poller, PollerEnds
    <3>3. poller[d] \in {"wait", "poll"}
      BY <2>3 DEF Poller, StartPoll, PollRecord, EndPoll, PollReadFails, PollerEnds
    <3> QED BY <3>1, <3>2, <3>3
  <2> QED BY <2>1, <2>2, <2>3
          DEF AutoScan, Connect, CheckContext, LaunchScan, ScanRecord, EndScan, AutoFlush,
              ScanFails, TTLWorkerEnds, LogRecord,
              Request, Start, StartRefused, LoadSchema, ResetStore, RequestRecord, RequestEnds
<1> QED BY <1>2, <1>3, <1>4 DEF Running

LEMMA StopContext ==
  ASSUME PassTypes, ContextInv, ~OverlappingStops, stop \in [Stops -> {"ready", "cancelled", "replaced", "done"}],
         NEW s \in Stops, Stop(s)
  PROVE  ContextInv'
<1> USE DEF UnderWay
<1>1. \A c : Running(c)' = Running(c)
  BY DEF Stop, StopCancel, StopSetCtx, StopSetCancel, Running, autoVars, pollVars
<1>2. CASE StopCancel(s)
  <2>1. \A q \in Stops : ~UnderWay(q)
    BY <1>2 DEF StopCancel
  <2>2. bgCtx = bgCancel /\ cancelled' = cancelled \cup {bgCancel} /\ UNCHANGED <<bgCtx, bgCancel>>
        /\ stop' = [stop EXCEPT ![s] = "cancelled"]
    BY <1>2, <2>1 DEF StopCancel, ContextInv
  <2> QED BY <1>1, <2>1, <2>2 DEF ContextInv
<1>3. CASE StopSetCtx(s)
  <2>1. /\ stop[s] = "cancelled" /\ stop' = [stop EXCEPT ![s] = "replaced"]
        /\ bgCtx' = newCtx[s] /\ UNCHANGED <<bgCancel, cancelled, newCtx>>
    BY <1>3 DEF StopSetCtx
  <2>2. \A q \in Stops \ {s} : ~UnderWay(q) /\ stop'[q] = stop[q]
    BY <2>1 DEF ContextInv
  <2> QED BY <1>1, <2>1, <2>2 DEF ContextInv
<1>4. CASE StopSetCancel(s)
  <2>1. /\ stop[s] = "replaced" /\ stop' = [stop EXCEPT ![s] = "done"]
        /\ bgCancel' = newCtx[s] /\ UNCHANGED <<bgCtx, cancelled>>
    BY <1>4 DEF StopSetCancel
  <2>2. \A q \in Stops \ {s} : ~UnderWay(q) /\ stop'[q] = stop[q]
    BY <2>1 DEF ContextInv
  <2> QED BY <1>1, <2>1, <2>2 DEF ContextInv
<1> QED BY <1>2, <1>3, <1>4 DEF Stop

(* If Stops do not overlap, everything that runs under a context ends by   *)
(* itself or at the next Stop: no context is lost while in use.            *)
THEOREM NoContextIsLost ==
  ASSUME ~OverlappingStops
  PROVE  Spec => []ContextControlsAll
<1> DEFINE StopTypes == stop \in [Stops -> {"ready", "cancelled", "replaced", "done"}]
           Inv == SkipInv /\ StopTypes /\ ContextInv
<1>1. Init => Inv
  <2> SUFFICES ASSUME Init PROVE Inv
    OBVIOUS
  <2>1. SkipInv
    BY SkipInit
  <2>2. StopTypes /\ ContextInv
    BY DEF Init, ContextInv, Running, UnderWay
  <2> QED BY <2>1, <2>2
<1>2. Inv /\ [Next]_vars => Inv'
  <2> SUFFICES ASSUME Inv, [Next]_vars PROVE Inv'
    OBVIOUS
  <2>1. SkipInv'
    BY SkipNext
  <2>2. StopTypes'
    BY DEF Next, vars, stopVars, AutoScan, Connect, CheckContext, LaunchScan, ScanRecord, EndScan, AutoFlush,
           SpawnPoller, ScanFails, TTLWorkerEnds, LogRecord, Poller, StartPoll, PollRecord, EndPoll,
           PollReadFails, PollerEnds, Request, Start, StartRefused, LoadSchema, ResetStore, RequestRecord,
           RequestEnds, Stop, StopCancel, StopSetCtx, StopSetCancel
  <2>3. CASE \E s \in Stops : Stop(s)
    BY <2>1, <2>2, <2>3, StopContext DEF SkipInv
  <2>4. CASE UNCHANGED vars
    <3>1. UNCHANGED <<ctxVars, stopVars>> /\ \A c \in Contexts : Running(c)' => Running(c)
      BY <2>4 DEF vars, Running, autoVars, pollVars
    <3> QED BY <2>1, <2>2, <3>1, RunsUnderCurrent
  <2> QED BY <2>1, <2>2, <2>3, <2>4, GoroutineContext DEF Next, SkipInv
<1>3. Inv => ContextControlsAll
  BY DEF ContextInv, ContextControlsAll
<1> QED BY <1>1, <1>2, <1>3, PTL DEF Spec
-----------------------------------------------------------------------------
(* Types.                                                                  *)

Begun == {s \in Stops : stop[s] # "ready"}

(* A pass and a request have a database, and each Stop makes one context.  *)
TypeInv ==
  /\ ControlTypeOK
  /\ auto \in {"launch", "scan"} => left # <<>>
  /\ \A r \in Starts : Active(r) => reqDb[r] \in Dbs
  /\ contexts = Cardinality(Begun) + 1

LEMMA FiniteStops ==
  /\ IsFiniteSet(Stops) /\ Cardinality(Stops) \in Nat /\ 1 \in Contexts
  /\ \A S \in SUBSET Stops : IsFiniteSet(S) /\ Cardinality(S) \in Nat /\ Cardinality(S) <= Cardinality(Stops)
<1>1. IsFiniteSet(Stops) /\ Cardinality(Stops) \in Nat
  BY ControlAssumption, FS_CardinalityType
<1>2. ASSUME NEW S \in SUBSET Stops
      PROVE  IsFiniteSet(S) /\ Cardinality(S) \in Nat /\ Cardinality(S) <= Cardinality(Stops)
  <2>1. IsFiniteSet(S) /\ Cardinality(S) <= Cardinality(Stops)
    BY <1>1, FS_Subset
  <2> QED BY <2>1, FS_CardinalityType
<1> QED BY <1>1, <1>2 DEF Contexts

LEMMA LoggedRow ==
  ASSUME logEnd \in [Dbs -> Nat], NEW d \in Dbs, NEW l \in Nat, l < logEnd[d]
  PROVE  <<d, l + 1>> \in Logged
<1>1. <<d, l + 1>> \in RowsUpTo(d, logEnd[d])
  BY DEF RowsUpTo
<1> QED BY <1>1 DEF Logged

LEMMA PassTyped ==
  /\ NoPass \in Pass
  /\ \A p \in Pass : ReadNext(p) \in Pass /\ IdlePass(p) \in Pass /\ p.at \in Nat /\ p.max \in Nat
<1>1. NoPass \in Pass
  BY FiniteStops DEF NoPass, Pass
<1>2. ASSUME NEW p \in Pass
      PROVE  ReadNext(p) \in Pass /\ IdlePass(p) \in Pass /\ p.at \in Nat /\ p.max \in Nat
  <2>1. p.at \in Nat /\ p.max \in Nat /\ p.at + 1 \in Nat
    BY DEF Pass
  <2>2. ReadNext(p) \in Pass
    BY <2>1 DEF Pass, ReadNext
  <2>3. IdlePass(p) \in Pass
    BY DEF Pass, IdlePass
  <2> QED BY <2>1, <2>2, <2>3
<1> QED BY <1>1, <1>2

LEMMA TypeInit == Init => TypeInv
<1> SUFFICES ASSUME Init PROVE TypeInv
  OBVIOUS
<1>1. ldfCheckpoint \in [Dbs -> Nat] /\ \A d \in Dbs : ldfCheckpoint[d] <= LogBound[d]
  BY ControlAssumption DEF Init
<1>2. Begun = {} /\ Cardinality({}) = 0
  BY FS_EmptySet DEF Init, Begun
<1>3. ControlTypeOK
  BY <1>1, ControlAssumption, FiniteStops, PassTyped DEF Init, ControlTypeOK
<1> QED BY <1>2, <1>3 DEF Init, TypeInv, Active

LEMMA LogType ==
  ASSUME TypeInv, NEW d \in Dbs, LogRecord(d)
  PROVE  TypeInv'
<1>1. logEnd' = [logEnd EXCEPT ![d] = @ + 1] /\ logEnd \in [Dbs -> Nat] /\ logEnd[d] < LogBound[d]
      /\ LogBound[d] \in Nat
  BY ControlAssumption DEF LogRecord, TypeInv, ControlTypeOK
<1>2. logEnd' \in [Dbs -> Nat] /\ \A e \in Dbs : logEnd'[e] \in Nat /\ logEnd[e] <= logEnd'[e]
  BY <1>1
<1>3. \A e \in Dbs : logEnd'[e] <= LogBound[e]
  BY <1>1 DEF TypeInv, ControlTypeOK
<1>4. Logged \subseteq Logged'
  <2>1. \A e \in Dbs : RowsUpTo(e, logEnd[e]) \subseteq RowsUpTo(e, logEnd'[e])
    BY <1>1, <1>2 DEF RowsUpTo
  <2> QED BY <2>1 DEF Logged
<1> QED BY <1>2, <1>3, <1>4 DEF LogRecord, TypeInv, ControlTypeOK, Begun, Active, sharedVars, ctxVars,
                                autoVars, pollVars, stopVars, startVars

LEMMA AutoScanType ==
  ASSUME TypeInv, AutoScan \/ ScanFails
  PROVE  TypeInv'
<1> DEFINE d == Head(left)
<1>1. UNCHANGED <<logEnd, ctxVars, ttlWorker, stopVars, startVars>>
  BY DEF AutoScan, Connect, CheckContext, LaunchScan, ScanRecord, EndScan, AutoFlush, SpawnPoller, ScanFails
<1>2. left \in Seq(Dbs) /\ (left # <<>> => d \in Dbs /\ Tail(left) \in Seq(Dbs)) /\ Targets \in Seq(Dbs)
      /\ scan \in Pass /\ logEnd \in [Dbs -> Nat] /\ bgCtx \in Contexts /\ ldfCheckpoint \in [Dbs -> Nat]
  BY ControlAssumption DEF TypeInv, ControlTypeOK
<1>3. auto' \in {"connect", "next", "launch", "scan", "spawn", "ended"} /\ left' \in Seq(Dbs)
      /\ (auto' \in {"launch", "scan"} => left' # <<>>)
  BY <1>2 DEF TypeInv, AutoScan, Connect, CheckContext, LaunchScan, ScanRecord, EndScan, AutoFlush,
              SpawnPoller, ScanFails
<1>4. scan' \in Pass
  <2>1. CASE LaunchScan
    <3>1. d \in Dbs
      BY <1>2, <2>1 DEF LaunchScan, TypeInv
    <3> QED BY <1>2, <2>1, <3>1 DEF LaunchScan, StartPass, Pass
  <2> QED BY <1>2, <2>1, PassTyped DEF AutoScan, Connect, CheckContext, ScanRecord, EndScan, AutoFlush,
                                       SpawnPoller, ScanFails
<1>5. poller' \in [Dbs -> {"none", "wait", "poll", "ended"}] /\ poll' \in [Dbs -> Pass]
  <2>1. CASE SpawnPoller
    BY <1>2, <2>1 DEF SpawnPoller, TypeInv, ControlTypeOK, Pass
  <2>2. CASE UNCHANGED pollVars
    BY <2>2 DEF TypeInv, ControlTypeOK, pollVars
  <2> QED BY <2>1, <2>2 DEF AutoScan, Connect, CheckContext, LaunchScan, ScanRecord, EndScan, AutoFlush, ScanFails
<1>6. appSchemas' \subseteq Dbs /\ ldfCheckpoint' \in [Dbs -> Nat]
      /\ stored' \subseteq Logged /\ wiped' \subseteq Logged
  <2>1. CASE LaunchScan
    BY <1>2, <2>1 DEF LaunchScan, TypeInv, ControlTypeOK
  <2>2. CASE ScanRecord
    <3>1. d \in Dbs /\ scan.at \in Nat /\ scan.at < logEnd[d]
      BY <1>2, <2>2, PassTyped DEF ScanRecord, CanRead, TypeInv
    <3>2. <<d, scan.at + 1>> \in Logged
      BY <1>2, <3>1, LoggedRow
    <3> QED BY <2>2, <3>2 DEF ScanRecord, TypeInv, ControlTypeOK
  <2>3. CASE EndScan
    BY <1>2, <2>3, PassTyped DEF EndScan, TypeInv, ControlTypeOK
  <2>4. CASE UNCHANGED sharedVars
    BY <2>4 DEF TypeInv, ControlTypeOK, sharedVars
  <2> QED BY <2>1, <2>2, <2>3, <2>4 DEF AutoScan, Connect, CheckContext, AutoFlush, SpawnPoller, ScanFails
<1> QED BY <1>1, <1>3, <1>4, <1>5, <1>6
        DEF TypeInv, ControlTypeOK, Begun, Active, Logged, ctxVars, stopVars, startVars

LEMMA PollerType ==
  ASSUME TypeInv, NEW d \in Dbs, Poller(d)
  PROVE  TypeInv'
<1>1. UNCHANGED <<logEnd, appSchemas, wiped, ctxVars, autoVars, ttlWorker, stopVars, startVars>>
  BY DEF Poller, StartPoll, PollRecord, EndPoll, PollReadFails, PollerEnds, sharedVars
<1>2. poll \in [Dbs -> Pass] /\ poll[d] \in Pass /\ logEnd \in [Dbs -> Nat] /\ ldfCheckpoint \in [Dbs -> Nat]
      /\ ldfCheckpoint[d] \in Nat
  BY DEF TypeInv, ControlTypeOK
<1>3. poller' \in [Dbs -> {"none", "wait", "poll", "ended"}]
  BY DEF Poller, StartPoll, PollRecord, EndPoll, PollReadFails, PollerEnds, TypeInv, ControlTypeOK
<1>4. poll' \in [Dbs -> Pass]
  <2>1. CASE StartPoll(d)
    BY <1>2, <2>1 DEF StartPoll, Pass
  <2> QED BY <1>2, <2>1, PassTyped DEF Poller, PollRecord, EndPoll, PollReadFails, PollerEnds
<1>5. ldfCheckpoint' \in [Dbs -> Nat] /\ stored' \subseteq Logged
  <2>1. CASE PollRecord(d)
    <3>1. poll[d].at \in Nat /\ poll[d].at < logEnd[d]
      BY <1>2, <2>1, PassTyped DEF PollRecord, CanRead
    <3>2. <<d, poll[d].at + 1>> \in Logged
      BY <1>2, <3>1, LoggedRow
    <3> QED BY <1>2, <2>1, <3>2 DEF PollRecord, TypeInv, ControlTypeOK
  <2>2. CASE EndPoll(d)
    BY <1>2, <2>2, PassTyped DEF EndPoll, TypeInv, ControlTypeOK
  <2>3. CASE UNCHANGED sharedVars
    BY <1>2, <2>3 DEF TypeInv, ControlTypeOK, sharedVars
  <2> QED BY <2>1, <2>2, <2>3 DEF Poller, StartPoll, PollReadFails, PollerEnds
<1> QED BY <1>1, <1>3, <1>4, <1>5
        DEF TypeInv, ControlTypeOK, Begun, Active, Logged, ctxVars, autoVars, stopVars, startVars

LEMMA StopType ==
  ASSUME TypeInv, NEW s \in Stops, Stop(s)
  PROVE  TypeInv'
<1>1. UNCHANGED <<logEnd, sharedVars, autoVars, pollVars, ttlWorker, startVars>>
  BY DEF Stop, StopCancel, StopSetCtx, StopSetCancel
<1>2. /\ stop \in [Stops -> {"ready", "cancelled", "replaced", "done"}] /\ newCtx \in [Stops -> Contexts]
      /\ bgCtx \in Contexts /\ bgCancel \in Contexts /\ cancelled \in SUBSET Contexts
  BY DEF TypeInv, ControlTypeOK
<1>3. CASE StopCancel(s)
  <2>1. /\ stop[s] = "ready" /\ stop' = [stop EXCEPT ![s] = "cancelled"]
        /\ cancelled' = cancelled \cup {bgCancel} /\ contexts' = contexts + 1
        /\ newCtx' = [newCtx EXCEPT ![s] = contexts + 1] /\ UNCHANGED <<bgCtx, bgCancel>>
    BY <1>3 DEF StopCancel
  <2>2. Begun' = Begun \cup {s} /\ s \notin Begun /\ Begun \in SUBSET Stops /\ Begun' \in SUBSET Stops
    BY <1>2, <2>1 DEF Begun
  <2>3. Cardinality(Begun') = Cardinality(Begun) + 1
    BY <2>2, FiniteStops, FS_AddElement
  <2>4. contexts' = Cardinality(Begun') + 1 /\ contexts' \in Contexts
    <3>1. Cardinality(Begun) \in Nat /\ Cardinality(Begun') \in Nat /\ Cardinality(Begun') <= Cardinality(Stops)
      BY <2>2, FiniteStops
    <3>2. contexts = Cardinality(Begun) + 1
      BY DEF TypeInv
    <3> QED BY <2>1, <2>3, <3>1, <3>2, FiniteStops DEF Contexts
  <2> QED BY <1>1, <1>2, <2>1, <2>4
          DEF TypeInv, ControlTypeOK, Active, Logged, sharedVars, autoVars, pollVars, startVars
<1>4. CASE StopSetCtx(s) \/ StopSetCancel(s)
  <2>1. /\ UNCHANGED <<contexts, cancelled>> /\ bgCtx' \in Contexts /\ bgCancel' \in Contexts
        /\ newCtx' \in [Stops -> Contexts]
        /\ stop' \in [Stops -> {"ready", "cancelled", "replaced", "done"}]
    BY <1>2, <1>4, FiniteStops DEF StopSetCtx, StopSetCancel
  <2>2. Begun' = Begun
    BY <1>2, <1>4 DEF StopSetCtx, StopSetCancel, Begun
  <2> QED BY <1>1, <2>1, <2>2
          DEF TypeInv, ControlTypeOK, Active, Logged, sharedVars, autoVars, pollVars, startVars
<1> QED BY <1>3, <1>4 DEF Stop

LEMMA RequestType ==
  ASSUME TypeInv, NEW r \in Starts, Request(r)
  PROVE  TypeInv'
<1>1. UNCHANGED <<logEnd, ldfCheckpoint, ctxVars, autoVars, pollVars, ttlWorker, stopVars>>
  BY DEF Request, Start, StartRefused, LoadSchema, ResetStore, RequestRecord, RequestEnds, sharedVars
<1>2. /\ request \in [Starts -> {"ready", "opening", "reset", "reading", "ended"}]
      /\ reqDb \in [Starts -> Dbs \cup {NoDb}] /\ reqAt \in [Starts -> Nat] /\ logEnd \in [Dbs -> Nat]
      /\ Active(r) => reqDb[r] \in Dbs
  BY DEF TypeInv, ControlTypeOK
<1>3. /\ request' \in [Starts -> {"ready", "opening", "reset", "reading", "ended"}]
      /\ reqDb' \in [Starts -> Dbs \cup {NoDb}] /\ reqAt' \in [Starts -> Nat] /\ scanMu' \in BOOLEAN
  <2>1. scanMu' \in BOOLEAN
    BY DEF Request, Start, StartRefused, LoadSchema, ResetStore, RequestRecord, RequestEnds,
           TypeInv, ControlTypeOK
  <2>2. request' \in [Starts -> {"ready", "opening", "reset", "reading", "ended"}]
    BY <1>2 DEF Request, Start, StartRefused, LoadSchema, ResetStore, RequestRecord, RequestEnds
  <2>3. reqDb' \in [Starts -> Dbs \cup {NoDb}]
    BY <1>2 DEF Request, Start, StartRefused, LoadSchema, ResetStore, RequestRecord, RequestEnds
  <2>4. reqAt' \in [Starts -> Nat]
    BY <1>2 DEF Request, Start, StartRefused, LoadSchema, ResetStore, RequestRecord, RequestEnds
  <2> QED BY <2>1, <2>2, <2>3, <2>4
<1>4. \A q \in Starts : Active(q)' => reqDb'[q] \in Dbs
  BY <1>2 DEF Request, Start, StartRefused, LoadSchema, ResetStore, RequestRecord, RequestEnds, TypeInv, Active
<1>5. appSchemas' \subseteq Dbs /\ stored' \subseteq Logged /\ wiped' \subseteq Logged
  <2>1. CASE LoadSchema(r)
    BY <1>2, <2>1 DEF LoadSchema, Active, TypeInv, ControlTypeOK
  <2>2. CASE ResetStore(r)
    BY <2>2 DEF ResetStore, TypeInv, ControlTypeOK
  <2>3. CASE RequestRecord(r)
    <3>1. reqDb[r] \in Dbs /\ reqAt[r] \in Nat /\ reqAt[r] < logEnd[reqDb[r]]
      BY <1>2, <2>3 DEF RequestRecord, Active
    <3>2. <<reqDb[r], reqAt[r] + 1>> \in Logged
      BY <1>2, <3>1, LoggedRow
    <3> QED BY <2>3, <3>2 DEF RequestRecord, TypeInv, ControlTypeOK
  <2>4. CASE UNCHANGED sharedVars
    BY <2>4 DEF TypeInv, ControlTypeOK, sharedVars
  <2> QED BY <2>1, <2>2, <2>3, <2>4 DEF Request, Start, StartRefused, RequestEnds
<1> QED BY <1>1, <1>3, <1>4, <1>5
        DEF TypeInv, ControlTypeOK, Begun, Logged, ctxVars, autoVars, pollVars, stopVars

(* The variables have their types: a Stop makes one context, and only what *)
(* is logged is ever stored.                                               *)
THEOREM ControlTypes == Spec => []ControlTypeOK
<1>1. TypeInv /\ [Next]_vars => TypeInv'
  <2> SUFFICES ASSUME TypeInv, [Next]_vars PROVE TypeInv'
    OBVIOUS
  <2>1. CASE TTLWorkerEnds
    BY <2>1 DEF TTLWorkerEnds, TypeInv, ControlTypeOK, Begun, Active, Logged, sharedVars, ctxVars,
                autoVars, pollVars, stopVars, startVars
  <2>2. CASE UNCHANGED vars
    BY <2>2 DEF vars, TypeInv, ControlTypeOK, Begun, Active, Logged, sharedVars, ctxVars,
                autoVars, pollVars, stopVars, startVars
  <2> QED BY <2>1, <2>2, LogType, AutoScanType, PollerType, StopType, RequestType DEF Next
<1>2. TypeInv => ControlTypeOK
  BY DEF TypeInv
<1> QED BY TypeInit, <1>1, <1>2, PTL DEF Spec
=============================================================================
