--------------------------- MODULE MCLdfPipeline ---------------------------
(* One database and two transactions, of which t1 may run for longer than  *)
(* pruneStalePollState waits.  The histories put every kind of record and  *)
(* both ends of a transaction between the records of another one.          *)
EXTENDS LdfPipeline

CONSTANTS db, t1, t2

MCDbs == {db}
MCTxns == {t1, t2}
MCVals == 1..MaxLsn
MCLongRunning == {t1}
MCNoSince == {0}
MCSinces == {0, 3}

R(o, t) == [op |-> o, txn |-> t]

(* Two user transactions, the first around the second's BEGIN.             *)
MCOverlap ==
  <<R("begin", t1), R("data", t1), R("begin", t2), R("data", t2), R("commit", t1), R("commit", t2)>>
(* A maintenance transaction inside a user's.                              *)
MCInternal ==
  <<R("begin", t1), R("beginInternal", t2), R("data", t1), R("data", t2), R("commit", t2), R("commit", t1)>>
(* A transaction that rolls back around the BEGIN of one that commits.     *)
MCAbort ==
  <<R("begin", t2), R("data", t2), R("begin", t1), R("abort", t2), R("data", t1), R("commit", t1)>>
(* A transaction that turns out to be a cleanup, with an index record.     *)
MCCleanup ==
  <<R("begin", t1), R("nonBase", t1), R("cleanup", t1), R("data", t1), R("commit", t1)>>

MCHistories == {MCAbort, MCCleanup}
MCStoreHistories == {MCOverlap, MCInternal}

(* Everything but result, which no action reads in a later step.           *)
MCView == <<events, gone, added, tx, count, pendingCheckpoints, checkpoints, ttl,
            faults, restarts, sourceVars, procVars, reasons>>
=============================================================================
