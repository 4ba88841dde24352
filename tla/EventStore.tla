----------------------------- MODULE EventStore -----------------------------
(***************************************************************************)
(* What a caller of the event store may rely on, with no batches, no       *)
(* prepared statements and no DuckDB transaction: a set of rows keyed by   *)
(* (db_name, lsn) that is written behind.  contents is what the calls made *)
(* so far add up to, durable is what a restart finds.  A call may settle   *)
(* its effect at once or leave it to a later one, unsettled effects are    *)
(* dropped only by a call that reports an error or by a restart, and a     *)
(* checkpoint moves only in a step after which nothing is unsettled.       *)
(*                                                                         *)
(* DuckDBStore implements this specification (Implementation there).       *)
(***************************************************************************)
EXTENDS Integers

CONSTANTS
  Dbs,        (* Names of the source databases.                            *)
  Txns,       (* SQL Server transaction ids.                               *)
  Vals,       (* What a row says beyond its identity (times, SQL).         *)
  MaxLsn      (* LSNs are 1..MaxLsn; 0 stands for the empty string.        *)

VARIABLES contents, durable, checkpoint, result

vars == <<contents, durable, checkpoint, result>>

Lsns == 1..MaxLsn
Row == [db : Dbs, lsn : Lsns, txn : Txns, val : Vals]

SameEvent(r, s) == r.db = s.db /\ r.lsn = s.lsn

Init ==
  /\ contents = {}
  /\ durable = {}
  /\ checkpoint = [d \in Dbs |-> 0]
  /\ result = "nil"

-----------------------------------------------------------------------------
(* Either nothing more becomes durable, or everything does, and then the   *)
(* checkpoints may move.                                                   *)
Settle ==
  \/ UNCHANGED <<durable, checkpoint>>
  \/ durable' = contents' /\ checkpoint' \in [Dbs -> 0..MaxLsn]

(* A row replaces the one stored for the same LSN.                         *)
Upsert(r) ==
  /\ contents' = {s \in contents : ~SameEvent(r, s)} \cup {r}
  /\ Settle

RemoveLsn(d, l) ==
  /\ contents' = {s \in contents : ~(s.db = d /\ s.lsn = l)}
  /\ Settle

RemoveTransaction(d, t) ==
  /\ contents' = {s \in contents : ~(s.db = d /\ s.txn = t)}
  /\ Settle

(* Rows past their retention leave both sets together.                     *)
Expire ==
  \E old \in SUBSET durable :
    /\ contents' = contents \ old
    /\ durable' = durable \ old
    /\ UNCHANGED checkpoint

Clear == contents' = {} /\ durable' = {} /\ UNCHANGED checkpoint

(* Unsettled effects are dropped, and the call says so.                    *)
Lose == contents' = durable /\ UNCHANGED <<durable, checkpoint>> /\ result' = "err"

Restart == contents' = durable /\ UNCHANGED <<durable, checkpoint>> /\ result' = "restarted"

Next ==
  \/ \E r \in Row : Upsert(r)
  \/ \E d \in Dbs, l \in Lsns : RemoveLsn(d, l)
  \/ \E d \in Dbs, t \in Txns : RemoveTransaction(d, t)
  \/ UNCHANGED contents /\ Settle
  \/ Expire
  \/ Clear
  \/ Lose
  \/ Restart

Spec == Init /\ [][Next]_vars
=============================================================================
