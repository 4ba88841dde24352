------------------------- MODULE MCAutoScanControl -------------------------
(* Instances of AutoScanControl for TLC.                                   *)
EXTENDS AutoScanControl

CONSTANTS d1, d2, r1, r2

MCDbs == {d1, d2}
MCTargets == <<d1, d2>>
MCStarts == {r1, r2}
MCLogBound == [d \in Dbs |-> IF d = d1 THEN 0 ELSE 2]
MCRestored == {[d \in Dbs |-> 0], [d \in Dbs |-> IF d = d1 THEN 0 ELSE 1]}
=============================================================================
