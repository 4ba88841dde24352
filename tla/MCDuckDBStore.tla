--------------------------- MODULE MCDuckDBStore ---------------------------
(* Two databases share the store; one LSN each is enough for a row to be   *)
(* written, rewritten, deleted, expired and lost with its batch.           *)
EXTENDS DuckDBStore

CONSTANTS a, b, t, new, old, tomb

MCDbs == {a, b}
MCTxns == {t}
MCVals == {new, old, tomb}
MCTombstones == {tomb}
MCExpired == {old}
=============================================================================
