-------------------------- MODULE MCSchemaRefresh --------------------------
(* Values for TLC.  The first column is a key and never NULL; the bytes of *)
(* a column are its own, and as descriptors they name every case.          *)
EXTENDS SchemaRefresh

MCValues(col) ==
  IF col.id = 1 THEN {<<28>>}
  ELSE IF Fixed(col) THEN {Null, <<32 * col.id + 10>>}
  ELSE {Null, Lob, <<32 * col.id + 2>>, [i \in 1..9 |-> 32 * col.id + 4]}

(* What the theorems suppose, these values have.                           *)
ASSUME ValuesAreSo == StringsReadable
=============================================================================
