---------------------------- MODULE MCRowImages ----------------------------
(* A table of four columns with rows that differ in one or several places; *)
(* one of two columns, of which the key is the first.                      *)
EXTENDS RowImages

Col(id, type) == [id |-> id, type |-> type, phantom |-> FALSE]
MCCols == <<Col(1, "tinyint"), Col(2, "tinyint"), Col(3, "varchar"), Col(4, "varchar")>>

MCRows ==
  {<<<<1>>, <<3>>, <<5>>, <<8>>>>, <<<<1>>, <<4>>, <<5>>, <<8>>>>, <<<<2>>, Null, <<5, 6, 7>>, Null>>}

Table(format, keyed, form, trailing, reader) ==
  [format |-> format, keyed |-> keyed, forms |-> {form, "columns"}, trailing |-> trailing,
   reader |-> reader]
MCTables ==
  {Table("NONE", TRUE, "row", <<>>, FALSE), Table("ROW", TRUE, "row", <<9>>, TRUE),
   Table("NONE", TRUE, "image", <<9>>, FALSE), Table("ROW", FALSE, "row", <<>>, FALSE)}

MCCompressed == {Table("ROW", TRUE, "row", <<>>, FALSE)}

MCSymmetry == Permutations(Slots)

MCTwoCols == <<Col(1, "tinyint"), Col(2, "tinyint")>>
MCTwoColRows == {<<<<i>>, <<j>>>> : i \in 1..2, j \in 1..2}

(* What the theorems suppose, these rows have.                             *)
ASSUME RowsAreSo == RowsInFull /\ WholeImagesArePlain /\ FragmentsShowBoth
=============================================================================
