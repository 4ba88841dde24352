----------------------------- MODULE RowImages -----------------------------
(***************************************************************************)
(* Statements from log records, with the images that a generator keeps of  *)
(* the rows it has seen: Generator of internal/dml, RowImageCache and      *)
(* SQLPageReader of internal/mssql, for one table on one page.             *)
(*                                                                         *)
(* An update is logged as the bytes that changed.  The generator applies   *)
(* them to the image it has of the row in that slot; or it reads the page  *)
(* as it is now and undoes them; or it makes do with what they show.       *)
(* Images go from poll to poll, also when a poll fails and is repeated.    *)
(***************************************************************************)
EXTENDS RowPatch, FiniteSets

CONSTANTS
  Slots,       (* Of the page.                                             *)
  Cols,        (* The table's columns.                                     *)
  Rows,        (* Rows it may have: a value for each column.               *)
  Tables,      (* What else may be: the table's compression, format, of    *)
               (* "NONE" and "ROW"; keyed, whether the first column is the *)
               (* primary key; forms, how updates are logged, of "row",    *)
               (* "columns" and "image"; trailing, the bytes that follow   *)
               (* the last fragment in a log record; reader, whether       *)
               (* LOGRECOVERY_ENABLE_PAGE_READER is set.                   *)
  MaxItems,    (* maxItems of the cache.                                   *)
  MaxLog,      (* Bound: logged records.                                   *)
  MaxFails     (* Bound: polls that fail, pages that cannot be read, new   *)
               (* generators.                                              *)

ASSUME ImagesAssumption ==
  /\ MaxItems \in Nat \ {0} /\ MaxLog \in Nat /\ MaxFails \in Nat
  /\ IsFiniteSet(Slots)
  /\ Cols # <<>> /\ \A row \in Rows : row = [i \in DOMAIN Cols |-> row[i]] /\ IsRow(Cols, row)
  /\ \A t \in Tables :
       /\ t.format \in {"NONE", "ROW"} /\ t.forms \subseteq {"row", "columns", "image"}
       /\ t.keyed \in BOOLEAN /\ t.reader \in BOOLEAN /\ t.trailing \in Seq(0..255)

VARIABLES
  table,          (* One of Tables.                                        *)
  page,           (* Source: the row in each slot.                         *)
  log,            (* Source: the records.                                  *)
  at, checkpoint, (* The last record handled; where a repeated poll begins.*)
  cache,          (* rowCache: images by slot.                             *)
  pages,          (* The page as pageReader has cached it.                 *)
  fails,          (* Failures so far.                                      *)
  (* History: the last record's statement; and for each slot why the       *)
  (* cached image may be another one than the log says.                    *)
  done, reasons

sourceVars == <<table, page, log>>
vars == <<sourceVars, at, checkpoint, cache, pages, fails, done, reasons>>

None == <<>>
NoPage == <<>>
Keyed == table.keyed

(* As stored; once for all, for TLC's sake.                                *)
Images == [format \in {t.format : t \in Tables} |-> [row \in Rows |-> Encode(format, Cols, row)]]
Image(row) == Images[table.format][row]
Key == IF Keyed THEN {1} ELSE {}

(* A command of SQL; where and set give values to columns.                 *)
Comment == [kind |-> "comment", set |-> <<>>, where |-> <<>>]
InsertSQL(vals) == [kind |-> "insert", set |-> vals, where |-> <<>>]
DeleteSQL(where) == [kind |-> "delete", set |-> <<>>, where |-> where]
UpdateSQL(set, where) == [kind |-> "update", set |-> set, where |-> where]

(* from: an image, a delta, or nothing; note: that WHERE may hit other     *)
(* rows, too.                                                              *)
Statement(sql, undo, from, note) == [sql |-> sql, undo |-> undo, from |-> from, note |-> note]
Undecoded == Statement(Comment, Comment, "nothing", FALSE)
Nothing == [rec |-> <<>>, stmt |-> Undecoded, warm |-> FALSE, why |-> {}]

Init ==
  /\ table \in Tables
  /\ page \in [Slots -> Rows \cup {None}] /\ Cardinality({s \in Slots : page[s] # None}) <= 1
  /\ log = <<>> /\ at = 0 /\ checkpoint = 0 /\ cache = <<>> /\ pages = NoPage /\ fails = 0
  /\ done = Nothing /\ reasons = [s \in Slots |-> {}]

-----------------------------------------------------------------------------
(* The source.  The records of an internal transaction reach no generator. *)

Free(row, s) == Keyed => row[1] \notin {page[t][1] : t \in {u \in Slots \ {s} : page[u] # None}}

Log(op, s, to, form) ==
  /\ Len(log) < MaxLog
  /\ \E internal \in BOOLEAN :
       log' = Append(log, [op |-> op, slot |-> s, from |-> page[s], to |-> to, before |-> page,
                           form |-> IF internal THEN "unread" ELSE form, internal |-> internal])
  /\ page' = [page EXCEPT ![s] = to]
  /\ done' = Nothing
  /\ UNCHANGED <<table, at, checkpoint, cache, pages, fails, reasons>>

SourceInsert ==
  \E s \in Slots, row \in Rows : page[s] = None /\ Free(row, s) /\ Log("insert", s, row, "image")

SourceDelete == \E s \in Slots : page[s] # None /\ Log("delete", s, None, "image")

SourceUpdate ==
  \E s \in Slots, row \in Rows, form \in table.forms :
    page[s] \notin {None, row} /\ Free(row, s) /\ Log("update", s, row, form)

-----------------------------------------------------------------------------
(* RowImageCache.                                                          *)

(* Mutant of CacheSet: without a bound.                                    *)
CacheSetUnbounded(c, s, image) == [t \in DOMAIN c \cup {s} |-> IF t = s THEN image ELSE c[t]]

CacheSet(c, s, image) ==
  LET kept == IF s \notin DOMAIN c /\ Cardinality(DOMAIN c) >= MaxItems THEN {} ELSE DOMAIN c
  IN [t \in kept \cup {s} |-> IF t = s THEN image ELSE c[t]]

(* Mutant of CacheDelete: nothing is removed.                              *)
CacheDeleteNot(c, s) == c

CacheDelete(c, s) == [t \in DOMAIN c \ {s} |-> c[t]]

-----------------------------------------------------------------------------
(* Statements.                                                             *)

Decode(image) == DecodeDMLRowImage(image, Cols, Cols, table.format)
Null1(vals) == vals[1] = Null

(* Mutant of buildWhere: it takes the last column for the key.             *)
buildWhereLast(vals) == [i \in {Len(Cols)} |-> vals[i]]

(* The key, or else all columns.                                           *)
buildWhere(vals) == [i \in IF Keyed THEN Key ELSE DOMAIN Cols |-> vals[i]]

buildChangedSet(before, after) ==
  [i \in {k \in DOMAIN Cols : before[k] # after[k]} |-> after[i]]

insert(row) ==
  LET d == decodeRowImage(row, Cols, Cols, table.format) IN
  IF d.err # "" THEN Undecoded
  ELSE Statement(InsertSQL(d.vals), DeleteSQL(buildWhere(d.vals)), "image", FALSE)

(* No DELETE by a key that cannot be.                                      *)
delete(row) ==
  LET d == decodeRowImage(row, Cols, Cols, table.format) IN
  IF d.err # "" THEN Undecoded
  ELSE Statement(IF Keyed /\ Null1(d.vals) THEN Comment ELSE DeleteSQL(buildWhere(d.vals)),
                 InsertSQL(d.vals), "image", FALSE)

buildFullImageUpdate(before, after) ==
  LET b == Decode(before)
      a == Decode(after)
  IN IF b.err # "" \/ a.err # "" \/ b.vals = a.vals THEN Undecoded
     ELSE Statement(UpdateSQL(buildChangedSet(b.vals, a.vals), buildWhere(b.vals)),
                    UpdateSQL(buildChangedSet(a.vals, b.vals), buildWhere(a.vals)), "image", FALSE)

(* By the key if the fragment shows it, or else by what has changed.       *)
buildDeltaUpdate(before, after) ==
  LET changed == DOMAIN before \cup DOMAIN after
      value(f, i) == IF i \in DOMAIN f THEN f[i] ELSE Null
      byKey == \E i \in Key : i \in DOMAIN before
      where(f) == [i \in (IF byKey THEN Key ELSE changed) \cap DOMAIN f |-> f[i]]
      command(set, f) == IF where(f) = <<>> THEN Comment ELSE UpdateSQL(set, where(f))
  IN IF changed = {} THEN Undecoded
     ELSE Statement(command([i \in changed |-> value(after, i)], before),
                    command([i \in changed |-> value(before, i)], after), "delta", ~byKey)

(* A log format with the whole after-image.                                *)
updateOfImage(after, before) ==
  LET a == DecodeRow(after, Cols)
      b == DecodeRow(ReconstructBeforeImage(after, before), Cols)
      vals == IF b.err = "" THEN b.vals ELSE a.vals
      skipped == {"OffRowLOB", "CompressedRow", "SchemaMismatch"}
  IN IF a.err # "" \/ b.err \in skipped \/ \A i \in DOMAIN a.vals : a.vals[i] = Null
     THEN Undecoded
     ELSE Statement(UpdateSQL(a.vals, buildWhere(vals)), UpdateSQL(vals, buildWhere(a.vals)), "image", FALSE)

-----------------------------------------------------------------------------
(* The generator.                                                          *)

Rec == log[at + 1]
Warm(s) == s \in DOMAIN cache
Right(s) == Warm(s) /\ reasons[s] = {}

Handle(op, internal) == at < Len(log) /\ Rec.op = op /\ Rec.internal = internal /\ at' = at + 1
Emit(stmt, why) ==
  done' = [rec |-> Rec, stmt |-> stmt, warm |-> Right(Rec.slot), why |-> why]

HandleInsert ==
  /\ Handle("insert", FALSE)
  /\ cache' = CacheSet(cache, Rec.slot, Image(Rec.to))
  /\ Emit(insert(Image(Rec.to)), {})
  /\ reasons' = [reasons EXCEPT ![Rec.slot] = {}]
  /\ UNCHANGED <<sourceVars, checkpoint, pages, fails>>

HandleDelete ==
  /\ Handle("delete", FALSE)
  /\ cache' = CacheDelete(cache, Rec.slot)
  /\ Emit(delete(Image(Rec.from)), {})
  /\ reasons' = [reasons EXCEPT ![Rec.slot] = {}]
  /\ UNCHANGED <<sourceVars, checkpoint, pages, fails>>

(* The after-image, and the cache with it.                                 *)
reconstructModifyRow(s, f) ==
  LET after == IF Warm(s) THEN ApplyModifyRowFragment(cache[s], f.old, f.new, f.oldStart) ELSE NoImage
  IN [after |-> after, cache |-> IF after = NoImage THEN cache ELSE CacheSet(cache, s, after)]

HandleModifyRow ==
  /\ Handle("update", FALSE) /\ Rec.form = "row"
  /\ LET f == RowFragment(Image(Rec.from), Image(Rec.to))
         r == reconstructModifyRow(Rec.slot, f)
     IN /\ cache' = r.cache
        /\ IF r.after # NoImage
           THEN Emit(buildFullImageUpdate(cache[Rec.slot], r.after), reasons[Rec.slot])
           ELSE Emit(buildDeltaUpdate(DecodeModifyRowFragment(f.old, f.oldStart, Cols),
                                      DecodeModifyRowFragment(f.new, f.oldStart, Cols)), {})
  /\ UNCHANGED <<sourceVars, checkpoint, pages, fails, reasons>>

(* Without an offset the image in the cache is neither used nor replaced;  *)
(* of a longer image before, only a part is found.                         *)
HandleModifyRowImage ==
  /\ Handle("update", FALSE) /\ Rec.form = "image"
  /\ Emit(updateOfImage(Image(Rec.to), Image(Rec.from)),
          IF Len(Image(Rec.from)) > Len(Image(Rec.to)) THEN {"longer"} ELSE {})
  /\ reasons' = [reasons EXCEPT ![Rec.slot] = @ \cup {"image"}]
  /\ UNCHANGED <<sourceVars, checkpoint, cache, pages, fails>>

ModifyColumns ==
  ColumnsRecord(Fragments(table.format, Image(Rec.from), Image(Rec.to), Len(Cols)), table.trailing)

TrailingReason == IF table.trailing # <<>> THEN {"trailing"} ELSE {}

(* From the cached image, forwards.                                        *)
HandleModifyColumns ==
  /\ Handle("update", FALSE) /\ Rec.form = "columns" /\ Warm(Rec.slot)
  /\ LET after == ApplyModifyColumns(cache[Rec.slot], ModifyColumns) IN
     /\ after # NoImage
     /\ cache' = CacheSet(cache, Rec.slot, after)
     /\ reasons' = [reasons EXCEPT ![Rec.slot] = @ \cup TrailingReason]
     /\ Emit(buildFullImageUpdate(cache[Rec.slot], after), reasons'[Rec.slot])
  /\ UNCHANGED <<sourceVars, checkpoint, pages, fails>>

(* Backwards from the image mr1, which stays in the cache.                 *)
Reversed(mr1, why) ==
  LET before == ReverseModifyColumns(mr1, ModifyColumns) IN
  IF before = NoImage
  THEN Emit(Undecoded, why) /\ UNCHANGED <<cache, reasons>>
  ELSE /\ cache' = CacheSet(cache, Rec.slot, mr1)
       /\ reasons' = [reasons EXCEPT ![Rec.slot] = why]
       /\ Emit(buildFullImageUpdate(before, mr1), why \cup TrailingReason)

(* A cached image to which the fragments do not apply is taken for the     *)
(* after-image.                                                            *)
HandleModifyColumnsBackwards ==
  /\ Handle("update", FALSE) /\ Rec.form = "columns" /\ Warm(Rec.slot)
  /\ ApplyModifyColumns(cache[Rec.slot], ModifyColumns) = NoImage
  /\ Reversed(cache[Rec.slot], reasons[Rec.slot])
  /\ UNCHANGED <<sourceVars, checkpoint, pages, fails>>

(* ReadCurrentRowImage: the page as it was when it was read.               *)
HandleModifyColumnsFromPage ==
  /\ Handle("update", FALSE) /\ Rec.form = "columns" /\ ~Warm(Rec.slot) /\ table.reader
  /\ pages' = IF pages = NoPage THEN page ELSE pages
  /\ IF pages'[Rec.slot] = None THEN Emit(Undecoded, {}) /\ UNCHANGED <<cache, reasons>>
     ELSE Reversed(Image(pages'[Rec.slot]), IF pages'[Rec.slot] = Rec.to THEN {} ELSE {"page"})
  /\ UNCHANGED <<sourceVars, checkpoint, fails>>

(* There is no page reader, or its query fails.                            *)
HandleModifyColumnsCold ==
  /\ Handle("update", FALSE) /\ Rec.form = "columns" /\ ~Warm(Rec.slot)
  /\ \/ ~table.reader /\ UNCHANGED fails
     \/ table.reader /\ pages = NoPage /\ fails < MaxFails /\ fails' = fails + 1
  /\ Emit(Undecoded, {})
  /\ UNCHANGED <<sourceVars, checkpoint, cache, pages, reasons>>

HandleInternal ==
  /\ \E op \in {"insert", "delete", "update"} : Handle(op, TRUE)
  /\ reasons' = [reasons EXCEPT ![Rec.slot] = @ \cup {"internal"}]
  /\ done' = Nothing
  /\ UNCHANGED <<sourceVars, checkpoint, cache, pages, fails>>

-----------------------------------------------------------------------------
(* Polls.                                                                  *)

EndPoll ==
  /\ at # checkpoint /\ checkpoint' = at
  /\ done' = Nothing
  /\ UNCHANGED <<sourceVars, at, cache, pages, fails, reasons>>

Failure == fails < MaxFails /\ fails' = fails + 1

(* The records after the checkpoint are read again, with the images of     *)
(* later ones.                                                             *)
PollFails ==
  /\ at # checkpoint /\ Failure /\ at' = checkpoint
  /\ reasons' = [s \in Slots |-> reasons[s] \cup {"replay"}]
  /\ done' = Nothing
  /\ UNCHANGED <<sourceVars, checkpoint, cache, pages>>

(* The schema has changed: a new generator, and pageReader.Reset.          *)
NewGenerator ==
  /\ at = checkpoint /\ Failure /\ cache' = <<>> /\ pages' = NoPage
  /\ reasons' = [s \in Slots |-> {}]
  /\ done' = Nothing
  /\ UNCHANGED <<sourceVars, at, checkpoint>>

(* The page is read anew after its ttl, or after maxPages others.          *)
PageExpires ==
  /\ pages # NoPage /\ pages' = NoPage
  /\ done' = Nothing
  /\ UNCHANGED <<sourceVars, at, checkpoint, cache, fails, reasons>>

-----------------------------------------------------------------------------
Source == SourceInsert \/ SourceDelete \/ SourceUpdate
HandleUpdate ==
  \/ HandleModifyRow \/ HandleModifyRowImage \/ HandleModifyColumns
  \/ HandleModifyColumnsBackwards \/ HandleModifyColumnsFromPage \/ HandleModifyColumnsCold
HandleRecord == HandleInsert \/ HandleDelete \/ HandleUpdate \/ HandleInternal
Next == Source \/ HandleRecord \/ EndPoll \/ PollFails \/ NewGenerator \/ PageExpires

Spec == Init /\ [][Next]_vars

-----------------------------------------------------------------------------
(* The variables have their types, and the cache its bound.                *)
ImagesTypeOK ==
  /\ table \in Tables /\ page \in [Slots -> Rows \cup {None}]
  /\ at \in 0..Len(log) /\ checkpoint \in 0..at /\ Len(log) <= MaxLog /\ fails \in 0..MaxFails
  /\ DOMAIN cache \subseteq Slots /\ Cardinality(DOMAIN cache) <= MaxItems
  /\ pages = NoPage \/ pages \in [Slots -> Rows \cup {None}]
  /\ \A s \in Slots : reasons[s] \subseteq {"image", "internal", "page", "replay", "trailing"}

(* The rows as of the last record handled.                                 *)
Now == IF at < Len(log) THEN Rec.before ELSE page

(* A cached image is what the log says the row is, byte by byte: unless    *)
(* the slot's records went past the generator, or it saw them out of turn. *)
CacheFollowsLog ==
  \A s \in DOMAIN cache : reasons[s] = {} => Now[s] # None /\ cache[s] = Image(Now[s])

(* Executing a statement.                                                  *)
Matches(row, where) == row # None /\ \A i \in DOMAIN where : row[i] = where[i]
With(row, set) == [i \in DOMAIN row |-> IF i \in DOMAIN set THEN set[i] ELSE row[i]]
Exec(c, t) ==
  CASE c.kind = "update" -> [s \in Slots |-> IF Matches(t[s], c.where) THEN With(t[s], c.set) ELSE t[s]]
    [] c.kind = "delete" -> [s \in Slots |-> IF Matches(t[s], c.where) THEN None ELSE t[s]]
    [] c.kind = "insert" -> [t EXCEPT ![CHOOSE s \in Slots : t[s] = None] = [i \in DOMAIN Cols |-> c.set[i]]]
    [] OTHER -> t
SameRows(t, u) ==
  \A row \in {t[s] : s \in Slots} \cup {u[s] : s \in Slots} :
    Cardinality({s \in Slots : t[s] = row}) = Cardinality({s \in Slots : u[s] = row})

d == done
Happened == d.rec # <<>>
Before == d.rec.before
After == [Before EXCEPT ![d.rec.slot] = d.rec.to]
Twins(t) == \E s, u \in Slots : s # u /\ t[s] # None /\ t[s] = t[u]

(* What may be supposed of the rows: each can be read in full; an update   *)
(* logged with the whole image is of an uncompressed row; and a column of  *)
(* fixed length that one part of a fragment shows, the other one shows,    *)
(* too, which is not so when bytes of the variable part happen to be the   *)
(* same as some of the fixed part.                                         *)
RowsInFull == Positional(Cols) /\ \A row \in Rows, t \in Tables : InFull(t.format, Cols, row)
WholeImagesArePlain == \A t \in Tables : "image" \in t.forms => t.format = "NONE"
FragmentsShowBoth ==
  \A from, to \in Rows :
    LET f == RowFragment(Encode("NONE", Cols, from), Encode("NONE", Cols, to)) IN
    DOMAIN DecodeModifyRowFragment(f.old, f.oldStart, Cols)
    = DOMAIN DecodeModifyRowFragment(f.new, f.oldStart, Cols)

(* A statement made from a whole image does what the record did, and its   *)
(* rollback undoes it: when the image was right, and where the table has   *)
(* no key, when no two rows are the same.                                  *)
StatementsUndo ==
  Happened /\ d.stmt.from = "image" /\ d.why = {} /\ (Keyed \/ (~Twins(Before) /\ ~Twins(After)))
  => /\ d.stmt.sql.kind # "comment" => SameRows(Exec(d.stmt.sql, Before), After)
     /\ d.stmt.undo.kind # "comment" => SameRows(Exec(d.stmt.undo, After), Before)

(* An update of a row whose image is right never falls back to a part.     *)
WarmRowsDecodeInFull ==
  Happened /\ d.rec.op = "update" /\ d.rec.form # "image" /\ d.warm /\ d.why = {} => d.stmt.from = "image"

(* What a part shows of an uncompressed row is true, except that NULL is   *)
(* shown as zero.                                                          *)
Agrees(row, f) == \A i \in DOMAIN f : row[i] = f[i] \/ (row[i] = Null /\ f[i] = <<0>>)
DeltasAreTrue ==
  Happened /\ d.stmt.from = "delta" /\ table.format = "NONE"
  => /\ Agrees(d.rec.to, d.stmt.sql.set) /\ Agrees(d.rec.from, d.stmt.sql.where)
     /\ Agrees(d.rec.from, d.stmt.undo.set) /\ Agrees(d.rec.to, d.stmt.undo.where)

(* An update or delete without the note that it may hit other rows names   *)
(* the row by what it was.                                                 *)
WhereIsTrue ==
  Happened /\ d.why = {} /\ ~d.stmt.note /\ d.stmt.sql.kind \in {"update", "delete"}
  => Matches(d.rec.from, d.stmt.sql.where)
=============================================================================
