--------------------------- MODULE SchemaRefresh ---------------------------
(***************************************************************************)
(* Which schema a record is decoded with.  A table's columns, its          *)
(* compression and its storage change; rows keep the layout they were      *)
(* written in; scanDatabase extracts the schema and reads its version,     *)
(* pollLDF reads the version and extracts the schema when it has changed,  *)
(* and again, once per poll, when a record names a table it does not know. *)
(* DDL may come between any two queries.                                   *)
(*                                                                         *)
(* There is one table of several partitions.  ddl counts changes and       *)
(* stands for what readSchemaVersion returns; 0 is no version.             *)
(***************************************************************************)
EXTENDS RowFormat, FiniteSets

CONSTANTS
  Formats,    (* Compressions in use, of "NONE" and "ROW".                 *)
  Parts,      (* Partitions, numbered from one.                            *)
  Values(_),  (* The values a column may have in a row.                    *)
  MaxDdl,     (* Bound: changes of the table.                              *)
  MaxLsn,     (* Bound: logged rows.                                       *)
  MaxErrors   (* Bound: failed queries.                                    *)

(* The columns that the table can come to have.                            *)
Types == {"tinyint", "varchar"}
TableColumns == [id : 1..(2 + MaxDdl), type : Types, phantom : BOOLEAN]

ASSUME SchemaAssumption ==
  /\ MaxDdl \in Nat \ {0} /\ MaxLsn \in Nat /\ MaxErrors \in Nat
  /\ Formats \subseteq {"NONE", "ROW"} /\ IsFiniteSet(Parts) /\ Parts = 1..Cardinality(Parts)
  /\ \A col \in TableColumns : Values(col) \subseteq StoredValues(col)

VARIABLES
  ddl,            (* Source: how often the table changed; 1 is its CREATE. *)
  cols,           (* Source: its columns, <<>> before it exists.           *)
  lastId,         (* Source: the highest column id given out.              *)
  storage,        (* Source: for each partition its allocation unit, its   *)
                  (* format, its columns with the dropped ones, and the    *)
                  (* layouts its rows have.                                *)
  log,            (* Source: the rows logged.                              *)
  visible,        (* Whether we may query the physical columns.            *)
  proc,           (* Where scanDatabase, or pollLDF, is.                   *)
  sch,            (* appSchemas[dbName].                                   *)
  draft,          (* The schema being extracted.                           *)
  schemaVersion,  (* state.schemaVersion, 0 is "".                         *)
  version,        (* What this poll's readSchemaVersion returned.          *)
  refreshed,      (* refreshedUnknownStorage of this poll.                 *)
  at,             (* The last record handled.                              *)
  errors,         (* Queries that failed so far.                           *)
  (* History: what became of the last record, and whether the version was  *)
  (* read after a change that the extracted schema does not show.          *)
  decoded, raced

sourceVars == <<ddl, cols, lastId, storage, log>>
progVars == <<proc, sch, draft, schemaVersion, version, refreshed, at, errors>>
vars == <<sourceVars, visible, progVars, decoded, raced>>

Column(id, type) == [id |-> id, type |-> type, phantom |-> FALSE]
FirstCols == <<Column(1, "tinyint"), Column(2, "varchar")>>

(* Of a table that lost a column and was rebuilt before.                   *)
ColsWithGap == <<Column(1, "tinyint"), Column(3, "varchar")>>

NoSchema == [cols |-> <<>>, units |-> <<>>, asOf |-> 0]
Nothing == [rec |-> <<>>, sch |-> NoSchema, format |-> "NONE", physical |-> <<>>,
            res |-> Refused("Skipped")]

Init ==
  /\ ddl = 1 /\ log = <<>>
  /\ \/ cols = <<>> /\ storage = <<>> /\ lastId = 2
     \/ /\ \/ cols = FirstCols /\ lastId = 2
           \/ cols = ColsWithGap /\ lastId = 3
        /\ \E f \in [Parts -> Formats] :
             storage = [p \in Parts |->
               [unit |-> p, format |-> f[p], layout |-> cols, layouts |-> {cols}]]
  /\ visible \in BOOLEAN
  /\ proc = "scanCols" /\ sch = NoSchema /\ draft = NoSchema
  /\ schemaVersion = 0 /\ version = 0 /\ refreshed = FALSE /\ at = 0 /\ errors = 0
  /\ decoded = Nothing /\ raced = FALSE

-----------------------------------------------------------------------------
(* The source.                                                             *)

Change == ddl < MaxDdl /\ ddl' = ddl + 1 /\ UNCHANGED <<log, visible, progVars, decoded, raced>>

Exists == cols # <<>>
Units == {storage[p].unit : p \in DOMAIN storage}

CreateTable ==
  /\ ~Exists /\ Change
  /\ cols' = FirstCols
  /\ \E f \in [Parts -> Formats] :
       storage' = [p \in Parts |->
         [unit |-> p, format |-> f[p], layout |-> FirstCols, layouts |-> {FirstCols}]]
  /\ UNCHANGED lastId

(* Of nullable columns.  Existing rows stay as they are.                   *)
WithLayout(part, layout) ==
  [part EXCEPT !.layout = layout, !.layouts = @ \cup {layout}]

AddColumn ==
  /\ Exists /\ Change
  /\ \E type \in Types :
       LET new == Column(lastId + 1, type) IN
       /\ lastId' = lastId + 1
       /\ cols' = Append(cols, new)
       /\ storage' = [p \in Parts |-> WithLayout(storage[p], Append(storage[p].layout, new))]

(* The column keeps its place in the partition's rows.                     *)
WithPhantom(layout, id) ==
  [k \in DOMAIN layout |->
     IF layout[k].id = id THEN [layout[k] EXCEPT !.phantom = TRUE] ELSE layout[k]]

DropColumn ==
  /\ Exists /\ Change
  /\ \E i \in 2..Len(cols) :
       /\ cols' = RemoveAt(cols, i)
       /\ storage' = [p \in Parts |->
            WithLayout(storage[p], WithPhantom(storage[p].layout, cols[i].id))]
  /\ UNCHANGED lastId

(* ALTER TABLE REBUILD: new storage, every row written anew.               *)
RebuildPartition ==
  /\ Exists /\ Change
  /\ \E p \in Parts, f \in Formats :
       storage' = [storage EXCEPT ![p] =
         [unit |-> Max(Units) + 1, format |-> f, layout |-> cols, layouts |-> {cols}]]
  /\ UNCHANGED <<cols, lastId>>

Written(l) == {l[i].id : i \in {k \in DOMAIN l : ~l[k].phantom}}
RowsOf(l) ==
  LET ids == {l[i].id : i \in DOMAIN l}
      all == {Null} \cup UNION {Values(l[i]) : i \in DOMAIN l}
  IN {f \in [ids -> all] : \A i \in DOMAIN l :
        f[l[i].id] \in IF l[i].phantom THEN {Null} ELSE Values(l[i])}

(* An INSERT, or a DELETE of a row that was there before.                  *)
LogRow ==
  /\ Exists /\ Len(log) < MaxLsn
  /\ \E p \in Parts : \E l \in storage[p].layouts : \E v \in RowsOf(l) :
       LET image == Encode(storage[p].format, l, v) IN
       /\ FitsPage(image)
       /\ log' = Append(log, [unit |-> storage[p].unit, format |-> storage[p].format,
                              layout |-> l, value |-> v, image |-> image])
  /\ UNCHANGED <<ddl, cols, lastId, storage, visible, progVars, decoded, raced>>

-----------------------------------------------------------------------------
(* schema.Extract: the columns come from one query, compression and        *)
(* physical columns from later ones; the last one may be denied.           *)

ExtractColumns(from, to) ==
  /\ proc = from /\ proc' = to
  /\ draft' = [cols |-> cols, units |-> <<>>, asOf |-> ddl]
  /\ UNCHANGED <<sourceVars, visible, sch, schemaVersion, version, refreshed, at, errors, decoded, raced>>

ExtractStorage ==
  [cols |-> draft.cols, asOf |-> draft.asOf,
   units |-> [u \in Units |->
     LET s == CHOOSE s \in {storage[p] : p \in Parts} : s.unit = u IN
     [format |-> s.format, physical |-> IF visible THEN s.layout ELSE <<>>]]]

QueryFails == errors < MaxErrors /\ errors' = errors + 1

(* scanDatabase.                                                           *)
ScanColumns == ExtractColumns("scanCols", "scanStorage")

ScanStorage ==
  /\ proc = "scanStorage" /\ proc' = "scanVersion"
  /\ sch' = ExtractStorage /\ draft' = NoSchema
  /\ UNCHANGED <<sourceVars, visible, schemaVersion, version, refreshed, at, errors, decoded, raced>>

ScanVersion ==
  /\ proc = "scanVersion" /\ proc' = "scan"
  /\ \/ schemaVersion' = ddl /\ raced' = (ddl # sch.asOf) /\ UNCHANGED errors
     \/ QueryFails /\ UNCHANGED <<schemaVersion, raced>>
  /\ UNCHANGED <<sourceVars, visible, sch, draft, version, refreshed, at, decoded>>

(* Mutant of PollVersion: the version is stored before the extraction that *)
(* it calls for, which may fail.                                           *)
PollVersionStored ==
  /\ proc = "idle"
  /\ \/ /\ version' = ddl /\ schemaVersion' = ddl
        /\ proc' = IF schemaVersion = 0 \/ ddl # schemaVersion THEN "pollCols" ELSE "poll"
        /\ UNCHANGED errors
     \/ QueryFails /\ version' = 0 /\ proc' = "poll" /\ UNCHANGED schemaVersion
  /\ UNCHANGED <<sourceVars, visible, sch, draft, refreshed, at, decoded, raced>>

(* Mutant of PollVersion: a version that the scan could not read counts as *)
(* one that has not changed.                                               *)
PollVersionUnknown ==
  /\ proc = "idle"
  /\ \/ /\ version' = ddl
        /\ proc' = IF schemaVersion # 0 /\ ddl # schemaVersion THEN "pollCols" ELSE "poll"
        /\ UNCHANGED errors
     \/ QueryFails /\ version' = 0 /\ proc' = "poll"
  /\ UNCHANGED <<sourceVars, visible, sch, draft, schemaVersion, refreshed, at, decoded, raced>>

(* pollLDF.  A failing query of the version leaves the schema as it is.    *)
PollVersion ==
  /\ proc = "idle"
  /\ \/ /\ version' = ddl
        /\ proc' = IF schemaVersion = 0 \/ ddl # schemaVersion THEN "pollCols" ELSE "poll"
        /\ UNCHANGED errors
     \/ QueryFails /\ version' = 0 /\ proc' = "poll"
  /\ UNCHANGED <<sourceVars, visible, sch, draft, schemaVersion, refreshed, at, decoded, raced>>

PollColumns == ExtractColumns("pollCols", "pollStorage")

PollStorage ==
  /\ proc = "pollStorage" /\ proc' = "poll"
  /\ sch' = ExtractStorage /\ draft' = NoSchema /\ schemaVersion' = version /\ raced' = FALSE
  /\ UNCHANGED <<sourceVars, visible, version, refreshed, at, errors, decoded>>

(* The poll returns the error.                                             *)
PollExtractFails ==
  /\ proc \in {"pollCols", "pollStorage"} /\ QueryFails /\ proc' = "idle" /\ version' = 0
  /\ draft' = NoSchema
  /\ UNCHANGED <<sourceVars, visible, sch, schemaVersion, refreshed, at, decoded, raced>>

-----------------------------------------------------------------------------
(* Records.                                                                *)

Known(s) == s.cols # <<>>

(* By allocation unit, or the highest of the table.                        *)
ResolveCompression(s, unit) ==
  IF unit \in DOMAIN s.units THEN s.units[unit].format
  ELSE IF \E u \in DOMAIN s.units : s.units[u].format = "ROW" THEN "ROW" ELSE "NONE"

(* Those of the partition, or else of the table's first one.               *)
tableWithPhysicalCols(s, unit) ==
  IF unit \in DOMAIN s.units THEN s.units[unit].physical
  ELSE IF s.units = <<>> THEN <<>>
  ELSE s.units[CHOOSE u \in DOMAIN s.units : \A w \in DOMAIN s.units : u <= w].physical

Generate(rec, s) ==
  LET format == ResolveCompression(s, rec.unit)
      physical == tableWithPhysicalCols(s, rec.unit)
  IN [rec |-> rec, sch |-> s, format |-> format, physical |-> physical,
      res |-> IF Known(s) THEN decodeRowImage(rec.image, s.cols, physical, format)
              ELSE Refused("Skipped")]

(* A poll looks for the table of a record that it does not know first.     *)
NextRecord ==
  /\ proc = "scan" \/ (proc = "poll" /\ (Known(sch) \/ refreshed))
  /\ at < Len(log) /\ at' = at + 1

HandleRecord ==
  /\ NextRecord
  /\ decoded' = Generate(log[at + 1], sch)
  /\ UNCHANGED <<sourceVars, visible, proc, sch, draft, schemaVersion, version, refreshed, errors, raced>>

Refresh ==
  /\ proc = "poll" /\ ~Known(sch) /\ ~refreshed /\ at < Len(log)
  /\ refreshed' = TRUE /\ proc' = "refreshCols"
  /\ UNCHANGED <<sourceVars, visible, sch, draft, schemaVersion, version, at, errors, decoded, raced>>

RefreshColumns == ExtractColumns("refreshCols", "refreshStorage")

RefreshStorage ==
  /\ proc = "refreshStorage" /\ proc' = "refreshVersion"
  /\ sch' = ExtractStorage /\ draft' = NoSchema
  /\ raced' = (raced /\ draft.asOf < schemaVersion)
  /\ UNCHANGED <<sourceVars, visible, schemaVersion, version, refreshed, at, errors, decoded>>

(* The extraction fails: the record is skipped.                            *)
RefreshFails ==
  /\ proc \in {"refreshCols", "refreshStorage"} /\ QueryFails /\ proc' = "poll"
  /\ draft' = NoSchema
  /\ UNCHANGED <<sourceVars, visible, sch, schemaVersion, version, refreshed, at, decoded, raced>>

RefreshVersion ==
  /\ proc = "refreshVersion" /\ proc' = "poll"
  /\ \/ schemaVersion' = ddl /\ raced' = (ddl # sch.asOf) /\ UNCHANGED errors
     \/ QueryFails /\ UNCHANGED <<schemaVersion, raced>>
  /\ UNCHANGED <<sourceVars, visible, sch, draft, version, refreshed, at, decoded>>

(* Mutant of EndPass: refreshedUnknownStorage outlives the poll.           *)
EndPassKeepsRefreshed ==
  /\ proc \in {"scan", "poll"} /\ at = Len(log) /\ proc' = "idle" /\ version' = 0
  /\ UNCHANGED <<sourceVars, visible, sch, draft, schemaVersion, refreshed, at, errors, decoded, raced>>

EndPass ==
  /\ proc \in {"scan", "poll"} /\ at = Len(log) /\ proc' = "idle" /\ version' = 0 /\ refreshed' = FALSE
  /\ UNCHANGED <<sourceVars, visible, sch, draft, schemaVersion, at, errors, decoded, raced>>

-----------------------------------------------------------------------------
Ddl == CreateTable \/ AddColumn \/ DropColumn \/ RebuildPartition

Scan == ScanColumns \/ ScanStorage \/ ScanVersion
Poll == PollVersion \/ PollColumns \/ PollStorage
RefreshUnknown == Refresh \/ RefreshColumns \/ RefreshStorage \/ RefreshVersion
Program == Scan \/ Poll \/ RefreshUnknown \/ EndPass

Next == Ddl \/ LogRow \/ Program \/ HandleRecord \/ PollExtractFails \/ RefreshFails

Spec == Init /\ [][Next]_vars

(* The ticker fires, queries return and so does the handler.  (Only        *)
(* HandleRecord changes at.)                                               *)
FairSpec == Spec /\ WF_vars(Program) /\ WF_at(NextRecord)

-----------------------------------------------------------------------------
(* The variables have their types; a poll looks for an unknown table once, *)
(* and the next poll may look again.                                       *)
SchemaTypeOK ==
  /\ ddl \in 1..MaxDdl /\ lastId \in 2..(2 + MaxDdl) /\ errors \in 0..MaxErrors
  /\ schemaVersion \in 0..ddl /\ version \in 0..ddl
  /\ sch.asOf \in 0..ddl /\ draft.asOf \in 0..ddl
  /\ at \in 0..Len(log) /\ Len(log) <= MaxLsn
  /\ proc \in {"scanCols", "scanStorage", "scanVersion", "scan", "idle", "pollCols", "pollStorage",
               "poll", "refreshCols", "refreshStorage", "refreshVersion"}
  /\ visible \in BOOLEAN /\ refreshed \in BOOLEAN /\ raced \in BOOLEAN
  /\ refreshed => proc \in {"poll", "refreshCols", "refreshStorage", "refreshVersion"}

(* What became of the last record: d.                                      *)
d == decoded
Happened == d.rec # <<>> /\ Known(d.sch)
Ok == d.res.err = ""

(* A column that the row has not is NULL in it.                            *)
TrueValue(id) == IF id \in Written(d.rec.layout) THEN d.rec.value[id] ELSE Null
Exact == \A i \in DOMAIN d.sch.cols : d.res.vals[i] = TrueValue(d.sch.cols[i].id)

SameSoFar(a, b) == \A i \in DOMAIN a \cap DOMAIN b : a[i].id = b[i].id
Physical == IF d.physical # <<>> THEN d.physical ELSE d.sch.cols
HasLob == \E id \in DOMAIN d.rec.value : d.rec.value[id] = Lob
HasVar == Bit(d.rec.image[1], 5)

(* A column was dropped between the queries for columns and for storage.   *)
Torn == \E i \in DOMAIN d.sch.cols : d.sch.cols[i].id \notin Written(Physical)

(* The row's columns and those it is decoded with are the same, as far as  *)
(* both go; a compressed row has the descriptor bytes that are expected.   *)
LayoutsAgree ==
  IF d.rec.format = "NONE" THEN SameSoFar(d.rec.layout, d.sch.cols)
  ELSE /\ ~Torn
       /\ SameSoFar(d.rec.layout, Physical)
       /\ Len(d.rec.layout) <= Len(Physical)
       /\ PayloadStart(Len(d.rec.layout)) = PayloadStart(Len(Physical))

(* What may be supposed of the values: no string begins with a zero, which *)
(* a compressed row shows as NULL.                                         *)
StringsReadable ==
  \A col \in TableColumns : \A v \in Values(col) :
    ~Fixed(col) /\ v \notin {Null, Lob, <<>>} => v[1] # 0

(* A row decodes to the values it was written with, NULL for columns added *)
(* later, when layouts and format agree; and an uncompressed row without   *)
(* variable part when the metadata call it compressed.                     *)
DecodesWhatWasWritten ==
  Happened /\ Ok /\ LayoutsAgree /\ (d.rec.format = "NONE" \/ ~HasLob)
    /\ (d.format = d.rec.format \/ (d.rec.format = "NONE" /\ ~HasVar))
  => Exact

(* A row is refused only if it has values off-row, more columns than the   *)
(* schema, or other columns than the schema now has or had.                *)
RefusesOnlyWhatDiffers ==
  Happened /\ ~Ok /\ d.format = d.rec.format /\ LayoutsAgree
  => \/ HasLob
     \/ Len(d.rec.layout) > Len(d.sch.cols)
     \/ d.rec.format = "NONE" /\ HasGaps(d.sch.cols)

(* While a poll reads, the schema shows every change before its look at    *)
(* the version: unless that failed, or a version was read after a change   *)
(* that the schema extracted before it does not show.                      *)
SchemaKeepsUp == proc = "poll" /\ version # 0 /\ ~raced => sch.asOf >= version

(* When the table is left alone, the poller comes to know it.              *)
SchemaCatchesUp == <>[](sch.asOf = ddl \/ raced)
=============================================================================
