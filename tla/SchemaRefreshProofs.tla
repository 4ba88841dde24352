------------------------ MODULE SchemaRefreshProofs ------------------------
(***************************************************************************)
(* What a poll decodes with, for any number of partitions, columns,        *)
(* formats, changes, records and failed queries.                           *)
(*                                                                         *)
(* SchemaKeepsUp speaks of the moments at which a poll reads.  What        *)
(* carries it from one to the next is that the extracted schema is as new  *)
(* as the version kept beside it, and a draft as new as both.              *)
(*                                                                         *)
(* DecodesWhatWasWritten and RefusesOnlyWhatDiffers compare a row's layout *)
(* with a schema extracted at another time.  What carries them is that an  *)
(* id stands for one column of one type for ever, and that nothing, table, *)
(* partition, row or schema, has an id twice; the codecs of RowFormat do   *)
(* the rest.                                                               *)
(***************************************************************************)
EXTENDS SchemaRefresh, RowFormatProofs

Reading == {"poll", "refreshCols", "refreshStorage", "refreshVersion"}
Drafting == {"pollStorage", "refreshStorage"}

(* The version that an extraction may bring along.                         *)
Bounds ==
  /\ ddl \in Nat /\ schemaVersion \in 0..ddl /\ version \in 0..ddl
  /\ sch.asOf \in 0..ddl /\ draft.asOf \in 0..ddl

(* The schema is as new as its version, unless the two were read around a  *)
(* change.                                                                 *)
AsNewAsItsVersion == ~raced => sch.asOf >= schemaVersion

AsNewAsThePoll == proc \in Reading /\ ~raced => sch.asOf >= version

DraftIsNewer ==
  /\ proc \in Drafting => draft.asOf >= version
  /\ proc = "refreshStorage" => draft.asOf >= schemaVersion
  /\ proc \in {"scanCols", "scanStorage"} => schemaVersion = 0

KeepsUpInv == Bounds /\ AsNewAsItsVersion /\ AsNewAsThePoll /\ DraftIsNewer

LEMMA KeepsUpInit == Init => KeepsUpInv
BY DEF Init, KeepsUpInv, Bounds, AsNewAsItsVersion, AsNewAsThePoll, DraftIsNewer, NoSchema, Reading, Drafting

(* The source's steps leave everything but ddl alone.                      *)
LEMMA SourceKeepsUp ==
  ASSUME KeepsUpInv, Ddl \/ LogRow
  PROVE  KeepsUpInv'
<1>1. ddl' \in {ddl, ddl + 1} /\ UNCHANGED <<progVars, raced>>
  BY DEF Ddl, LogRow, CreateTable, AddColumn, DropColumn, RebuildPartition, Change, KeepsUpInv
<1>2. Bounds'
  BY <1>1 DEF KeepsUpInv, Bounds, progVars
<1> QED BY <1>1, <1>2 DEF KeepsUpInv, AsNewAsItsVersion, AsNewAsThePoll, DraftIsNewer, progVars

LEMMA ScanKeepsUp ==
  ASSUME KeepsUpInv, Scan
  PROVE  KeepsUpInv'
<1> USE DEF KeepsUpInv, Bounds, AsNewAsItsVersion, AsNewAsThePoll, DraftIsNewer, Reading, Drafting,
            sourceVars, QueryFails
<1>1. CASE ScanColumns
  BY <1>1 DEF ScanColumns, ExtractColumns
<1>2. CASE ScanStorage
  BY <1>2 DEF ScanStorage, ExtractStorage, NoSchema
<1>3. CASE ScanVersion
  <2>1. CASE schemaVersion' = ddl /\ raced' = (ddl # sch.asOf)
    <3>1. ~raced' => ddl = sch.asOf
      BY <2>1
    <3> QED BY <1>3, <2>1, <3>1 DEF ScanVersion
  <2>2. CASE QueryFails /\ UNCHANGED <<schemaVersion, raced>>
    BY <1>3, <2>2 DEF ScanVersion
  <2> QED BY <1>3, <2>1, <2>2 DEF ScanVersion
<1> QED BY <1>1, <1>2, <1>3 DEF Scan

LEMMA PollKeepsUp ==
  ASSUME KeepsUpInv, Poll \/ PollExtractFails
  PROVE  KeepsUpInv'
<1> USE DEF KeepsUpInv, Bounds, AsNewAsItsVersion, AsNewAsThePoll, DraftIsNewer, Reading, Drafting,
            sourceVars, QueryFails
<1>1. CASE PollVersion
  BY <1>1 DEF PollVersion
<1>2. CASE PollColumns
  BY <1>2 DEF PollColumns, ExtractColumns
<1>3. CASE PollStorage
  BY <1>3 DEF PollStorage, ExtractStorage, NoSchema
<1>4. CASE PollExtractFails
  BY <1>4 DEF PollExtractFails, NoSchema
<1> QED BY <1>1, <1>2, <1>3, <1>4 DEF Poll

LEMMA RefreshKeepsUp ==
  ASSUME KeepsUpInv, RefreshUnknown \/ RefreshFails
  PROVE  KeepsUpInv'
<1> USE DEF KeepsUpInv, Bounds, AsNewAsItsVersion, AsNewAsThePoll, DraftIsNewer, Reading, Drafting,
            sourceVars, QueryFails
<1>1. CASE Refresh
  BY <1>1 DEF Refresh
<1>2. CASE RefreshColumns
  BY <1>2 DEF RefreshColumns, ExtractColumns
<1>3. CASE RefreshStorage
  <2>1. /\ sch'.asOf = draft.asOf /\ draft'.asOf = 0 /\ proc' = "refreshVersion"
        /\ UNCHANGED <<ddl, schemaVersion, version>>
    BY <1>3 DEF RefreshStorage, ExtractStorage, NoSchema
  <2>2. draft.asOf >= schemaVersion /\ draft.asOf >= version
    BY <1>3 DEF RefreshStorage
  <2> QED BY <2>1, <2>2
<1>4. CASE RefreshVersion
  <2>1. CASE schemaVersion' = ddl /\ raced' = (ddl # sch.asOf)
    <3>1. ~raced' => ddl = sch.asOf
      BY <2>1
    <3> QED BY <1>4, <2>1, <3>1 DEF RefreshVersion
  <2>2. CASE QueryFails /\ UNCHANGED <<schemaVersion, raced>>
    BY <1>4, <2>2 DEF RefreshVersion
  <2> QED BY <1>4, <2>1, <2>2 DEF RefreshVersion
<1>5. CASE RefreshFails
  BY <1>5 DEF RefreshFails, NoSchema
<1> QED BY <1>1, <1>2, <1>3, <1>4, <1>5 DEF RefreshUnknown

LEMMA RecordKeepsUp ==
  ASSUME KeepsUpInv, HandleRecord \/ EndPass
  PROVE  KeepsUpInv'
<1> USE DEF KeepsUpInv, Bounds, AsNewAsItsVersion, AsNewAsThePoll, DraftIsNewer, Reading, Drafting,
            sourceVars
<1>1. CASE HandleRecord
  BY <1>1 DEF HandleRecord
<1>2. CASE EndPass
  BY <1>2 DEF EndPass
<1> QED BY <1>1, <1>2

LEMMA KeepsUpNext == KeepsUpInv /\ [Next]_vars => KeepsUpInv'
<1> SUFFICES ASSUME KeepsUpInv, [Next]_vars PROVE KeepsUpInv'
  OBVIOUS
<1>1. CASE UNCHANGED vars
  BY <1>1 DEF vars, sourceVars, progVars, KeepsUpInv, Bounds, AsNewAsItsVersion, AsNewAsThePoll, DraftIsNewer
<1>2. CASE Next
  BY <1>2, SourceKeepsUp, ScanKeepsUp, PollKeepsUp, RefreshKeepsUp, RecordKeepsUp DEF Next, Program
<1> QED BY <1>1, <1>2

(* While a poll reads, the schema shows every change before its look at    *)
(* the version, unless a version was read after a change that the schema   *)
(* extracted before it does not show.                                      *)
THEOREM PollsReadWithTheirSchema == Spec => []SchemaKeepsUp
<1>1. KeepsUpInv => SchemaKeepsUp
  BY DEF KeepsUpInv, AsNewAsThePoll, Reading, SchemaKeepsUp
<1> QED BY <1>1, KeepsUpInit, KeepsUpNext, PTL DEF Spec

-----------------------------------------------------------------------------
(* Types.  A change gives out one column id at most, and the log is a      *)
(* sequence whatever it holds.                                             *)

Places ==
  {"scanCols", "scanStorage", "scanVersion", "scan", "idle", "pollCols", "pollStorage",
   "poll", "refreshCols", "refreshStorage", "refreshVersion"}
Entries == {log[i] : i \in 1..Len(log)}

Numbers ==
  /\ ddl \in 1..MaxDdl /\ lastId \in 2..(2 + ddl) /\ errors \in 0..MaxErrors
  /\ log \in Seq(Entries) /\ Len(log) <= MaxLsn /\ at \in 0..Len(log)
  /\ proc \in Places

Flags ==
  /\ visible \in BOOLEAN /\ refreshed \in BOOLEAN /\ raced \in BOOLEAN
  /\ refreshed => proc \in {"poll", "refreshCols", "refreshStorage", "refreshVersion"}

LEMMA SeqOfItsEntries ==
  ASSUME NEW S, NEW T, NEW s \in Seq(S), \A i \in 1..Len(s) : s[i] \in T
  PROVE  s \in Seq(T)
OBVIOUS

LEMMA NumbersInit == Init => Numbers
BY SchemaAssumption DEF Init, Numbers, Places, Entries, FirstCols, ColsWithGap

LEMMA NumbersNext ==
  ASSUME Numbers, [Next]_vars
  PROVE  Numbers'
<1> USE SchemaAssumption DEF Numbers, Places
<1>1. CASE Ddl
  <2>1. /\ ddl < MaxDdl /\ ddl' = ddl + 1 /\ UNCHANGED <<log, errors, at, proc>>
        /\ lastId' \in {lastId, lastId + 1}
    BY <1>1 DEF Ddl, CreateTable, AddColumn, DropColumn, RebuildPartition, Change, progVars
  <2>2. Entries' = Entries
    BY <2>1 DEF Entries
  <2> QED BY <2>1, <2>2
<1>2. CASE LogRow
  <2>1. PICK x : log' = Append(log, x)
    BY <1>2 DEF LogRow
  <2>2. log \in Seq(Entries \cup {x})
    OBVIOUS
  <2>3. log' \in Seq(Entries \cup {x}) /\ Len(log') = Len(log) + 1
    BY <2>1, <2>2
  <2>4. \A i \in 1..Len(log') : log'[i] \in Entries'
    BY DEF Entries
  <2>5. log' \in Seq(Entries')
    BY <2>3, <2>4, SeqOfItsEntries
  <2> QED BY <1>2, <2>3, <2>5 DEF LogRow, progVars
<1>3. CASE Program \/ HandleRecord \/ PollExtractFails \/ RefreshFails
  <2>1. UNCHANGED sourceVars /\ (UNCHANGED errors \/ QueryFails) /\ proc' \in Places
        /\ at' \in {at} \cup (IF at < Len(log) THEN {at + 1} ELSE {})
    <3>1. CASE Scan
      BY <1>3, <3>1 DEF Scan, ScanColumns, ScanStorage, ScanVersion, ExtractColumns
    <3>2. CASE Poll \/ PollExtractFails
      BY <1>3, <3>2 DEF Poll, PollVersion, PollColumns, PollStorage, ExtractColumns, PollExtractFails
    <3>3. CASE RefreshUnknown \/ RefreshFails
      BY <1>3, <3>3 DEF RefreshUnknown, Refresh, RefreshColumns, RefreshStorage, RefreshVersion,
         ExtractColumns, RefreshFails
    <3>4. CASE HandleRecord \/ EndPass
      BY <1>3, <3>4 DEF HandleRecord, NextRecord, EndPass
    <3> QED BY <1>3, <3>1, <3>2, <3>3, <3>4 DEF Program
  <2>2. Entries' = Entries
    BY <2>1 DEF Entries, sourceVars
  <2> QED BY <2>1, <2>2 DEF sourceVars, QueryFails
<1>4. CASE UNCHANGED vars
  <2>1. Entries' = Entries
    BY <1>4 DEF vars, sourceVars, Entries
  <2> QED BY <1>4, <2>1 DEF vars, sourceVars, progVars
<1> QED BY <1>1, <1>2, <1>3, <1>4 DEF Next

LEMMA FlagsInit == Init => Flags
BY Zenon DEF Init, Flags

LEMMA FlagsNext ==
  ASSUME Flags, [Next]_vars
  PROVE  Flags'
<1> USE DEF Flags
<1>1. CASE Ddl \/ LogRow
  <2>1. UNCHANGED <<visible, progVars, raced>>
    BY <1>1 DEF Ddl, CreateTable, AddColumn, DropColumn, RebuildPartition, Change, LogRow
  <2> QED BY <2>1 DEF progVars
<1>2. CASE Program \/ HandleRecord \/ PollExtractFails \/ RefreshFails
  <2>1. visible' = visible
    BY <1>2 DEF Program, Scan, Poll, RefreshUnknown, ScanColumns, ScanStorage, ScanVersion, PollVersion,
       PollColumns, PollStorage, Refresh, RefreshColumns, RefreshStorage, RefreshVersion, EndPass,
       HandleRecord, NextRecord, PollExtractFails, RefreshFails, ExtractColumns
  <2>2. raced' \in BOOLEAN
    <3>1. CASE ScanVersion \/ RefreshVersion
      BY <3>1, Zenon DEF ScanVersion, RefreshVersion
    <3>2. CASE RefreshStorage
      BY <3>2, Zenon DEF RefreshStorage
    <3>3. CASE raced' \in {raced, FALSE}
      BY <3>3
    <3>4. raced' \in {raced, FALSE} \/ ScanVersion \/ RefreshVersion \/ RefreshStorage
      BY <1>2 DEF Program, Scan, Poll, RefreshUnknown, ScanColumns, ScanStorage, PollVersion,
         PollColumns, PollStorage, Refresh, RefreshColumns, EndPass,
         HandleRecord, PollExtractFails, RefreshFails, ExtractColumns
    <3> QED BY <3>1, <3>2, <3>3, <3>4
  <2>3. refreshed' \in BOOLEAN /\ (refreshed' => proc' \in {"poll", "refreshCols", "refreshStorage", "refreshVersion"})
    <3>1. CASE Refresh \/ EndPass
      BY <3>1 DEF Refresh, EndPass
    <3>2. CASE RefreshColumns \/ RefreshStorage \/ RefreshVersion \/ RefreshFails
      BY <3>2 DEF RefreshColumns, RefreshStorage, RefreshVersion, RefreshFails, ExtractColumns
    <3>3. CASE Scan \/ Poll \/ PollExtractFails
      BY <3>3 DEF Scan, Poll, ScanColumns, ScanStorage, ScanVersion, PollVersion, PollColumns, PollStorage,
         PollExtractFails, ExtractColumns
    <3>4. CASE HandleRecord
      BY <3>4 DEF HandleRecord, NextRecord
    <3> QED BY <1>2, <3>1, <3>2, <3>3, <3>4 DEF Program, RefreshUnknown
  <2> QED BY <2>1, <2>2, <2>3
<1>3. CASE UNCHANGED vars
  BY <1>3 DEF vars, progVars
<1> QED BY <1>1, <1>2, <1>3 DEF Next

(* The variables have their types, and only a poll that is under way has   *)
(* looked for an unknown table.                                            *)
THEOREM SchemaTypes == Spec => []SchemaTypeOK
<1>1. KeepsUpInv /\ Numbers /\ Flags => SchemaTypeOK
  BY SchemaAssumption DEF KeepsUpInv, Bounds, Numbers, Flags, SchemaTypeOK, Places
<1> QED BY <1>1, KeepsUpInit, KeepsUpNext, NumbersInit, NumbersNext, FlagsInit, FlagsNext, PTL DEF Spec

-----------------------------------------------------------------------------
(* Layouts.  An id stands for one column of one type for ever; whatever    *)
(* has columns, the table, a partition, a row or a schema, has each id     *)
(* once.  types is the type of each id, and last the highest one in use.   *)

Ids == 1..(2 + MaxDdl)
LayoutOK(l, types, last) ==
  /\ l \in Seq(TableColumns)
  /\ \A i \in DOMAIN l : l[i].id \in 1..last /\ l[i].type = types[l[i].id]
  /\ \A i, j \in DOMAIN l : l[i].id = l[j].id => i = j

StorageOK(s, types, last, top) ==
  \A p \in DOMAIN s :
    /\ DOMAIN s[p] = {"unit", "format", "layout", "layouts"}
    /\ s[p].unit \in 0..top /\ s[p].format \in Formats
    /\ LayoutOK(s[p].layout, types, last)
    /\ \A l \in s[p].layouts : LayoutOK(l, types, last)

RecordOK(rec, types, last) ==
  /\ rec.format \in Formats /\ LayoutOK(rec.layout, types, last) /\ rec.value \in RowsOf(rec.layout)
  /\ rec.image = Encode(rec.format, rec.layout, rec.value) /\ FitsPage(rec.image)

ExtractOK(s, types, last) ==
  /\ LayoutOK(s.cols, types, last) /\ s.units = [u \in DOMAIN s.units |-> s.units[u]]
  /\ \A u \in DOMAIN s.units :
       u \in Nat /\ s.units[u].format \in Formats /\ LayoutOK(s.units[u].physical, types, last)

DecodedOK(dec, types, last) ==
  dec = Nothing \/ \E rec, s : dec = Generate(rec, s) /\ RecordOK(rec, types, last) /\ ExtractOK(s, types, last)

TopUnit == Cardinality(Parts) + ddl
SourceLayouts(types) ==
  /\ types[1] = "tinyint" /\ types[2] = "varchar"
  /\ LayoutOK(cols, types, lastId) /\ StorageOK(storage, types, lastId, TopUnit)
  /\ \A i \in 1..Len(log) : RecordOK(log[i], types, lastId)
ProgramLayouts(types) ==
  ExtractOK(sch, types, lastId) /\ ExtractOK(draft, types, lastId) /\ DecodedOK(decoded, types, lastId)

(* Every partition has its storage, once there is a table.                 *)
PartitionsOK == (cols # <<>> => DOMAIN storage = Parts) /\ (DOMAIN storage = {} \/ DOMAIN storage = Parts)

LayoutsInv == PartitionsOK /\ \E types \in [Ids -> Types] : SourceLayouts(types) /\ ProgramLayouts(types)

LEMMA NoLayout == \A types, last : LayoutOK(<<>>, types, last)
BY DEF LayoutOK

(* What the schema gives the decoders.                                     *)
LEMMA GivenToDecoders ==
  ASSUME NEW s, NEW types, NEW last, ExtractOK(s, types, last), NEW unit
  PROVE  /\ ResolveCompression(s, unit) \in {"NONE", "ROW"}
         /\ LayoutOK(tableWithPhysicalCols(s, unit), types, last)
<1>1. PICK U : U = DOMAIN s.units
  OBVIOUS
<1>2. \A u \in U : u \in Nat /\ s.units[u].format \in {"NONE", "ROW"} /\ LayoutOK(s.units[u].physical, types, last)
  BY <1>1, SchemaAssumption DEF ExtractOK
<1>3. ResolveCompression(s, unit) \in {"NONE", "ROW"}
  BY <1>1, <1>2 DEF ResolveCompression
<1>4. LayoutOK(tableWithPhysicalCols(s, unit), types, last)
  <2>1. CASE unit \in U
    BY <1>1, <1>2, <2>1 DEF tableWithPhysicalCols
  <2>2. CASE unit \notin U /\ s.units = <<>>
    BY <1>1, <2>2, NoLayout DEF tableWithPhysicalCols
  <2>3. CASE unit \notin U /\ s.units # <<>> /\ U # {}
    <3>1. U \in SUBSET Nat
      BY <1>2
    <3>2. \E u \in U : \A w \in U : u <= w
      BY <2>3, <3>1, LeastMember
    <3>3. (CHOOSE u \in U : \A w \in U : u <= w) \in U
      BY <3>2
    <3>. QED BY <1>1, <1>2, <2>3, <3>3 DEF tableWithPhysicalCols
  <2>4. U = {} => s.units = <<>>
    <3>1. SUFFICES ASSUME U = {} PROVE s.units = <<>>
      OBVIOUS
    <3>2. s.units = [u \in {} |-> s.units[u]]
      BY <1>1, <3>1 DEF ExtractOK
    <3>. QED BY <3>2
  <2>. QED BY <2>1, <2>2, <2>3, <2>4
<1>. QED BY <1>3, <1>4


(* The value that a row has for a column, NULL if it has not the column.   *)
ValueIn(rec, id) == IF id \in Written(rec.layout) THEN rec.value[id] ELSE Null
RowRead(rec) ==
  /\ IsRow(rec.layout, rec.value) /\ Len(rec.layout) \in Nat /\ DOMAIN rec.layout = 1..Len(rec.layout)
  /\ \A k \in DOMAIN rec.layout : ValueIn(rec, rec.layout[k].id) = rec.value[rec.layout[k].id]
  /\ \A id : (\A k \in DOMAIN rec.layout : rec.layout[k].id # id) => ValueIn(rec, id) = Null
  /\ \A k \in DOMAIN rec.layout : rec.layout[k].id \in DOMAIN rec.value

LEMMA RowOfRecord ==
  ASSUME NEW rec, NEW types, NEW last, RecordOK(rec, types, last)
  PROVE  RowRead(rec)
<1>1. PICK l, v : l = rec.layout /\ v = rec.value
  OBVIOUS
<1>2. l \in Seq(TableColumns) /\ Len(l) \in Nat /\ DOMAIN l = 1..Len(l)
  BY <1>1 DEF RecordOK, LayoutOK
<1>3. \A i, j \in DOMAIN l : l[i].id = l[j].id => i = j
  BY <1>1 DEF RecordOK, LayoutOK
<1>4. v \in RowsOf(l)
  BY <1>1 DEF RecordOK
<1>5. /\ DOMAIN v = {l[i].id : i \in DOMAIN l}
      /\ \A i \in DOMAIN l : v[l[i].id] \in IF l[i].phantom THEN {Null} ELSE Values(l[i])
  BY <1>4 DEF RowsOf
<1>6. ASSUME NEW i \in DOMAIN l PROVE l[i] \in TableColumns /\ v[l[i].id] \in StoredValues(l[i])
  <2>1. l[i] \in TableColumns
    BY <1>2
  <2>2. Values(l[i]) \subseteq StoredValues(l[i])
    BY <2>1, SchemaAssumption
  <2>3. Null \in StoredValues(l[i])
    BY DEF StoredValues
  <2>. QED BY <1>5, <2>1, <2>2, <2>3
<1>7. IsRow(l, v)
  <2>1. TableColumns \subseteq Columns
    BY SchemaAssumption DEF TableColumns, Columns, Types
  <2>2. l \in Seq(Columns)
    BY <1>2, <2>1, SeqMonotonic
  <2>. QED BY <1>6, <2>2 DEF IsRow
<1>8. ASSUME NEW k \in DOMAIN l PROVE (IF l[k].id \in Written(l) THEN v[l[k].id] ELSE Null) = v[l[k].id]
  <2>1. CASE l[k].phantom
    BY <1>5, <2>1
  <2>2. CASE ~l[k].phantom
    BY <2>2 DEF Written
  <2>. QED BY <2>1, <2>2
<1>9. ASSUME NEW id, \A k \in DOMAIN l : l[k].id # id PROVE id \notin Written(l)
  BY <1>9 DEF Written
<1>10. \A k \in DOMAIN l : l[k].id \in DOMAIN v
  BY <1>5
<1>. QED BY <1>1, <1>2, <1>7, <1>8, <1>9, <1>10, Zenon DEF RowRead, ValueIn

(* Of two layouts that agree as far as both go, the columns have the same  *)
(* types, and what the longer one has more is not in the other.            *)
LEMMA LayoutsAlike ==
  ASSUME NEW a, NEW b, NEW types, NEW last, LayoutOK(a, types, last), LayoutOK(b, types, last), SameSoFar(a, b)
  PROVE  /\ SameKinds(b, a)
         /\ \A i \in DOMAIN b : i > Len(a) => \A k \in DOMAIN a : a[k].id # b[i].id
         /\ \A i \in DOMAIN b : i <= Len(a) => i \in DOMAIN a /\ a[i].id = b[i].id
<1>1. /\ Len(a) \in Nat /\ Len(b) \in Nat /\ DOMAIN a = 1..Len(a) /\ DOMAIN b = 1..Len(b)
  BY DEF LayoutOK
<1>2. \A i \in DOMAIN b : i <= Len(a) => i \in DOMAIN a /\ a[i].id = b[i].id
  BY <1>1 DEF SameSoFar
<1>3. SameKinds(b, a)
  <2>1. ASSUME NEW i \in 1..Len(a), i <= Len(b) PROVE Fixed(b[i]) = Fixed(a[i])
    <3>1. i \in DOMAIN a /\ i \in DOMAIN b /\ a[i].id = b[i].id
      BY <1>1, <1>2, <2>1
    <3>2. a[i].type = b[i].type
      BY <3>1 DEF LayoutOK
    <3>. QED BY <3>2 DEF Fixed
  <2>. QED BY <1>1, <2>1 DEF SameKinds
<1>4. ASSUME NEW i \in DOMAIN b, i > Len(a), NEW k \in DOMAIN a, a[k].id = b[i].id PROVE FALSE
  <2>1. k \in DOMAIN b /\ a[k].id = b[k].id /\ k # i
    BY <1>1, <1>2, <1>4
  <2>. QED BY <1>4, <2>1 DEF LayoutOK
<1>. QED BY <1>2, <1>3, <1>4

(* What is read of a row, and why it may be refused.                       *)
ReadsExactly(res, rec, s) == \A i \in DOMAIN s.cols : res.vals[i] = ValueIn(rec, s.cols[i].id)
LobIn(rec) == \E id \in DOMAIN rec.value : rec.value[id] = Lob
RefusedFor(rec, s) == LobIn(rec) \/ Len(rec.layout) > Len(s.cols) \/ HasGaps(s.cols)
WellRead(res, rec, s) ==
  /\ res.err = "" => ReadsExactly(res, rec, s)
  /\ res.err # "" => RefusedFor(rec, s)

(* An uncompressed row, by DecodeRow.                                      *)
LEMMA PlainRead ==
  ASSUME NEW rec, NEW s, NEW types, NEW last, RecordOK(rec, types, last), ExtractOK(s, types, last),
         rec.format = "NONE", SameSoFar(rec.layout, s.cols)
  PROVE  WellRead(DecodeRow(rec.image, s.cols), rec, s)
<1>1. PICK l, v, c : l = rec.layout /\ v = rec.value /\ c = s.cols
  OBVIOUS
<1>2. RowRead(rec)
  BY RowOfRecord
<1>3. IsRow(l, v) /\ Len(l) \in Nat /\ DOMAIN l = 1..Len(l)
  BY <1>1, <1>2 DEF RowRead
<1>4. rec.image = EncodePlain(l, v) /\ FitsPage(EncodePlain(l, v))
  BY <1>1 DEF RecordOK, Encode
<1>5. LayoutOK(l, types, last) /\ LayoutOK(c, types, last) /\ SameSoFar(l, c)
  BY <1>1 DEF RecordOK, ExtractOK
<1>6. SameKinds(c, l)
  BY <1>5, LayoutsAlike
<1>7. Padded(rec.image, EncodePlain(l, v))
  <2>1. EncodePlain(l, v) \in Seq(Int)
    BY <1>3, PlainRow DEF PlainLayout
  <2>. QED BY <1>4, <2>1 DEF Padded
<1>8. PICK res : res = DecodeRow(rec.image, c)
  OBVIOUS
<1>9. PlainDecoded(res, l, v, c)
  BY <1>3, <1>4, <1>6, <1>7, <1>8, PlainDecode
<1>10. CASE Len(l) > Len(c) \/ (Len(l) = Len(c) /\ HasGaps(c))
  <2>1. res = Refused("SchemaMismatch")
    BY <1>9, <1>10 DEF PlainDecoded
  <2>. QED BY <1>1, <1>8, <1>10, <2>1 DEF WellRead, RefusedFor, Refused
<1>11. CASE ~(Len(l) > Len(c) \/ (Len(l) = Len(c) /\ HasGaps(c)))
  <2>1. CASE \E i \in 1..Len(l) : v[l[i].id] = Lob
    <3>1. res = Refused("OffRowLOB")
      BY <1>9, <1>11, <2>1 DEF PlainDecoded
    <3>2. \A i \in 1..Len(l) : l[i].id \in DOMAIN v
      BY <1>1, <1>2, <1>3 DEF RowRead
    <3>3. LobIn(rec)
      BY <1>1, <2>1, <3>2 DEF LobIn
    <3>. QED BY <1>1, <1>8, <3>1, <3>3 DEF WellRead, RefusedFor, Refused
  <2>2. CASE ~\E i \in 1..Len(l) : v[l[i].id] = Lob
    <3>1. res = Accepted([i \in DOMAIN c |-> IF i <= Len(l) THEN v[l[i].id] ELSE Null])
      BY <1>9, <1>11, <2>2 DEF PlainDecoded
    <3>2. res.err = "" /\ res.vals = [i \in DOMAIN c |-> IF i <= Len(l) THEN v[l[i].id] ELSE Null]
      BY <3>1, AcceptedOk
    <3>3. ASSUME NEW i \in DOMAIN c PROVE res.vals[i] = ValueIn(rec, c[i].id)
      <4>1. CASE i <= Len(l)
        <5>1. i \in DOMAIN l /\ l[i].id = c[i].id
          BY <1>5, <4>1, LayoutsAlike
        <5>2. ValueIn(rec, l[i].id) = v[l[i].id]
          BY <1>1, <1>2, <5>1 DEF RowRead
        <5>. QED BY <3>2, <4>1, <5>1, <5>2
      <4>2. CASE ~(i <= Len(l))
        <5>1. i > Len(l)
          <6>. i \in Nat
            BY <1>5 DEF LayoutOK
          <6>. QED BY <1>3, <4>2
        <5>2. \A k \in DOMAIN l : l[k].id # c[i].id
          BY <1>5, <5>1, LayoutsAlike
        <5>3. ValueIn(rec, c[i].id) = Null
          BY <1>1, <1>2, <5>2 DEF RowRead
        <5>. QED BY <3>2, <4>2, <5>3
      <4>. QED BY <4>1, <4>2
    <3>4. ReadsExactly(res, rec, s)
      BY <1>1, <3>3 DEF ReadsExactly
    <3>. QED BY <1>1, <1>8, <3>2, <3>4 DEF WellRead
  <2>. QED BY <2>1, <2>2
<1>. QED BY <1>10, <1>11

(* A compressed row, by CompressedDecode, with physical columns or those   *)
(* of the schema, when the two agree.                                      *)
Agree(l, phys, c) ==
  /\ ~\E i \in DOMAIN c : c[i].id \notin Written(phys)
  /\ SameSoFar(l, phys) /\ Len(l) <= Len(phys) /\ PayloadStart(Len(l)) = PayloadStart(Len(phys))

LEMMA CompressedRead ==
  ASSUME StringsReadable, NEW rec, NEW s, NEW types, NEW last, RecordOK(rec, types, last), ExtractOK(s, types, last),
         rec.format = "ROW", NEW physical, LayoutOK(physical, types, last),
         Agree(rec.layout, IF physical # <<>> THEN physical ELSE s.cols, s.cols)
  PROVE  /\ CompressedDecode(rec.image, s.cols, physical).err = ""
         /\ ~LobIn(rec) => ReadsExactly(CompressedDecode(rec.image, s.cols, physical), rec, s)
<1>1. PICK l, v, c, phys : /\ l = rec.layout /\ v = rec.value /\ c = s.cols
                           /\ phys = IF physical # <<>> THEN physical ELSE c
  OBVIOUS
<1>2. RowRead(rec)
  BY RowOfRecord
<1>3. IsRow(l, v) /\ Len(l) \in Nat /\ DOMAIN l = 1..Len(l)
  BY <1>1, <1>2 DEF RowRead
<1>4. PICK row : row = rec.image
  OBVIOUS
<1>5. row = EncodeCompressed(l, v) /\ FitsPage(row)
  BY <1>1, <1>4 DEF RecordOK, Encode
<1>6. LayoutOK(l, types, last) /\ LayoutOK(c, types, last) /\ LayoutOK(phys, types, last)
  BY <1>1 DEF RecordOK, ExtractOK
<1>7. Agree(l, phys, c)
  BY <1>1
<1>8. SameKinds(phys, l)
  BY <1>6, <1>7, LayoutsAlike DEF Agree
<1>9. Len(phys) \in Nat /\ DOMAIN phys = 1..Len(phys)
  BY <1>6 DEF LayoutOK
<1>10. HasRoom(Len(phys), l)
  <2>1. PICK m, n : m = Len(l) /\ n = Len(phys)
    OBVIOUS
  <2>2. m \in Nat /\ n \in Nat /\ m <= n /\ PayloadStart(m) = PayloadStart(n)
    BY <1>3, <1>7, <1>9, <2>1 DEF Agree
  <2>3. (n + 1) \div 2 = (m + 1) \div 2
    <3>1. (n + 1) \div 2 \in Nat /\ (m + 1) \div 2 \in Nat
      BY <2>2
    <3>. QED BY <2>2, <3>1 DEF PayloadStart
  <2>. QED BY <2>1, <2>2, <2>3 DEF HasRoom
<1>11. Readable(l, v)
  <2>. SUFFICES ASSUME NEW i \in DOMAIN l, ~Fixed(l[i]), v[l[i].id] \notin {Null, Lob, <<>>}
                PROVE  v[l[i].id][1] # 0
    BY Zenon DEF Readable
  <2>1. v \in RowsOf(l) /\ l[i] \in TableColumns
    BY <1>1, <1>6 DEF RecordOK, LayoutOK
  <2>2. v[l[i].id] \in IF l[i].phantom THEN {Null} ELSE Values(l[i])
    BY <2>1 DEF RowsOf
  <2>3. v[l[i].id] \in Values(l[i])
    BY <2>2
  <2>. QED BY <2>1, <2>3 DEF StringsReadable
<1>12. CompressedLayout(row, l, v)
  BY <1>3, <1>5, CompressedRowLayout
<1>13. PICK res : res = CompressedDecode(row, c, physical)
  OBVIOUS
<1>14. CompressedDecoded(res, l, v, phys, c)
  BY <1>1, <1>3, <1>5, <1>8, <1>10, <1>11, <1>12, <1>13, CompressedDecodes
<1>. DEFINE at2(id) == {k \in DOMAIN phys : phys[k].id = id /\ ~phys[k].phantom}
            val(i) == IF at2(c[i].id) = {} THEN Null ELSE Shown(ValueOf(l, v, Max(at2(c[i].id))))
<1>15. res = Accepted([i \in DOMAIN c |-> val(i)])
  BY <1>14 DEF CompressedDecoded
<1>16. ASSUME ~LobIn(rec), NEW i \in DOMAIN c PROVE val(i) = ValueIn(rec, c[i].id)
  <2>1. c[i].id \in Written(phys)
    BY <1>7 DEF Agree
  <2>2. PICK k \in DOMAIN phys : phys[k].id = c[i].id /\ ~phys[k].phantom
    BY <2>1 DEF Written
  <2>3. at2(c[i].id) = {k}
    BY <1>6, <2>2 DEF LayoutOK
  <2>4. k \in 1..Len(phys)
    BY <1>9
  <2>5. Max({k}) = k
    <3>1. k \in Nat /\ {k} \in SUBSET (0..k)
      BY <1>9, <2>4
    <3>. QED BY <3>1, MaxMember
  <2>6. val(i) = Shown(ValueOf(l, v, k))
    <3>1. PICK S : S = at2(c[i].id)
      OBVIOUS
    <3>2. val(i) = IF S = {} THEN Null ELSE Shown(ValueOf(l, v, Max(S)))
      BY <3>1
    <3>. QED BY <2>3, <2>5, <3>1, <3>2
  <2>7. CASE k > Len(l)
    <3>1. \A j \in DOMAIN l : l[j].id # phys[k].id
      BY <1>6, <1>7, <2>7, LayoutsAlike DEF Agree
    <3>2. ValueIn(rec, c[i].id) = Null
      BY <1>1, <1>2, <2>2, <3>1 DEF RowRead
    <3>3. ValueOf(l, v, k) = Null
      BY <2>7 DEF ValueOf
    <3>4. Shown(Null) = Null
      BY DEF Shown
    <3>. QED BY <2>6, <3>2, <3>3, <3>4
  <2>8. CASE ~(k > Len(l))
    <3>1. k <= Len(l)
      BY <1>3, <1>9, <2>4, <2>8
    <3>2. k \in DOMAIN l /\ l[k].id = phys[k].id
      BY <1>6, <1>7, <3>1, LayoutsAlike DEF Agree
    <3>3. ValueIn(rec, c[i].id) = v[l[k].id] /\ l[k].id \in DOMAIN v
      BY <1>1, <1>2, <2>2, <3>2 DEF RowRead
    <3>4. v[l[k].id] # Lob
      BY <1>1, <1>16, <3>3 DEF LobIn
    <3>5. ValueOf(l, v, k) = v[l[k].id]
      BY <2>8 DEF ValueOf
    <3>. QED BY <2>6, <3>3, <3>4, <3>5 DEF Shown
  <2>. QED BY <2>7, <2>8
<1>. HIDE DEF val
<1>17. res.err = "" /\ res.vals = [i \in DOMAIN c |-> val(i)]
  BY <1>15, AcceptedOk
<1>18. ~LobIn(rec) => ReadsExactly(res, rec, s)
  BY <1>1, <1>16, <1>17 DEF ReadsExactly
<1>. QED BY <1>1, <1>4, <1>13, <1>17, <1>18

(* What Generate makes of a record, where layouts agree.                   *)
AgreeFor(dec, rec, s) ==
  IF rec.format = "NONE" THEN SameSoFar(rec.layout, s.cols)
  ELSE Agree(rec.layout, IF dec.physical # <<>> THEN dec.physical ELSE s.cols, s.cols)
ReadAsWritten(dec, rec, s) ==
  /\ /\ dec.res.err = "" /\ (rec.format = "NONE" \/ ~LobIn(rec))
     /\ dec.format = rec.format \/ (rec.format = "NONE" /\ ~Bit(rec.image[1], 5))
     => ReadsExactly(dec.res, rec, s)
  /\ dec.res.err # "" /\ dec.format = rec.format => rec.format = "NONE" /\ RefusedFor(rec, s)

LEMMA GenerateReads ==
  ASSUME StringsReadable, NEW rec, NEW s, NEW types, NEW last, RecordOK(rec, types, last), ExtractOK(s, types, last),
         Known(s), NEW dec, dec = Generate(rec, s), AgreeFor(dec, rec, s)
  PROVE  ReadAsWritten(dec, rec, s)
<1>1. PICK format, physical, row : /\ format = ResolveCompression(s, rec.unit) /\ row = rec.image
                                   /\ physical = tableWithPhysicalCols(s, rec.unit)
  OBVIOUS
<1>2. /\ dec.format = format /\ dec.physical = physical
      /\ dec.res = decodeRowImage(row, s.cols, physical, format)
  BY <1>1 DEF Generate
<1>3. format \in {"NONE", "ROW"} /\ LayoutOK(physical, types, last)
  BY <1>1, GivenToDecoders
<1>4. rec.format \in {"NONE", "ROW"}
  BY SchemaAssumption DEF RecordOK
<1>5. CASE rec.format = "NONE"
  <2>1. PICK plain : plain = DecodeRow(row, s.cols)
    OBVIOUS
  <2>2. WellRead(plain, rec, s)
    BY <1>1, <1>5, <2>1, PlainRead DEF AgreeFor
  <2>3. CASE format = "NONE"
    <3>1. dec.res = plain
      BY <1>2, <2>1, <2>3 DEF decodeRowImage, DecodeDMLRowImage
    <3>. QED BY <1>2, <1>5, <2>2, <2>3, <3>1, Zenon DEF WellRead, ReadAsWritten
  <2>4. CASE format = "ROW"
    <3>1. dec.format # rec.format
      BY <1>2, <1>5, <2>4
    <3>2. CASE Bit(row[1], 5)
      BY <1>1, <3>1, <3>2 DEF ReadAsWritten
    <3>3. CASE ~Bit(row[1], 5)
      <4>1. CompressedDecode(row, s.cols, physical) = Refused("ParseFailed")
        BY <3>3 DEF CompressedDecode
      <4>2. Refused("ParseFailed").err # ""
        BY DEF Refused
      <4>3. dec.res.err = "" => dec.res = plain
        BY <1>2, <2>1, <2>4, <4>1, <4>2 DEF decodeRowImage, DecodeDMLRowImage
      <4>. QED BY <2>2, <3>1, <4>3, Zenon DEF WellRead, ReadAsWritten
    <3>. QED BY <3>2, <3>3
  <2>. QED BY <1>3, <2>3, <2>4
<1>6. CASE rec.format = "ROW"
  <2>1. CASE format = "ROW"
    <3>1. PICK first : first = CompressedDecode(row, s.cols, physical)
      OBVIOUS
    <3>2. Agree(rec.layout, IF physical # <<>> THEN physical ELSE s.cols, s.cols)
      BY <1>2, <1>6 DEF AgreeFor
    <3>3. first.err = "" /\ (~LobIn(rec) => ReadsExactly(first, rec, s))
      BY <1>1, <1>3, <1>6, <3>1, <3>2, CompressedRead
    <3>4. dec.res = first
      <4>1. "" # "ParseFailed"
        OBVIOUS
      <4>2. DecodeDMLRowImage(row, s.cols, physical, format) = first
        BY <2>1, <3>1 DEF DecodeDMLRowImage
      <4>. QED BY <1>2, <3>3, <4>1, <4>2, Zenon DEF decodeRowImage
    <3>. QED BY <1>6, <3>3, <3>4 DEF ReadAsWritten
  <2>2. CASE format = "NONE"
    BY <1>2, <1>6, <2>2 DEF ReadAsWritten
  <2>. QED BY <1>3, <2>1, <2>2
<1>. QED BY <1>4, <1>5, <1>6

(* The two properties, of what the invariant says of the last record.      *)
LEMMA ReadingIsRight ==
  ASSUME StringsReadable, NEW types, NEW last, DecodedOK(decoded, types, last)
  PROVE  DecodesWhatWasWritten /\ RefusesOnlyWhatDiffers
<1>1. CASE decoded = Nothing
  <2>1. ~Happened
    BY <1>1 DEF Happened, d, Nothing
  <2>. QED BY <2>1 DEF DecodesWhatWasWritten, RefusesOnlyWhatDiffers
<1>2. CASE decoded # Nothing
  <2>1. PICK rec, s : decoded = Generate(rec, s) /\ RecordOK(rec, types, last) /\ ExtractOK(s, types, last)
    BY <1>2 DEF DecodedOK
  <2>2. PICK dec : dec = decoded
    OBVIOUS
  <2>3. dec.rec = rec /\ dec.sch = s
    BY <2>1, <2>2 DEF Generate
  <2>4. CASE Happened /\ LayoutsAgree
    <3>1. Known(s)
      BY <2>2, <2>3, <2>4 DEF Happened, d
    <3>2. AgreeFor(dec, rec, s)
      <4>1. CASE rec.format = "NONE"
        <5>1. SameSoFar(rec.layout, s.cols)
          BY <2>2, <2>3, <2>4, <4>1, Zenon DEF LayoutsAgree, d
        <5>. QED BY <4>1, <5>1 DEF AgreeFor
      <4>2. CASE rec.format # "NONE"
        <5>1. Physical = IF dec.physical # <<>> THEN dec.physical ELSE s.cols
          BY <2>2, <2>3, Zenon DEF Physical, d
        <5>2. ~\E i \in DOMAIN s.cols : s.cols[i].id \notin Written(Physical)
          BY <2>2, <2>3, <2>4, <4>2, Zenon DEF LayoutsAgree, Torn, d
        <5>3. /\ SameSoFar(rec.layout, Physical) /\ Len(rec.layout) <= Len(Physical)
              /\ PayloadStart(Len(rec.layout)) = PayloadStart(Len(Physical))
          BY <2>2, <2>3, <2>4, <4>2, Zenon DEF LayoutsAgree, d
        <5>4. Agree(rec.layout, Physical, s.cols)
          BY <5>2, <5>3, Zenon DEF Agree
        <5>. QED BY <4>2, <5>1, <5>4 DEF AgreeFor
      <4>. QED BY <4>1, <4>2
    <3>3. ReadAsWritten(dec, rec, s)
      BY <2>1, <2>2, <3>1, <3>2, GenerateReads
    <3>4. HasLob <=> LobIn(rec)
      BY <2>2, <2>3, Zenon DEF HasLob, LobIn, d
    <3>5. HasVar <=> Bit(rec.image[1], 5)
      BY <2>2, <2>3, Zenon DEF HasVar, d
    <3>6. Ok <=> dec.res.err = ""
      BY <2>2, Zenon DEF Ok, d
    <3>7. ReadsExactly(dec.res, rec, s) => Exact
      BY <2>2, <2>3, Zenon DEF ReadsExactly, Exact, TrueValue, ValueIn, d
    <3>8. DecodesWhatWasWritten
      BY <2>2, <2>3, <3>3, <3>4, <3>5, <3>6, <3>7, Zenon DEF ReadAsWritten, DecodesWhatWasWritten, d
    <3>9. RefusesOnlyWhatDiffers
      BY <2>2, <2>3, <3>3, <3>4, <3>6, Zenon DEF ReadAsWritten, RefusedFor, RefusesOnlyWhatDiffers, d
    <3>. QED BY <3>8, <3>9
  <2>5. CASE ~(Happened /\ LayoutsAgree)
    BY <2>5 DEF DecodesWhatWasWritten, RefusesOnlyWhatDiffers
  <2>. QED BY <2>4, <2>5
<1>. QED BY <1>1, <1>2

-----------------------------------------------------------------------------
(* What a step does to the layouts.  types2 and last2 are types and last   *)
(* with one column more, or as they were.                                  *)
Extends(types2, last2, types, last) ==
  /\ last \in Nat /\ last2 \in Nat /\ last <= last2 /\ last2 <= 2 + MaxDdl
  /\ \A id \in 1..last : types2[id] = types[id]

LEMMA LayoutKept ==
  ASSUME NEW types, NEW last, NEW types2, NEW last2, Extends(types2, last2, types, last),
         NEW l, LayoutOK(l, types, last)
  PROVE  LayoutOK(l, types2, last2)
BY DEF LayoutOK, Extends

LEMMA RecordKept ==
  ASSUME NEW types, NEW last, NEW types2, NEW last2, Extends(types2, last2, types, last),
         NEW rec, RecordOK(rec, types, last)
  PROVE  RecordOK(rec, types2, last2)
<1>1. LayoutOK(rec.layout, types2, last2)
  <2>1. LayoutOK(rec.layout, types, last)
    BY DEF RecordOK
  <2>. QED BY <2>1, LayoutKept
<1>. QED BY <1>1 DEF RecordOK

LEMMA ExtractKept ==
  ASSUME NEW types, NEW last, NEW types2, NEW last2, Extends(types2, last2, types, last),
         NEW s, ExtractOK(s, types, last)
  PROVE  ExtractOK(s, types2, last2)
<1>1. \A l : LayoutOK(l, types, last) => LayoutOK(l, types2, last2)
  BY LayoutKept
<1>. QED BY <1>1 DEF ExtractOK

LEMMA DecodedKept ==
  ASSUME NEW types, NEW last, NEW types2, NEW last2, Extends(types2, last2, types, last),
         NEW dec, DecodedOK(dec, types, last)
  PROVE  DecodedOK(dec, types2, last2)
<1>1. CASE dec = Nothing
  BY <1>1 DEF DecodedOK
<1>2. CASE dec # Nothing
  <2>1. PICK rec, s : dec = Generate(rec, s) /\ RecordOK(rec, types, last) /\ ExtractOK(s, types, last)
    BY <1>2 DEF DecodedOK
  <2>2. RecordOK(rec, types2, last2) /\ ExtractOK(s, types2, last2)
    BY <2>1, RecordKept, ExtractKept
  <2>. QED BY <2>1, <2>2 DEF DecodedOK
<1>. QED BY <1>1, <1>2

(* A column is added, at the end.                                          *)
LEMMA LayoutAppend ==
  ASSUME NEW types, NEW last, NEW types2, NEW last2, Extends(types2, last2, types, last),
         NEW l, LayoutOK(l, types, last), last2 = last + 1, NEW type \in Types, types2[last2] = type
  PROVE  LayoutOK(Append(l, Column(last2, type)), types2, last2)
<1>1. PICK new, m : new = Column(last2, type) /\ m = Append(l, new)
  OBVIOUS
<1>2. new.id = last2 /\ new.type = type /\ new \in TableColumns
  BY <1>1 DEF Column, TableColumns, Extends
<1>3. l \in Seq(TableColumns) /\ Len(l) \in Nat /\ DOMAIN l = 1..Len(l)
  BY DEF LayoutOK
<1>4. /\ m \in Seq(TableColumns) /\ DOMAIN m = 1..(Len(l) + 1)
      /\ \A i \in 1..Len(l) : m[i] = l[i]
      /\ m[Len(l) + 1] = new
  BY <1>1, <1>2, <1>3
<1>5. \A i \in 1..Len(l) : l[i].id \in 1..last /\ l[i].type = types[l[i].id]
  BY <1>3 DEF LayoutOK
<1>6. \A i, j \in 1..Len(l) : l[i].id = l[j].id => i = j
  BY <1>3 DEF LayoutOK
<1>7. \A i \in 1..(Len(l) + 1) : i \in 1..Len(l) \/ i = Len(l) + 1
  BY <1>3
<1>8. last2 \in 1..last2 /\ last2 \notin 1..last /\ 1..last \subseteq 1..last2
  BY DEF Extends
<1>9. ASSUME NEW i \in DOMAIN m PROVE m[i].id \in 1..last2 /\ m[i].type = types2[m[i].id]
  <2>1. CASE i \in 1..Len(l)
    BY <1>4, <1>5, <1>8, <2>1 DEF Extends
  <2>2. CASE i = Len(l) + 1
    BY <1>2, <1>4, <1>8, <2>2
  <2>. QED BY <1>4, <1>7, <2>1, <2>2
<1>10. ASSUME NEW i \in DOMAIN m, NEW j \in DOMAIN m, m[i].id = m[j].id PROVE i = j
  <2>1. \A k \in 1..Len(l) : m[k].id # last2
    BY <1>4, <1>5, <1>8
  <2>2. m[Len(l) + 1].id = last2
    BY <1>2, <1>4
  <2>. QED BY <1>4, <1>6, <1>7, <1>10, <2>1, <2>2
<1>. QED BY <1>1, <1>4, <1>9, <1>10 DEF LayoutOK

(* A column is removed.                                                    *)
LEMMA LayoutRemove ==
  ASSUME NEW types, NEW last, NEW l, LayoutOK(l, types, last), NEW i \in DOMAIN l
  PROVE  LayoutOK(RemoveAt(l, i), types, last)
<1>1. PICK n \in Nat : n = Len(l)
  BY DEF LayoutOK
<1>2. l \in Seq(TableColumns) /\ DOMAIN l = 1..n /\ i \in 1..n
  BY <1>1 DEF LayoutOK
<1>3. PICK a, b, m : a = SubSeq(l, 1, i - 1) /\ b = SubSeq(l, i + 1, n) /\ m = a \o b
  OBVIOUS
<1>4. a \in Seq(TableColumns) /\ Len(a) = i - 1 /\ \A k \in 1..(i - 1) : a[k] = l[k]
  BY <1>1, <1>2, <1>3
<1>5. b \in Seq(TableColumns) /\ Len(b) = n - i /\ \A k \in 1..(n - i) : b[k] = l[i + k]
  <2>1. \A k \in (i + 1)..n : l[k] \in TableColumns
    BY <1>1, <1>2
  <2>2. i + 1 \in Int /\ n \in Int
    BY <1>2
  <2>3. /\ b \in Seq(TableColumns) /\ Len(b) = IF i + 1 <= n THEN n - (i + 1) + 1 ELSE 0
        /\ \A k \in 1..(n - (i + 1) + 1) : b[k] = l[i + 1 + k - 1]
    BY <1>3, <2>1, <2>2, SubSeqProperties
  <2>4. n - (i + 1) + 1 = n - i /\ (IF i + 1 <= n THEN n - (i + 1) + 1 ELSE 0) = n - i
    BY <1>2
  <2>5. \A k \in 1..(n - i) : i + 1 + k - 1 = i + k
    BY <1>2
  <2>. QED BY <2>3, <2>4, <2>5
<1>6. m \in Seq(TableColumns) /\ Len(m) = n - 1
  <2>1. PICK p \in Seq(TableColumns), q \in Seq(TableColumns) : p = a /\ q = b
    BY <1>4, <1>5
  <2>2. p \o q \in Seq(TableColumns) /\ Len(p \o q) = Len(p) + Len(q)
    BY TwoParts
  <2>3. m \in Seq(TableColumns) /\ Len(m) = Len(a) + Len(b)
    BY <1>3, <2>1, <2>2, Zenon
  <2>4. (i - 1) + (n - i) = n - 1
    BY <1>2
  <2>. QED BY <1>4, <1>5, <2>3, <2>4
<1>7. ASSUME NEW k \in DOMAIN m
      PROVE  m[k] = l[IF k < i THEN k ELSE k + 1] /\ (IF k < i THEN k ELSE k + 1) \in 1..n
  <2>1. k \in 1..(n - 1)
    BY <1>6
  <2>2. CASE k < i
    <3>1. k \in 1..(i - 1) /\ k \in 1..n
      BY <1>2, <2>1, <2>2
    <3>2. m[k] = a[k]
      BY <1>3, <1>4, <1>5, <3>1
    <3>. QED BY <1>4, <2>2, <3>1, <3>2
  <2>3. CASE ~(k < i)
    <3>1. k - (i - 1) \in 1..(n - i) /\ i + (k - (i - 1)) = k + 1 /\ k + 1 \in 1..n
      BY <1>2, <2>1, <2>3
    <3>2. m[k] = b[k - (i - 1)]
      <4>1. \A j \in 1..Len(b) : m[Len(a) + j] = b[j]
        <5>1. PICK p \in Seq(TableColumns), q \in Seq(TableColumns) : p = a /\ q = b
          BY <1>4, <1>5
        <5>2. \A j \in 1..Len(q) : (p \o q)[Len(p) + j] = q[j]
          BY TwoParts
        <5>. QED BY <1>3, <5>1, <5>2, Zenon
      <4>2. k - (i - 1) \in 1..Len(b)
        BY <1>5, <3>1
      <4>3. Len(a) + (k - (i - 1)) = k
        BY <1>2, <1>4, <2>1
      <4>. QED BY <4>1, <4>2, <4>3
    <3>3. b[k - (i - 1)] = l[k + 1]
      BY <1>5, <3>1
    <3>. QED BY <2>3, <3>1, <3>2, <3>3
  <2>. QED BY <2>2, <2>3
<1>8. \A k \in DOMAIN m : m[k].id \in 1..last /\ m[k].type = types[m[k].id]
  BY <1>2, <1>7 DEF LayoutOK
<1>9. ASSUME NEW j \in DOMAIN m, NEW k \in DOMAIN m, m[j].id = m[k].id PROVE j = k
  <2>1. (IF j < i THEN j ELSE j + 1) = (IF k < i THEN k ELSE k + 1)
    BY <1>2, <1>7, <1>9 DEF LayoutOK
  <2>2. j \in Nat /\ k \in Nat
    BY <1>6
  <2>. QED BY <1>2, <2>1, <2>2
<1>10. m = RemoveAt(l, i)
  BY <1>1, <1>3 DEF RemoveAt
<1>. QED BY <1>6, <1>8, <1>9, <1>10 DEF LayoutOK

(* In the rows of a partition a dropped column keeps its place.            *)
LEMMA LayoutPhantom ==
  ASSUME NEW types, NEW last, NEW l, LayoutOK(l, types, last), NEW id
  PROVE  LayoutOK(WithPhantom(l, id), types, last)
<1>1. l \in Seq(TableColumns) /\ Len(l) \in Nat /\ DOMAIN l = 1..Len(l)
  BY DEF LayoutOK
<1>2. PICK m : m = [k \in DOMAIN l |-> IF l[k].id = id THEN [l[k] EXCEPT !.phantom = TRUE] ELSE l[k]]
  OBVIOUS
<1>3. ASSUME NEW k \in 1..Len(l) PROVE m[k] \in TableColumns /\ m[k].id = l[k].id /\ m[k].type = l[k].type
  <2>1. l[k] \in TableColumns
    BY <1>1
  <2>2. m[k] = IF l[k].id = id THEN [l[k] EXCEPT !.phantom = TRUE] ELSE l[k]
    BY <1>1, <1>2
  <2>. QED BY <2>1, <2>2 DEF TableColumns
<1>4. m \in Seq(TableColumns) /\ DOMAIN m = DOMAIN l
  BY <1>1, <1>2, <1>3
<1>5. m = WithPhantom(l, id)
  BY <1>2, Zenon DEF WithPhantom
<1>. QED BY <1>1, <1>3, <1>4, <1>5 DEF LayoutOK

-----------------------------------------------------------------------------
(* The invariant.                                                          *)

LEMMA WithoutUnits ==
  ASSUME NEW s, NEW types, NEW last, LayoutOK(s.cols, types, last), s.units = <<>>
  PROVE  ExtractOK(s, types, last)
<1>1. PICK u : u = s.units
  OBVIOUS
<1>2. DOMAIN u = {} /\ u = [x \in DOMAIN u |-> u[x]]
  BY <1>1
<1>. QED BY <1>1, <1>2 DEF ExtractOK

LEMMA NoSchemaOK == \A types, last : ExtractOK(NoSchema, types, last)
<1>. TAKE types, last
<1>1. NoSchema.cols = <<>> /\ NoSchema.units = <<>>
  BY DEF NoSchema
<1>2. LayoutOK(NoSchema.cols, types, last)
  BY <1>1, NoLayout
<1>. QED BY <1>1, <1>2, WithoutUnits

LEMMA ColsWithGapOK ==
  ASSUME NEW types, types[1] = "tinyint", types[3] = "varchar"
  PROVE  LayoutOK(ColsWithGap, types, 3)
<1>1. 1..3 \subseteq 1..(2 + MaxDdl)
  BY SchemaAssumption
<1>2. ColsWithGap \in Seq(TableColumns) /\ DOMAIN ColsWithGap = 1..2
  BY <1>1 DEF ColsWithGap, Column, TableColumns, Types
<1>3. ColsWithGap[1] = Column(1, "tinyint") /\ ColsWithGap[2] = Column(3, "varchar")
  BY DEF ColsWithGap
<1>4. \A i \in DOMAIN ColsWithGap : i = 1 \/ i = 2
  BY <1>2
<1>. QED BY <1>2, <1>3, <1>4 DEF LayoutOK, Column

LEMMA FirstColsOK ==
  ASSUME NEW types, types[1] = "tinyint", types[2] = "varchar", NEW last \in Nat, last >= 2
  PROVE  LayoutOK(FirstCols, types, last)
<1>1. 1..2 \subseteq 1..(2 + MaxDdl)
  BY SchemaAssumption
<1>2. FirstCols \in Seq(TableColumns) /\ DOMAIN FirstCols = 1..2
  BY <1>1 DEF FirstCols, Column, TableColumns, Types
<1>3. FirstCols[1] = Column(1, "tinyint") /\ FirstCols[2] = Column(2, "varchar")
  BY DEF FirstCols
<1>4. \A i \in DOMAIN FirstCols : i = 1 \/ i = 2
  BY <1>2
<1>. QED BY <1>2, <1>3, <1>4 DEF LayoutOK, Column

(* New storage, of every partition or of one.                              *)
LEMMA NewStorage ==
  ASSUME NEW l, NEW types, NEW last, LayoutOK(l, types, last), NEW f \in [Parts -> Formats], NEW top \in Nat,
         Cardinality(Parts) <= top
  PROVE  StorageOK([p \in Parts |-> [unit |-> p, format |-> f[p], layout |-> l, layouts |-> {l}]], types, last, top)
<1>1. \A p \in Parts : p \in 0..top
  <2>1. Cardinality(Parts) \in Nat
    BY SchemaAssumption, FS_CardinalityType
  <2>2. \A p \in 1..Cardinality(Parts) : p \in 0..top
    BY <2>1
  <2>. QED BY <2>2, SchemaAssumption
<1>. QED BY <1>1 DEF StorageOK

LEMMA LayoutsInit == Init => LayoutsInv
<1>. SUFFICES ASSUME Init PROVE LayoutsInv
  OBVIOUS
<1>0. PICK types : types = [i \in Ids |-> IF i = 1 THEN "tinyint" ELSE "varchar"]
  OBVIOUS
<1>1. types \in [Ids -> Types] /\ types[1] = "tinyint" /\ types[2] = "varchar" /\ types[3] = "varchar"
  <2>1. 1 \in Ids /\ 2 \in Ids /\ 3 \in Ids
    BY SchemaAssumption DEF Ids
  <2>. QED BY <1>0, <2>1 DEF Types
<1>2. Len(log) = 0 /\ ddl = 1
  BY DEF Init
<1>3. TopUnit \in Nat /\ Cardinality(Parts) <= TopUnit
  <2>1. Cardinality(Parts) \in Nat
    BY SchemaAssumption, FS_CardinalityType
  <2>. QED BY <1>2, <2>1 DEF TopUnit
<1>4. PartitionsOK /\ LayoutOK(cols, types, lastId) /\ StorageOK(storage, types, lastId, TopUnit)
  <2>1. CASE cols = <<>> /\ storage = <<>> /\ lastId = 2
    <3>1. DOMAIN storage = {}
      BY <2>1
    <3>2. PartitionsOK
      BY <2>1, <3>1 DEF PartitionsOK
    <3>3. LayoutOK(cols, types, lastId)
      BY <2>1, NoLayout
    <3>. QED BY <3>1, <3>2, <3>3 DEF StorageOK
  <2>2. CASE /\ \/ cols = FirstCols /\ lastId = 2
                \/ cols = ColsWithGap /\ lastId = 3
             /\ \E f \in [Parts -> Formats] :
                  storage = [p \in Parts |-> [unit |-> p, format |-> f[p], layout |-> cols, layouts |-> {cols}]]
    <3>1. LayoutOK(cols, types, lastId)
      BY <1>1, <2>2, FirstColsOK, ColsWithGapOK
    <3>2. PICK f \in [Parts -> Formats] :
            storage = [p \in Parts |-> [unit |-> p, format |-> f[p], layout |-> cols, layouts |-> {cols}]]
      BY <2>2
    <3>3. StorageOK(storage, types, lastId, TopUnit)
      BY <1>3, <3>1, <3>2, NewStorage
    <3>4. PartitionsOK
      BY <3>2 DEF PartitionsOK
    <3>. QED BY <3>1, <3>3, <3>4
  <2>. QED BY <2>1, <2>2 DEF Init
<1>5. SourceLayouts(types)
  <2>1. 1..Len(log) = {}
    BY <1>2
  <2>. QED BY <1>1, <1>4, <2>1 DEF SourceLayouts
<1>6. ProgramLayouts(types)
  <2>1. sch = NoSchema /\ draft = NoSchema /\ decoded = Nothing
    BY DEF Init
  <2>. QED BY <2>1, NoSchemaOK DEF ProgramLayouts, DecodedOK
<1>. QED BY <1>1, <1>4, <1>5, <1>6 DEF LayoutsInv

-----------------------------------------------------------------------------
(* The source's steps.                                                     *)

(* A change of the table, which leaves what was read and logged alone.     *)
LEMMA ChangeStep ==
  ASSUME Numbers, Change, NEW types, SourceLayouts(types), ProgramLayouts(types), NEW types2,
         Extends(types2, lastId', types, lastId)
  PROVE  /\ \A i \in 1..Len(log') : RecordOK(log'[i], types2, lastId')
         /\ ProgramLayouts(types2)'
         /\ TopUnit \in Nat /\ TopUnit' = TopUnit + 1 /\ Cardinality(Parts) <= TopUnit'
<1>1. UNCHANGED <<log, sch, draft, decoded>> /\ ddl' = ddl + 1
  BY DEF Change, progVars
<1>2. \A i \in 1..Len(log') : RecordOK(log'[i], types2, lastId')
  BY <1>1, RecordKept DEF SourceLayouts
<1>3. ProgramLayouts(types2)'
  <2>1. ExtractOK(sch', types2, lastId') /\ ExtractOK(draft', types2, lastId')
    BY <1>1, ExtractKept DEF ProgramLayouts
  <2>2. DecodedOK(decoded', types2, lastId')
    BY <1>1, DecodedKept DEF ProgramLayouts
  <2>. QED BY <2>1, <2>2, Zenon DEF ProgramLayouts
<1>4. TopUnit \in Nat /\ TopUnit' = TopUnit + 1 /\ Cardinality(Parts) <= TopUnit'
  <2>1. Cardinality(Parts) \in Nat
    BY SchemaAssumption, FS_CardinalityType
  <2>2. ddl \in Nat
    BY DEF Numbers
  <2>. QED BY <1>1, <2>1, <2>2 DEF TopUnit
<1>. QED BY <1>2, <1>3, <1>4

(* A partition with a new layout.                                          *)
LEMMA WithLayoutIs ==
  ASSUME NEW part, NEW l, DOMAIN part = {"unit", "format", "layout", "layouts"}
  PROVE  /\ DOMAIN WithLayout(part, l) = DOMAIN part
         /\ WithLayout(part, l).unit = part.unit /\ WithLayout(part, l).format = part.format
         /\ WithLayout(part, l).layout = l /\ WithLayout(part, l).layouts = part.layouts \cup {l}
BY DEF WithLayout

(* What is left to show of it.                                             *)
SourceChanged(types2) ==
  /\ PartitionsOK' /\ types2 \in [Ids -> Types] /\ types2[1] = "tinyint" /\ types2[2] = "varchar"
  /\ LayoutOK(cols', types2, lastId') /\ StorageOK(storage', types2, lastId', TopUnit')

LEMMA ChangedKeepsLayouts ==
  ASSUME Numbers, Change, NEW types, SourceLayouts(types), ProgramLayouts(types), NEW types2,
         Extends(types2, lastId', types, lastId), SourceChanged(types2)
  PROVE  LayoutsInv'
<1>1. /\ \A i \in 1..Len(log') : RecordOK(log'[i], types2, lastId')
      /\ ProgramLayouts(types2)'
  BY ChangeStep
<1>2. SourceLayouts(types2)'
  BY <1>1, Zenon DEF SourceLayouts, SourceChanged
<1>3. PartitionsOK' /\ types2 \in [Ids -> Types]
  BY DEF SourceChanged
<1>4. (types2 \in [Ids -> Types])'
  BY <1>3 DEF Ids, Types
<1>. QED BY <1>1, <1>2, <1>3, <1>4, Zenon DEF LayoutsInv

LEMMA SameTypes ==
  ASSUME Numbers, NEW types
  PROVE  Extends(types, lastId, types, lastId)
<1>1. lastId \in 2..(2 + ddl) /\ ddl \in 1..MaxDdl
  BY DEF Numbers
<1>. QED BY <1>1, SchemaAssumption DEF Extends

LEMMA CreateTableLayouts ==
  ASSUME Numbers, CreateTable, NEW types \in [Ids -> Types], PartitionsOK, SourceLayouts(types), ProgramLayouts(types)
  PROVE  LayoutsInv'
<1>1. Change /\ cols' = FirstCols /\ lastId' = lastId
  BY DEF CreateTable
<1>2. PICK f \in [Parts -> Formats] :
        storage' = [p \in Parts |-> [unit |-> p, format |-> f[p], layout |-> FirstCols, layouts |-> {FirstCols}]]
  BY DEF CreateTable
<1>3. Extends(types, lastId', types, lastId)
  BY <1>1, SameTypes
<1>4. TopUnit' \in Nat /\ Cardinality(Parts) <= TopUnit'
  <2>1. TopUnit \in Nat /\ TopUnit' = TopUnit + 1 /\ Cardinality(Parts) <= TopUnit'
    BY <1>1, <1>3, ChangeStep
  <2>. QED BY <2>1
<1>5. LayoutOK(FirstCols, types, lastId')
  <2>1. lastId' \in Nat /\ lastId' >= 2
    BY <1>1 DEF Numbers
  <2>2. types[1] = "tinyint" /\ types[2] = "varchar"
    BY DEF SourceLayouts
  <2>. QED BY <2>1, <2>2, FirstColsOK
<1>6. StorageOK(storage', types, lastId', TopUnit')
  BY <1>2, <1>4, <1>5, NewStorage
<1>7. PartitionsOK'
  BY <1>2 DEF PartitionsOK
<1>8. types[1] = "tinyint" /\ types[2] = "varchar"
  BY DEF SourceLayouts
<1>9. SourceChanged(types)
  BY <1>1, <1>5, <1>6, <1>7, <1>8, Zenon DEF SourceChanged
<1>. QED BY <1>1, <1>3, <1>9, ChangedKeepsLayouts

LEMMA AddColumnLayouts ==
  ASSUME Numbers, AddColumn, NEW types \in [Ids -> Types], PartitionsOK, SourceLayouts(types), ProgramLayouts(types)
  PROVE  LayoutsInv'
<1>1. Change /\ lastId' = lastId + 1 /\ DOMAIN storage = Parts
  BY DEF AddColumn, PartitionsOK, Exists
<1>2. PICK type, new :
        /\ type \in Types /\ new = Column(lastId', type) /\ cols' = Append(cols, new)
        /\ storage' = [p \in Parts |-> WithLayout(storage[p], Append(storage[p].layout, new))]
  <2>1. PICK type \in Types :
          /\ cols' = Append(cols, Column(lastId', type))
          /\ storage' = [p \in Parts |-> WithLayout(storage[p], Append(storage[p].layout, Column(lastId', type)))]
    BY <1>1 DEF AddColumn
  <2>. QED BY <2>1
<1>3. PICK types2 : types2 = [types EXCEPT ![lastId'] = type]
  OBVIOUS
<1>4. lastId \in Nat /\ lastId >= 2 /\ lastId' \in Ids /\ lastId' <= 2 + MaxDdl
  <2>1. lastId \in 2..(2 + ddl) /\ ddl \in 1..MaxDdl /\ ddl < MaxDdl
    BY <1>1 DEF Numbers, Change
  <2>. QED BY <1>1, <2>1, SchemaAssumption DEF Ids
<1>5. types2 \in [Ids -> Types] /\ types2[lastId'] = type
  BY <1>2, <1>3, <1>4
<1>6. Extends(types2, lastId', types, lastId)
  <2>1. ASSUME NEW id \in 1..lastId PROVE types2[id] = types[id]
    <3>1. id \in Ids /\ id # lastId'
      BY <1>1, <1>4, SchemaAssumption DEF Ids
    <3>. QED BY <1>3, <3>1
  <2>. QED BY <1>1, <1>4, <2>1 DEF Extends
<1>7. types2[1] = "tinyint" /\ types2[2] = "varchar"
  <2>1. types[1] = "tinyint" /\ types[2] = "varchar"
    BY DEF SourceLayouts
  <2>2. 1 \in 1..lastId /\ 2 \in 1..lastId
    BY <1>4
  <2>. QED BY <1>6, <2>1, <2>2 DEF Extends
<1>8. TopUnit \in Nat /\ TopUnit' = TopUnit + 1
  BY <1>1, <1>6, ChangeStep
<1>9. \A l : LayoutOK(l, types, lastId) => LayoutOK(l, types2, lastId') /\ LayoutOK(Append(l, new), types2, lastId')
  <2>. SUFFICES ASSUME NEW l, LayoutOK(l, types, lastId)
                PROVE  LayoutOK(l, types2, lastId') /\ LayoutOK(Append(l, new), types2, lastId')
    OBVIOUS
  <2>1. LayoutOK(l, types2, lastId')
    BY <1>6, LayoutKept
  <2>2. LayoutOK(Append(l, Column(lastId', type)), types2, lastId')
    BY <1>1, <1>2, <1>5, <1>6, LayoutAppend
  <2>. QED BY <1>2, <2>1, <2>2
<1>10. LayoutOK(cols', types2, lastId')
  BY <1>2, <1>9 DEF SourceLayouts
<1>11. StorageOK(storage', types2, lastId', TopUnit')
  <2>. SUFFICES ASSUME NEW p \in DOMAIN storage'
                PROVE  /\ DOMAIN storage'[p] = {"unit", "format", "layout", "layouts"}
                       /\ storage'[p].unit \in 0..TopUnit' /\ storage'[p].format \in Formats
                       /\ LayoutOK(storage'[p].layout, types2, lastId')
                       /\ \A l \in storage'[p].layouts : LayoutOK(l, types2, lastId')
    BY Zenon DEF StorageOK
  <2>1. PICK part : part = storage[p]
    OBVIOUS
  <2>2. p \in DOMAIN storage /\ storage'[p] = WithLayout(part, Append(part.layout, new))
    BY <1>1, <1>2, <2>1
  <2>3. /\ DOMAIN part = {"unit", "format", "layout", "layouts"}
        /\ part.unit \in 0..TopUnit /\ part.format \in Formats /\ LayoutOK(part.layout, types, lastId)
        /\ \A l \in part.layouts : LayoutOK(l, types, lastId)
    BY <2>1, <2>2 DEF SourceLayouts, StorageOK
  <2>4. PICK new2 : new2 = WithLayout(part, Append(part.layout, new))
    OBVIOUS
  <2>5. /\ DOMAIN new2 = DOMAIN part /\ new2.unit = part.unit /\ new2.format = part.format
        /\ new2.layout = Append(part.layout, new) /\ new2.layouts = part.layouts \cup {Append(part.layout, new)}
    BY <2>3, <2>4, WithLayoutIs
  <2>6. part.unit \in 0..TopUnit'
    BY <1>8, <2>3
  <2>. QED BY <1>9, <2>2, <2>3, <2>4, <2>5, <2>6
<1>12. PartitionsOK'
  BY <1>2 DEF PartitionsOK
<1>13. SourceChanged(types2)
  BY <1>5, <1>7, <1>10, <1>11, <1>12, Zenon DEF SourceChanged
<1>. QED BY <1>1, <1>6, <1>13, ChangedKeepsLayouts

LEMMA DropColumnLayouts ==
  ASSUME Numbers, DropColumn, NEW types \in [Ids -> Types], PartitionsOK, SourceLayouts(types), ProgramLayouts(types)
  PROVE  LayoutsInv'
<1>1. Change /\ lastId' = lastId /\ DOMAIN storage = Parts
  BY DEF DropColumn, PartitionsOK, Exists
<1>2. PICK i \in 2..Len(cols) :
        /\ cols' = RemoveAt(cols, i)
        /\ storage' = [p \in Parts |-> WithLayout(storage[p], WithPhantom(storage[p].layout, cols[i].id))]
  BY <1>1 DEF DropColumn
<1>3. Extends(types, lastId', types, lastId)
  BY <1>1, SameTypes
<1>4. TopUnit \in Nat /\ TopUnit' = TopUnit + 1
  BY <1>1, <1>3, ChangeStep
<1>5. LayoutOK(cols', types, lastId')
  <2>1. LayoutOK(cols, types, lastId)
    BY DEF SourceLayouts
  <2>2. i \in DOMAIN cols
    <3>. Len(cols) \in Nat /\ DOMAIN cols = 1..Len(cols)
      BY <2>1 DEF LayoutOK
    <3>. QED OBVIOUS
  <2>3. LayoutOK(RemoveAt(cols, i), types, lastId)
    BY <2>1, <2>2, LayoutRemove
  <2>. QED BY <1>1, <1>2, <2>3
<1>6. StorageOK(storage', types, lastId', TopUnit')
  <2>. SUFFICES ASSUME NEW p \in DOMAIN storage'
                PROVE  /\ DOMAIN storage'[p] = {"unit", "format", "layout", "layouts"}
                       /\ storage'[p].unit \in 0..TopUnit' /\ storage'[p].format \in Formats
                       /\ LayoutOK(storage'[p].layout, types, lastId')
                       /\ \A l \in storage'[p].layouts : LayoutOK(l, types, lastId')
    BY Zenon DEF StorageOK
  <2>1. PICK part, m : part = storage[p] /\ m = WithPhantom(part.layout, cols[i].id)
    OBVIOUS
  <2>2. p \in DOMAIN storage /\ storage'[p] = WithLayout(part, m)
    BY <1>1, <1>2, <2>1
  <2>3. /\ DOMAIN part = {"unit", "format", "layout", "layouts"}
        /\ part.unit \in 0..TopUnit /\ part.format \in Formats /\ LayoutOK(part.layout, types, lastId)
        /\ \A l \in part.layouts : LayoutOK(l, types, lastId)
    BY <2>1, <2>2 DEF SourceLayouts, StorageOK
  <2>4. PICK new2 : new2 = WithLayout(part, m)
    OBVIOUS
  <2>5. /\ DOMAIN new2 = DOMAIN part /\ new2.unit = part.unit /\ new2.format = part.format
        /\ new2.layout = m /\ new2.layouts = part.layouts \cup {m}
    BY <2>3, <2>4, WithLayoutIs
  <2>6. part.unit \in 0..TopUnit'
    BY <1>4, <2>3
  <2>7. LayoutOK(m, types, lastId)
    BY <2>1, <2>3, LayoutPhantom
  <2>. QED BY <1>1, <2>2, <2>3, <2>4, <2>5, <2>6, <2>7
<1>7. PartitionsOK'
  BY <1>2 DEF PartitionsOK
<1>8. types[1] = "tinyint" /\ types[2] = "varchar"
  BY DEF SourceLayouts
<1>9. SourceChanged(types)
  BY <1>5, <1>6, <1>7, <1>8, Zenon DEF SourceChanged
<1>. QED BY <1>1, <1>3, <1>9, ChangedKeepsLayouts

(* The units are bounded, so that there is a highest one.                  *)
LEMMA HighestUnit ==
  ASSUME NEW types, SourceLayouts(types), TopUnit \in Nat, DOMAIN storage # {}
  PROVE  Max(Units) \in 0..TopUnit
<1>1. PICK top, S : top \in Nat /\ top = TopUnit /\ S = Units
  OBVIOUS
<1>2. S \in SUBSET (0..top)
  BY <1>1 DEF Units, SourceLayouts, StorageOK
<1>3. S # {}
  BY <1>1 DEF Units
<1>. QED BY <1>1, <1>2, <1>3, MaxMember

LEMMA RebuildPartitionLayouts ==
  ASSUME Numbers, RebuildPartition, NEW types \in [Ids -> Types], PartitionsOK, SourceLayouts(types),
         ProgramLayouts(types)
  PROVE  LayoutsInv'
<1>1. Change /\ lastId' = lastId /\ cols' = cols /\ DOMAIN storage = Parts
  BY DEF RebuildPartition, PartitionsOK, Exists
<1>2. PICK p, f, new :
        /\ p \in Parts /\ f \in Formats /\ new = [unit |-> Max(Units) + 1, format |-> f, layout |-> cols, layouts |-> {cols}]
        /\ storage' = [storage EXCEPT ![p] = new]
  BY DEF RebuildPartition
<1>3. Extends(types, lastId', types, lastId)
  BY <1>1, SameTypes
<1>4. TopUnit \in Nat /\ TopUnit' = TopUnit + 1
  BY <1>1, <1>3, ChangeStep
<1>5. LayoutOK(cols, types, lastId)
  BY DEF SourceLayouts
<1>6. /\ DOMAIN new = {"unit", "format", "layout", "layouts"}
      /\ new.unit \in 0..TopUnit' /\ new.format \in Formats /\ new.layout = cols /\ new.layouts = {cols}
  <2>1. Max(Units) \in 0..TopUnit
    BY <1>1, <1>2, <1>4, HighestUnit
  <2>2. Max(Units) + 1 \in 0..TopUnit'
    BY <1>4, <2>1
  <2>. QED BY <1>2, <2>2
<1>7. StorageOK(storage', types, lastId', TopUnit')
  <2>. SUFFICES ASSUME NEW q \in DOMAIN storage'
                PROVE  /\ DOMAIN storage'[q] = {"unit", "format", "layout", "layouts"}
                       /\ storage'[q].unit \in 0..TopUnit' /\ storage'[q].format \in Formats
                       /\ LayoutOK(storage'[q].layout, types, lastId')
                       /\ \A l \in storage'[q].layouts : LayoutOK(l, types, lastId')
    BY Zenon DEF StorageOK
  <2>1. q \in DOMAIN storage /\ storage'[q] = IF q = p THEN new ELSE storage[q]
    BY <1>2
  <2>2. CASE q = p
    BY <1>1, <1>5, <1>6, <2>1, <2>2
  <2>3. CASE q # p
    <3>1. /\ DOMAIN storage[q] = {"unit", "format", "layout", "layouts"}
          /\ storage[q].unit \in 0..TopUnit /\ storage[q].format \in Formats
          /\ LayoutOK(storage[q].layout, types, lastId)
          /\ \A l \in storage[q].layouts : LayoutOK(l, types, lastId)
      BY <2>1 DEF SourceLayouts, StorageOK
    <3>2. storage[q].unit \in 0..TopUnit'
      BY <1>4, <3>1
    <3>. QED BY <1>1, <2>1, <2>3, <3>1, <3>2
  <2>. QED BY <2>2, <2>3
<1>8. PartitionsOK'
  BY <1>1, <1>2 DEF PartitionsOK
<1>9. types[1] = "tinyint" /\ types[2] = "varchar"
  BY DEF SourceLayouts
<1>10. SourceChanged(types)
  BY <1>1, <1>5, <1>7, <1>8, <1>9, Zenon DEF SourceChanged
<1>. QED BY <1>1, <1>3, <1>10, ChangedKeepsLayouts

(* A row is logged as it was written.                                      *)
LEMMA LogRowLayouts ==
  ASSUME Numbers, LogRow, NEW types \in [Ids -> Types], PartitionsOK, SourceLayouts(types), ProgramLayouts(types)
  PROVE  LayoutsInv'
<1>1. UNCHANGED <<ddl, cols, lastId, storage, sch, draft, decoded>> /\ DOMAIN storage = Parts
  BY DEF LogRow, progVars, PartitionsOK, Exists
<1>2. PICK p, rec :
        /\ p \in Parts /\ rec.layout \in storage[p].layouts /\ rec.format = storage[p].format
        /\ rec.value \in RowsOf(rec.layout)
        /\ rec.image = Encode(rec.format, rec.layout, rec.value) /\ FitsPage(rec.image)
        /\ log' = Append(log, rec)
  <2>1. PICK p, l, v :
          /\ p \in Parts /\ l \in storage[p].layouts /\ v \in RowsOf(l)
          /\ FitsPage(Encode(storage[p].format, l, v))
          /\ log' = Append(log, [unit |-> storage[p].unit, format |-> storage[p].format,
                                 layout |-> l, value |-> v, image |-> Encode(storage[p].format, l, v)])
    BY DEF LogRow
  <2>2. PICK rec : rec = [unit |-> storage[p].unit, format |-> storage[p].format,
                          layout |-> l, value |-> v, image |-> Encode(storage[p].format, l, v)]
    OBVIOUS
  <2>3. /\ rec.layout = l /\ rec.format = storage[p].format /\ rec.value = v
        /\ rec.image = Encode(storage[p].format, l, v)
    BY <2>2
  <2>. QED BY <2>1, <2>2, <2>3
<1>3. RecordOK(rec, types, lastId)
  <2>1. storage[p].format \in Formats /\ \A l \in storage[p].layouts : LayoutOK(l, types, lastId)
    BY <1>1, <1>2 DEF SourceLayouts, StorageOK
  <2>. QED BY <1>2, <2>1 DEF RecordOK
<1>4. \A i \in 1..Len(log') : RecordOK(log'[i], types, lastId)
  <2>1. \A i \in 1..Len(log) : RecordOK(log[i], types, lastId)
    BY DEF SourceLayouts
  <2>2. PICK S : log \in Seq(S) /\ rec \in S
    <3>1. log \in Seq(Entries)
      BY DEF Numbers
    <3>2. log \in Seq(Entries \cup {rec})
      BY <3>1, SeqMonotonic
    <3>. QED BY <3>2
  <2>3. /\ Len(log') = Len(log) + 1 /\ Len(log) \in Nat
        /\ \A i \in 1..Len(log) : log'[i] = log[i]
        /\ log'[Len(log) + 1] = rec
    BY <1>2, <2>2
  <2>4. \A i \in 1..Len(log') : i \in 1..Len(log) \/ i = Len(log) + 1
    BY <2>3
  <2>. QED BY <1>3, <2>1, <2>3, <2>4
<1>5. SourceLayouts(types)'
  <2>1. /\ types[1] = "tinyint" /\ types[2] = "varchar"
        /\ LayoutOK(cols, types, lastId) /\ StorageOK(storage, types, lastId, TopUnit)
    BY DEF SourceLayouts
  <2>2. TopUnit' = TopUnit
    BY <1>1, Zenon DEF TopUnit
  <2>. QED BY <1>1, <1>4, <2>1, <2>2, Zenon DEF SourceLayouts
<1>6. ProgramLayouts(types)' /\ PartitionsOK'
  BY <1>1, Zenon DEF ProgramLayouts, PartitionsOK
<1>7. (types \in [Ids -> Types])'
  BY DEF Ids, Types
<1>. QED BY <1>5, <1>6, <1>7, Zenon DEF LayoutsInv

-----------------------------------------------------------------------------
(* The program's steps.                                                    *)

(* What the queries return is what the table has.                          *)
LEMMA ExtractStorageOK ==
  ASSUME PartitionsOK, NEW types, SourceLayouts(types), ProgramLayouts(types)
  PROVE  ExtractOK(ExtractStorage, types, lastId)
<1>1. PICK units : units = ExtractStorage.units
  OBVIOUS
<1>. DEFINE has(u) == CHOOSE s \in {storage[p] : p \in Parts} : s.unit = u
<1>2. units = [u \in Units |-> [format |-> has(u).format, physical |-> IF visible THEN has(u).layout ELSE <<>>]]
  BY <1>1 DEF ExtractStorage
<1>3. LayoutOK(ExtractStorage.cols, types, lastId)
  <2>1. LayoutOK(draft.cols, types, lastId)
    BY DEF ProgramLayouts, ExtractOK
  <2>. QED BY <2>1 DEF ExtractStorage
<1>4. ASSUME NEW u \in Units
      PROVE  u \in Nat /\ units[u].format \in Formats /\ LayoutOK(units[u].physical, types, lastId)
  <2>1. PICK p \in DOMAIN storage : storage[p].unit = u
    BY DEF Units
  <2>2. DOMAIN storage = Parts
    BY <2>1 DEF PartitionsOK
  <2>3. has(u) \in {storage[q] : q \in Parts}
    BY <2>1, <2>2
  <2>4. PICK q \in DOMAIN storage : has(u) = storage[q]
    BY <2>2, <2>3
  <2>5. storage[q].format \in Formats /\ LayoutOK(storage[q].layout, types, lastId)
    BY DEF SourceLayouts, StorageOK
  <2>6. u \in Nat
    <3>1. u \in 0..TopUnit
      BY <2>1 DEF SourceLayouts, StorageOK
    <3>. QED BY <3>1
  <2>. HIDE DEF has
  <2>7. units[u].format = storage[q].format /\ units[u].physical \in {storage[q].layout, <<>>}
    BY <1>2, <2>4
  <2>. QED BY <2>5, <2>6, <2>7, NoLayout
<1>. HIDE DEF has
<1>5. DOMAIN units = Units /\ units = [u \in DOMAIN units |-> units[u]]
  BY <1>2
<1>. QED BY <1>1, <1>3, <1>4, <1>5 DEF ExtractOK

ProgramStep == Program \/ HandleRecord \/ PollExtractFails \/ RefreshFails

(* A step of the program drafts, takes over what it extracted, or decodes. *)
LEMMA ProgramSteps ==
  ASSUME ProgramStep
  PROVE  /\ UNCHANGED sourceVars
         /\ sch' = sch \/ sch' = ExtractStorage
         /\ \/ draft' = draft \/ draft' = NoSchema
            \/ draft' = [cols |-> cols, units |-> <<>>, asOf |-> ddl]
         /\ decoded' = decoded \/ (at < Len(log) /\ decoded' = Generate(log[at + 1], sch))
<1>1. CASE Scan
  BY <1>1 DEF Scan, ScanColumns, ScanStorage, ScanVersion, ExtractColumns
<1>2. CASE Poll \/ PollExtractFails
  BY <1>2 DEF Poll, PollVersion, PollColumns, PollStorage, ExtractColumns, PollExtractFails
<1>3. CASE RefreshUnknown \/ RefreshFails
  BY <1>3 DEF RefreshUnknown, Refresh, RefreshColumns, RefreshStorage, RefreshVersion, ExtractColumns, RefreshFails
<1>4. CASE HandleRecord
  BY <1>4 DEF HandleRecord, NextRecord
<1>5. CASE EndPass
  BY <1>5 DEF EndPass
<1>. QED BY <1>1, <1>2, <1>3, <1>4, <1>5 DEF ProgramStep, Program

LEMMA ProgramStepLayouts ==
  ASSUME Numbers, ProgramStep, NEW types \in [Ids -> Types], PartitionsOK, SourceLayouts(types), ProgramLayouts(types)
  PROVE  LayoutsInv'
<1>1. UNCHANGED <<ddl, cols, lastId, storage, log>>
  BY ProgramSteps DEF sourceVars
<1>2. SourceLayouts(types)' /\ PartitionsOK'
  BY <1>1, Zenon DEF SourceLayouts, TopUnit, PartitionsOK
<1>3. LayoutOK(cols, types, lastId)
  BY DEF SourceLayouts
<1>4. ExtractOK(sch', types, lastId)
  BY ProgramSteps, ExtractStorageOK DEF ProgramLayouts
<1>5. ExtractOK(draft', types, lastId)
  <2>1. CASE draft' = draft
    BY <2>1 DEF ProgramLayouts
  <2>2. CASE draft' = NoSchema
    BY <2>2, NoSchemaOK
  <2>3. CASE draft' = [cols |-> cols, units |-> <<>>, asOf |-> ddl]
    <3>1. draft'.cols = cols /\ draft'.units = <<>>
      BY <2>3
    <3>. QED BY <1>3, <3>1, WithoutUnits
  <2>. QED BY <2>1, <2>2, <2>3, ProgramSteps
<1>6. DecodedOK(decoded', types, lastId)
  <2>1. CASE decoded' = decoded
    BY <2>1 DEF ProgramLayouts
  <2>2. CASE at < Len(log) /\ decoded' = Generate(log[at + 1], sch)
    <3>1. at + 1 \in 1..Len(log)
      BY <2>2 DEF Numbers
    <3>2. RecordOK(log[at + 1], types, lastId)
      BY <3>1 DEF SourceLayouts
    <3>3. ExtractOK(sch, types, lastId)
      BY DEF ProgramLayouts
    <3>. QED BY <2>2, <3>2, <3>3 DEF DecodedOK
  <2>. QED BY <2>1, <2>2, ProgramSteps
<1>7. ProgramLayouts(types)'
  BY <1>1, <1>4, <1>5, <1>6, Zenon DEF ProgramLayouts
<1>8. (types \in [Ids -> Types])'
  BY DEF Ids, Types
<1>. QED BY <1>2, <1>7, <1>8, Zenon DEF LayoutsInv

LEMMA LayoutsNext ==
  ASSUME Numbers, LayoutsInv, [Next]_vars
  PROVE  LayoutsInv'
<1>1. PICK types \in [Ids -> Types] : SourceLayouts(types) /\ ProgramLayouts(types)
  BY DEF LayoutsInv
<1>2. PartitionsOK
  BY DEF LayoutsInv
<1>3. CASE CreateTable
  BY <1>1, <1>2, <1>3, CreateTableLayouts
<1>4. CASE AddColumn
  BY <1>1, <1>2, <1>4, AddColumnLayouts
<1>5. CASE DropColumn
  BY <1>1, <1>2, <1>5, DropColumnLayouts
<1>6. CASE RebuildPartition
  BY <1>1, <1>2, <1>6, RebuildPartitionLayouts
<1>7. CASE LogRow
  BY <1>1, <1>2, <1>7, LogRowLayouts
<1>8. CASE ProgramStep
  BY <1>1, <1>2, <1>8, ProgramStepLayouts
<1>9. CASE UNCHANGED vars
  <2>1. UNCHANGED <<ddl, cols, lastId, storage, log, sch, draft, decoded>>
    BY <1>9 DEF vars, sourceVars, progVars
  <2>2. SourceLayouts(types)' /\ ProgramLayouts(types)' /\ PartitionsOK'
    BY <1>1, <1>2, <2>1, Zenon DEF SourceLayouts, ProgramLayouts, TopUnit, PartitionsOK
  <2>3. (types \in [Ids -> Types])'
    BY DEF Ids, Types
  <2>. QED BY <2>2, <2>3, Zenon DEF LayoutsInv
<1>. QED BY <1>3, <1>4, <1>5, <1>6, <1>7, <1>8, <1>9, Zenon DEF Next, Ddl, ProgramStep

(* Where the row's layout and that of the schema agree, what is decoded is *)
(* what was written, for any number of partitions, columns, changes and    *)
(* rows, and any values whose strings can be read.                         *)
THEOREM DecodesHolds == StringsReadable => (Spec => []DecodesWhatWasWritten)
<1>. SUFFICES ASSUME StringsReadable PROVE Spec => []DecodesWhatWasWritten
  OBVIOUS
<1>1. LayoutsInv => DecodesWhatWasWritten
  BY ReadingIsRight DEF LayoutsInv, ProgramLayouts
<1>. QED BY <1>1, NumbersInit, NumbersNext, LayoutsInit, LayoutsNext, PTL DEF Spec

(* And where they agree, a row is refused only for what is stored off-row, *)
(* for more columns than the schema has, or for gaps in its ids.           *)
THEOREM RefusesHolds == StringsReadable => (Spec => []RefusesOnlyWhatDiffers)
<1>. SUFFICES ASSUME StringsReadable PROVE Spec => []RefusesOnlyWhatDiffers
  OBVIOUS
<1>1. LayoutsInv => RefusesOnlyWhatDiffers
  BY ReadingIsRight DEF LayoutsInv, ProgramLayouts
<1>. QED BY <1>1, NumbersInit, NumbersNext, LayoutsInit, LayoutsNext, PTL DEF Spec
=============================================================================
