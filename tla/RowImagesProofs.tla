--------------------------- MODULE RowImagesProofs ---------------------------
(***************************************************************************)
(* The types of RowImages and that a cached image is the row of the log,   *)
(* for any table, any rows, any log and any number of failures.            *)
(*                                                                         *)
(* CacheFollowsLog speaks of the rows as of the last record handled, which *)
(* the invariant finds along the log: each record begins with the page     *)
(* that the one before it has left.                                        *)
(***************************************************************************)
EXTENDS RowImages, RowPatchProofs

-----------------------------------------------------------------------------
(* The log: what its records are, and that each begins with the page that  *)
(* the one before it has left.                                             *)

Pages == [Slots -> Rows \cup {None}]
Records ==
  [op : {"insert", "delete", "update"}, slot : Slots, from : Rows \cup {None},
   to : Rows \cup {None}, before : Pages, form : {"row", "columns", "image", "unread"},
   internal : BOOLEAN]

PageAt(i) == IF i < Len(log) THEN log[i + 1].before ELSE page
LogOK ==
  /\ log \in Seq(Records) /\ page \in Pages
  /\ \A i \in 1..Len(log) :
       /\ log[i].from = log[i].before[log[i].slot]
       /\ PageAt(i) = [log[i].before EXCEPT ![log[i].slot] = log[i].to]
       /\ log[i].op = "insert" => log[i].from = None /\ log[i].to # None
       /\ log[i].op = "delete" => log[i].from # None /\ log[i].to = None
       /\ log[i].op = "update" => log[i].from # None /\ log[i].to # None

Why == {"image", "internal", "page", "replay", "trailing"}
TypeInv ==
  /\ table \in Tables /\ at \in 0..Len(log) /\ checkpoint \in 0..at
  /\ Len(log) <= MaxLog /\ fails \in 0..MaxFails
  /\ DOMAIN cache \subseteq Slots /\ IsFiniteSet(DOMAIN cache)
  /\ Cardinality(DOMAIN cache) <= MaxItems
  /\ pages = NoPage \/ pages \in Pages
  /\ reasons \in [Slots -> SUBSET Why]

ImagesInv == LogOK /\ TypeInv /\ CacheFollowsLog

-----------------------------------------------------------------------------
(* Images.                                                                 *)

(* An image is a sequence of bytes that is not empty, in which the data    *)
(* begin after the first one.                                              *)
ImageOK(row) ==
  /\ Image(row) \in Seq(Int) /\ Image(row) # <<>>
  /\ DataStart(table.format, Image(row), Len(Cols)) \in 1..Len(Image(row))

(* The image of a row is bytes, with its descriptors or header at the      *)
(* start.                                                                  *)
LEMMA ImageOfRow ==
  ASSUME table \in Tables, NEW row \in Rows
  PROVE  ImageOK(row)
<1>1. Image(row) = Encode(table.format, Cols, row)
  BY DEF Image, Images
<1>2. PICK format \in {"NONE", "ROW"} : format = table.format
  BY ImagesAssumption
<1>3. IsRow(Cols, row)
  BY ImagesAssumption
<1>4. PICK e : e = Encode(format, Cols, row)
  OBVIOUS
<1>5. e \in Seq(Int) /\ Len(e) > 0
  BY <1>3, <1>4, EncodedRow, Zenon
<1>6. DataStart(format, e, Len(Cols)) \in 1..Len(e)
  BY <1>3, <1>4, DataStartInRow, Zenon
<1>7. e # <<>>
  BY <1>5
<1>. QED BY <1>1, <1>2, <1>4, <1>5, <1>6, <1>7, Zenon DEF ImageOK

(* No row is taken for an empty slot.                                      *)
LEMMA RowsAreNotEmpty == None \notin Rows
<1>1. SUFFICES ASSUME None \in Rows PROVE FALSE
  OBVIOUS
<1>2. DOMAIN None = DOMAIN Cols /\ IsRow(Cols, None) /\ Cols # <<>>
  BY <1>1, ImagesAssumption
<1>3. Cols \in Seq(Columns)
  BY <1>2 DEF IsRow
<1>4. DOMAIN None = {}
  BY DEF None
<1>5. Len(Cols) \in Nat \ {0}
  BY <1>2, <1>3, EmptySeq
<1>6. 1 \in DOMAIN Cols
  BY <1>3, <1>5
<1>. QED BY <1>2, <1>4, <1>6

(* What the log says of an update, applied to the image of the row before  *)
(* it, gives the image of the row after it.                                *)
RowApplies(from, to) ==
  LET f == RowFragment(Image(from), Image(to)) IN
  ApplyModifyRowFragment(Image(from), f.old, f.new, f.oldStart) = Image(to)

ColumnsApply(from, to) ==
  GivesRow(ApplyModifyColumns(Image(from),
             ColumnsRecord(Fragments(table.format, Image(from), Image(to), Len(Cols)), table.trailing)),
           Image(to), table.trailing)

(* What the log says of an update, applied to the image before it, gives   *)
(* the image after it.                                                     *)
LEMMA UpdateApplies ==
  ASSUME table \in Tables, NEW from \in Rows, NEW to \in Rows
  PROVE  RowApplies(from, to) /\ ColumnsApply(from, to)
<1>1. ImageOK(from) /\ ImageOK(to)
  BY ImageOfRow
<1>2. PICK a \in Seq(Int), b \in Seq(Int) : a = Image(from) /\ b = Image(to)
  BY <1>1, Zenon DEF ImageOK
<1>3. a # <<>> /\ DataStart(table.format, a, Len(Cols)) \in 1..Len(a)
  BY <1>1, <1>2, Zenon DEF ImageOK
<1>4. DataStart(table.format, b, Len(Cols)) \in 1..Len(b)
  BY <1>1, <1>2, Zenon DEF ImageOK
<1>5. RowApplies(from, to)
  <2>1. PICK f : f = RowFragment(a, b)
    OBVIOUS
  <2>2. ApplyModifyRowFragment(a, f.old, f.new, f.oldStart) = b
    BY <2>1, RowFragmentApplies
  <2>. QED BY <1>2, <2>1, <2>2, Zenon DEF RowApplies
<1>6. PICK trailing \in Seq(Int) : trailing = table.trailing
  <2>1. table.trailing \in Seq(0..255)
    BY ImagesAssumption
  <2>2. 0..255 \subseteq Int
    OBVIOUS
  <2>3. table.trailing \in Seq(Int)
    BY <2>1, <2>2, SeqMonotonic
  <2>. QED BY <2>3
<1>7. GivesRow(ApplyModifyColumns(a, ColumnsRecord(Fragments(table.format, a, b, Len(Cols)), trailing)), b, trailing)
  <2>. a # <<>> /\ DataStart(table.format, a, Len(Cols)) \in 0..Len(a)
       /\ DataStart(table.format, b, Len(Cols)) \in 1..Len(b)
    <3>1. DataStart(table.format, a, Len(Cols)) \in 0..Len(a)
      BY <1>3
    <3>. QED BY <1>3, <1>4, <3>1
  <2>. QED BY ModifyColumnsApply
<1>8. ColumnsApply(from, to)
  BY <1>2, <1>6, <1>7, Zenon DEF ColumnsApply
<1>. QED BY <1>5, <1>8

-----------------------------------------------------------------------------
(* The cache.                                                              *)

(* CacheSet puts an image into the cache; the others stay or are all gone. *)
CacheWith(c, s, image) ==
  /\ CacheSet(c, s, image)[s] = image /\ s \in DOMAIN CacheSet(c, s, image)
  /\ \A t \in DOMAIN CacheSet(c, s, image) :
       t # s => t \in DOMAIN c /\ CacheSet(c, s, image)[t] = c[t]
  /\ IsFiniteSet(DOMAIN CacheSet(c, s, image))
  /\ Cardinality(DOMAIN CacheSet(c, s, image)) <= MaxItems

(* Set keeps the images of the other slots or drops them all, and keeps    *)
(* the bound.                                                              *)
LEMMA CacheSetWith ==
  ASSUME NEW c, NEW s, NEW image, IsFiniteSet(DOMAIN c), Cardinality(DOMAIN c) <= MaxItems
  PROVE  CacheWith(c, s, image)
<1>1. PICK r : r = IF s \notin DOMAIN c /\ Cardinality(DOMAIN c) >= MaxItems THEN {} ELSE DOMAIN c
  OBVIOUS
<1>2. PICK n : n = CacheSet(c, s, image)
  OBVIOUS
<1>3. n = [t \in r \cup {s} |-> IF t = s THEN image ELSE c[t]]
  BY <1>1, <1>2 DEF CacheSet
<1>4. DOMAIN n = r \cup {s} /\ n[s] = image /\ \A t \in DOMAIN n : t # s => t \in r /\ n[t] = c[t]
  BY <1>3
<1>5. r \subseteq DOMAIN c
  BY <1>1
<1>6. IsFiniteSet(DOMAIN n) /\ Cardinality(DOMAIN n) <= MaxItems
  <2>1. MaxItems \in Nat \ {0} /\ Cardinality(DOMAIN c) \in Nat
    BY ImagesAssumption, FS_CardinalityType
  <2>2. CASE s \notin DOMAIN c /\ Cardinality(DOMAIN c) >= MaxItems
    <3>1. DOMAIN n = {s}
      BY <1>1, <1>4, <2>2
    <3>2. IsFiniteSet({s}) /\ Cardinality({s}) = 1
      BY FS_Singleton
    <3>. QED BY <2>1, <3>1, <3>2
  <2>3. CASE s \in DOMAIN c
    <3>1. DOMAIN n = DOMAIN c
      BY <1>1, <1>4, <2>3
    <3>. QED BY <3>1
  <2>4. CASE s \notin DOMAIN c /\ ~(Cardinality(DOMAIN c) >= MaxItems)
    <3>1. DOMAIN n = DOMAIN c \cup {s}
      BY <1>1, <1>4, <2>4
    <3>2. IsFiniteSet(DOMAIN c \cup {s}) /\ Cardinality(DOMAIN c \cup {s}) = Cardinality(DOMAIN c) + 1
      BY <2>4, FS_AddElement
    <3>. QED BY <2>1, <2>4, <3>1, <3>2
  <2>. QED BY <2>2, <2>3, <2>4
<1>. QED BY <1>2, <1>4, <1>5, <1>6, Zenon DEF CacheWith

(* CacheDelete takes an image out.                                         *)
CacheWithout(c, s) ==
  /\ DOMAIN CacheDelete(c, s) = DOMAIN c \ {s}
  /\ \A t \in DOMAIN CacheDelete(c, s) : CacheDelete(c, s)[t] = c[t]
  /\ IsFiniteSet(DOMAIN CacheDelete(c, s))
  /\ Cardinality(DOMAIN CacheDelete(c, s)) <= MaxItems

(* Delete drops the image of a slot and no other.                          *)
LEMMA CacheDeleteWithout ==
  ASSUME NEW c, NEW s, IsFiniteSet(DOMAIN c), Cardinality(DOMAIN c) <= MaxItems
  PROVE  CacheWithout(c, s)
<1>1. DOMAIN CacheDelete(c, s) = DOMAIN c \ {s}
      /\ \A t \in DOMAIN CacheDelete(c, s) : CacheDelete(c, s)[t] = c[t]
  BY DEF CacheDelete
<1>2. DOMAIN c \ {s} \subseteq DOMAIN c
  OBVIOUS
<1>3. IsFiniteSet(DOMAIN c \ {s}) /\ Cardinality(DOMAIN c \ {s}) <= Cardinality(DOMAIN c)
      /\ Cardinality(DOMAIN c \ {s}) \in Nat /\ Cardinality(DOMAIN c) \in Nat
  BY <1>2, FS_Subset, FS_CardinalityType
<1>4. Cardinality(DOMAIN c \ {s}) <= MaxItems
  BY <1>3, ImagesAssumption
<1>. QED BY <1>1, <1>3, <1>4 DEF CacheWithout

-----------------------------------------------------------------------------
(* The source.                                                             *)

(* A record is put at the end of the log; what the log says of the page    *)
(* before stays.                                                           *)
Logged(op, s, to) ==
  /\ op = "insert" => page[s] = None /\ to # None
  /\ op = "delete" => page[s] # None /\ to = None
  /\ op = "update" => page[s] # None /\ to # None

(* A record of the source continues the log, and no earlier page changes.  *)
LEMMA LogStep ==
  ASSUME LogOK, NEW op \in {"insert", "delete", "update"}, NEW s \in Slots,
         NEW to \in Rows \cup {None}, NEW form \in {"row", "columns", "image"},
         Log(op, s, to, form), Logged(op, s, to)
  PROVE  LogOK' /\ Len(log') = Len(log) + 1 /\ Len(log') <= MaxLog
         /\ \A i \in 0..Len(log) : PageAt(i)' = PageAt(i)
<1>1. log \in Seq(Records) /\ page \in Pages /\ Len(log) \in Nat
  BY DEF LogOK
<1>2. PICK internal \in BOOLEAN :
        log' = Append(log, [op |-> op, slot |-> s, from |-> page[s], to |-> to, before |-> page,
                            form |-> IF internal THEN "unread" ELSE form, internal |-> internal])
  BY DEF Log
<1>3. PICK n \in Nat : n = Len(log)
  BY <1>1
<1>4. PICK r : r = [op |-> op, slot |-> s, from |-> page[s], to |-> to, before |-> page,
                    form |-> IF internal THEN "unread" ELSE form, internal |-> internal]
  OBVIOUS
<1>5. page[s] \in Rows \cup {None}
  BY <1>1 DEF Pages
<1>6. r \in Records /\ r.op = op /\ r.slot = s /\ r.from = page[s] /\ r.to = to /\ r.before = page
  BY <1>1, <1>4, <1>5 DEF Records
<1>7. /\ log' \in Seq(Records) /\ Len(log') = n + 1 /\ log'[n + 1] = r
      /\ \A i \in 1..n : log'[i] = log[i]
  BY <1>1, <1>2, <1>3, <1>4, <1>6
<1>8. page' = [page EXCEPT ![s] = to] /\ Len(log) < MaxLog
  BY DEF Log
<1>9. page' \in Pages
  BY <1>1, <1>8 DEF Pages
<1>10. PageAt(n + 1)' = page'
  BY <1>7 DEF PageAt
<1>11. ASSUME NEW i \in 0..n PROVE PageAt(i)' = PageAt(i)
  <2>1. CASE i < n
    <3>1. i + 1 \in 1..n /\ i < n + 1
      BY <2>1
    <3>2. log'[i + 1] = log[i + 1]
      BY <1>7, <3>1
    <3>. QED BY <1>3, <1>7, <2>1, <3>1, <3>2 DEF PageAt
  <2>2. CASE i = n
    <3>1. PageAt(i) = page
      BY <1>3, <2>2 DEF PageAt
    <3>2. PageAt(i)' = log'[n + 1].before
      BY <1>7, <2>2 DEF PageAt
    <3>. QED BY <1>6, <1>7, <3>1, <3>2
  <2>. QED BY <2>1, <2>2
<1>12. ASSUME NEW i \in 1..(n + 1)
       PROVE /\ log'[i].from = log'[i].before[log'[i].slot]
             /\ PageAt(i)' = [log'[i].before EXCEPT ![log'[i].slot] = log'[i].to]
             /\ log'[i].op = "insert" => log'[i].from = None /\ log'[i].to # None
             /\ log'[i].op = "delete" => log'[i].from # None /\ log'[i].to = None
             /\ log'[i].op = "update" => log'[i].from # None /\ log'[i].to # None
  <2>1. CASE i = n + 1
    BY <1>6, <1>7, <1>8, <1>10, <2>1, Zenon DEF Logged
  <2>2. CASE i \in 1..n
    <3>1. i \in 0..n /\ i \in 1..Len(log)
      BY <1>3, <2>2
    <3>2. PageAt(i)' = PageAt(i) /\ log'[i] = log[i]
      BY <1>7, <1>11, <2>2, <3>1
    <3>3. /\ log[i].from = log[i].before[log[i].slot]
          /\ PageAt(i) = [log[i].before EXCEPT ![log[i].slot] = log[i].to]
          /\ log[i].op = "insert" => log[i].from = None /\ log[i].to # None
          /\ log[i].op = "delete" => log[i].from # None /\ log[i].to = None
          /\ log[i].op = "update" => log[i].from # None /\ log[i].to # None
      BY <3>1, Zenon DEF LogOK
    <3>. QED BY <3>2, <3>3, Zenon
  <2>. QED BY <2>1, <2>2
<1>13. LogOK'
  BY <1>7, <1>9, <1>12, Zenon DEF LogOK
<1>14. n + 1 <= MaxLog
  BY <1>3, <1>8, ImagesAssumption
<1>. QED BY <1>3, <1>7, <1>11, <1>13, <1>14, Zenon

(* So with every step of the source.                                       *)
SourceStays ==
  /\ LogOK' /\ Len(log') = Len(log) + 1 /\ Len(log') <= MaxLog
  /\ \A i \in 0..Len(log) : PageAt(i)' = PageAt(i)
  /\ UNCHANGED <<table, at, checkpoint, cache, pages, fails, reasons>> /\ done' = Nothing

(* The source leaves what the generator has seen as it was.                *)
LEMMA SourceStep ==
  ASSUME LogOK, TypeInv, Source
  PROVE  SourceStays
<1>0. page \in Pages /\ \A s \in Slots : page[s] \in Rows \cup {None}
  BY DEF LogOK, Pages
<1>1. CASE SourceInsert
  <2>1. PICK s \in Slots, row \in Rows : page[s] = None /\ Log("insert", s, row, "image")
    BY <1>1 DEF SourceInsert
  <2>. row # None
    BY RowsAreNotEmpty
  <2>. Log("insert", s, row, "image") /\ Logged("insert", s, row) /\ row \in Rows \cup {None}
    BY <2>1 DEF Logged
  <2>2. /\ LogOK' /\ Len(log') = Len(log) + 1 /\ Len(log') <= MaxLog
        /\ \A i \in 0..Len(log) : PageAt(i)' = PageAt(i)
    BY LogStep
  <2>. QED BY <2>2 DEF Log, SourceStays
<1>2. CASE SourceDelete
  <2>1. PICK s \in Slots : page[s] # None /\ Log("delete", s, None, "image")
    BY <1>2 DEF SourceDelete
  <2>. Log("delete", s, None, "image") /\ Logged("delete", s, None) /\ None \in Rows \cup {None}
    BY <2>1 DEF Logged
  <2>2. /\ LogOK' /\ Len(log') = Len(log) + 1 /\ Len(log') <= MaxLog
        /\ \A i \in 0..Len(log) : PageAt(i)' = PageAt(i)
    BY LogStep
  <2>. QED BY <2>2 DEF Log, SourceStays
<1>3. CASE SourceUpdate
  <2>1. PICK s \in Slots, row \in Rows, form \in table.forms : page[s] # None /\ Log("update", s, row, form)
    BY <1>3 DEF SourceUpdate
  <2>. row # None
    BY RowsAreNotEmpty
  <2>. form \in {"row", "columns", "image"}
    BY ImagesAssumption DEF TypeInv
  <2>. Log("update", s, row, form) /\ Logged("update", s, row) /\ row \in Rows \cup {None}
    BY <2>1 DEF Logged
  <2>2. /\ LogOK' /\ Len(log') = Len(log) + 1 /\ Len(log') <= MaxLog
        /\ \A i \in 0..Len(log) : PageAt(i)' = PageAt(i)
    BY LogStep
  <2>. QED BY <2>2 DEF Log, SourceStays
<1>. QED BY <1>1, <1>2, <1>3 DEF Source

-----------------------------------------------------------------------------
(* The generator.                                                          *)

(* A record is handled: the page as of the last one handled becomes what   *)
(* the record has made of it.                                              *)
RecordHandled ==
  /\ Rec \in Records /\ Now \in Pages /\ Now[Rec.slot] = Rec.from
  /\ Now' = [Now EXCEPT ![Rec.slot] = Rec.to]
  /\ Rec.op = "insert" => Rec.from = None /\ Rec.to # None
  /\ Rec.op = "delete" => Rec.from # None /\ Rec.to = None
  /\ Rec.op = "update" => Rec.from # None /\ Rec.to # None

(* A record is handled: the rows are those that it leaves, which differ in *)
(* its slot only.                                                          *)
LEMMA HandleStep ==
  ASSUME LogOK, TypeInv, at < Len(log), at' = at + 1, UNCHANGED sourceVars
  PROVE  RecordHandled /\ LogOK' /\ at' \in 0..Len(log)'
<1>1. log \in Seq(Records) /\ page \in Pages /\ at \in Nat /\ Len(log) \in Nat
  BY DEF LogOK, TypeInv
<1>2. at + 1 \in 1..Len(log) /\ log[at + 1] \in Records
  BY <1>1
<1>3. /\ Rec.from = Rec.before[Rec.slot]
      /\ PageAt(at + 1) = [Rec.before EXCEPT ![Rec.slot] = Rec.to]
      /\ Rec.op = "insert" => Rec.from = None /\ Rec.to # None
      /\ Rec.op = "delete" => Rec.from # None /\ Rec.to = None
      /\ Rec.op = "update" => Rec.from # None /\ Rec.to # None
  BY <1>2, Zenon DEF LogOK, Rec
<1>4. Now = Rec.before
  BY DEF Now
<1>5. Rec \in Records /\ Rec.before \in Pages
  BY <1>2 DEF Rec, Records
<1>6. Now' = PageAt(at + 1)
  BY <1>1 DEF Now, Rec, PageAt, sourceVars
<1>7. LogOK'
  BY DEF LogOK, PageAt, sourceVars
<1>8. at' \in 0..Len(log)'
  BY <1>1 DEF sourceVars
<1>. QED BY <1>3, <1>4, <1>5, <1>6, <1>7, <1>8, Zenon DEF RecordHandled

(* The cache follows the log if it does in the slot of the record.         *)
LEMMA CacheStep ==
  ASSUME LogOK, TypeInv, CacheFollowsLog, RecordHandled, table' = table, DOMAIN cache' \subseteq Slots,
         \A t \in DOMAIN cache' : t # Rec.slot => t \in DOMAIN cache /\ cache'[t] = cache[t],
         \A t \in Slots \ {Rec.slot} : reasons'[t] = reasons[t],
         Rec.slot \in DOMAIN cache' /\ reasons'[Rec.slot] = {} =>
           Rec.to # None /\ cache'[Rec.slot] = Image(Rec.to)
  PROVE  CacheFollowsLog'
<1>1. \A row : Image(row)' = Image(row)
  BY DEF Image, Images
<1>2. SUFFICES ASSUME NEW t \in DOMAIN cache', reasons'[t] = {}
               PROVE  Now'[t] # None /\ cache'[t] = Image(Now'[t])
  BY <1>1 DEF CacheFollowsLog, Image, Images
<1>3. t \in Slots /\ Now \in Pages /\ DOMAIN Now = Slots
  BY DEF RecordHandled, Pages
<1>4. CASE t = Rec.slot
  <2>1. Now'[t] = Rec.to
    BY <1>3, <1>4 DEF RecordHandled
  <2>. QED BY <1>2, <1>4, <2>1
<1>5. CASE t # Rec.slot
  <2>1. Now'[t] = Now[t]
    BY <1>3, <1>5 DEF RecordHandled
  <2>2. t \in DOMAIN cache /\ cache'[t] = cache[t] /\ reasons[t] = {}
    BY <1>2, <1>3, <1>5
  <2>3. Now[t] # None /\ cache[t] = Image(Now[t])
    BY <2>2 DEF CacheFollowsLog
  <2>. QED BY <2>1, <2>2, <2>3
<1>. QED BY <1>4, <1>5

(* A cached image without a reason is what the log says.                   *)
LEMMA RightImage ==
  ASSUME CacheFollowsLog, RecordHandled, Rec.slot \in DOMAIN cache, reasons[Rec.slot] = {}
  PROVE  cache[Rec.slot] = Image(Rec.from)
BY DEF CacheFollowsLog, RecordHandled

(* The rows of an update are rows.                                         *)
LEMMA UpdatedRows ==
  ASSUME RecordHandled, Rec.op = "update"
  PROVE  Rec.from \in Rows /\ Rec.to \in Rows
BY DEF RecordHandled, Records

(* What every handler leaves as it is, or nearly.                          *)
TypesAfter ==
  /\ DOMAIN cache' \subseteq Slots /\ IsFiniteSet(DOMAIN cache') /\ Cardinality(DOMAIN cache') <= MaxItems
  /\ pages' = NoPage \/ pages' \in Pages
  /\ reasons' \in [Slots -> SUBSET Why]

(* What keeps the types of a step that handles a record or of the source.  *)
LEMMA TypesStep ==
  ASSUME LogOK, TypeInv, TypesAfter, at' \in 0..Len(log)', at <= at',
         UNCHANGED <<table, log, checkpoint>>, fails' \in 0..MaxFails
  PROVE  TypeInv'
<1>1. at \in Nat /\ checkpoint \in 0..at /\ Len(log) \in Nat
  BY DEF LogOK, TypeInv
<1>2. checkpoint' \in 0..at'
  BY <1>1
<1>. QED BY <1>2 DEF TypeInv, TypesAfter

-----------------------------------------------------------------------------
(* The steps, one lemma for each handler.                                  *)

(* An image is put into the slot of the record.                            *)
CachePut(image) ==
  /\ CacheWith(cache, Rec.slot, image) /\ DOMAIN CacheSet(cache, Rec.slot, image) \subseteq Slots

(* Set, for the slot of the record.                                        *)
LEMMA PutImage ==
  ASSUME TypeInv, RecordHandled, NEW image
  PROVE  CachePut(image)
<1>. IsFiniteSet(DOMAIN cache) /\ Cardinality(DOMAIN cache) <= MaxItems
  BY DEF TypeInv
<1>1. CacheWith(cache, Rec.slot, image)
  BY CacheSetWith
<1>2. Rec.slot \in Slots /\ DOMAIN cache \subseteq Slots
  BY DEF TypeInv, RecordHandled, Records
<1>3. DOMAIN CacheSet(cache, Rec.slot, image) \subseteq Slots
  BY <1>1, <1>2, Zenon DEF CacheWith
<1>. QED BY <1>1, <1>3 DEF CachePut

(* An insert: the image is the one in the record.                          *)
LEMMA HandleInsertStep ==
  ASSUME ImagesInv, HandleInsert
  PROVE  ImagesInv'
<1>1. LogOK /\ TypeInv /\ CacheFollowsLog /\ at \in Nat /\ Len(log) \in Nat
  BY DEF ImagesInv, LogOK, TypeInv
<1>2. /\ at < Len(log) /\ at' = at + 1 /\ UNCHANGED sourceVars /\ UNCHANGED <<checkpoint, pages, fails>>
      /\ Rec.op = "insert" /\ cache' = CacheSet(cache, Rec.slot, Image(Rec.to))
      /\ reasons' = [reasons EXCEPT ![Rec.slot] = {}]
  BY DEF HandleInsert, Handle
<1>3. RecordHandled /\ LogOK' /\ at' \in 0..Len(log)'
  BY <1>1, <1>2, HandleStep
<1>4. CachePut(Image(Rec.to))
  BY <1>1, <1>3, PutImage
<1>5. Rec.slot \in Slots /\ Rec.to # None
  BY <1>2, <1>3 DEF RecordHandled, Records
<1>6. TypesAfter
  BY <1>1, <1>2, <1>4, <1>5 DEF TypesAfter, CachePut, CacheWith, TypeInv
<1>7. TypeInv'
  <2>. at <= at' /\ UNCHANGED <<table, log, checkpoint>> /\ fails' \in 0..MaxFails
    BY <1>1, <1>2 DEF sourceVars, TypeInv
  <2>. QED BY <1>1, <1>3, <1>6, TypesStep
<1>8. CacheFollowsLog'
  <2>. table' = table /\ DOMAIN cache' \subseteq Slots
       /\ (\A t \in DOMAIN cache' : t # Rec.slot => t \in DOMAIN cache /\ cache'[t] = cache[t])
       /\ (\A t \in Slots \ {Rec.slot} : reasons'[t] = reasons[t])
       /\ cache'[Rec.slot] = Image(Rec.to)
    BY <1>1, <1>2, <1>4, <1>5 DEF sourceVars, CachePut, CacheWith, TypeInv
  <2>. QED BY <1>1, <1>3, <1>5, CacheStep
<1>. QED BY <1>3, <1>7, <1>8 DEF ImagesInv

(* A delete: there is no image any more.                                   *)
LEMMA HandleDeleteStep ==
  ASSUME ImagesInv, HandleDelete
  PROVE  ImagesInv'
<1>1. LogOK /\ TypeInv /\ CacheFollowsLog /\ at \in Nat /\ Len(log) \in Nat
  BY DEF ImagesInv, LogOK, TypeInv
<1>2. /\ at < Len(log) /\ at' = at + 1 /\ UNCHANGED sourceVars /\ UNCHANGED <<checkpoint, pages, fails>>
      /\ cache' = CacheDelete(cache, Rec.slot)
      /\ reasons' = [reasons EXCEPT ![Rec.slot] = {}]
  BY DEF HandleDelete, Handle
<1>3. RecordHandled /\ LogOK' /\ at' \in 0..Len(log)'
  BY <1>1, <1>2, HandleStep
<1>4. CacheWithout(cache, Rec.slot)
  <2>. IsFiniteSet(DOMAIN cache) /\ Cardinality(DOMAIN cache) <= MaxItems
    BY <1>1 DEF TypeInv
  <2>. QED BY CacheDeleteWithout
<1>5. Rec.slot \in Slots
  BY <1>3 DEF RecordHandled, Records
<1>6. TypesAfter
  BY <1>1, <1>2, <1>4, <1>5 DEF TypesAfter, CacheWithout, TypeInv
<1>7. TypeInv'
  <2>. at <= at' /\ UNCHANGED <<table, log, checkpoint>> /\ fails' \in 0..MaxFails
    BY <1>1, <1>2 DEF sourceVars, TypeInv
  <2>. QED BY <1>1, <1>3, <1>6, TypesStep
<1>8. CacheFollowsLog'
  <2>. table' = table /\ DOMAIN cache' \subseteq Slots
       /\ (\A t \in DOMAIN cache' : t # Rec.slot => t \in DOMAIN cache /\ cache'[t] = cache[t])
       /\ (\A t \in Slots \ {Rec.slot} : reasons'[t] = reasons[t])
       /\ Rec.slot \notin DOMAIN cache'
    BY <1>1, <1>2, <1>4, <1>5 DEF sourceVars, CacheWithout, TypeInv
  <2>. QED BY <1>1, <1>3, CacheStep
<1>. QED BY <1>3, <1>7, <1>8 DEF ImagesInv

(* The fragment of the log makes the right image of the right one.         *)
LEMMA HandleModifyRowStep ==
  ASSUME ImagesInv, HandleModifyRow
  PROVE  ImagesInv'
<1>1. LogOK /\ TypeInv /\ CacheFollowsLog /\ at \in Nat /\ Len(log) \in Nat
  BY DEF ImagesInv, LogOK, TypeInv
<1>. DEFINE f == RowFragment(Image(Rec.from), Image(Rec.to))
            after == IF Warm(Rec.slot) THEN ApplyModifyRowFragment(cache[Rec.slot], f.old, f.new, f.oldStart)
                     ELSE NoImage
<1>2. /\ at < Len(log) /\ at' = at + 1 /\ UNCHANGED sourceVars
      /\ UNCHANGED <<checkpoint, pages, fails, reasons>>
      /\ Rec.op = "update"
      /\ cache' = IF after = NoImage THEN cache ELSE CacheSet(cache, Rec.slot, after)
  BY DEF HandleModifyRow, Handle, reconstructModifyRow
<1>3. RecordHandled /\ LogOK' /\ at' \in 0..Len(log)'
  BY <1>1, <1>2, HandleStep
<1>4. Rec.from \in Rows /\ Rec.to \in Rows /\ Rec.slot \in Slots /\ Rec.to # None /\ table \in Tables
  BY <1>1, <1>2, <1>3, UpdatedRows DEF RecordHandled, Records, TypeInv
<1>5. ASSUME Rec.slot \in DOMAIN cache, reasons[Rec.slot] = {}
      PROVE  after = Image(Rec.to) /\ after # NoImage
  <2>1. cache[Rec.slot] = Image(Rec.from)
    BY <1>1, <1>3, <1>5, RightImage
  <2>2. RowApplies(Rec.from, Rec.to)
    BY <1>4, UpdateApplies
  <2>3. ImageOK(Rec.to)
    BY <1>4, ImageOfRow
  <2>. QED BY <1>5, <2>1, <2>2, <2>3, Zenon DEF RowApplies, ImageOK, Warm, NoImage
<1>6. CachePut(after)
  BY <1>1, <1>3, PutImage
<1>7. Rec.slot \in DOMAIN cache' => Rec.slot \in DOMAIN cache
  <2>1. after # NoImage => Rec.slot \in DOMAIN cache
    BY Zenon DEF Warm
  <2>. QED BY <1>2, <2>1
<1>8. ASSUME Rec.slot \in DOMAIN cache', reasons'[Rec.slot] = {}
      PROVE  cache'[Rec.slot] = Image(Rec.to)
  <2>1. after = Image(Rec.to) /\ after # NoImage
    BY <1>2, <1>5, <1>7, <1>8
  <2>. QED BY <1>2, <1>6, <2>1, Zenon DEF CachePut, CacheWith
<1>. HIDE DEF after
<1>9. TypesAfter
  BY <1>1, <1>2, <1>6 DEF TypesAfter, CachePut, CacheWith, TypeInv
<1>10. TypeInv'
  <2>. at <= at' /\ UNCHANGED <<table, log, checkpoint>> /\ fails' \in 0..MaxFails
    BY <1>1, <1>2 DEF sourceVars, TypeInv
  <2>. QED BY <1>1, <1>3, <1>9, TypesStep
<1>11. CacheFollowsLog'
  <2>. table' = table /\ DOMAIN cache' \subseteq Slots
       /\ (\A t \in DOMAIN cache' : t # Rec.slot => t \in DOMAIN cache /\ cache'[t] = cache[t])
       /\ (\A t \in Slots \ {Rec.slot} : reasons'[t] = reasons[t])
    BY <1>1, <1>2, <1>6 DEF sourceVars, CachePut, CacheWith, TypeInv
  <2>. Rec.slot \in DOMAIN cache' /\ reasons'[Rec.slot] = {} =>
         Rec.to # None /\ cache'[Rec.slot] = Image(Rec.to)
    BY <1>4, <1>8
  <2>. QED BY <1>1, <1>3, CacheStep
<1>. QED BY <1>3, <1>10, <1>11 DEF ImagesInv

(* Handlers that leave the cache alone give a reason where it has an image *)
(* of the row.                                                             *)
LEMMA CacheKeptStep ==
  ASSUME ImagesInv, at < Len(log), at' = at + 1, UNCHANGED sourceVars, UNCHANGED <<checkpoint, cache, pages>>,
         fails' \in 0..MaxFails, reasons' \in [Slots -> SUBSET Why],
         \A t \in Slots \ {Rec.slot} : reasons'[t] = reasons[t],
         Rec.slot \in DOMAIN cache => reasons'[Rec.slot] # {}
  PROVE  ImagesInv'
<1>1. LogOK /\ TypeInv /\ CacheFollowsLog /\ at \in Nat /\ Len(log) \in Nat
  BY DEF ImagesInv, LogOK, TypeInv
<1>2. RecordHandled /\ LogOK' /\ at' \in 0..Len(log)'
  BY <1>1, HandleStep
<1>3. TypeInv'
  <2>. TypesAfter
    BY <1>1 DEF TypesAfter, TypeInv
  <2>. at <= at' /\ UNCHANGED <<table, log, checkpoint>> /\ fails' \in 0..MaxFails
    BY <1>1 DEF sourceVars
  <2>. QED BY <1>1, <1>2, TypesStep
<1>4. CacheFollowsLog'
  <2>. table' = table /\ DOMAIN cache' \subseteq Slots
       /\ (\A t \in DOMAIN cache' : t # Rec.slot => t \in DOMAIN cache /\ cache'[t] = cache[t])
    BY <1>1 DEF sourceVars, TypeInv
  <2>. Rec.slot \in DOMAIN cache' /\ reasons'[Rec.slot] = {} =>
         Rec.to # None /\ cache'[Rec.slot] = Image(Rec.to)
    OBVIOUS
  <2>. QED BY <1>1, <1>2, CacheStep
<1>. QED BY <1>2, <1>3, <1>4 DEF ImagesInv

(* The slot of a record that is there.                                     *)
LEMMA RecordSlot ==
  ASSUME ImagesInv, at < Len(log)
  PROVE  Rec.slot \in Slots /\ reasons \in [Slots -> SUBSET Why]
<1>1. at + 1 \in 1..Len(log) /\ log \in Seq(Records)
  BY DEF ImagesInv, LogOK, TypeInv
<1>2. Rec \in Records
  BY <1>1 DEF Rec
<1>. QED BY <1>2 DEF Records, ImagesInv, TypeInv

(* An update with its whole after-image leaves the cache alone, for a      *)
(* reason.                                                                 *)
LEMMA HandleModifyRowImageStep ==
  ASSUME ImagesInv, HandleModifyRowImage
  PROVE  ImagesInv'
<1>1. at < Len(log) /\ at' = at + 1
  BY DEF HandleModifyRowImage, Handle
<1>2. Rec.slot \in Slots /\ reasons \in [Slots -> SUBSET Why]
  BY <1>1, RecordSlot
<1>3. reasons' = [reasons EXCEPT ![Rec.slot] = @ \cup {"image"}]
  BY DEF HandleModifyRowImage
<1>4. /\ reasons' \in [Slots -> SUBSET Why]
      /\ \A t \in Slots \ {Rec.slot} : reasons'[t] = reasons[t]
      /\ reasons'[Rec.slot] # {}
  BY <1>2, <1>3 DEF Why
<1>5. UNCHANGED sourceVars /\ UNCHANGED <<checkpoint, cache, pages>> /\ fails' \in 0..MaxFails
  BY DEF HandleModifyRowImage, ImagesInv, TypeInv
<1>. QED BY <1>1, <1>4, <1>5, CacheKeptStep

(* A record of an internal transaction leaves the cache alone, for a       *)
(* reason.                                                                 *)
LEMMA HandleInternalStep ==
  ASSUME ImagesInv, HandleInternal
  PROVE  ImagesInv'
<1>1. at < Len(log) /\ at' = at + 1
  BY DEF HandleInternal, Handle
<1>2. Rec.slot \in Slots /\ reasons \in [Slots -> SUBSET Why]
  BY <1>1, RecordSlot
<1>3. reasons' = [reasons EXCEPT ![Rec.slot] = @ \cup {"internal"}]
  BY DEF HandleInternal
<1>4. /\ reasons' \in [Slots -> SUBSET Why]
      /\ \A t \in Slots \ {Rec.slot} : reasons'[t] = reasons[t]
      /\ reasons'[Rec.slot] # {}
  BY <1>2, <1>3 DEF Why
<1>5. UNCHANGED sourceVars /\ UNCHANGED <<checkpoint, cache, pages>> /\ fails' \in 0..MaxFails
  BY DEF HandleInternal, ImagesInv, TypeInv
<1>. QED BY <1>1, <1>4, <1>5, CacheKeptStep

(* An update without an image has none afterwards.                         *)
LEMMA HandleModifyColumnsColdStep ==
  ASSUME ImagesInv, HandleModifyColumnsCold
  PROVE  ImagesInv'
<1>1. at < Len(log) /\ at' = at + 1 /\ Rec.slot \notin DOMAIN cache
  BY DEF HandleModifyColumnsCold, Handle, Warm
<1>2. Rec.slot \in Slots /\ reasons \in [Slots -> SUBSET Why]
  BY <1>1, RecordSlot
<1>3. fails' \in 0..MaxFails
  BY ImagesAssumption DEF HandleModifyColumnsCold, ImagesInv, TypeInv
<1>4. UNCHANGED sourceVars /\ UNCHANGED <<checkpoint, cache, pages>> /\ reasons' = reasons
  BY DEF HandleModifyColumnsCold
<1>. QED BY <1>1, <1>2, <1>3, <1>4, CacheKeptStep

(* Forwards, the fragments of the log make the right image of the right    *)
(* one, if nothing follows them in the record.                             *)
LEMMA HandleModifyColumnsStep ==
  ASSUME ImagesInv, HandleModifyColumns
  PROVE  ImagesInv'
<1>1. LogOK /\ TypeInv /\ CacheFollowsLog /\ at \in Nat /\ Len(log) \in Nat
  BY DEF ImagesInv, LogOK, TypeInv
<1>. DEFINE after == ApplyModifyColumns(cache[Rec.slot], ModifyColumns)
<1>2. /\ at < Len(log) /\ at' = at + 1 /\ UNCHANGED sourceVars
      /\ UNCHANGED <<checkpoint, pages, fails>>
      /\ Rec.op = "update" /\ Rec.slot \in DOMAIN cache
      /\ cache' = CacheSet(cache, Rec.slot, after)
      /\ reasons' = [reasons EXCEPT ![Rec.slot] = @ \cup TrailingReason]
  BY DEF HandleModifyColumns, Handle, Warm
<1>3. RecordHandled /\ LogOK' /\ at' \in 0..Len(log)'
  BY <1>1, <1>2, HandleStep
<1>4. Rec.from \in Rows /\ Rec.to \in Rows /\ Rec.slot \in Slots /\ Rec.to # None /\ table \in Tables
  BY <1>1, <1>2, <1>3, UpdatedRows DEF RecordHandled, Records, TypeInv
<1>5. CachePut(after)
  BY <1>1, <1>3, PutImage
<1>6. ASSUME reasons'[Rec.slot] = {} PROVE cache'[Rec.slot] = Image(Rec.to)
  <2>1. reasons[Rec.slot] = {} /\ table.trailing = <<>>
    BY <1>1, <1>2, <1>4, <1>6 DEF TypeInv, TrailingReason
  <2>2. cache[Rec.slot] = Image(Rec.from)
    BY <1>1, <1>2, <1>3, <2>1, RightImage
  <2>3. ColumnsApply(Rec.from, Rec.to)
    BY <1>4, UpdateApplies
  <2>4. after = Image(Rec.to)
    BY <2>1, <2>2, <2>3, Zenon DEF ColumnsApply, GivesRow, ModifyColumns
  <2>. QED BY <1>2, <1>5, <2>4, Zenon DEF CachePut, CacheWith
<1>. HIDE DEF after
<1>7. TypesAfter
  <2>. TrailingReason \subseteq Why
    BY DEF TrailingReason, Why
  <2>. QED BY <1>1, <1>2, <1>5 DEF TypesAfter, CachePut, CacheWith, TypeInv
<1>8. TypeInv'
  <2>. at <= at' /\ UNCHANGED <<table, log, checkpoint>> /\ fails' \in 0..MaxFails
    BY <1>1, <1>2 DEF sourceVars, TypeInv
  <2>. QED BY <1>1, <1>3, <1>7, TypesStep
<1>9. CacheFollowsLog'
  <2>. table' = table /\ DOMAIN cache' \subseteq Slots
       /\ (\A t \in DOMAIN cache' : t # Rec.slot => t \in DOMAIN cache /\ cache'[t] = cache[t])
       /\ (\A t \in Slots \ {Rec.slot} : reasons'[t] = reasons[t])
    BY <1>1, <1>2, <1>4, <1>5 DEF sourceVars, CachePut, CacheWith, TypeInv
  <2>. Rec.slot \in DOMAIN cache' /\ reasons'[Rec.slot] = {} =>
         Rec.to # None /\ cache'[Rec.slot] = Image(Rec.to)
    BY <1>4, <1>6
  <2>. QED BY <1>1, <1>3, CacheStep
<1>. QED BY <1>3, <1>8, <1>9 DEF ImagesInv

(* Backwards, the image that stays in the cache is the one that is there,  *)
(* with the reasons it has.                                                *)
LEMMA ReversedStep ==
  ASSUME ImagesInv, NEW mr1, NEW why \in SUBSET Why, Reversed(mr1, why),
         at < Len(log), at' = at + 1, UNCHANGED sourceVars, UNCHANGED <<checkpoint, fails>>,
         pages' = NoPage \/ pages' \in Pages,
         why = {} => Rec.to # None /\ mr1 = Image(Rec.to),
         Rec.slot \in DOMAIN cache => reasons[Rec.slot] # {}
  PROVE  ImagesInv'
<1>1. LogOK /\ TypeInv /\ CacheFollowsLog /\ at \in Nat /\ Len(log) \in Nat
  BY DEF ImagesInv, LogOK, TypeInv
<1>2. RecordHandled /\ LogOK' /\ at' \in 0..Len(log)'
  BY <1>1, HandleStep
<1>3. Rec.slot \in Slots /\ reasons \in [Slots -> SUBSET Why]
  BY RecordSlot
<1>4. CachePut(mr1)
  BY <1>1, <1>2, PutImage
<1>5. \/ cache' = cache /\ reasons' = reasons
      \/ cache' = CacheSet(cache, Rec.slot, mr1) /\ reasons' = [reasons EXCEPT ![Rec.slot] = why]
  BY Zenon DEF Reversed
<1>6. TypesAfter
  BY <1>1, <1>3, <1>4, <1>5 DEF TypesAfter, CachePut, CacheWith, TypeInv
<1>7. TypeInv'
  <2>. at <= at' /\ UNCHANGED <<table, log, checkpoint>> /\ fails' \in 0..MaxFails
    BY <1>1 DEF sourceVars, TypeInv
  <2>. QED BY <1>1, <1>2, <1>6, TypesStep
<1>8. CacheFollowsLog'
  <2>. table' = table /\ DOMAIN cache' \subseteq Slots
       /\ (\A t \in DOMAIN cache' : t # Rec.slot => t \in DOMAIN cache /\ cache'[t] = cache[t])
       /\ (\A t \in Slots \ {Rec.slot} : reasons'[t] = reasons[t])
    BY <1>1, <1>3, <1>4, <1>5 DEF sourceVars, CachePut, CacheWith, TypeInv
  <2>. Rec.slot \in DOMAIN cache' /\ reasons'[Rec.slot] = {} =>
         Rec.to # None /\ cache'[Rec.slot] = Image(Rec.to)
    BY <1>3, <1>4, <1>5 DEF CachePut, CacheWith
  <2>. QED BY <1>1, <1>2, CacheStep
<1>. QED BY <1>2, <1>7, <1>8 DEF ImagesInv

(* A right image never fails to take the fragments.                        *)
LEMMA BackwardsHasReason ==
  ASSUME ImagesInv, RecordHandled, Rec.op = "update", Rec.slot \in DOMAIN cache,
         ApplyModifyColumns(cache[Rec.slot], ModifyColumns) = NoImage
  PROVE  reasons[Rec.slot] # {}
<1>1. SUFFICES ASSUME reasons[Rec.slot] = {} PROVE FALSE
  OBVIOUS
<1>2. CacheFollowsLog /\ table \in Tables /\ Rec.from \in Rows /\ Rec.to \in Rows
  BY UpdatedRows DEF ImagesInv, TypeInv
<1>3. cache[Rec.slot] = Image(Rec.from)
  BY <1>1, <1>2, RightImage
<1>4. ColumnsApply(Rec.from, Rec.to)
  BY <1>2, UpdateApplies
<1>. QED BY <1>3, <1>4, Zenon DEF ColumnsApply, GivesRow, ModifyColumns

(* So what is taken for the after-image has a reason.                      *)
LEMMA HandleModifyColumnsBackwardsStep ==
  ASSUME ImagesInv, HandleModifyColumnsBackwards
  PROVE  ImagesInv'
<1>1. LogOK /\ TypeInv
  BY DEF ImagesInv
<1>2. /\ at < Len(log) /\ at' = at + 1 /\ UNCHANGED sourceVars
      /\ UNCHANGED <<checkpoint, pages, fails>>
      /\ Rec.op = "update" /\ Rec.slot \in DOMAIN cache
      /\ ApplyModifyColumns(cache[Rec.slot], ModifyColumns) = NoImage
      /\ Reversed(cache[Rec.slot], reasons[Rec.slot])
  BY DEF HandleModifyColumnsBackwards, Handle, Warm
<1>3. RecordHandled
  BY <1>1, <1>2, HandleStep
<1>4. reasons[Rec.slot] # {}
  BY <1>2, <1>3, BackwardsHasReason
<1>5. reasons[Rec.slot] \in SUBSET Why /\ (pages' = NoPage \/ pages' \in Pages)
  BY <1>1, <1>2, RecordSlot DEF TypeInv
<1>. QED BY <1>2, <1>4, <1>5, ReversedStep

(* An update with the image of a page: it is the row after the update, or  *)
(* there is a reason.                                                      *)
LEMMA HandleModifyColumnsFromPageStep ==
  ASSUME ImagesInv, HandleModifyColumnsFromPage
  PROVE  ImagesInv'
<1>1. LogOK /\ TypeInv /\ CacheFollowsLog /\ at \in Nat /\ Len(log) \in Nat
  BY DEF ImagesInv, LogOK, TypeInv
<1>2. /\ at < Len(log) /\ at' = at + 1 /\ UNCHANGED sourceVars
      /\ UNCHANGED <<checkpoint, fails>>
      /\ Rec.op = "update" /\ Rec.slot \notin DOMAIN cache
      /\ pages' = IF pages = NoPage THEN page ELSE pages
  BY DEF HandleModifyColumnsFromPage, Handle, Warm
<1>3. pages' \in Pages
  BY <1>1, <1>2 DEF LogOK, TypeInv
<1>4. RecordHandled
  BY <1>1, <1>2, HandleStep
<1>5. Rec.to # None
  BY <1>2, <1>4 DEF RecordHandled
<1>6. CASE pages'[Rec.slot] = None
  <2>1. UNCHANGED <<cache, reasons>>
    BY <1>6 DEF HandleModifyColumnsFromPage
  <2>2. TypeInv'
    <3>1. RecordHandled /\ LogOK' /\ at' \in 0..Len(log)'
      BY <1>1, <1>2, HandleStep
    <3>. TypesAfter
      BY <1>1, <1>3, <2>1 DEF TypesAfter, TypeInv
    <3>. at <= at' /\ UNCHANGED <<table, log, checkpoint>> /\ fails' \in 0..MaxFails
      BY <1>1, <1>2 DEF sourceVars, TypeInv
    <3>. QED BY <1>1, <3>1, TypesStep
  <2>3. CacheFollowsLog'
    <3>. table' = table /\ DOMAIN cache' \subseteq Slots
         /\ (\A t \in DOMAIN cache' : t # Rec.slot => t \in DOMAIN cache /\ cache'[t] = cache[t])
         /\ (\A t \in Slots \ {Rec.slot} : reasons'[t] = reasons[t])
         /\ Rec.slot \notin DOMAIN cache'
      BY <1>1, <1>2, <2>1 DEF sourceVars, TypeInv
    <3>. QED BY <1>1, <1>4, CacheStep
  <2>4. LogOK'
    BY <1>1, <1>2, HandleStep
  <2>. QED BY <2>2, <2>3, <2>4 DEF ImagesInv
<1>7. CASE pages'[Rec.slot] # None
  <2>. DEFINE why == IF pages'[Rec.slot] = Rec.to THEN {} ELSE {"page"}
              mr1 == Image(pages'[Rec.slot])
  <2>1. Reversed(mr1, why)
    BY <1>7 DEF HandleModifyColumnsFromPage
  <2>2. why \in SUBSET Why /\ (why = {} => Rec.to # None /\ mr1 = Image(Rec.to))
    BY <1>5 DEF Why
  <2>. HIDE DEF why, mr1
  <2>. QED BY <1>2, <1>3, <2>1, <2>2, ReversedStep
<1>. QED BY <1>6, <1>7

-----------------------------------------------------------------------------
(* The other steps.                                                        *)

(* What the source logs concerns no image in the cache, and a poll that    *)
(* fails gives a reason to all of them.                                    *)
LEMMA OtherStep ==
  ASSUME ImagesInv, Source \/ EndPoll \/ PollFails \/ NewGenerator \/ PageExpires \/ UNCHANGED vars
  PROVE  ImagesInv'
<1>1. /\ LogOK /\ TypeInv /\ CacheFollowsLog /\ at \in Nat /\ Len(log) \in Nat /\ at <= Len(log)
      /\ checkpoint \in 0..at
  BY DEF ImagesInv, LogOK, TypeInv
<1>2. Now = PageAt(at) /\ Now' = PageAt(at)'
  BY <1>1 DEF Now, PageAt, Rec
<1>3. \A row : table' = table => Image(row)' = Image(row)
  BY DEF Image, Images
<1>4. CASE Source
  <2>1. SourceStays
    BY <1>1, <1>4, SourceStep
  <2>2. LogOK' /\ Len(log') = Len(log) + 1 /\ Len(log') <= MaxLog
        /\ UNCHANGED <<table, at, checkpoint, cache, pages, fails, reasons>>
    BY <2>1 DEF SourceStays
  <2>3. TypeInv'
    <3>1. at' \in 0..Len(log')
      BY <1>1, <2>2
    <3>. QED BY <1>1, <2>2, <3>1 DEF TypeInv
  <2>4. PageAt(at)' = PageAt(at)
    <3>1. PageAt(at)' = IF at < Len(log') THEN log'[at + 1].before ELSE page'
      BY <2>2 DEF PageAt
    <3>2. PICK k \in 0..Len(log) : k = at
      BY <1>1
    <3>3. PageAt(k)' = PageAt(k)
      BY <2>1 DEF SourceStays
    <3>4. PageAt(k)' = IF k < Len(log') THEN log'[k + 1].before ELSE page'
      BY DEF PageAt
    <3>. QED BY <3>1, <3>2, <3>3, <3>4, Zenon DEF PageAt
  <2>5. CacheFollowsLog'
    BY <1>1, <1>2, <1>3, <2>2, <2>4 DEF CacheFollowsLog
  <2>. QED BY <2>2, <2>3, <2>5 DEF ImagesInv
<1>5. CASE EndPoll \/ PageExpires \/ UNCHANGED vars
  <2>1. UNCHANGED <<sourceVars, at, cache, fails, reasons>> /\ checkpoint' \in 0..at
        /\ (pages' = pages \/ pages' = NoPage)
    BY <1>1, <1>5 DEF EndPoll, PageExpires, vars
  <2>2. LogOK' /\ TypeInv'
    BY <1>1, <2>1 DEF LogOK, TypeInv, PageAt, sourceVars
  <2>3. CacheFollowsLog'
    BY <1>1, <1>3, <2>1 DEF CacheFollowsLog, Now, Rec, sourceVars
  <2>. QED BY <2>2, <2>3 DEF ImagesInv
<1>6. CASE PollFails
  <2>1. UNCHANGED <<sourceVars, checkpoint, cache, pages>> /\ at' = checkpoint /\ fails' = fails + 1
        /\ fails < MaxFails /\ reasons' = [t \in Slots |-> reasons[t] \cup {"replay"}]
    BY <1>6 DEF PollFails, Failure
  <2>2. LogOK'
    BY <1>1, <2>1 DEF LogOK, PageAt, sourceVars
  <2>3. TypeInv'
    <3>1. reasons' \in [Slots -> SUBSET Why]
      BY <1>1, <2>1 DEF TypeInv, Why
    <3>2. fails' \in 0..MaxFails /\ at' \in 0..Len(log') /\ checkpoint' \in 0..at'
      BY <1>1, <2>1, ImagesAssumption DEF TypeInv, sourceVars
    <3>. QED BY <1>1, <2>1, <3>1, <3>2 DEF TypeInv, sourceVars
  <2>4. CacheFollowsLog'
    <3>1. \A t \in DOMAIN cache' : reasons'[t] # {}
      BY <1>1, <2>1 DEF TypeInv
    <3>. QED BY <3>1 DEF CacheFollowsLog
  <2>. QED BY <2>2, <2>3, <2>4 DEF ImagesInv
<1>7. CASE NewGenerator
  <2>1. UNCHANGED <<sourceVars, at, checkpoint>> /\ cache' = <<>> /\ pages' = NoPage
        /\ fails' = fails + 1 /\ fails < MaxFails /\ reasons' = [t \in Slots |-> {}]
    BY <1>7 DEF NewGenerator, Failure
  <2>2. LogOK'
    BY <1>1, <2>1 DEF LogOK, PageAt, sourceVars
  <2>3. DOMAIN cache' = {}
    BY <2>1
  <2>4. TypeInv'
    <3>1. IsFiniteSet({}) /\ Cardinality({}) = 0
      BY FS_EmptySet
    <3>2. fails' \in 0..MaxFails
      BY <1>1, <2>1, ImagesAssumption DEF TypeInv
    <3>3. reasons' \in [Slots -> SUBSET Why]
      BY <2>1
    <3>. QED BY <1>1, <2>1, <2>3, <3>1, <3>2, <3>3, ImagesAssumption DEF TypeInv, sourceVars
  <2>5. CacheFollowsLog'
    BY <2>3 DEF CacheFollowsLog
  <2>. QED BY <2>2, <2>4, <2>5 DEF ImagesInv
<1>. QED BY <1>4, <1>5, <1>6, <1>7

-----------------------------------------------------------------------------
(* The invariant.                                                          *)

(* The invariant holds initially.                                          *)
LEMMA ImagesInit == Init => ImagesInv
<1>. SUFFICES ASSUME Init PROVE ImagesInv
  OBVIOUS
<1>1. /\ log = <<>> /\ at = 0 /\ checkpoint = 0 /\ cache = <<>> /\ pages = NoPage /\ fails = 0
      /\ page \in Pages /\ table \in Tables /\ reasons = [s \in Slots |-> {}]
  BY DEF Init, Pages
<1>2. LogOK
  BY <1>1 DEF LogOK
<1>3. TypeInv
  <2>1. IsFiniteSet({}) /\ Cardinality({}) = 0
    BY FS_EmptySet
  <2>2. DOMAIN cache = {} /\ Len(log) = 0 /\ reasons \in [Slots -> SUBSET Why]
    BY <1>1
  <2>3. 0 <= MaxLog /\ 0 <= MaxItems /\ 0 \in 0..MaxFails
    BY ImagesAssumption
  <2>. QED BY <1>1, <2>1, <2>2, <2>3 DEF TypeInv
<1>4. CacheFollowsLog
  BY <1>1 DEF CacheFollowsLog
<1>. QED BY <1>2, <1>3, <1>4 DEF ImagesInv

(* Every step keeps it.                                                    *)
LEMMA ImagesNext == ImagesInv /\ [Next]_vars => ImagesInv'
<1>. SUFFICES ASSUME ImagesInv, [Next]_vars PROVE ImagesInv'
  OBVIOUS
<1>. QED
  BY OtherStep, HandleInsertStep, HandleDeleteStep, HandleModifyRowStep, HandleModifyRowImageStep,
     HandleModifyColumnsStep, HandleModifyColumnsBackwardsStep, HandleModifyColumnsFromPageStep,
     HandleModifyColumnsColdStep, HandleInternalStep
  DEF Next, HandleRecord, HandleUpdate

(* The log's records follow from one another up to the page, the variables *)
(* have their types, and the cache follows the log: inductive together.    *)
THEOREM ImagesInvHolds == Spec => []ImagesInv
BY ImagesInit, ImagesNext, PTL DEF Spec

(* The variables have their types, and the cache never holds more images   *)
(* than maxItems (RowImageCache.Set clears it).                            *)
THEOREM ImagesTypesHold == Spec => []ImagesTypeOK
<1>1. ImagesInv => ImagesTypeOK
  BY DEF ImagesInv, LogOK, TypeInv, ImagesTypeOK, Pages, Why
<1>. QED BY <1>1, ImagesInvHolds, PTL

(* An image that the generator has of a row is, byte by byte, what the log *)
(* says the row is, unless one of the reasons given is there: whatever the *)
(* number of slots, rows, records and failures.                            *)
THEOREM CacheFollowsLogHolds == Spec => []CacheFollowsLog
<1>1. ImagesInv => CacheFollowsLog
  BY DEF ImagesInv
<1>. QED BY <1>1, ImagesInvHolds, PTL
-----------------------------------------------------------------------------
(* The rows of the source: no two have the same key, on any page of the    *)
(* log.                                                                    *)

UniqueKeys(t) ==
  Keyed => \A s, u \in Slots : s # u /\ t[s] # None /\ t[u] # None => t[s][1] # t[u][1]
SourceOK ==
  /\ UniqueKeys(page)
  /\ \A i \in 1..Len(log) :
       /\ UniqueKeys(log[i].before)
       /\ log[i].op = "update" => log[i].from # log[i].to /\ log[i].form \in table.forms \cup {"unread"}

(* At the beginning there is one row at most.                              *)
LEMMA SourceInit == Init => SourceOK
<1>. SUFFICES ASSUME Init PROVE SourceOK
  OBVIOUS
<1>1. log = <<>> /\ Len(log) = 0
  BY DEF Init
<1>2. ASSUME NEW s \in Slots, NEW u \in Slots, s # u, page[s] # None, page[u] # None PROVE FALSE
  <2>. DEFINE S == {v \in Slots : page[v] # None}
  <2>1. IsFiniteSet(S) /\ {s, u} \subseteq S
    <3>. IsFiniteSet(Slots) /\ S \subseteq Slots
      BY ImagesAssumption
    <3>. QED BY <1>2, FS_Subset
  <2>2. Cardinality(S) <= 1
    BY DEF Init
  <2>. HIDE DEF S
  <2>3. Cardinality({s, u}) <= Cardinality(S) /\ Cardinality(S) \in Nat
    BY <2>1, FS_Subset, FS_CardinalityType
  <2>4. IsFiniteSet({s}) /\ Cardinality({s}) = 1
    BY FS_Singleton
  <2>5. Cardinality({s} \cup {u}) = 2
    <3>. u \notin {s}
      BY <1>2
    <3>1. Cardinality({s} \cup {u}) = Cardinality({s}) + 1
      BY <2>4, FS_AddElement
    <3>. QED BY <2>4, <3>1
  <2>6. {s} \cup {u} = {s, u}
    OBVIOUS
  <2>. QED BY <2>2, <2>3, <2>5, <2>6
<1>. QED BY <1>1, <1>2 DEF SourceOK, UniqueKeys

(* A row that is put on the page has a key of its own.                     *)
LEMMA KeysKept ==
  ASSUME UniqueKeys(page), page \in Pages, NEW s \in Slots, NEW to, to # None => Free(to, s),
         page' = [page EXCEPT ![s] = to], table' = table
  PROVE  UniqueKeys(page)'
<1>1. SUFFICES ASSUME Keyed, NEW v \in Slots, NEW u \in Slots, v # u, page'[v] # None, page'[u] # None
               PROVE  page'[v][1] # page'[u][1]
  BY DEF UniqueKeys, Keyed
<1>2. \A w \in Slots : page'[w] = IF w = s THEN to ELSE page[w]
  BY DEF Pages
<1>3. ASSUME NEW w \in Slots, w # s, page[w] # None, to # None PROVE to[1] # page[w][1]
  BY <1>1, <1>3 DEF Free
<1>4. CASE v = s
  <2>. page'[v] = to /\ page'[u] = page[u] /\ u # s
    BY <1>1, <1>2, <1>4
  <2>. QED BY <1>1, <1>3
<1>5. CASE u = s
  <2>. page'[u] = to /\ page'[v] = page[v] /\ v # s
    BY <1>1, <1>2, <1>5
  <2>. QED BY <1>1, <1>3
<1>6. CASE v # s /\ u # s
  <2>. page'[u] = page[u] /\ page'[v] = page[v]
    BY <1>2, <1>6
  <2>. QED BY <1>1 DEF UniqueKeys
<1>. QED BY <1>4, <1>5, <1>6

(* A record of the source keeps this.                                      *)
LEMMA SourceLog ==
  ASSUME LogOK, SourceOK, NEW op, NEW s \in Slots, NEW to, NEW form, Log(op, s, to, form),
         to # None => Free(to, s), op = "update" => page[s] # to /\ form \in table.forms
  PROVE  SourceOK'
<1>1. log \in Seq(Records) /\ page \in Pages
  BY DEF LogOK
<1>2. PICK internal \in BOOLEAN :
        log' = Append(log, [op |-> op, slot |-> s, from |-> page[s], to |-> to, before |-> page,
                            form |-> IF internal THEN "unread" ELSE form, internal |-> internal])
  BY DEF Log
<1>3. PICK r : r = [op |-> op, slot |-> s, from |-> page[s], to |-> to, before |-> page,
                    form |-> IF internal THEN "unread" ELSE form, internal |-> internal]
  OBVIOUS
<1>4. r.op = op /\ r.from = page[s] /\ r.to = to /\ r.before = page /\ r.form \in {form, "unread"}
  BY <1>3
<1>5. Len(log) \in Nat /\ Len(log') = Len(log) + 1 /\ log'[Len(log) + 1] = r
      /\ \A i \in 1..Len(log) : log'[i] = log[i]
  BY <1>1, <1>2, <1>3
<1>6. page' = [page EXCEPT ![s] = to] /\ table' = table
  BY DEF Log
<1>7. UniqueKeys(page)'
  BY <1>1, <1>6, KeysKept DEF SourceOK
<1>8. \A t : UniqueKeys(t) <=> (table'.keyed => \A v, u \in Slots : v # u /\ t[v] # None /\ t[u] # None => t[v][1] # t[u][1])
  BY <1>6, Zenon DEF UniqueKeys, Keyed
<1>9. ASSUME NEW i \in 1..Len(log')
      PROVE  /\ UniqueKeys(log'[i].before)
             /\ log'[i].op = "update" => log'[i].from # log'[i].to /\ log'[i].form \in table'.forms \cup {"unread"}
  <2>1. CASE i = Len(log) + 1
    BY <1>4, <1>5, <1>6, <2>1 DEF SourceOK
  <2>2. CASE i # Len(log) + 1
    <3>. i \in 1..Len(log)
      BY <1>5, <2>2
    <3>. QED BY <1>5, <1>6 DEF SourceOK
  <2>. QED BY <2>1, <2>2
<1>. QED BY <1>7, <1>8, <1>9, Zenon DEF SourceOK, UniqueKeys, Keyed

(* And no other step touches the source.                                   *)
LEMMA SourceNext == ImagesInv /\ SourceOK /\ [Next]_vars => SourceOK'
<1>. SUFFICES ASSUME ImagesInv, SourceOK, [Next]_vars PROVE SourceOK'
  OBVIOUS
<1>1. LogOK /\ page \in Pages
  BY DEF ImagesInv, LogOK
<1>2. CASE SourceInsert
  <2>1. PICK s \in Slots, row \in Rows : Free(row, s) /\ Log("insert", s, row, "image")
    BY <1>2 DEF SourceInsert
  <2>. QED BY <1>1, <2>1, SourceLog
<1>3. CASE SourceDelete
  <2>1. PICK s \in Slots : Log("delete", s, None, "image")
    BY <1>3 DEF SourceDelete
  <2>. QED BY <1>1, <2>1, SourceLog
<1>4. CASE SourceUpdate
  <2>1. PICK s \in Slots, row \in Rows, form \in table.forms :
          page[s] # row /\ Free(row, s) /\ Log("update", s, row, form)
    BY <1>4 DEF SourceUpdate
  <2>. QED BY <1>1, <2>1, SourceLog
<1>5. CASE UNCHANGED sourceVars
  BY <1>5 DEF SourceOK, UniqueKeys, Keyed, sourceVars
<1>6. HandleRecord \/ EndPoll \/ PollFails \/ NewGenerator \/ PageExpires \/ UNCHANGED vars => UNCHANGED sourceVars
  BY DEF HandleRecord, HandleUpdate, HandleInsert, HandleDelete, HandleModifyRow, HandleModifyRowImage,
     HandleModifyColumns, HandleModifyColumnsBackwards, HandleModifyColumnsFromPage, HandleModifyColumnsCold,
     HandleInternal, EndPoll, PollFails, NewGenerator, PageExpires, vars
<1>. QED BY <1>2, <1>3, <1>4, <1>5, <1>6 DEF Next, Source

-----------------------------------------------------------------------------
(* Executing a statement.                                                  *)

(* Only one row of the page is the one in slot s, by its key or else as a  *)
(* whole.                                                                  *)
Distinct(t) == UniqueKeys(t) /\ (Keyed \/ ~Twins(t))

(* So WHERE finds it and no other.                                         *)
LEMMA OneRowMatches ==
  ASSUME NEW t \in Pages, Distinct(t), NEW s \in Slots, NEW row \in Rows, t[s] = row, NEW u \in Slots
  PROVE  Matches(t[u], buildWhere(row)) <=> u = s
<1>1. row # None /\ t[u] \in Rows \cup {None}
  BY RowsAreNotEmpty DEF Pages
<1>2. PICK D : D = DOMAIN Cols
  OBVIOUS
<1>3. row = [i \in D |-> row[i]] /\ (t[u] # None => t[u] = [i \in D |-> t[u][i]])
  BY <1>1, <1>2, ImagesAssumption
<1>4. CASE Keyed
  <2>1. DOMAIN buildWhere(row) = {1} /\ buildWhere(row)[1] = row[1]
    BY <1>4 DEF buildWhere, Key
  <2>2. Matches(t[u], buildWhere(row)) <=> t[u] # None /\ t[u][1] = row[1]
    BY <2>1 DEF Matches
  <2>3. ASSUME u # s, t[u] # None PROVE t[u][1] # row[1]
    BY <1>1, <1>4, <2>3 DEF Distinct, UniqueKeys
  <2>. QED BY <1>1, <2>2, <2>3
<1>5. CASE ~Keyed
  <2>1. DOMAIN buildWhere(row) = D /\ \A i \in D : buildWhere(row)[i] = row[i]
    BY <1>2, <1>5 DEF buildWhere
  <2>2. Matches(t[u], buildWhere(row)) <=> t[u] # None /\ \A i \in D : t[u][i] = row[i]
    BY <2>1 DEF Matches
  <2>3. ASSUME t[u] # None, \A i \in D : t[u][i] = row[i] PROVE t[u] = row
    BY <1>3, <2>3
  <2>4. ASSUME u # s, t[u] = row PROVE FALSE
    BY <1>1, <1>5, <2>4 DEF Distinct, Twins
  <2>. QED BY <1>1, <2>2, <2>3, <2>4
<1>. QED BY <1>4, <1>5

(* DELETE removes it.                                                      *)
LEMMA DeletesRow ==
  ASSUME NEW t \in Pages, Distinct(t), NEW s \in Slots, NEW row \in Rows, t[s] = row
  PROVE  Exec(DeleteSQL(buildWhere(row)), t) = [t EXCEPT ![s] = None]
<1>1. PICK c : c = DeleteSQL(buildWhere(row))
  OBVIOUS
<1>2. c.kind = "delete" /\ c.where = buildWhere(row)
  BY <1>1 DEF DeleteSQL
<1>3. Exec(c, t) = [u \in Slots |-> IF Matches(t[u], c.where) THEN None ELSE t[u]]
  BY <1>2 DEF Exec
<1>4. \A u \in Slots : Matches(t[u], c.where) <=> u = s
  BY <1>2, OneRowMatches
<1>5. t = [u \in Slots |-> t[u]]
  BY DEF Pages
<1>. QED BY <1>1, <1>3, <1>4, <1>5

(* UPDATE makes another one of it.                                         *)
LEMMA UpdatesRow ==
  ASSUME NEW t \in Pages, Distinct(t), NEW s \in Slots, NEW row \in Rows, t[s] = row,
         NEW set, NEW to, With(row, set) = to
  PROVE  Exec(UpdateSQL(set, buildWhere(row)), t) = [t EXCEPT ![s] = to]
<1>1. PICK c : c = UpdateSQL(set, buildWhere(row))
  OBVIOUS
<1>2. c.kind = "update" /\ c.where = buildWhere(row) /\ c.set = set
  BY <1>1 DEF UpdateSQL
<1>3. Exec(c, t) = [u \in Slots |-> IF Matches(t[u], c.where) THEN With(t[u], c.set) ELSE t[u]]
  BY <1>2 DEF Exec
<1>4. \A u \in Slots : Matches(t[u], c.where) <=> u = s
  BY <1>2, OneRowMatches
<1>5. t = [u \in Slots |-> t[u]]
  BY DEF Pages
<1>. QED BY <1>1, <1>2, <1>3, <1>4, <1>5

(* Whichever free slot a row is put into, the table has the same rows.     *)
LEMMA AnySlotWillDo ==
  ASSUME NEW t \in Pages, NEW s \in Slots, NEW u \in Slots, t[s] = None, t[u] = None, NEW row, row # None
  PROVE  SameRows([t EXCEPT ![u] = row], [t EXCEPT ![s] = row])
<1>1. SUFFICES ASSUME NEW r
               PROVE  Cardinality({v \in Slots : [t EXCEPT ![u] = row][v] = r})
                      = Cardinality({v \in Slots : [t EXCEPT ![s] = row][v] = r})
  BY Zenon DEF SameRows
<1>2. PICK T : T = {v \in Slots : t[v] = r}
  OBVIOUS
<1>3. IsFiniteSet(T)
  <2>. T \subseteq Slots /\ IsFiniteSet(Slots)
    BY <1>2, ImagesAssumption
  <2>. QED BY FS_Subset
<1>4. \A w \in Slots, v \in Slots : [t EXCEPT ![w] = row][v] = IF v = w THEN row ELSE t[v]
  BY DEF Pages
<1>5. CASE r = row
  <2>1. \A w \in {s, u} : w \notin T /\ {v \in Slots : [t EXCEPT ![w] = row][v] = r} = T \cup {w}
    BY <1>2, <1>4, <1>5
  <2>2. \A w \in {s, u} : Cardinality(T \cup {w}) = Cardinality(T) + 1
    BY <1>3, <2>1, FS_AddElement
  <2>. QED BY <2>1, <2>2
<1>6. CASE r = None /\ r # row
  <2>1. \A w \in {s, u} : w \in T /\ {v \in Slots : [t EXCEPT ![w] = row][v] = r} = T \ {w}
    BY <1>2, <1>4, <1>6
  <2>2. \A w \in {s, u} : Cardinality(T \ {w}) = Cardinality(T) - 1
    BY <1>3, <2>1, FS_RemoveElement
  <2>. QED BY <2>1, <2>2
<1>7. CASE r # None /\ r # row
  <2>1. \A w \in {s, u} : {v \in Slots : [t EXCEPT ![w] = row][v] = r} = T
    BY <1>2, <1>4, <1>7
  <2>. QED BY <2>1
<1>. QED BY <1>5, <1>6, <1>7

(* INSERT puts it where there is room.                                     *)
LEMMA InsertsRow ==
  ASSUME NEW t \in Pages, NEW s \in Slots, t[s] = None, NEW row \in Rows
  PROVE  SameRows(Exec(InsertSQL(row), t), [t EXCEPT ![s] = row])
<1>1. PICK c, u : c = InsertSQL(row) /\ u = CHOOSE v \in Slots : t[v] = None
  OBVIOUS
<1>2. c.kind = "insert" /\ c.set = row
  BY <1>1 DEF InsertSQL
<1>3. u \in Slots /\ t[u] = None
  BY <1>1
<1>4. Exec(c, t) = [t EXCEPT ![u] = [i \in DOMAIN Cols |-> row[i]]]
  BY <1>1, <1>2 DEF Exec
<1>5. row = [i \in DOMAIN Cols |-> row[i]] /\ row # None
  BY ImagesAssumption, RowsAreNotEmpty
<1>6. SameRows([t EXCEPT ![u] = row], [t EXCEPT ![s] = row])
  BY <1>3, <1>5, AnySlotWillDo
<1>. QED BY <1>1, <1>4, <1>5, <1>6, Zenon

(* The same page has the same rows.                                        *)
LEMMA SameRowsItself == \A t, u : t = u => SameRows(t, u)
BY Zenon DEF SameRows

-----------------------------------------------------------------------------
(* Statements.                                                             *)

(* What a statement is to do, and its rollback to undo.                    *)
Effect(stmt, before, after) ==
  /\ stmt.sql.kind # "comment" => SameRows(Exec(stmt.sql, before), after)
  /\ stmt.undo.kind # "comment" => SameRows(Exec(stmt.undo, after), before)

(* A whole image shows the row.                                            *)
ShowsRow(row) ==
  /\ decodeRowImage(Image(row), Cols, Cols, table.format) = Accepted(row)
  /\ Decode(Image(row)) = Accepted(row)

(* Both of the generator's decoders read it.                               *)
LEMMA ImageShowsRow ==
  ASSUME RowsInFull, table \in Tables, NEW row \in Rows
  PROVE  ShowsRow(row)
<1>1. Image(row) = Encode(table.format, Cols, row)
  BY DEF Image, Images
<1>2. PICK format \in {"NONE", "ROW"} : format = table.format
  BY ImagesAssumption
<1>3. Positional(Cols) /\ InFull(format, Cols, row)
  BY <1>2 DEF RowsInFull
<1>4. /\ decodeRowImage(Encode(format, Cols, row), Cols, Cols, format) = Accepted([i \in DOMAIN Cols |-> row[i]])
      /\ DecodeDMLRowImage(Encode(format, Cols, row), Cols, Cols, format) = Accepted([i \in DOMAIN Cols |-> row[i]])
  BY <1>3, RoundTrip
<1>5. row = [i \in DOMAIN Cols |-> row[i]]
  BY ImagesAssumption
<1>. QED BY <1>1, <1>2, <1>4, <1>5, Zenon DEF ShowsRow, Decode

(* An insert names the row, and is undone by the removal of that row.      *)
InsertOf(row) == Statement(InsertSQL(row), DeleteSQL(buildWhere(row)), "image", FALSE)

(* So does the generator's.                                                *)
LEMMA InsertStatement ==
  ASSUME RowsInFull, table \in Tables, NEW row \in Rows
  PROVE  insert(Image(row)) = InsertOf(row)
<1>1. ShowsRow(row)
  BY ImageShowsRow
<1>. QED BY <1>1, AcceptedOk, Zenon DEF ShowsRow, insert, InsertOf

(* A delete is undone by an insert; or it is not stated, without a key.    *)
DeleteOf(row) ==
  Statement(IF Keyed /\ Null1(row) THEN Comment ELSE DeleteSQL(buildWhere(row)), InsertSQL(row), "image", FALSE)

(* So is the generator's.                                                  *)
LEMMA DeleteStatement ==
  ASSUME RowsInFull, table \in Tables, NEW row \in Rows
  PROVE  delete(Image(row)) = DeleteOf(row)
<1>1. ShowsRow(row)
  BY ImageShowsRow
<1>. QED BY <1>1, AcceptedOk, Zenon DEF ShowsRow, delete, DeleteOf

(* An update sets what has changed.                                        *)
UpdateOf(from, to) ==
  Statement(UpdateSQL(buildChangedSet(from, to), buildWhere(from)),
            UpdateSQL(buildChangedSet(to, from), buildWhere(to)), "image", FALSE)

(* And so does the generator's, from the images before and after it.       *)
LEMMA UpdateStatement ==
  ASSUME RowsInFull, table \in Tables, NEW from \in Rows, NEW to \in Rows, from # to
  PROVE  buildFullImageUpdate(Image(from), Image(to)) = UpdateOf(from, to)
<1>1. ShowsRow(from) /\ ShowsRow(to)
  BY ImageShowsRow
<1>2. PICK b, a : b = Decode(Image(from)) /\ a = Decode(Image(to))
  OBVIOUS
<1>3. b.err = "" /\ b.vals = from /\ a.err = "" /\ a.vals = to
  BY <1>1, <1>2, AcceptedOk, Zenon DEF ShowsRow
<1>. QED BY <1>2, <1>3, Zenon DEF buildFullImageUpdate, UpdateOf
(* Executed, the statement for an insert and its rollback.                 *)
LEMMA InsertEffect ==
  ASSUME NEW before \in Pages, NEW s \in Slots, before[s] = None, NEW row \in Rows,
         Distinct([before EXCEPT ![s] = row])
  PROVE  Effect(InsertOf(row), before, [before EXCEPT ![s] = row])
<1>1. PICK after \in Pages : after = [before EXCEPT ![s] = row]
  <2>. [before EXCEPT ![s] = row] \in Pages
    BY DEF Pages
  <2>. QED OBVIOUS
<1>2. SameRows(Exec(InsertSQL(row), before), after)
  BY <1>1, InsertsRow
<1>3. after[s] = row /\ [after EXCEPT ![s] = None] = before
  BY <1>1 DEF Pages
<1>4. Exec(DeleteSQL(buildWhere(row)), after) = [after EXCEPT ![s] = None]
  BY <1>1, <1>3, DeletesRow
<1>5. SameRows(Exec(DeleteSQL(buildWhere(row)), after), before)
  BY <1>3, <1>4, SameRowsItself
<1>. QED BY <1>1, <1>2, <1>5, Zenon DEF Effect, InsertOf, Statement

(* And for a delete.                                                       *)
LEMMA DeleteEffect ==
  ASSUME NEW before \in Pages, Distinct(before), NEW s \in Slots, NEW row \in Rows, before[s] = row
  PROVE  Effect(DeleteOf(row), before, [before EXCEPT ![s] = None])
<1>1. PICK after \in Pages : after = [before EXCEPT ![s] = None]
  <2>. [before EXCEPT ![s] = None] \in Pages
    BY DEF Pages
  <2>. QED OBVIOUS
<1>2. Exec(DeleteSQL(buildWhere(row)), before) = after
  BY <1>1, DeletesRow
<1>3. SameRows(Exec(DeleteSQL(buildWhere(row)), before), after)
  BY <1>2, SameRowsItself
<1>4. after[s] = None /\ [after EXCEPT ![s] = row] = before
  BY <1>1 DEF Pages
<1>5. SameRows(Exec(InsertSQL(row), after), before)
  BY <1>4, InsertsRow
<1>6. Comment.kind = "comment"
  BY DEF Comment
<1>7. CASE Keyed /\ Null1(row)
  BY <1>1, <1>5, <1>6, <1>7, Zenon DEF Effect, DeleteOf, Statement
<1>8. CASE ~(Keyed /\ Null1(row))
  BY <1>1, <1>3, <1>5, <1>8, Zenon DEF Effect, DeleteOf, Statement
<1>. QED BY <1>7, <1>8

(* And for an update, whichever of the columns it sets.                    *)
LEMMA SetsRow ==
  ASSUME NEW from \in Rows, NEW to \in Rows
  PROVE  With(from, buildChangedSet(from, to)) = to /\ With(from, to) = to
<1>1. PICK D : D = DOMAIN Cols
  OBVIOUS
<1>2. from = [i \in D |-> from[i]] /\ to = [i \in D |-> to[i]] /\ DOMAIN from = D /\ DOMAIN to = D
  <2>1. from = [i \in D |-> from[i]] /\ to = [i \in D |-> to[i]]
    BY <1>1, ImagesAssumption
  <2>. QED BY <2>1
<1>3. PICK set : set = buildChangedSet(from, to)
  OBVIOUS
<1>4. DOMAIN set = {k \in D : from[k] # to[k]} /\ \A i \in DOMAIN set : set[i] = to[i]
  BY <1>1, <1>3 DEF buildChangedSet
<1>5. With(from, set) = [i \in D |-> to[i]]
  <2>1. \A i \in D : (IF i \in DOMAIN set THEN set[i] ELSE from[i]) = to[i]
    BY <1>4
  <2>. QED BY <1>2, <2>1 DEF With
<1>6. With(from, to) = [i \in D |-> to[i]]
  BY <1>2 DEF With
<1>. QED BY <1>2, <1>3, <1>5, <1>6

(* And so is an update from the whole image in the log.                    *)
ImageUpdateOf(from, to) ==
  Statement(UpdateSQL(to, buildWhere(from)), UpdateSQL(from, buildWhere(to)), "image", FALSE)

(* Each has its row before it and after it.                                *)
LEMMA UpdateEffect ==
  ASSUME NEW before \in Pages, Distinct(before), NEW s \in Slots, NEW from \in Rows, NEW to \in Rows,
         before[s] = from, Distinct([before EXCEPT ![s] = to])
  PROVE  /\ Effect(UpdateOf(from, to), before, [before EXCEPT ![s] = to])
         /\ Effect(ImageUpdateOf(from, to), before, [before EXCEPT ![s] = to])
<1>1. PICK after \in Pages : after = [before EXCEPT ![s] = to]
  <2>. [before EXCEPT ![s] = to] \in Pages
    BY DEF Pages
  <2>. QED OBVIOUS
<1>2. after[s] = to /\ [after EXCEPT ![s] = from] = before
  BY <1>1 DEF Pages
<1>3. \A set : With(from, set) = to => SameRows(Exec(UpdateSQL(set, buildWhere(from)), before), after)
  <2>1. \A set : With(from, set) = to => Exec(UpdateSQL(set, buildWhere(from)), before) = after
    BY <1>1, UpdatesRow
  <2>. QED BY <2>1, SameRowsItself
<1>4. \A set : With(to, set) = from => SameRows(Exec(UpdateSQL(set, buildWhere(to)), after), before)
  <2>. Distinct(after) /\ after[s] = to
    BY <1>1, <1>2, Zenon
  <2>1. ASSUME NEW set, With(to, set) = from
        PROVE  SameRows(Exec(UpdateSQL(set, buildWhere(to)), after), before)
    <3>. With(to, set) = from
      BY <2>1
    <3>1. Exec(UpdateSQL(set, buildWhere(to)), after) = [after EXCEPT ![s] = from]
      BY UpdatesRow
    <3>2. Exec(UpdateSQL(set, buildWhere(to)), after) = before
      BY <1>2, <3>1, Zenon
    <3>. QED BY <3>2, SameRowsItself, Zenon
  <2>. QED BY <2>1
<1>5. /\ With(from, buildChangedSet(from, to)) = to /\ With(from, to) = to
      /\ With(to, buildChangedSet(to, from)) = from /\ With(to, from) = from
  BY SetsRow
<1>6. Effect(UpdateOf(from, to), before, after)
  BY <1>3, <1>4, <1>5, Zenon DEF Effect, UpdateOf, Statement
<1>7. Effect(ImageUpdateOf(from, to), before, after)
  BY <1>3, <1>4, <1>5, Zenon DEF Effect, ImageUpdateOf, Statement
<1>. QED BY <1>1, <1>6, <1>7

(* What DecodeRow sees of an image before that is not longer.              *)
LEMMA ReconstructedShowsRow ==
  ASSUME RowsInFull, NEW from \in Rows, NEW to \in Rows, table \in Tables, table.format = "NONE",
         ~(Len(Image(from)) > Len(Image(to)))
  PROVE  /\ DecodeRow(Image(to), Cols) = Accepted(to)
         /\ DecodeRow(ReconstructBeforeImage(Image(to), Image(from)), Cols) = Accepted(from)
<1>1. DecodeRow(Image(to), Cols) = Accepted(to)
  <2>1. ShowsRow(to)
    BY ImageShowsRow
  <2>. QED BY <2>1, Zenon DEF ShowsRow, Decode, DecodeDMLRowImage
<1>2. PICK a, b, row : a = Image(to) /\ b = Image(from) /\ row = ReconstructBeforeImage(a, b)
  OBVIOUS
<1>3. b = EncodePlain(Cols, from)
  BY <1>2 DEF Image, Images, Encode
<1>4. a \in Seq(Int) /\ b \in Seq(Int)
  <2>1. ImageOK(to) /\ ImageOK(from)
    BY ImageOfRow
  <2>. QED BY <1>2, <2>1, Zenon DEF ImageOK
<1>5. PICK m \in Nat, n \in Nat : m = Len(a) /\ n = Len(b)
  BY <1>4
<1>6. n <= m
  BY <1>2, <1>5
<1>7. row = [k \in 1..m |-> IF k <= n THEN b[k] ELSE 0]
  <2>. DOMAIN a = 1..m
    BY <1>4, <1>5
  <2>. QED BY <1>2, <1>5 DEF ReconstructBeforeImage
<1>8. \A k \in 1..m : row[k] \in Int
  <2>1. \A k \in 1..n : b[k] \in Int
    BY <1>4, <1>5
  <2>. QED BY <1>5, <1>7, <2>1
<1>9. row \in Seq(Int) /\ Len(row) = m
  <2>1. row \in [1..m -> Int]
    BY <1>7, <1>8
  <2>2. Len(row) = m
    BY <1>7
  <2>. QED BY <2>1, <2>2
<1>10. Padded(row, EncodePlain(Cols, from))
  <2>1. \A k \in 1..n : row[k] = b[k]
    BY <1>6, <1>7
  <2>2. \A k \in 1..m : k > n => row[k] = 0
    BY <1>7
  <2>. QED BY <1>3, <1>4, <1>5, <1>6, <1>9, <2>1, <2>2 DEF Padded
<1>11. Positional(Cols) /\ InFull("NONE", Cols, from)
  BY DEF RowsInFull
<1>12. DecodeRow(row, Cols) = Accepted([i \in DOMAIN Cols |-> from[i]])
  BY <1>10, <1>11, PlainRoundTrip
<1>. QED BY <1>1, <1>2, <1>12, ImagesAssumption
-----------------------------------------------------------------------------
(* The records of the log, one by one.                                     *)

(* What the next record says, and of which rows.                           *)
RecAfter == [Rec.before EXCEPT ![Rec.slot] = Rec.to]
RecordOK ==
  /\ Rec.before \in Pages /\ Rec.slot \in Slots /\ Rec.before[Rec.slot] = Rec.from
  /\ UniqueKeys(Rec.before) /\ UniqueKeys(RecAfter)
  /\ Rec.op = "insert" => Rec.from = None /\ Rec.to \in Rows
  /\ Rec.op = "delete" => Rec.from \in Rows /\ Rec.to = None
  /\ Rec.op = "update" =>
       Rec.from \in Rows /\ Rec.to \in Rows /\ Rec.from # Rec.to /\ Rec.form \in table.forms \cup {"unread"}

(* Of a log that is as it should be, every record is.                      *)
LEMMA RecordIsOK ==
  ASSUME LogOK, SourceOK, TypeInv, at < Len(log)
  PROVE  RecordOK
<1>1. log \in Seq(Records) /\ at \in Nat /\ Len(log) \in Nat
  BY DEF LogOK, TypeInv
<1>2. PICK i \in 1..Len(log) : i = at + 1
  BY <1>1
<1>3. Rec = log[i] /\ Rec \in Records
  BY <1>1, <1>2 DEF Rec
<1>4. /\ Rec.from = Rec.before[Rec.slot] /\ PageAt(i) = RecAfter
      /\ Rec.op = "insert" => Rec.from = None /\ Rec.to # None
      /\ Rec.op = "delete" => Rec.from # None /\ Rec.to = None
      /\ Rec.op = "update" => Rec.from # None /\ Rec.to # None
  BY <1>2, <1>3, Zenon DEF LogOK, RecAfter
<1>5. /\ UniqueKeys(Rec.before)
      /\ Rec.op = "update" => Rec.from # Rec.to /\ Rec.form \in table.forms \cup {"unread"}
  BY <1>2, <1>3, Zenon DEF SourceOK
<1>6. UniqueKeys(PageAt(i))
  <2>1. CASE i < Len(log)
    <3>. i + 1 \in 1..Len(log)
      BY <1>1, <2>1
    <3>1. UniqueKeys(log[i + 1].before)
      BY Zenon DEF SourceOK
    <3>. QED BY <2>1, <3>1 DEF PageAt
  <2>2. CASE ~(i < Len(log))
    BY <2>2 DEF PageAt, SourceOK
  <2>. QED BY <2>1, <2>2
<1>7. Rec.before \in Pages /\ Rec.slot \in Slots /\ Rec.from \in Rows \cup {None} /\ Rec.to \in Rows \cup {None}
  BY <1>3 DEF Records
<1>8. UniqueKeys(RecAfter)
  BY <1>4, <1>6, Zenon
<1>. QED BY <1>4, <1>5, <1>7, <1>8 DEF RecordOK

(* The rows can be told apart before it and after it.                      *)
RowsDistinct == Keyed \/ (~Twins(Rec.before) /\ ~Twins(RecAfter))

(* So that a statement that says what the record does has that effect.     *)
LEMMA RecordEffect ==
  ASSUME RecordOK, RowsDistinct
  PROVE  /\ Rec.op = "insert" => Effect(InsertOf(Rec.to), Rec.before, RecAfter)
         /\ Rec.op = "delete" => Effect(DeleteOf(Rec.from), Rec.before, RecAfter)
         /\ Rec.op = "update" => Effect(UpdateOf(Rec.from, Rec.to), Rec.before, RecAfter)
                                 /\ Effect(ImageUpdateOf(Rec.from, Rec.to), Rec.before, RecAfter)
<1>1. Distinct(Rec.before) /\ Distinct(RecAfter)
  BY DEF RecordOK, RowsDistinct, Distinct
<1>2. PICK before, s, from, to : before = Rec.before /\ s = Rec.slot /\ from = Rec.from /\ to = Rec.to
  OBVIOUS
<1>3. before \in Pages /\ s \in Slots /\ before[s] = from /\ RecAfter = [before EXCEPT ![s] = to]
  BY <1>2, Zenon DEF RecordOK, RecAfter
<1>4. Distinct(before) /\ Distinct([before EXCEPT ![s] = to])
  BY <1>1, <1>2, <1>3, Zenon
<1>5. ASSUME Rec.op = "insert" PROVE Effect(InsertOf(to), before, [before EXCEPT ![s] = to])
  <2>. before[s] = None /\ to \in Rows
    BY <1>2, <1>3, <1>5 DEF RecordOK
  <2>. QED BY <1>3, <1>4, InsertEffect
<1>6. ASSUME Rec.op = "delete" PROVE Effect(DeleteOf(from), before, [before EXCEPT ![s] = to])
  <2>1. from \in Rows /\ to = None
    BY <1>2, <1>6 DEF RecordOK
  <2>2. Effect(DeleteOf(from), before, [before EXCEPT ![s] = None])
    BY <1>3, <1>4, <2>1, DeleteEffect
  <2>. QED BY <2>1, <2>2
<1>7. ASSUME Rec.op = "update"
      PROVE  /\ Effect(UpdateOf(from, to), before, [before EXCEPT ![s] = to])
             /\ Effect(ImageUpdateOf(from, to), before, [before EXCEPT ![s] = to])
  <2>. from \in Rows /\ to \in Rows
    BY <1>2, <1>7 DEF RecordOK
  <2>. QED BY <1>3, <1>4, UpdateEffect
<1>. QED BY <1>2, <1>3, <1>5, <1>6, <1>7, Zenon
-----------------------------------------------------------------------------
(* The statements that the handlers emit.                                  *)

(* A statement of a right image does what its record did, and an update    *)
(* has one.                                                                *)
GoodStatement(stmt, why) ==
  stmt.from = "image" /\ why = {} /\ RowsDistinct => Effect(stmt, Rec.before, RecAfter)
WarmStatement(stmt, why) ==
  Rec.op = "update" /\ Rec.form # "image" /\ Right(Rec.slot) /\ why = {} => stmt.from = "image"

(* Both properties speak of the last statement only.                       *)
LEMMA EmitStep ==
  ASSUME table' = table, NEW stmt, NEW why, Emit(stmt, why)
  PROVE  /\ GoodStatement(stmt, why) => StatementsUndo'
         /\ WarmStatement(stmt, why) => WarmRowsDecodeInFull'
<1>1. /\ done'.stmt = stmt /\ done'.why = why /\ done'.warm = Right(Rec.slot)
      /\ done'.rec.before = Rec.before /\ done'.rec.slot = Rec.slot /\ done'.rec.to = Rec.to
      /\ done'.rec.op = Rec.op /\ done'.rec.form = Rec.form
  BY DEF Emit
<1>2. Before' = Rec.before /\ After' = RecAfter
  BY <1>1, Zenon DEF d, Before, After, RecAfter
<1>3. Keyed' = Keyed
  BY DEF Keyed
<1>4. ASSUME GoodStatement(stmt, why) PROVE StatementsUndo'
  <2>1. SUFFICES ASSUME stmt.from = "image", why = {}, RowsDistinct PROVE Effect(stmt, Rec.before, RecAfter)
    BY <1>1, <1>2, <1>3, Zenon DEF StatementsUndo, d, RowsDistinct, Effect
  <2>. QED BY <1>4, <2>1 DEF GoodStatement
<1>5. ASSUME WarmStatement(stmt, why) PROVE WarmRowsDecodeInFull'
  BY <1>1, <1>5, Zenon DEF WarmStatement, WarmRowsDecodeInFull, d
<1>. QED BY <1>4, <1>5

(* Where there is none, there is nothing to say.                           *)
LEMMA NothingStep ==
  ASSUME done' = Nothing
  PROVE  StatementsUndo' /\ WarmRowsDecodeInFull'
<1>1. ~Happened'
  BY DEF Happened, d, Nothing
<1>. QED BY <1>1, Zenon DEF StatementsUndo, WarmRowsDecodeInFull

(* What a handler may rely on.                                             *)
RightState == RowsInFull /\ ImagesInv /\ SourceOK
Handled == RightState /\ at < Len(log) /\ RecordOK /\ table \in Tables /\ table' = table /\ RecordHandled

(* The record is there, and so is the invariant.                           *)
LEMMA IsHandled ==
  ASSUME RightState, at < Len(log), at' = at + 1, UNCHANGED sourceVars
  PROVE  Handled
<1>1. LogOK /\ TypeInv
  BY DEF RightState, ImagesInv
<1>2. RecordOK
  BY <1>1, RecordIsOK DEF RightState
<1>3. RecordHandled
  BY <1>1, HandleStep
<1>. QED BY <1>1, <1>2, <1>3 DEF Handled, TypeInv, sourceVars

(* An insert and a delete show their row.                                  *)
LEMMA InsertDeleteStatements ==
  ASSUME RightState, HandleInsert \/ HandleDelete
  PROVE  StatementsUndo' /\ WarmRowsDecodeInFull'
<1>1. Handled
  BY IsHandled DEF HandleInsert, HandleDelete, Handle
<1>2. CASE HandleInsert
  <2>1. Rec.op = "insert" /\ Emit(insert(Image(Rec.to)), {})
    BY <1>2 DEF HandleInsert, Handle
  <2>2. Rec.to \in Rows
    BY <1>1, <2>1 DEF Handled, RecordOK
  <2>3. Emit(InsertOf(Rec.to), {})
    BY <1>1, <2>1, <2>2, InsertStatement DEF Handled, RightState
  <2>4. GoodStatement(InsertOf(Rec.to), {})
    BY <1>1, <2>1, RecordEffect, Zenon DEF GoodStatement, Handled
  <2>5. WarmStatement(InsertOf(Rec.to), {})
    BY <2>1 DEF WarmStatement
  <2>. QED BY <1>1, <2>3, <2>4, <2>5, EmitStep DEF Handled
<1>3. CASE HandleDelete
  <2>1. Rec.op = "delete" /\ Emit(delete(Image(Rec.from)), {})
    BY <1>3 DEF HandleDelete, Handle
  <2>2. Rec.from \in Rows
    BY <1>1, <2>1 DEF Handled, RecordOK
  <2>3. Emit(DeleteOf(Rec.from), {})
    BY <1>1, <2>1, <2>2, DeleteStatement DEF Handled, RightState
  <2>4. GoodStatement(DeleteOf(Rec.from), {})
    BY <1>1, <2>1, RecordEffect, Zenon DEF GoodStatement, Handled
  <2>5. WarmStatement(DeleteOf(Rec.from), {})
    BY <2>1 DEF WarmStatement
  <2>. QED BY <1>1, <2>3, <2>4, <2>5, EmitStep DEF Handled
<1>. QED BY <1>2, <1>3

(* An update of a right image becomes a statement from it.                 *)
LEMMA RightUpdate ==
  ASSUME Handled, Rec.op = "update", NEW before, NEW after, NEW why,
         why = {} => before = Image(Rec.from) /\ after = Image(Rec.to)
  PROVE  GoodStatement(buildFullImageUpdate(before, after), why)
         /\ WarmStatement(buildFullImageUpdate(before, after), why)
<1>1. CASE why # {}
  BY <1>1 DEF GoodStatement, WarmStatement
<1>2. CASE why = {}
  <2>1. Rec.from \in Rows /\ Rec.to \in Rows /\ Rec.from # Rec.to
    BY DEF Handled, RecordOK
  <2>2. buildFullImageUpdate(before, after) = UpdateOf(Rec.from, Rec.to)
    BY <1>2, <2>1, UpdateStatement DEF Handled, RightState
  <2>3. RowsDistinct => Effect(UpdateOf(Rec.from, Rec.to), Rec.before, RecAfter)
    BY RecordEffect DEF Handled
  <2>4. UpdateOf(Rec.from, Rec.to).from = "image"
    BY DEF UpdateOf, Statement
  <2>. QED BY <2>2, <2>3, <2>4, Zenon DEF GoodStatement, WarmStatement
<1>. QED BY <1>1, <1>2
(* A fragment applied to the image in the cache, or what it shows itself.  *)
LEMMA ModifyRowStatement ==
  ASSUME RightState, HandleModifyRow
  PROVE  StatementsUndo' /\ WarmRowsDecodeInFull'
<1>1. Handled /\ Rec.op = "update"
  BY IsHandled DEF HandleModifyRow, Handle
<1>2. ImagesInv /\ RecordHandled /\ CacheFollowsLog /\ Rec.from \in Rows /\ Rec.to \in Rows /\ table' = table
  BY <1>1, UpdatedRows DEF Handled, RightState, ImagesInv
<1>3. PICK f : f = RowFragment(Image(Rec.from), Image(Rec.to))
  OBVIOUS
<1>4. PICK after : after = IF Warm(Rec.slot) THEN ApplyModifyRowFragment(cache[Rec.slot], f.old, f.new, f.oldStart)
                           ELSE NoImage
  OBVIOUS
<1>5. reconstructModifyRow(Rec.slot, f).after = after
  BY <1>4 DEF reconstructModifyRow
<1>6. ASSUME Right(Rec.slot) PROVE cache[Rec.slot] = Image(Rec.from) /\ after = Image(Rec.to) /\ after # NoImage
  <2>1. cache[Rec.slot] = Image(Rec.from)
    BY <1>2, <1>6, RightImage DEF Right, Warm
  <2>2. RowApplies(Rec.from, Rec.to)
    BY <1>1, <1>2, UpdateApplies DEF Handled
  <2>3. ImageOK(Rec.to)
    BY <1>1, <1>2, ImageOfRow DEF Handled
  <2>4. after = Image(Rec.to)
    BY <1>3, <1>4, <1>6, <2>1, <2>2, Zenon DEF RowApplies, Right
  <2>. QED BY <2>1, <2>3, <2>4, Zenon DEF ImageOK, NoImage
<1>7. CASE after # NoImage
  <2>1. Emit(buildFullImageUpdate(cache[Rec.slot], after), reasons[Rec.slot])
    BY <1>3, <1>5, <1>7 DEF HandleModifyRow
  <2>2. Warm(Rec.slot)
    BY <1>4, <1>7
  <2>3. reasons[Rec.slot] = {} => cache[Rec.slot] = Image(Rec.from) /\ after = Image(Rec.to)
    BY <1>6, <2>2 DEF Right
  <2>4. GoodStatement(buildFullImageUpdate(cache[Rec.slot], after), reasons[Rec.slot])
        /\ WarmStatement(buildFullImageUpdate(cache[Rec.slot], after), reasons[Rec.slot])
    BY <1>1, <2>3, RightUpdate
  <2>. QED BY <1>2, <2>1, <2>4, EmitStep
<1>8. CASE after = NoImage
  <2>1. PICK b, a : b = DecodeModifyRowFragment(f.old, f.oldStart, Cols) /\ a = DecodeModifyRowFragment(f.new, f.oldStart, Cols)
    OBVIOUS
  <2>2. Emit(buildDeltaUpdate(b, a), {})
    BY <1>3, <1>5, <1>8, <2>1 DEF HandleModifyRow
  <2>3. buildDeltaUpdate(b, a).from \in {"delta", "nothing"}
    BY DEF buildDeltaUpdate, Undecoded, Statement
  <2>4. GoodStatement(buildDeltaUpdate(b, a), {}) /\ WarmStatement(buildDeltaUpdate(b, a), {})
    BY <1>6, <1>8, <2>3 DEF GoodStatement, WarmStatement
  <2>. QED BY <1>2, <2>2, <2>4, EmitStep
<1>. QED BY <1>7, <1>8

(* Forwards from the image in the cache.                                   *)
LEMMA ModifyColumnsStatement ==
  ASSUME RightState, HandleModifyColumns
  PROVE  StatementsUndo' /\ WarmRowsDecodeInFull'
<1>1. Handled /\ Rec.op = "update" /\ Rec.slot \in DOMAIN cache
  BY IsHandled DEF HandleModifyColumns, Handle, Warm
<1>2. /\ ImagesInv /\ RecordHandled /\ CacheFollowsLog /\ Rec.from \in Rows /\ Rec.to \in Rows /\ table' = table
      /\ Rec.slot \in Slots /\ reasons \in [Slots -> SUBSET Why]
  BY <1>1, UpdatedRows DEF Handled, RightState, ImagesInv, TypeInv, RecordOK
<1>3. PICK after : after = ApplyModifyColumns(cache[Rec.slot], ModifyColumns)
  OBVIOUS
<1>4. PICK why : why = reasons'[Rec.slot]
  OBVIOUS
<1>5. Emit(buildFullImageUpdate(cache[Rec.slot], after), why)
  BY <1>3, <1>4 DEF HandleModifyColumns
<1>6. ASSUME why = {} PROVE cache[Rec.slot] = Image(Rec.from) /\ after = Image(Rec.to)
  <2>1. reasons' = [reasons EXCEPT ![Rec.slot] = @ \cup TrailingReason]
    BY DEF HandleModifyColumns
  <2>2. reasons[Rec.slot] = {} /\ table.trailing = <<>>
    BY <1>2, <1>4, <1>6, <2>1 DEF TrailingReason
  <2>3. cache[Rec.slot] = Image(Rec.from)
    BY <1>1, <1>2, <2>2, RightImage
  <2>4. ColumnsApply(Rec.from, Rec.to)
    BY <1>1, <1>2, UpdateApplies DEF Handled
  <2>. QED BY <1>3, <2>2, <2>3, <2>4, Zenon DEF ColumnsApply, GivesRow, ModifyColumns
<1>7. GoodStatement(buildFullImageUpdate(cache[Rec.slot], after), why)
      /\ WarmStatement(buildFullImageUpdate(cache[Rec.slot], after), why)
  BY <1>1, <1>6, RightUpdate
<1>. QED BY <1>2, <1>5, <1>7, EmitStep

(* An update that is not decoded claims nothing.                           *)
LEMMA UndecodedStatement ==
  ASSUME NEW why, ~Right(Rec.slot) \/ why # {}
  PROVE  GoodStatement(Undecoded, why) /\ WarmStatement(Undecoded, why)
BY DEF GoodStatement, WarmStatement, Undecoded, Statement

(* Backwards from an image that may be the row after it.                   *)
LEMMA ReversedStatement ==
  ASSUME Handled, Rec.op = "update", NEW mr1, NEW why, Reversed(mr1, why), why # {} \/ ~Right(Rec.slot),
         why = {} => mr1 = Image(Rec.to)
  PROVE  StatementsUndo' /\ WarmRowsDecodeInFull'
<1>1. PICK before : before = ReverseModifyColumns(mr1, ModifyColumns)
  OBVIOUS
<1>2. Rec.from \in Rows /\ Rec.to \in Rows /\ table \in Tables /\ table' = table
  BY DEF Handled, RecordOK
<1>3. CASE before = NoImage
  <2>1. Emit(Undecoded, why)
    BY <1>1, <1>3, Zenon DEF Reversed
  <2>. QED BY <1>2, <2>1, UndecodedStatement, EmitStep
<1>4. CASE before # NoImage
  <2>1. PICK because : because = why \cup TrailingReason
    OBVIOUS
  <2>2. Emit(buildFullImageUpdate(before, mr1), because)
    BY <1>1, <1>4, <2>1, Zenon DEF Reversed
  <2>3. ASSUME because = {} PROVE before = Image(Rec.from) /\ mr1 = Image(Rec.to)
    <3>1. why = {} /\ table.trailing = <<>>
      BY <2>1, <2>3 DEF TrailingReason
    <3>2. ImageOK(Rec.from) /\ ImageOK(Rec.to)
      BY <1>2, ImageOfRow
    <3>3. PICK a \in Seq(Int), b \in Seq(Int) : a = Image(Rec.from) /\ b = Image(Rec.to)
      BY <3>2, Zenon DEF ImageOK
    <3>4. /\ a # <<>> /\ DataStart(table.format, a, Len(Cols)) \in 1..Len(a)
          /\ b # <<>> /\ DataStart(table.format, b, Len(Cols)) \in 1..Len(b)
      BY <3>2, <3>3, Zenon DEF ImageOK
    <3>5. ReverseModifyColumns(b, ColumnsRecord(Fragments(table.format, a, b, Len(Cols)), <<>>)) = a
      BY <3>4, ModifyColumnsReverse
    <3>6. ModifyColumns = ColumnsRecord(Fragments(table.format, a, b, Len(Cols)), <<>>)
      BY <3>1, <3>3, Zenon DEF ModifyColumns
    <3>. QED BY <1>1, <3>1, <3>3, <3>5, <3>6, Zenon
  <2>4. GoodStatement(buildFullImageUpdate(before, mr1), because)
        /\ WarmStatement(buildFullImageUpdate(before, mr1), because)
    BY <2>3, RightUpdate
  <2>. QED BY <1>2, <2>2, <2>4, EmitStep
<1>. QED BY <1>3, <1>4

(* The image in the cache, when the fragments do not apply; one of a page; *)
(* or none.                                                                *)
LEMMA ModifyColumnsOtherwise ==
  ASSUME RightState,
         HandleModifyColumnsBackwards \/ HandleModifyColumnsFromPage \/ HandleModifyColumnsCold
  PROVE  StatementsUndo' /\ WarmRowsDecodeInFull'
<1>1. Handled /\ Rec.op = "update" /\ table' = table
  <2>1. Handled /\ Rec.op = "update"
    BY IsHandled DEF HandleModifyColumnsBackwards, HandleModifyColumnsFromPage, HandleModifyColumnsCold, Handle
  <2>. QED BY <2>1 DEF Handled
<1>2. CASE HandleModifyColumnsBackwards
  <2>1. /\ Rec.slot \in DOMAIN cache /\ ApplyModifyColumns(cache[Rec.slot], ModifyColumns) = NoImage
        /\ Reversed(cache[Rec.slot], reasons[Rec.slot])
    BY <1>2 DEF HandleModifyColumnsBackwards, Warm
  <2>2. reasons[Rec.slot] # {}
    BY <1>1, <2>1, BackwardsHasReason DEF Handled, RightState
  <2>. QED BY <1>1, <2>1, <2>2, ReversedStatement
<1>3. CASE HandleModifyColumnsFromPage
  <2>1. ~Right(Rec.slot)
    BY <1>3 DEF HandleModifyColumnsFromPage, Right
  <2>2. CASE pages'[Rec.slot] = None
    <3>1. Emit(Undecoded, {})
      BY <1>3, <2>2 DEF HandleModifyColumnsFromPage
    <3>. QED BY <1>1, <2>1, <3>1, UndecodedStatement, EmitStep
  <2>3. CASE pages'[Rec.slot] # None
    <3>1. PICK mr1, why : mr1 = Image(pages'[Rec.slot]) /\ why = IF pages'[Rec.slot] = Rec.to THEN {} ELSE {"page"}
      OBVIOUS
    <3>2. Reversed(mr1, why)
      BY <1>3, <2>3, <3>1 DEF HandleModifyColumnsFromPage
    <3>3. why = {} => mr1 = Image(Rec.to)
      BY <3>1
    <3>. QED BY <1>1, <2>1, <3>2, <3>3, ReversedStatement
  <2>. QED BY <2>2, <2>3
<1>4. CASE HandleModifyColumnsCold
  <2>1. ~Right(Rec.slot) /\ Emit(Undecoded, {})
    BY <1>4 DEF HandleModifyColumnsCold, Right
  <2>. QED BY <1>1, <2>1, UndecodedStatement, EmitStep
<1>. QED BY <1>2, <1>3, <1>4

(* The whole image in the log, and the one before it made of that.         *)
LEMMA ModifyRowImageStatement ==
  ASSUME RightState, WholeImagesArePlain, HandleModifyRowImage
  PROVE  StatementsUndo' /\ WarmRowsDecodeInFull'
<1>1. Handled /\ Rec.op = "update" /\ Rec.form = "image"
  BY IsHandled DEF HandleModifyRowImage, Handle
<1>2. /\ Rec.from \in Rows /\ Rec.to \in Rows /\ table \in Tables /\ "image" \in table.forms
      /\ table' = table /\ RowsInFull
  BY <1>1 DEF Handled, RecordOK, RightState
<1>3. table.format = "NONE"
  BY <1>2 DEF WholeImagesArePlain
<1>4. PICK stmt, why : /\ stmt = updateOfImage(Image(Rec.to), Image(Rec.from))
                       /\ why = IF Len(Image(Rec.from)) > Len(Image(Rec.to)) THEN {"longer"} ELSE {}
  OBVIOUS
<1>5. Emit(stmt, why)
  BY <1>4 DEF HandleModifyRowImage
<1>6. GoodStatement(stmt, why)
  <2>1. SUFFICES ASSUME stmt.from = "image", why = {}, RowsDistinct PROVE Effect(stmt, Rec.before, RecAfter)
    BY DEF GoodStatement
  <2>2. PICK a, b, from, to :
          /\ a = DecodeRow(Image(Rec.to), Cols)
          /\ b = DecodeRow(ReconstructBeforeImage(Image(Rec.to), Image(Rec.from)), Cols)
          /\ from = Rec.from /\ to = Rec.to
    OBVIOUS
  <2>3. a = Accepted(to) /\ b = Accepted(from)
    BY <1>2, <1>3, <1>4, <2>1, <2>2, ReconstructedShowsRow
  <2>4. a.err = "" /\ a.vals = to /\ b.err = "" /\ b.vals = from
    BY <2>3, AcceptedOk
  <2>5. stmt # Undecoded
    BY <2>1 DEF Undecoded, Statement
  <2>6. stmt = ImageUpdateOf(from, to)
    BY <1>4, <2>2, <2>4, <2>5, Zenon DEF updateOfImage, ImageUpdateOf
  <2>. QED BY <1>1, <2>1, <2>2, <2>6, RecordEffect DEF Handled
<1>7. WarmStatement(stmt, why)
  BY <1>1 DEF WarmStatement
<1>. QED BY <1>2, <1>5, <1>6, <1>7, EmitStep
(* Every other step has no statement, or is none.                          *)
LEMMA OtherStatement ==
  ASSUME HandleInternal \/ Source \/ EndPoll \/ PollFails \/ NewGenerator \/ PageExpires
  PROVE  StatementsUndo' /\ WarmRowsDecodeInFull'
<1>1. done' = Nothing
  BY Zenon DEF HandleInternal, Source, SourceInsert, SourceDelete, SourceUpdate, Log, EndPoll, PollFails,
     NewGenerator, PageExpires
<1>. QED BY <1>1, NothingStep

(* All of the steps but an update with its whole image.                    *)
LEMMA StatementNext ==
  ASSUME RightState, Next
  PROVE  HandleModifyRowImage \/ (StatementsUndo' /\ WarmRowsDecodeInFull')
BY InsertDeleteStatements, ModifyRowStatement, ModifyColumnsStatement, ModifyColumnsOtherwise, OtherStatement
DEF Next, HandleRecord, HandleUpdate

(* Two rows of the source never have the same key, now or anywhere in the  *)
(* log, and an update changes its row.                                     *)
THEOREM SourceOKHolds == Spec => []SourceOK
<1>1. Init => SourceOK
  BY SourceInit
<1>2. SourceOK /\ ImagesInv /\ [Next]_vars => SourceOK'
  BY SourceNext
<1>. QED BY <1>1, <1>2, ImagesInvHolds, PTL DEF Spec

(* An update of a row whose image is right never falls back to a part,     *)
(* whether it is applied to the image or undone from a page: the image     *)
(* before and the image after it are those of the rows, and both are read. *)
THEOREM WarmRowsHold == RowsInFull => (Spec => []WarmRowsDecodeInFull)
<1>1. SUFFICES ASSUME RowsInFull PROVE Spec => []WarmRowsDecodeInFull
  OBVIOUS
<1>2. Init => WarmRowsDecodeInFull
  BY DEF Init, WarmRowsDecodeInFull, Happened, d, Nothing
<1>3. WarmRowsDecodeInFull /\ ImagesInv /\ SourceOK /\ [Next]_vars => WarmRowsDecodeInFull'
  <2>1. ASSUME ImagesInv, SourceOK, Next PROVE WarmRowsDecodeInFull'
    <3>1. RightState
      BY <1>1, <2>1 DEF RightState
    <3>2. CASE HandleModifyRowImage
      <4>1. PICK stmt, why : Emit(stmt, why)
        BY <3>2 DEF HandleModifyRowImage
      <4>2. table' = table /\ WarmStatement(stmt, why)
        BY <3>2 DEF HandleModifyRowImage, WarmStatement, sourceVars
      <4>. QED BY <4>1, <4>2, EmitStep
    <3>. QED BY <2>1, <3>1, <3>2, StatementNext
  <2>2. ASSUME WarmRowsDecodeInFull, UNCHANGED vars PROVE WarmRowsDecodeInFull'
    BY <2>2 DEF vars, WarmRowsDecodeInFull, Happened, d
  <2>. QED BY <2>1, <2>2
<1>. QED BY <1>2, <1>3, ImagesInvHolds, SourceOKHolds, PTL DEF Spec

(* A statement made from a whole image changes the rows as its record did, *)
(* and its rollback changes them back, when the image was right: for any   *)
(* table whose rows are read in full and any log.                          *)
THEOREM StatementsUndoHolds == RowsInFull /\ WholeImagesArePlain => (Spec => []StatementsUndo)
<1>1. SUFFICES ASSUME RowsInFull, WholeImagesArePlain PROVE Spec => []StatementsUndo
  OBVIOUS
<1>2. Init => StatementsUndo
  BY DEF Init, StatementsUndo, Happened, d, Nothing
<1>3. StatementsUndo /\ ImagesInv /\ SourceOK /\ [Next]_vars => StatementsUndo'
  <2>1. ASSUME ImagesInv, SourceOK, Next PROVE StatementsUndo'
    <3>1. RightState
      BY <1>1, <2>1 DEF RightState
    <3>. QED BY <1>1, <2>1, <3>1, StatementNext, ModifyRowImageStatement
  <2>2. ASSUME StatementsUndo, UNCHANGED vars PROVE StatementsUndo'
    <3>1. done' = done /\ Keyed' = Keyed
      BY <2>2 DEF vars, sourceVars, Keyed
    <3>. QED BY <2>2, <3>1 DEF StatementsUndo, Happened, d, Before, After
  <2>. QED BY <2>1, <2>2
<1>. QED BY <1>2, <1>3, ImagesInvHolds, SourceOKHolds, PTL DEF Spec
-----------------------------------------------------------------------------
(* What a part shows.                                                      *)

(* A statement of a part says of the rows what is so.                      *)
TrueDelta(stmt, from, to) ==
  /\ Agrees(to, stmt.sql.set) /\ Agrees(from, stmt.sql.where)
  /\ Agrees(from, stmt.undo.set) /\ Agrees(to, stmt.undo.where)

(* Of the empty part, nothing.                                             *)
LEMMA AgreesWithNothing == \A row : Agrees(row, <<>>)
BY DEF Agrees

(* Of parts that show the same columns, truly.                             *)
LEMMA DeltaIsTrue ==
  ASSUME NEW from, NEW to, NEW b, NEW a, DOMAIN b = DOMAIN a, Agrees(from, b), Agrees(to, a)
  PROVE  TrueDelta(buildDeltaUpdate(b, a), from, to)
<1>1. PICK D : D = DOMAIN b /\ D = DOMAIN a
  OBVIOUS
<1>. DEFINE byKey == \E i \in Key : i \in D
            K == IF byKey THEN Key ELSE D
            part(f) == [i \in K \cap D |-> f[i]]
            whole(f) == [i \in D |-> f[i]]
            command(set, f) == IF part(f) = <<>> THEN Comment ELSE UpdateSQL(set, part(f))
<1>2. /\ Agrees(from, part(b)) /\ Agrees(from, whole(b))
      /\ Agrees(to, part(a)) /\ Agrees(to, whole(a))
  BY <1>1 DEF Agrees
<1>. HIDE DEF K, byKey, part, whole
<1>3. /\ Agrees(to, command(whole(a), b).set) /\ Agrees(from, command(whole(a), b).where)
      /\ Agrees(from, command(whole(b), a).set) /\ Agrees(to, command(whole(b), a).where)
  BY <1>2, AgreesWithNothing DEF UpdateSQL, Comment
<1>4. CASE D = {}
  <2>1. buildDeltaUpdate(b, a) = Undecoded
    BY <1>1, <1>4 DEF buildDeltaUpdate
  <2>. QED BY <2>1, AgreesWithNothing DEF TrueDelta, Undecoded, Statement, Comment
<1>5. CASE D # {}
  <2>1. DOMAIN b \cup DOMAIN a = D
    BY <1>1
  <2>2. /\ [i \in D |-> IF i \in DOMAIN a THEN a[i] ELSE Null] = whole(a)
        /\ [i \in D |-> IF i \in DOMAIN b THEN b[i] ELSE Null] = whole(b)
    BY <1>1 DEF whole
  <2>3. buildDeltaUpdate(b, a) = Statement(command(whole(a), b), command(whole(b), a), "delta", ~byKey)
    BY <1>1, <1>5, <2>1, <2>2, Zenon DEF buildDeltaUpdate, part, K, byKey
  <2>4. PICK sql, undo : sql = command(whole(a), b) /\ undo = command(whole(b), a)
    OBVIOUS
  <2>. HIDE DEF command
  <2>. QED BY <1>3, <2>3, <2>4 DEF TrueDelta, Statement
<1>. QED BY <1>4, <1>5

(* Only a fragment without an image becomes such a statement.              *)
LEMMA DeltaStep ==
  ASSUME Positional(Cols), FragmentsShowBoth, ImagesInv, HandleModifyRow
  PROVE  DeltasAreTrue'
<1>1. LogOK /\ TypeInv /\ at < Len(log) /\ at' = at + 1 /\ UNCHANGED sourceVars /\ Rec.op = "update"
  BY DEF ImagesInv, HandleModifyRow, Handle
<1>2. RecordHandled
  BY <1>1, HandleStep
<1>3. PICK from \in Rows, to \in Rows : from = Rec.from /\ to = Rec.to
  BY <1>1, <1>2, UpdatedRows
<1>4. table \in Tables /\ table' = table
  BY <1>1 DEF TypeInv, sourceVars
<1>5. PICK f : f = RowFragment(Image(from), Image(to))
  OBVIOUS
<1>6. PICK b, a : b = DecodeModifyRowFragment(f.old, f.oldStart, Cols) /\ a = DecodeModifyRowFragment(f.new, f.oldStart, Cols)
  OBVIOUS
<1>7. ASSUME table.format = "NONE" PROVE DOMAIN b = DOMAIN a /\ Agrees(from, b) /\ Agrees(to, a)
  <2>1. Image(from) = EncodePlain(Cols, from) /\ Image(to) = EncodePlain(Cols, to)
    BY <1>4, <1>7 DEF Image, Images, Encode
  <2>2. f = RowFragment(EncodePlain(Cols, from), EncodePlain(Cols, to))
    BY <1>5, <2>1
  <2>3. IsRow(Cols, from) /\ IsRow(Cols, to)
    BY ImagesAssumption
  <2>4. TrulyShows(b, Cols, from) /\ TrulyShows(a, Cols, to)
    BY <1>6, <2>2, <2>3, FragmentShows
  <2>5. Agrees(from, b) /\ Agrees(to, a)
    BY <2>4 DEF TrulyShows, Agrees, Positional
  <2>6. DOMAIN b = DOMAIN a
    BY <1>6, <2>2, Zenon DEF FragmentsShowBoth, Encode
  <2>. QED BY <2>5, <2>6
<1>8. PICK stmt : stmt = buildDeltaUpdate(b, a)
  OBVIOUS
<1>9. \/ done'.stmt.from # "delta"
      \/ done'.stmt = stmt /\ done'.rec.from = from /\ done'.rec.to = to
  <2>1. PICK s, why, before, after : Emit(s, why) /\ (s = buildFullImageUpdate(before, after) \/ s = stmt)
    BY <1>3, <1>5, <1>6, <1>8, Zenon DEF HandleModifyRow
  <2>2. done'.stmt = s /\ done'.rec.from = from /\ done'.rec.to = to
    BY <1>3, <2>1 DEF Emit
  <2>3. s = stmt \/ s.from # "delta"
    <3>1. \A x, y : buildFullImageUpdate(x, y).from # "delta"
      BY DEF buildFullImageUpdate, Undecoded, Statement
    <3>. QED BY <2>1, <3>1, Zenon
  <2>. QED BY <2>2, <2>3
<1>10. table.format = "NONE" => TrueDelta(stmt, from, to)
  BY <1>7, <1>8, DeltaIsTrue
<1>. QED BY <1>4, <1>9, <1>10, Zenon DEF DeltasAreTrue, d, TrueDelta

(* No other step has one.                                                  *)
LEMMA NoDeltaStep ==
  ASSUME Next, ~HandleModifyRow
  PROVE  DeltasAreTrue'
<1>1. done'.stmt.from # "delta"
  <2>1. Nothing.stmt.from # "delta" /\ Undecoded.from # "delta"
    BY DEF Nothing, Undecoded, Statement
  <2>2. \A x : insert(x).from # "delta" /\ delete(x).from # "delta"
    BY <2>1 DEF insert, delete, Statement
  <2>3. \A x, y : buildFullImageUpdate(x, y).from # "delta" /\ updateOfImage(x, y).from # "delta"
    BY <2>1 DEF buildFullImageUpdate, updateOfImage, Statement
  <2>4. \/ done' = Nothing
        \/ \E stmt, why : Emit(stmt, why) /\ stmt.from # "delta"
    <3>1. CASE HandleInsert \/ HandleDelete
      BY <2>2, <3>1 DEF HandleInsert, HandleDelete
    <3>2. CASE HandleModifyRowImage \/ HandleModifyColumns
      BY <2>3, <3>2 DEF HandleModifyRowImage, HandleModifyColumns
    <3>3. CASE HandleModifyColumnsBackwards
      BY <2>1, <2>3, <3>3 DEF HandleModifyColumnsBackwards, Reversed
    <3>4. CASE HandleModifyColumnsFromPage
      BY <2>1, <2>3, <3>4 DEF HandleModifyColumnsFromPage, Reversed
    <3>5. CASE HandleModifyColumnsCold
      BY <2>1, <3>5 DEF HandleModifyColumnsCold
    <3>6. CASE HandleInternal \/ Source \/ EndPoll \/ PollFails \/ NewGenerator \/ PageExpires
      BY <3>6, Zenon DEF HandleInternal, Source, SourceInsert, SourceDelete, SourceUpdate, Log, EndPoll, PollFails,
         NewGenerator, PageExpires
    <3>. QED BY <3>1, <3>2, <3>3, <3>4, <3>5, <3>6 DEF Next, HandleRecord, HandleUpdate
  <2>5. ASSUME NEW stmt, NEW why, Emit(stmt, why) PROVE done'.stmt = stmt
    BY <2>5 DEF Emit
  <2>. QED BY <2>1, <2>4, <2>5
<1>. QED BY <1>1, Zenon DEF DeltasAreTrue, d

(* What the generator says of an update of which it knows only the logged  *)
(* bytes is true of the uncompressed row, whatever bytes they are: a       *)
(* column that they show has that value, or is NULL where they are zero.   *)
THEOREM DeltasHold == Positional(Cols) /\ FragmentsShowBoth => (Spec => []DeltasAreTrue)
<1>1. SUFFICES ASSUME Positional(Cols), FragmentsShowBoth PROVE Spec => []DeltasAreTrue
  OBVIOUS
<1>2. Init => DeltasAreTrue
  BY DEF Init, DeltasAreTrue, Happened, d, Nothing
<1>3. DeltasAreTrue /\ ImagesInv /\ [Next]_vars => DeltasAreTrue'
  <2>1. ASSUME DeltasAreTrue, UNCHANGED vars PROVE DeltasAreTrue'
    <3>1. done' = done /\ table' = table
      BY <2>1 DEF vars, sourceVars
    <3>. QED BY <2>1, <3>1 DEF DeltasAreTrue, Happened, d
  <2>. QED BY <1>1, <2>1, DeltaStep, NoDeltaStep
<1>. QED BY <1>2, <1>3, ImagesInvHolds, PTL DEF Spec
=============================================================================
