----------------------------- MODULE RowFormat -----------------------------
(***************************************************************************)
(* Row images and what the program reads out of them: DecodeRow of         *)
(* internal/rowdecoder for uncompressed rows, MSSQLCompressedRowDecoder    *)
(* for ROW-compressed ones, and decodeRowImage of internal/dml, which      *)
(* chooses between them.                                                   *)
(*                                                                         *)
(* A row is a sequence of bytes.  There is one type of fixed length, of    *)
(* one byte (tinyint), and one of variable length (varchar); a value is    *)
(* the sequence of its bytes.  A row decodes with a sequence of columns    *)
(* [id, type, phantom]: the decoders go by position, the truth by id.      *)
(***************************************************************************)
EXTENDS Naturals, Integers, Sequences, SequencesExt

(* The two values that are no bytes: NULL, and one stored on LOB pages, of *)
(* which the row holds a pointer.                                          *)
Null == <<-1>>
Lob == <<-2>>

Fixed(col) == col.type = "tinyint"

(* The rows that the source writes: each column is NULL or has bytes, and  *)
(* a variable one may have a LOB.                                          *)
Columns == [id : Nat, type : {"tinyint", "varchar"}, phantom : BOOLEAN]
StoredValues(col) ==
  IF Fixed(col) THEN {Null} \cup {<<b>> : b \in 0..255} ELSE {Null, Lob} \cup Seq(0..255)
IsRow(cols, value) ==
  cols \in Seq(Columns) /\ \A i \in DOMAIN cols : value[cols[i].id] \in StoredValues(cols[i])

(* The elements of a set of naturals in their order.                       *)
Rank(S, i) == Cardinality({j \in S : j <= i})
InOrder(S) == [k \in 1..Cardinality(S) |-> CHOOSE i \in S : Rank(S, i) = k]

FixedCols(cols) == InOrder({i \in DOMAIN cols : Fixed(cols[i])})
VarCols(cols) == InOrder({i \in DOMAIN cols : ~Fixed(cols[i])})

(* How many of the columns before the i-th are of its kind: FixedOffset    *)
(* for a fixed one, VarIndex for a variable one.                           *)
computeLayout(cols, i) ==
  Cardinality({k \in 1..(i - 1) : Fixed(cols[k]) = Fixed(cols[i])})

Byte(row, k) == row[k + 1]
Slice(row, from, to) == SubSeq(row, from + 1, to)
Bit(byte, k) == (byte \div (2 ^ k)) % 2 = 1
Uint16(row, k) == Byte(row, k) + 256 * Byte(row, k + 1)
Uint16BE(row, k) == 256 * Byte(row, k) + Byte(row, k + 1)

Refused(why) == [err |-> why, vals |-> <<>>]
Accepted(vals) == [err |-> "", vals |-> vals]

-----------------------------------------------------------------------------
(* How SQL Server writes a row of the given columns, phantoms NULL: the    *)
(* format in the header comment of decoder.go, without entries for a tail  *)
(* of NULLs in the variable part.                                          *)

(* A byte for every eight columns.                                         *)
NullBitmap(cols, value) ==
  LET null == {i \in DOMAIN cols : value[cols[i].id] = Null}
      bit(i, n) == IF i \in null THEN n ELSE 0
      byte(i) == bit(i + 1, 1) + bit(i + 2, 2) + bit(i + 3, 4) + bit(i + 4, 8)
                 + bit(i + 5, 16) + bit(i + 6, 32) + bit(i + 7, 64) + bit(i + 8, 128)
  IN [b \in 1..((Len(cols) + 7) \div 8) |-> byte(8 * (b - 1))]

InRow(v) == IF v = Null THEN <<>> ELSE IF v = Lob THEN <<0, 7>> ELSE v

FixedPart(cols, value) ==
  [k \in DOMAIN FixedCols(cols) |->
     LET v == value[cols[FixedCols(cols)[k]].id] IN IF v = Null THEN 0 ELSE v[1]]

(* The variable columns up to the last one that is not NULL.               *)
StoredVars(cols, value) ==
  LET all == VarCols(cols)
      some == {k \in DOMAIN all : value[cols[all[k]].id] # Null}
  IN SubSeq(all, 1, IF some = {} THEN 0 ELSE Max(some))

VarBytes(cols, value) ==
  LET var == StoredVars(cols, value) IN [k \in DOMAIN var |-> InRow(value[cols[var[k]].id])]

VarEnds(cols, value) ==
  LET var == StoredVars(cols, value)
      base == 8 + Len(FixedCols(cols)) + (Len(cols) + 7) \div 8 + 2 * Len(var)
  IN [k \in DOMAIN var |-> <<base + Len(FlattenSeq(SubSeq(VarBytes(cols, value), 1, k))),
                             IF value[cols[var[k]].id] = Lob THEN 128 ELSE 0>>]

VarPart(cols, value) ==
  LET var == StoredVars(cols, value) IN
  IF var = <<>> THEN <<>>
  ELSE <<Len(var), 0>> \o FlattenSeq(VarEnds(cols, value)) \o FlattenSeq(VarBytes(cols, value))

EncodePlain(cols, value) ==
  <<IF StoredVars(cols, value) = <<>> THEN 16 ELSE 48, 0, 4 + Len(FixedCols(cols)), 0>>
  \o FixedPart(cols, value) \o <<Len(cols), 0>> \o NullBitmap(cols, value) \o VarPart(cols, value)

(* A compressed row: two bytes of header, the second one the number of     *)
(* columns; a nibble per column; short values; long values behind offsets. *)
Long(v) == v # Null /\ (v = Lob \/ Len(v) > 8)
Nibble(v) == IF v = Null THEN 0 ELSE IF Long(v) THEN 10 ELSE IF v = <<0>> THEN 1 ELSE Len(v) + 1

Nibbles(cols, value) ==
  LET nibble(i) == IF i > Len(cols) THEN 0 ELSE Nibble(value[cols[i].id])
  IN [k \in 1..((Len(cols) + 1) \div 2) |-> nibble(2 * k - 1) + 16 * nibble(2 * k)]

ShortPart(cols, value) ==
  [i \in DOMAIN cols |-> LET v == value[cols[i].id] IN
                         IF v = Null \/ Long(v) \/ v = <<0>> THEN <<>> ELSE v]

LongCols(cols, value) == InOrder({i \in DOMAIN cols : Long(value[cols[i].id])})

TailPart(cols, value) ==
  LET tail == LongCols(cols, value)
      bytes == [k \in DOMAIN tail |-> InRow(value[cols[tail[k]].id])]
      ends == [k \in DOMAIN tail |-> <<0, Len(FlattenSeq(SubSeq(bytes, 1, k)))>>]
  IN IF tail = <<>> THEN <<>>
     ELSE <<1, Len(tail)>> \o FlattenSeq(ends) \o <<0>> \o FlattenSeq(bytes)

EncodeCompressed(cols, value) ==
  <<33, Len(cols)>> \o Nibbles(cols, value) \o FlattenSeq(ShortPart(cols, value))
  \o TailPart(cols, value)

Encode(format, cols, value) ==
  IF format = "NONE" THEN EncodePlain(cols, value) ELSE EncodeCompressed(cols, value)

(* What it takes for a row to be read in full.  Its columns are where      *)
(* their ids say, none of them was ever dropped; no value is elsewhere; 15 *)
(* bits hold its offsets, as a page of 8 KB does; and a string in a        *)
(* compressed row does not begin with a zero.                              *)
Positional(cols) == \A i \in DOMAIN cols : cols[i].id = i /\ ~cols[i].phantom
FitsPage(row) == Len(row) < 32768
Readable(cols, value) ==
  \A i \in DOMAIN cols :
    LET v == value[cols[i].id] IN ~Fixed(cols[i]) /\ v \notin {Null, Lob, <<>>} => v[1] # 0
InFull(format, cols, value) ==
  /\ IsRow(cols, value) /\ \A i \in DOMAIN cols : value[cols[i].id] # Lob
  /\ format # "NONE" => Readable(cols, value)
  /\ FitsPage(Encode(format, cols, value))

-----------------------------------------------------------------------------
(* DecodeRow.                                                              *)

HasGaps(cols) == \E i \in DOMAIN cols : cols[i].id # i

(* The parts of an uncompressed row, by its own header.                    *)
Foffset(row) == Uint16(row, 2)
NumCols(row) == Uint16(row, Foffset(row))
BitmapEnd(row) == Foffset(row) + 2 + (NumCols(row) + 7) \div 8
NumVar(row) == IF BitmapEnd(row) + 2 <= Len(row) THEN Uint16(row, BitmapEnd(row)) ELSE 0
VarEntry(row, k) ==
  LET pos == BitmapEnd(row) + 2 + 2 * k IN IF pos + 2 > Len(row) THEN 0 ELSE Uint16(row, pos)
OffRow(row, k) == VarEntry(row, k) >= 2 ^ 15
VarEnd(row, k) == VarEntry(row, k) % 2 ^ 15
VarStart(row, k) == IF k > 0 THEN VarEnd(row, k - 1) ELSE BitmapEnd(row) + 2 + 2 * NumVar(row)

IsNull(row, i) ==
  i > NumCols(row) \/ Bit(Byte(row, Foffset(row) + 2 + (i - 1) \div 8), (i - 1) % 8)

(* Mutant of ColumnValue: the bit of the NULL bitmap is the column's id.   *)
ColumnValueById(row, cols, i) ==
  LET k == computeLayout(cols, i) IN
  IF IsNull(row, cols[i].id) THEN Null
  ELSE IF Fixed(cols[i])
  THEN IF 5 + k > Len(row) \/ 5 + k > Foffset(row) THEN Null ELSE <<Byte(row, 4 + k)>>
  ELSE IF k >= NumVar(row) \/ VarStart(row, k) > Len(row) \/ VarEnd(row, k) > Len(row)
          \/ VarStart(row, k) > VarEnd(row, k)
       THEN Null
       ELSE Slice(row, VarStart(row, k), VarEnd(row, k))

ColumnValue(row, cols, i) ==
  LET k == computeLayout(cols, i) IN
  IF IsNull(row, i) THEN Null
  ELSE IF Fixed(cols[i])
  THEN IF 5 + k > Len(row) \/ 5 + k > Foffset(row) THEN Null ELSE <<Byte(row, 4 + k)>>
  ELSE IF k >= NumVar(row) \/ VarStart(row, k) > Len(row) \/ VarEnd(row, k) > Len(row)
          \/ VarStart(row, k) > VarEnd(row, k)
       THEN Null
       ELSE Slice(row, VarStart(row, k), VarEnd(row, k))

IsOffRow(row, cols, i) ==
  /\ ~IsNull(row, i) /\ ~Fixed(cols[i])
  /\ computeLayout(cols, i) < NumVar(row) /\ OffRow(row, computeLayout(cols, i))

(* Mutant of DecodeRow: a row must have as many columns as the schema.     *)
DecodeRowSameCount(row, cols) ==
  IF Len(row) < 4 THEN Refused("Error")
  ELSE IF Foffset(row) < 4 \/ Foffset(row) > Len(row) THEN Refused("CompressedRow")
  ELSE IF Foffset(row) + 2 > Len(row) THEN Refused("Error")
  ELSE IF NumCols(row) # Len(cols) \/ HasGaps(cols) THEN Refused("SchemaMismatch")
  ELSE IF BitmapEnd(row) > Len(row) THEN Refused("Error")
  ELSE IF \E i \in DOMAIN cols : IsOffRow(row, cols, i) THEN Refused("OffRowLOB")
  ELSE Accepted([i \in DOMAIN cols |-> ColumnValue(row, cols, i)])

DecodeRow(row, cols) ==
  IF Len(row) < 4 THEN Refused("Error")
  ELSE IF Foffset(row) < 4 \/ Foffset(row) > Len(row) THEN Refused("CompressedRow")
  ELSE IF Foffset(row) + 2 > Len(row) THEN Refused("Error")
  ELSE IF NumCols(row) > Len(cols) \/ (NumCols(row) = Len(cols) /\ HasGaps(cols))
  THEN Refused("SchemaMismatch")
  ELSE IF BitmapEnd(row) > Len(row) THEN Refused("Error")
  ELSE IF \E i \in DOMAIN cols : IsOffRow(row, cols, i) THEN Refused("OffRowLOB")
  ELSE Accepted([i \in DOMAIN cols |-> ColumnValue(row, cols, i)])

-----------------------------------------------------------------------------
(* MSSQLCompressedRowDecoder.                                              *)

ExtractCompressedColumnNibbles(row, n) ==
  [i \in 1..n |-> LET b == Byte(row, 2 + (i - 1) \div 2) IN
                  IF i % 2 = 1 THEN b % 16 ELSE (b \div 16) % 16]

PayloadStart(n) == 2 + (n + 1) \div 2

(* Descriptors: 0 NULL; 1 and 11 zero; 2..9 so many bytes, less one; 10 a  *)
(* tail value; 12 and 13 a reference to the page's dictionary; others are  *)
(* taken for NULL.  A slice is what a column has of the row.               *)
InlineLength(desc) == IF desc \in 2..9 THEN desc - 1 ELSE 0

ReadSlice(row, at, desc) ==
  CASE desc \in {1, 11} -> [kind |-> "value", bytes |-> <<>>]
    [] desc \in 2..9 -> [kind |-> "value", bytes |-> Slice(row, at, at + desc - 1)]
    [] desc = 10 -> [kind |-> "tail", bytes |-> <<>>]
    [] desc \in {12, 13} -> [kind |-> "reference", bytes |-> <<>>]
    [] OTHER -> [kind |-> "null", bytes |-> <<>>]

(* Where the payload of column i begins.                                   *)
InlineOffset(nibbles, i) ==
  LET after[k \in 0..Len(nibbles)] ==
        IF k = 0 THEN PayloadStart(Len(nibbles)) ELSE after[k - 1] + InlineLength(nibbles[k])
  IN after[i - 1]

(* The k-th of the tail's columns: its end, counted from the tail's data,  *)
(* is in a big-endian entry, of which the top bit does not count.          *)
TailEnd(row, start, k) == IF k = 0 THEN 0 ELSE Uint16BE(row, start + 2 * k) % 2 ^ 15

ParseCompressedTailValues(row, start, tail, slices) ==
  LET data == start + 3 + 2 * Len(tail)
      rank(i) == CHOOSE k \in DOMAIN tail : tail[k] = i
  IN IF data > Len(row)
        \/ \E k \in DOMAIN tail : \/ TailEnd(row, start, k) < TailEnd(row, start, k - 1)
                                  \/ data + TailEnd(row, start, k) > Len(row)
     THEN Refused("TailParseFailed")
     ELSE Accepted([i \in DOMAIN slices |->
            IF slices[i].kind # "tail" THEN slices[i]
            ELSE [kind |-> "value",
                  bytes |-> Slice(row, data + TailEnd(row, start, rank(i) - 1),
                                       data + TailEnd(row, start, rank(i)))]])

ParseCompressedRowLayout(row, cols) ==
  LET n == Len(cols)
      nibbles == ExtractCompressedColumnNibbles(row, n)
      end == InlineOffset(nibbles, n + 1)
      slices == [i \in 1..n |-> ReadSlice(row, InlineOffset(nibbles, i), nibbles[i])]
      tail == InOrder({i \in 1..n : nibbles[i] = 10})
  IN IF PayloadStart(n) > Len(row) \/ end > Len(row) THEN Refused("ParseFailed")
     ELSE IF tail # <<>> THEN ParseCompressedTailValues(row, end, tail, slices)
     ELSE Accepted(slices)

(* A column that cannot be decoded becomes NULL.                           *)
decodeCompressedVarChar(bytes) == IF bytes # <<>> /\ bytes[1] = 0 THEN Null ELSE bytes

decodeCompressedColumnValue(col, slice) ==
  IF slice.kind = "null" THEN Null
  ELSE IF ~Fixed(col) THEN decodeCompressedVarChar(slice.bytes)
  ELSE IF slice.bytes = <<>> THEN <<0>> ELSE <<slice.bytes[1]>>

CompressedDecode(row, cols, physical) ==
  LET phys == IF physical # <<>> THEN physical ELSE cols
      parsed == ParseCompressedRowLayout(row, phys)
      at(id) == {k \in DOMAIN phys : phys[k].id = id /\ ~phys[k].phantom}
  IN IF Len(row) < 2 \/ ~Bit(row[1], 5) THEN Refused("ParseFailed")
     ELSE IF parsed.err # "" THEN parsed
     ELSE IF \E k \in DOMAIN phys : parsed.vals[k].kind = "reference"
     THEN Refused("PageReference")
     ELSE Accepted([i \in DOMAIN cols |->
            IF at(cols[i].id) = {} THEN Null
            ELSE LET k == Max(at(cols[i].id)) IN
                 decodeCompressedColumnValue(phys[k], parsed.vals[k])])

-----------------------------------------------------------------------------
(* decodeRowImage: by the compression the metadata say, and as an          *)
(* uncompressed row when that cannot be and the row looks like one.        *)

DecodeDMLRowImage(row, cols, physical, format) ==
  IF format = "NONE" THEN DecodeRow(row, cols) ELSE CompressedDecode(row, cols, physical)

decodeRowImage(row, cols, physical, format) ==
  LET first == DecodeDMLRowImage(row, cols, physical, format)
      again == DecodeDMLRowImage(row, cols, physical, "NONE")
  IN IF first.err = "ParseFailed" /\ format # "NONE" /\ row # <<>> /\ ~Bit(row[1], 5)
        /\ again.err = ""
     THEN again ELSE first
=============================================================================
