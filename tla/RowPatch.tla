------------------------------ MODULE RowPatch ------------------------------
(***************************************************************************)
(* What a logged update says of a row image, and how update_patch.go of    *)
(* internal/mssql and the delta decoder of internal/rowdecoder apply it.   *)
(*                                                                         *)
(* LOP_MODIFY_ROW has one fragment: the bytes removed at an offset and     *)
(* those that replace them.  LOP_MODIFY_COLUMNS has several: pairs of old  *)
(* and new offsets, the old lengths, and a payload of old and new          *)
(* fragments in turn, each but the last one aligned to four bytes.         *)
(***************************************************************************)
EXTENDS RowFormat

NoImage == <<>>

-----------------------------------------------------------------------------
(* What SQL Server logs of an update.                                      *)

CommonPrefix(a, b) ==
  LET n == Min({Len(a), Len(b)})
      differs == {k \in 1..n : a[k] # b[k]}
  IN IF differs = {} THEN n ELSE Min(differs) - 1

(* From the first byte that differs to the last one; from and to are where *)
(* the two parts begin in their rows.                                      *)
Fragment(a, b, from, to) ==
  LET p == CommonPrefix(a, b)
      s == CommonPrefix(Reverse(SubSeq(a, p + 1, Len(a))), Reverse(SubSeq(b, p + 1, Len(b))))
  IN [oldStart |-> from + p, newStart |-> to + p,
      old |-> SubSeq(a, p + 1, Len(a) - s), new |-> SubSeq(b, p + 1, Len(b) - s)]

RowFragment(a, b) == Fragment(a, b, 0, 0)

(* One fragment for the fixed part and the directory of an uncompressed    *)
(* row, or the descriptors of a compressed one; one for the data.          *)
DataStart(format, row, n) ==
  IF format = "ROW" THEN PayloadStart(n) ELSE IF NumVar(row) = 0 THEN Len(row) ELSE VarStart(row, 0)

Fragments(format, a, b, n) ==
  LET p == DataStart(format, a, n)
      q == DataStart(format, b, n)
      IfChanged(f) == IF f.old # f.new THEN <<f>> ELSE <<>>
  IN IfChanged(Fragment(SubSeq(a, 1, p), SubSeq(b, 1, q), 0, 0))
     \o IfChanged(Fragment(SubSeq(a, p + 1, Len(a)), SubSeq(b, q + 1, Len(b)), p, q))

align4(n) == 4 * ((n + 3) \div 4)
Aligned(s) == s \o [k \in 1..(align4(Len(s)) - Len(s)) |-> 0]

(* The log record goes on after the last fragment with bytes of its own.   *)
ColumnsRecord(frags, trailing) ==
  [oldStarts |-> [i \in DOMAIN frags |-> frags[i].oldStart],
   newStarts |-> [i \in DOMAIN frags |-> frags[i].newStart],
   oldLens |-> [i \in DOMAIN frags |-> Len(frags[i].old)],
   payload |-> FlattenSeq([i \in DOMAIN frags |->
                 Aligned(frags[i].old)
                 \o IF i < Len(frags) THEN Aligned(frags[i].new) ELSE frags[i].new])
               \o trailing]

-----------------------------------------------------------------------------
(* update_patch.go.                                                        *)

Replace(row, at, length, by) == Slice(row, 0, at) \o by \o Slice(row, at + length, Len(row))

ApplyModifyRowFragment(before, old, new, offset) ==
  IF offset + Len(old) > Len(before) \/ Slice(before, offset, offset + Len(old)) # old
  THEN NoImage
  ELSE Replace(before, offset, Len(old), new)

(* The length of a new fragment that is not the last one.                  *)
NewLen(m, i) ==
  m.oldLens[i] + (m.newStarts[i + 1] - m.oldStarts[i + 1]) - (m.newStarts[i] - m.oldStarts[i])

(* Fragment i in the payload, given where the old one begins: s.cursor.    *)
OldFrag(m, s, i) == Slice(m.payload, s.cursor, s.cursor + m.oldLens[i])
NewStart(m, s, i) == s.cursor + align4(m.oldLens[i])
Truncated(m, s, i) == NewStart(m, s, i) > Len(m.payload)

(* One fragment after another, until one fails.                            *)
OverFragments(m, step(_, _), image) ==
  LET over[i \in 0..Len(m.oldStarts)] ==
        IF i = 0 THEN [out |-> image, cursor |-> 0, shift |-> 0]
        ELSE IF over[i - 1].out = NoImage THEN over[i - 1]
        ELSE step(over[i - 1], i)
  IN over[Len(m.oldStarts)].out

Failed(s) == [s EXCEPT !.out = NoImage]

(* Mutant of ApplyFragment: offsets are not shifted by the fragments that  *)
(* came before.                                                            *)
ApplyFragmentUnshifted(m, s, i) ==
  LET start == NewStart(m, s, i)
      len == IF i < Len(m.oldStarts) THEN NewLen(m, i) ELSE Len(m.payload) - start
      new == Slice(m.payload, start, start + len)
  IN IF Truncated(m, s, i) \/ len < 0 \/ start + len > Len(m.payload) THEN Failed(s)
     ELSE [out |-> ApplyModifyRowFragment(s.out, OldFrag(m, s, i), new, m.oldStarts[i]),
           cursor |-> Min({start + align4(len), Len(m.payload)}), shift |-> 0]

(* The last new fragment is the rest of the payload.                       *)
ApplyFragment(m, s, i) ==
  LET start == NewStart(m, s, i)
      len == IF i < Len(m.oldStarts) THEN NewLen(m, i) ELSE Len(m.payload) - start
      new == Slice(m.payload, start, start + len)
  IN IF Truncated(m, s, i) \/ len < 0 \/ start + len > Len(m.payload) THEN Failed(s)
     ELSE [out |-> ApplyModifyRowFragment(s.out, OldFrag(m, s, i), new, m.oldStarts[i] + s.shift),
           cursor |-> Min({start + align4(len), Len(m.payload)}),
           shift |-> s.shift + len - m.oldLens[i]]

ApplyModifyColumns(before, m) == OverFragments(m, LAMBDA s, i : ApplyFragment(m, s, i), before)

(* The last new fragment is as much of the rest as the row has there.      *)
Matching(payload, start, row, at) ==
  LET n == Min({Len(payload) - start, Len(row) - at}) IN
  CommonPrefix(Slice(payload, start, start + n), Slice(row, at, at + n))

ReverseFragment(after, m, s, i) ==
  LET start == NewStart(m, s, i)
      to == m.newStarts[i]
      len == IF i < Len(m.oldStarts) THEN NewLen(m, i) ELSE Matching(m.payload, start, after, to)
  IN IF \/ Truncated(m, s, i) \/ to > Len(after)
        \/ len < 0 \/ start + len > Len(m.payload) \/ to + len > Len(after)
        \/ Slice(after, to, to + len) # Slice(m.payload, start, start + len)
        \/ m.oldStarts[i] + len > Len(s.out)
     THEN Failed(s)
     ELSE [out |-> Replace(s.out, m.oldStarts[i], len, OldFrag(m, s, i)),
           cursor |-> start + align4(len), shift |-> 0]

ReverseModifyColumns(after, m) ==
  OverFragments(m, LAMBDA s, i : ReverseFragment(after, m, s, i), after)

-----------------------------------------------------------------------------
(* rowdecoder: an update without a cached image.                           *)

(* Mutant of DecodeModifyRowFragment: a header of three bytes.             *)
DecodeModifyRowFragmentShortHeader(frag, offset, cols) ==
  LET rel(i) == 3 + computeLayout(cols, i) - offset
      in == {i \in DOMAIN cols : Fixed(cols[i]) /\ rel(i) >= 0 /\ rel(i) < Len(frag)}
  IN [i \in in |-> <<frag[rel(i) + 1]>>]

(* The columns of fixed length that lie in the fragment.                   *)
DecodeModifyRowFragment(frag, offset, cols) ==
  LET rel(i) == 4 + computeLayout(cols, i) - offset
      in == {i \in DOMAIN cols : Fixed(cols[i]) /\ rel(i) >= 0 /\ rel(i) < Len(frag)}
  IN [i \in in |-> <<frag[rel(i) + 1]>>]

(* contents1 is the after-image XOR the before-image, of which the bytes   *)
(* beyond the after-image are not looked at.                               *)
ReconstructBeforeImage(after, before) ==
  [k \in DOMAIN after |-> IF k <= Len(before) THEN before[k] ELSE 0]
=============================================================================
