--------------------------- MODULE RowPatchProofs ---------------------------
(***************************************************************************)
(* Row patches: what SQL Server logs of an update of one row to another,   *)
(* applied to the first one's image, gives the second one's, for any two   *)
(* rows and however the update is logged.  Bytes that follow the last      *)
(* fragment of a record may end up in the row (ModifyColumnsApply).        *)
(***************************************************************************)
EXTENDS RowPatch, RowFormatProofs

(* Of three parts, the slices are the parts.                               *)
SlicesTo(s, p, q, r) ==
  /\ Slice(s, 0, Len(p)) = p
  /\ Slice(s, Len(p), Len(p) + Len(q)) = q
  /\ Slice(s, Len(p) + Len(q), Len(s)) = r

(* Slices of a concatenation of three parts, up to and from the middle     *)
(* one.                                                                    *)
LEMMA SliceOfParts ==
  ASSUME NEW S, NEW p \in Seq(S), NEW q \in Seq(S), NEW r \in Seq(S)
  PROVE  SlicesTo(p \o q \o r, p, q, r)
<1>1. PICK s, lp, lq, lr : s = p \o q \o r /\ lp = Len(p) /\ lq = Len(q) /\ lr = Len(r)
  OBVIOUS
<1>2. lp \in Nat /\ lq \in Nat /\ lr \in Nat
  BY <1>1
<1>3. /\ s \in Seq(S) /\ Len(s) = lp + lq + lr
      /\ \A k \in 1..lp : s[k] = p[k]
      /\ \A k \in 1..lq : s[lp + k] = q[k]
      /\ \A k \in 1..lr : s[lp + lq + k] = r[k]
  <2>1. Joins(S, p \o q \o r, p, q, r)
    BY ThreeParts
  <2>. QED BY <1>1, <2>1, Zenon DEF Joins
<1>4. Slice(s, 0, lp) = p
  <2>1. SubSeq(s, 1, lp) \in Seq(S) /\ Len(SubSeq(s, 1, lp)) = lp
        /\ \A k \in 1..lp : SubSeq(s, 1, lp)[k] = s[k]
    BY <1>2, <1>3
  <2>2. \A k \in 1..lp : SubSeq(s, 1, lp)[k] = p[k]
    BY <1>3, <2>1
  <2>3. SubSeq(s, 1, lp) = p
    BY <1>1, <2>1, <2>2, SeqEqual
  <2>. QED BY <2>3 DEF Slice
<1>5. Slice(s, lp, lp + lq) = q
  <2>. DEFINE u == SubSeq(s, lp + 1, lp + lq)
  <2>1. u \in Seq(S) /\ Len(u) = lq /\ \A k \in 1..lq : u[k] = s[lp + k]
    BY <1>2, <1>3
  <2>. HIDE DEF u
  <2>2. \A k \in 1..lq : u[k] = q[k]
    BY <1>3, <2>1
  <2>3. u = q
    BY <1>1, <2>1, <2>2, SeqEqual
  <2>. QED BY <2>3 DEF Slice, u
<1>6. Slice(s, lp + lq, Len(s)) = r
  <2>. DEFINE u == SubSeq(s, (lp + lq) + 1, lp + lq + lr)
  <2>1. u \in Seq(S) /\ Len(u) = lr /\ \A k \in 1..lr : u[k] = s[lp + lq + k]
    BY <1>2, <1>3
  <2>. HIDE DEF u
  <2>2. \A k \in 1..lr : u[k] = r[k]
    BY <1>3, <2>1
  <2>3. u = r
    BY <1>1, <2>1, <2>2, SeqEqual
  <2>. QED BY <1>3, <2>3 DEF Slice, u
<1>7. SlicesTo(s, p, q, r)
  BY <1>1, <1>4, <1>5, <1>6, Zenon DEF SlicesTo
<1>. QED BY <1>1, <1>7, Zenon

(* A sequence is its parts up to two places.                               *)
InParts(S, s, m, n) ==
  /\ s = SubSeq(s, 1, m) \o SubSeq(s, m + 1, n) \o SubSeq(s, n + 1, Len(s))
  /\ SubSeq(s, 1, m) \in Seq(S) /\ Len(SubSeq(s, 1, m)) = m
  /\ SubSeq(s, m + 1, n) \in Seq(S) /\ Len(SubSeq(s, m + 1, n)) = n - m
  /\ SubSeq(s, n + 1, Len(s)) \in Seq(S) /\ Len(SubSeq(s, n + 1, Len(s))) = Len(s) - n

(* A sequence is its part up to m, from m to n, and the rest.              *)
LEMMA PartsOf ==
  ASSUME NEW S, NEW s \in Seq(S), NEW m \in Nat, NEW n \in Nat, m <= n, n <= Len(s)
  PROVE  InParts(S, s, m, n)
<1>1. Len(s) \in Nat
  OBVIOUS
<1>2. SubSeq(s, 1, m) \o SubSeq(s, m + 1, n) = SubSeq(s, 1, n)
  <2>. 1 \in 1..(Len(s) + 1) /\ m \in (1 - 1)..Len(s) /\ n \in m..Len(s)
    BY <1>1
  <2>. QED BY ConcatAdjacentSubSeq
<1>3. SubSeq(s, 1, n) \o SubSeq(s, n + 1, Len(s)) = SubSeq(s, 1, Len(s))
  <2>. 1 \in 1..(Len(s) + 1) /\ n \in (1 - 1)..Len(s) /\ Len(s) \in n..Len(s)
    BY <1>1
  <2>. QED BY ConcatAdjacentSubSeq
<1>4. SubSeq(s, 1, Len(s)) = s
  BY SubSeqFull
<1>5. SubSeq(s, 1, m) \in Seq(S) /\ Len(SubSeq(s, 1, m)) = m
  BY <1>1
<1>6. SubSeq(s, m + 1, n) \in Seq(S) /\ Len(SubSeq(s, m + 1, n)) = n - m
  BY <1>1
<1>7. SubSeq(s, n + 1, Len(s)) \in Seq(S) /\ Len(SubSeq(s, n + 1, Len(s))) = Len(s) - n
  BY <1>1
<1>. QED BY <1>2, <1>3, <1>4, <1>5, <1>6, <1>7, Zenon DEF InParts

-----------------------------------------------------------------------------
(* What two rows have in common at their ends.                             *)

(* A common prefix is no longer than either sequence, and they agree on    *)
(* it.                                                                     *)
LEMMA CommonPrefixProperties ==
  ASSUME NEW S, NEW a \in Seq(S), NEW b \in Seq(S)
  PROVE  /\ CommonPrefix(a, b) \in Nat /\ CommonPrefix(a, b) <= Len(a) /\ CommonPrefix(a, b) <= Len(b)
         /\ \A k \in 1..CommonPrefix(a, b) : a[k] = b[k]
<1>. DEFINE n == Min({Len(a), Len(b)})
            differs == {k \in 1..n : a[k] # b[k]}
<1>1. Len(a) \in Nat /\ Len(b) \in Nat
  OBVIOUS
<1>2. n \in {Len(a), Len(b)} /\ n <= Len(a) /\ n <= Len(b)
  <2>1. \E x \in {Len(a), Len(b)} : \A y \in {Len(a), Len(b)} : x <= y
    BY <1>1
  <2>. QED BY <2>1 DEF Min
<1>3. CommonPrefix(a, b) = IF differs = {} THEN n ELSE Min(differs) - 1
  BY DEF CommonPrefix
<1>. HIDE DEF n
<1>4. CASE differs = {}
  <2>. \A k \in 1..n : a[k] = b[k]
    BY <1>4
  <2>. QED BY <1>1, <1>2, <1>3, <1>4
<1>5. CASE differs # {}
  <2>1. differs \subseteq Nat /\ n \in Nat /\ differs \subseteq 1..n
    BY <1>1, <1>2
  <2>2. \A k \in 1..n : k \notin differs => a[k] = b[k]
    OBVIOUS
  <2>. HIDE DEF differs
  <2>3. \E x \in differs : \A y \in differs : x <= y
    BY <1>5, <2>1, LeastMember
  <2>4. Min(differs) \in differs /\ \A y \in differs : Min(differs) <= y
    BY <2>3 DEF Min
  <2>5. PICK m : m = Min(differs)
    OBVIOUS
  <2>6. m \in 1..n /\ CommonPrefix(a, b) = m - 1
    BY <1>3, <1>5, <2>1, <2>4, <2>5
  <2>7. ASSUME NEW k \in 1..(m - 1) PROVE a[k] = b[k]
    <3>. k \in 1..n /\ ~(m <= k)
      BY <2>1, <2>6
    <3>. QED BY <2>2, <2>4, <2>5
  <2>. QED BY <1>1, <1>2, <2>1, <2>6, <2>7
<1>. QED BY <1>4, <1>5

(* What SubSeq leaves of a sequence after its first m elements.            *)
LEMMA TailOf ==
  ASSUME NEW S, NEW s \in Seq(S), NEW m \in Nat, m <= Len(s)
  PROVE  /\ SubSeq(s, m + 1, Len(s)) \in Seq(S) /\ Len(SubSeq(s, m + 1, Len(s))) = Len(s) - m
         /\ \A k \in 1..(Len(s) - m) : SubSeq(s, m + 1, Len(s))[k] = s[m + k]
<1>1. PICK n : n = Len(s)
  OBVIOUS
<1>2. n \in Nat /\ m <= n
  BY <1>1
<1>3. \A i \in (m + 1)..n : s[i] \in S
  BY <1>1, <1>2
<1>4. /\ SubSeq(s, m + 1, n) \in Seq(S)
      /\ Len(SubSeq(s, m + 1, n)) = IF m + 1 <= n THEN n - (m + 1) + 1 ELSE 0
      /\ \A i \in 1..(n - (m + 1) + 1) : SubSeq(s, m + 1, n)[i] = s[(m + 1) + i - 1]
  <2>. m + 1 \in Int /\ n \in Int
    BY <1>2
  <2>. QED BY <1>3, SubSeqProperties
<1>5. n - (m + 1) + 1 = n - m /\ (IF m + 1 <= n THEN n - (m + 1) + 1 ELSE 0) = n - m
  BY <1>2
<1>6. ASSUME NEW k \in 1..(n - m) PROVE (m + 1) + k - 1 = m + k
  BY <1>2
<1>. QED BY <1>1, <1>4, <1>5, <1>6

(* What Reverse makes of a sequence.                                       *)
LEMMA ReverseOf ==
  ASSUME NEW S, NEW s \in Seq(S)
  PROVE  /\ Reverse(s) \in Seq(S) /\ Len(Reverse(s)) = Len(s)
         /\ \A k \in 1..Len(s) : Reverse(s)[k] = s[(Len(s) - k) + 1]
<1>1. PICK n : n = Len(s)
  OBVIOUS
<1>2. n \in Nat /\ \A k \in 1..n : (n - k) + 1 \in 1..n
  BY <1>1
<1>3. Reverse(s) = [k \in 1..n |-> s[(n - k) + 1]]
  BY <1>1 DEF Reverse
<1>4. \A k \in 1..n : s[k] \in S
  BY <1>1
<1>5. Reverse(s) \in [1..n -> S]
  BY <1>2, <1>3, <1>4
<1>6. Reverse(s) \in Seq(S) /\ Len(Reverse(s)) = n
  BY <1>2, <1>5
<1>. QED BY <1>1, <1>3, <1>6

(* What they have in common at their ends, where the first p bytes of each *)
(* are left aside.                                                         *)
SuffixInCommon(a, b, p, s) ==
  /\ s \in Nat /\ p + s <= Len(a) /\ p + s <= Len(b)
  /\ SubSeq(a, (Len(a) - s) + 1, Len(a)) = SubSeq(b, (Len(b) - s) + 1, Len(b))

(* What two sequences have in common at their ends, beyond their first p   *)
(* elements.                                                               *)
LEMMA CommonSuffix ==
  ASSUME NEW a \in Seq(Int), NEW b \in Seq(Int), NEW p \in Nat, p <= Len(a), p <= Len(b)
  PROVE  SuffixInCommon(a, b, p,
           CommonPrefix(Reverse(SubSeq(a, p + 1, Len(a))), Reverse(SubSeq(b, p + 1, Len(b)))))
<1>0. PICK s : s = CommonPrefix(Reverse(SubSeq(a, p + 1, Len(a))), Reverse(SubSeq(b, p + 1, Len(b))))
  OBVIOUS
<1>1. PICK la, lb, ta, tb, ra, rb :
        /\ la = Len(a) /\ lb = Len(b) /\ ta = SubSeq(a, p + 1, la) /\ tb = SubSeq(b, p + 1, lb)
        /\ ra = Reverse(ta) /\ rb = Reverse(tb)
  OBVIOUS
<1>2. la \in Nat /\ lb \in Nat /\ p <= la /\ p <= lb
  BY <1>1
<1>3. ta \in Seq(Int) /\ Len(ta) = la - p /\ \A k \in 1..(la - p) : ta[k] = a[p + k]
  BY <1>1, TailOf, Zenon
<1>4. tb \in Seq(Int) /\ Len(tb) = lb - p /\ \A k \in 1..(lb - p) : tb[k] = b[p + k]
  BY <1>1, TailOf, Zenon
<1>5. ra \in Seq(Int) /\ Len(ra) = la - p /\ \A k \in 1..(la - p) : ra[k] = ta[((la - p) - k) + 1]
  <2>. ta \in Seq(Int)
    BY <1>3
  <2>1. /\ Reverse(ta) \in Seq(Int) /\ Len(Reverse(ta)) = Len(ta)
        /\ \A k \in 1..Len(ta) : Reverse(ta)[k] = ta[(Len(ta) - k) + 1]
    BY ReverseOf
  <2>. QED BY <1>1, <1>3, <2>1, Zenon
<1>6. rb \in Seq(Int) /\ Len(rb) = lb - p /\ \A k \in 1..(lb - p) : rb[k] = tb[((lb - p) - k) + 1]
  <2>. tb \in Seq(Int)
    BY <1>4
  <2>1. /\ Reverse(tb) \in Seq(Int) /\ Len(Reverse(tb)) = Len(tb)
        /\ \A k \in 1..Len(tb) : Reverse(tb)[k] = tb[(Len(tb) - k) + 1]
    BY ReverseOf
  <2>. QED BY <1>1, <1>4, <2>1, Zenon
<1>7. s = CommonPrefix(ra, rb)
  BY <1>0, <1>1, Zenon
<1>8. s \in Nat /\ s <= la - p /\ s <= lb - p /\ \A k \in 1..s : ra[k] = rb[k]
  <2>1. ra \in Seq(Int) /\ rb \in Seq(Int)
    BY <1>5, <1>6
  <2>2. /\ CommonPrefix(ra, rb) \in Nat /\ CommonPrefix(ra, rb) <= Len(ra) /\ CommonPrefix(ra, rb) <= Len(rb)
        /\ \A k \in 1..CommonPrefix(ra, rb) : ra[k] = rb[k]
    BY <2>1, CommonPrefixProperties
  <2>. QED BY <1>5, <1>6, <1>7, <2>2, Zenon
<1>9. p + s <= la /\ p + s <= lb /\ la - s \in Nat /\ lb - s \in Nat /\ la - s <= la /\ lb - s <= lb
      /\ la - (la - s) = s /\ lb - (lb - s) = s
  BY <1>2, <1>8
<1>10. PICK Q, R : Q = SubSeq(a, (la - s) + 1, la) /\ R = SubSeq(b, (lb - s) + 1, lb)
  OBVIOUS
<1>11. Q \in Seq(Int) /\ Len(Q) = s /\ \A k \in 1..s : Q[k] = a[(la - s) + k]
  <2>1. PICK m : m = la - s
    OBVIOUS
  <2>. m \in Nat /\ m <= Len(a)
    BY <1>1, <1>9, <2>1
  <2>2. /\ SubSeq(a, m + 1, Len(a)) \in Seq(Int) /\ Len(SubSeq(a, m + 1, Len(a))) = Len(a) - m
        /\ \A k \in 1..(Len(a) - m) : SubSeq(a, m + 1, Len(a))[k] = a[m + k]
    BY TailOf
  <2>. QED BY <1>1, <1>9, <1>10, <2>1, <2>2, Zenon
<1>12. R \in Seq(Int) /\ Len(R) = s /\ \A k \in 1..s : R[k] = b[(lb - s) + k]
  <2>1. PICK m : m = lb - s
    OBVIOUS
  <2>. m \in Nat /\ m <= Len(b)
    BY <1>1, <1>9, <2>1
  <2>2. /\ SubSeq(b, m + 1, Len(b)) \in Seq(Int) /\ Len(SubSeq(b, m + 1, Len(b))) = Len(b) - m
        /\ \A k \in 1..(Len(b) - m) : SubSeq(b, m + 1, Len(b))[k] = b[m + k]
    BY TailOf
  <2>. QED BY <1>1, <1>9, <1>10, <2>1, <2>2, Zenon
<1>13. ASSUME NEW j \in 1..s PROVE Q[j] = R[j]
  <2>1. PICK lan \in Nat, lbn \in Nat, pn \in Nat, sn \in Nat : lan = la /\ lbn = lb /\ pn = p /\ sn = s
    BY <1>2, <1>8
  <2>2. pn + sn <= lan /\ pn + sn <= lbn /\ j \in 1..sn
    BY <1>9, <2>1
  <2>3. PICK k, x, y : k = (sn - j) + 1 /\ x = ((lan - pn) - k) + 1 /\ y = ((lbn - pn) - k) + 1
    OBVIOUS
  <2>4. /\ (sn - j) + 1 \in 1..sn /\ (sn - j) + 1 \in 1..(lan - pn)
        /\ ((lan - pn) - ((sn - j) + 1)) + 1 \in 1..(lan - pn)
        /\ pn + (((lan - pn) - ((sn - j) + 1)) + 1) = (lan - sn) + j
    BY <2>2
  <2>5. /\ (sn - j) + 1 \in 1..(lbn - pn)
        /\ ((lbn - pn) - ((sn - j) + 1)) + 1 \in 1..(lbn - pn)
        /\ pn + (((lbn - pn) - ((sn - j) + 1)) + 1) = (lbn - sn) + j
    BY <2>2
  <2>6. /\ k \in 1..s /\ k \in 1..(la - p) /\ k \in 1..(lb - p)
        /\ x \in 1..(la - p) /\ y \in 1..(lb - p) /\ p + x = (la - s) + j /\ p + y = (lb - s) + j
    BY <2>1, <2>3, <2>4, <2>5, Zenon
  <2>7. ra[k] = rb[k]
    BY <1>8, <2>6
  <2>8. ra[k] = ta[x] /\ rb[k] = tb[y]
    BY <1>5, <1>6, <2>1, <2>3, <2>6, Zenon
  <2>9. ta[x] = a[p + x] /\ tb[y] = b[p + y]
    BY <1>3, <1>4, <2>6, Zenon
  <2>10. Q[j] = a[(la - s) + j] /\ R[j] = b[(lb - s) + j]
    BY <1>11, <1>12
  <2>. QED BY <2>6, <2>7, <2>8, <2>9, <2>10, Zenon
<1>14. Q = R
  BY <1>11, <1>12, <1>13, SeqEqual
<1>15. SuffixInCommon(a, b, p, s)
  BY <1>1, <1>8, <1>9, <1>10, <1>14, Zenon DEF SuffixInCommon
<1>. QED BY <1>0, <1>15, Zenon

(* A fragment stands, in both rows, between the same bytes.                *)
Between(a, b, f, P, Q) == a = P \o f.old \o Q /\ b = P \o f.new \o Q
FragmentOf(a, b, from, to, f) ==
  /\ f.old \in Seq(Int) /\ f.new \in Seq(Int)
  /\ \E P, Q \in Seq(Int) :
       Between(a, b, f, P, Q) /\ f.oldStart = from + Len(P) /\ f.newStart = to + Len(P)

(* A fragment is what differs between equal parts before and after it.     *)
LEMMA FragmentProperties ==
  ASSUME NEW a \in Seq(Int), NEW b \in Seq(Int), NEW from \in Nat, NEW to \in Nat
  PROVE  FragmentOf(a, b, from, to, Fragment(a, b, from, to))
<1>0. PICK f : f = Fragment(a, b, from, to)
  OBVIOUS
<1>1. PICK la \in Nat, lb \in Nat : la = Len(a) /\ lb = Len(b)
  OBVIOUS
<1>2. CommonPrefix(a, b) \in Nat
  BY CommonPrefixProperties
<1>3. PICK p \in Nat : p = CommonPrefix(a, b)
  BY <1>2
<1>3a. p <= la /\ p <= lb /\ \A k \in 1..p : a[k] = b[k]
  BY <1>1, <1>3, CommonPrefixProperties, Zenon
<1>4. PICK s : s = CommonPrefix(Reverse(SubSeq(a, p + 1, la)), Reverse(SubSeq(b, p + 1, lb)))
  OBVIOUS
<1>4a. /\ s \in Nat /\ p + s <= la /\ p + s <= lb
       /\ SubSeq(a, (la - s) + 1, la) = SubSeq(b, (lb - s) + 1, lb)
  <2>. p <= Len(a) /\ p <= Len(b)
    BY <1>1, <1>3a
  <2>1. SuffixInCommon(a, b, p,
          CommonPrefix(Reverse(SubSeq(a, p + 1, Len(a))), Reverse(SubSeq(b, p + 1, Len(b)))))
    BY CommonSuffix
  <2>2. SuffixInCommon(a, b, p, s)
    BY <1>1, <1>4, <2>1, Zenon
  <2>. QED BY <1>1, <2>2, Zenon DEF SuffixInCommon
<1>5. f = [oldStart |-> from + p, newStart |-> to + p,
           old |-> SubSeq(a, p + 1, la - s), new |-> SubSeq(b, p + 1, lb - s)]
  BY <1>0, <1>1, <1>3, <1>4, Zenon DEF Fragment
<1>6. PICK m \in Nat, n \in Nat : m = la - s /\ n = lb - s
  <2>. la - s \in Nat /\ lb - s \in Nat
    BY <1>4a
  <2>. QED OBVIOUS
<1>7. p <= m /\ m <= la /\ p <= n /\ n <= lb
  BY <1>4a, <1>6
<1>8. /\ a = SubSeq(a, 1, p) \o SubSeq(a, p + 1, m) \o SubSeq(a, m + 1, la)
      /\ SubSeq(a, 1, p) \in Seq(Int) /\ Len(SubSeq(a, 1, p)) = p
      /\ SubSeq(a, p + 1, m) \in Seq(Int)
      /\ SubSeq(a, m + 1, la) \in Seq(Int)
  <2>. p <= m /\ m <= Len(a)
    BY <1>1, <1>7
  <2>1. InParts(Int, a, p, m)
    BY PartsOf
  <2>. QED BY <1>1, <2>1, Zenon DEF InParts
<1>9. /\ b = SubSeq(b, 1, p) \o SubSeq(b, p + 1, n) \o SubSeq(b, n + 1, lb)
      /\ SubSeq(b, 1, p) \in Seq(Int) /\ Len(SubSeq(b, 1, p)) = p
      /\ SubSeq(b, p + 1, n) \in Seq(Int)
      /\ SubSeq(b, n + 1, lb) \in Seq(Int)
  <2>. p <= n /\ n <= Len(b)
    BY <1>1, <1>7
  <2>1. InParts(Int, b, p, n)
    BY PartsOf
  <2>. QED BY <1>1, <2>1, Zenon DEF InParts
<1>10. SubSeq(b, 1, p) = SubSeq(a, 1, p)
  <2>1. \A k \in 1..p : SubSeq(b, 1, p)[k] = b[k] /\ SubSeq(a, 1, p)[k] = a[k]
    BY <1>1, <1>3a
  <2>2. \A k \in 1..p : SubSeq(b, 1, p)[k] = SubSeq(a, 1, p)[k]
    BY <1>3a, <2>1
  <2>. QED BY <1>8, <1>9, <2>2, SeqEqual
<1>11. SubSeq(b, n + 1, lb) = SubSeq(a, m + 1, la)
  BY <1>4a, <1>6, Zenon
<1>12. PICK P, Q, O, N : /\ P = SubSeq(a, 1, p) /\ Q = SubSeq(a, m + 1, la)
                         /\ O = SubSeq(a, p + 1, m) /\ N = SubSeq(b, p + 1, n)
  OBVIOUS
<1>13. P \in Seq(Int) /\ Q \in Seq(Int) /\ O \in Seq(Int) /\ N \in Seq(Int) /\ Len(P) = p
  BY <1>8, <1>9, <1>12, Zenon
<1>14. a = P \o O \o Q /\ b = P \o N \o Q
  BY <1>8, <1>9, <1>10, <1>11, <1>12, Zenon
<1>15. f = [oldStart |-> from + p, newStart |-> to + p, old |-> O, new |-> N]
  BY <1>5, <1>6, <1>12, Zenon
<1>16. f.oldStart = from + p /\ f.newStart = to + p /\ f.old = O /\ f.new = N
  BY <1>15
<1>17. Between(a, b, f, P, Q)
  BY <1>14, <1>16, Zenon DEF Between
<1>18. FragmentOf(a, b, from, to, f)
  BY <1>13, <1>16, <1>17, Zenon DEF FragmentOf
<1>. QED BY <1>0, <1>18, Zenon

(* What stands between the same bytes is replaced.                         *)
Applies(P, Q, old, new) ==
  ApplyModifyRowFragment(P \o old \o Q, old, new, Len(P)) = P \o new \o Q

(* ApplyModifyRowFragment puts the new bytes in the place of the old ones. *)
LEMMA ApplyBetween ==
  ASSUME NEW P \in Seq(Int), NEW Q \in Seq(Int), NEW old \in Seq(Int), NEW new \in Seq(Int)
  PROVE  Applies(P, Q, old, new)
<1>1. PICK row : row = P \o old \o Q
  OBVIOUS
<1>2. /\ Slice(row, 0, Len(P)) = P
      /\ Slice(row, Len(P), Len(P) + Len(old)) = old
      /\ Slice(row, Len(P) + Len(old), Len(row)) = Q
  <2>1. SlicesTo(P \o old \o Q, P, old, Q)
    BY SliceOfParts
  <2>. QED BY <1>1, <2>1, Zenon DEF SlicesTo
<1>3. Len(row) = Len(P) + Len(old) + Len(Q)
  <2>1. Joins(Int, P \o old \o Q, P, old, Q)
    BY ThreeParts
  <2>. QED BY <1>1, <2>1, Zenon DEF Joins
<1>4. ~(Len(P) + Len(old) > Len(row))
  BY <1>3
<1>5. ApplyModifyRowFragment(row, old, new, Len(P)) = Replace(row, Len(P), Len(old), new)
  BY <1>2, <1>4, Zenon DEF ApplyModifyRowFragment
<1>6. Replace(row, Len(P), Len(old), new) = P \o new \o Q
  BY <1>2, Zenon DEF Replace
<1>. QED BY <1>1, <1>5, <1>6, Zenon DEF Applies

(* The fragment of an update, applied to the row before, gives the row     *)
(* after it.                                                               *)
LEMMA RowFragmentApplies ==
  ASSUME NEW a \in Seq(Int), NEW b \in Seq(Int), NEW f, f = RowFragment(a, b)
  PROVE  ApplyModifyRowFragment(a, f.old, f.new, f.oldStart) = b
<1>1. FragmentOf(a, b, 0, 0, Fragment(a, b, 0, 0))
  BY FragmentProperties
<1>2. FragmentOf(a, b, 0, 0, f)
  BY <1>1, Zenon DEF RowFragment
<1>3. f.old \in Seq(Int) /\ f.new \in Seq(Int)
  BY <1>2, Zenon DEF FragmentOf
<1>4. PICK P \in Seq(Int), Q \in Seq(Int) : Between(a, b, f, P, Q) /\ f.oldStart = 0 + Len(P)
  BY <1>2, Zenon DEF FragmentOf
<1>5. f.oldStart = Len(P)
  BY <1>4
<1>6. PICK o \in Seq(Int), n \in Seq(Int) : o = f.old /\ n = f.new
  BY <1>3
<1>7. Applies(P, Q, o, n)
  BY ApplyBetween
<1>. QED BY <1>4, <1>5, <1>6, <1>7, Zenon DEF Between, Applies

-----------------------------------------------------------------------------
(* One fragment after another.                                             *)

(* A fragment is padded to a multiple of four.                             *)
Pads(s, t) == /\ t \in Seq(Int) /\ Len(t) = align4(Len(s)) /\ align4(Len(s)) \in Nat
              /\ \E pad \in Seq(Int) : t = s \o pad

(* align4 pads with zeros: the bytes come first, up to a length of align4. *)
LEMMA AlignedPads ==
  ASSUME NEW s \in Seq(Int)
  PROVE  Pads(s, Aligned(s))
<1>1. PICK n \in Nat : n = Len(s)
  OBVIOUS
<1>2. align4(n) \in Nat /\ align4(n) >= n
  BY DEF align4
<1>3. PICK m \in Nat : m = align4(n) - n
  BY <1>2
<1>4. PICK pad : pad = [k \in 1..m |-> 0]
  OBVIOUS
<1>5. pad \in Seq(Int) /\ Len(pad) = m
  <2>. pad \in [1..m -> Int]
    BY <1>4
  <2>. Len(pad) = m
    BY <1>4
  <2>. QED OBVIOUS
<1>6. Aligned(s) = s \o pad
  BY <1>1, <1>3, <1>4, Zenon DEF Aligned
<1>7. s \o pad \in Seq(Int) /\ Len(s \o pad) = n + m
  BY <1>1, <1>5
<1>8. n + m = align4(n)
  BY <1>2, <1>3
<1>. QED BY <1>1, <1>2, <1>5, <1>6, <1>7, <1>8, Zenon DEF Pads

Begin(image) == [out |-> image, cursor |-> 0, shift |-> 0]
OneMore(m, s, i) == IF s.out = NoImage THEN s ELSE ApplyFragment(m, s, i)

(* OverFragments, unfolded for the records there are: two fragments at     *)
(* most.                                                                   *)
LEMMA UpToTwoFragments ==
  ASSUME NEW image, NEW m, Len(m.oldStarts) \in 0..2
  PROVE  ApplyModifyColumns(image, m) =
           (IF Len(m.oldStarts) = 0 THEN Begin(image)
            ELSE IF Len(m.oldStarts) = 1 THEN OneMore(m, Begin(image), 1)
            ELSE OneMore(m, OneMore(m, Begin(image), 1), 2)).out
<1>n. PICK n \in 0..2 : n = Len(m.oldStarts)
  OBVIOUS
<1>. DEFINE G(f) == f = [i \in 0..n |->
                           IF i = 0 THEN [out |-> image, cursor |-> 0, shift |-> 0]
                           ELSE IF f[i - 1].out = NoImage THEN f[i - 1]
                           ELSE ApplyFragment(m, f[i - 1], i)]
<1>0. n \in {0, 1, 2} /\ \A i \in 0..n : i \in {0, 1, 2}
  OBVIOUS
<1>1. PICK s0, s1, s2 : /\ s0 = [out |-> image, cursor |-> 0, shift |-> 0]
                        /\ s1 = OneMore(m, s0, 1) /\ s2 = OneMore(m, s1, 2)
  OBVIOUS
<1>2. ApplyModifyColumns(image, m) = (CHOOSE f : G(f))[n].out
  BY <1>n, Zenon DEF ApplyModifyColumns, OverFragments
<1>3. \E f : G(f)
  <2>. DEFINE g == [i \in 0..n |-> IF i = 0 THEN s0 ELSE IF i = 1 THEN s1 ELSE s2]
  <2>1. ASSUME NEW i \in 0..n
        PROVE  g[i] = IF i = 0 THEN s0
                      ELSE IF g[i - 1].out = NoImage THEN g[i - 1] ELSE ApplyFragment(m, g[i - 1], i)
    <3>1. CASE i = 0
      BY <3>1
    <3>2. CASE i = 1
      <4>. g[i] = s1 /\ g[i - 1] = s0
        BY <3>2
      <4>. QED BY <1>1, <3>2 DEF OneMore
    <3>3. CASE i = 2
      <4>. g[i] = s2 /\ g[i - 1] = s1
        BY <3>3
      <4>. QED BY <1>1, <3>3 DEF OneMore
    <3>. i = 0 \/ i = 1 \/ i = 2
      BY <1>0
    <3>. QED BY <3>1, <3>2, <3>3
  <2>2. g = [i \in 0..n |-> g[i]]
    OBVIOUS
  <2>. HIDE DEF g
  <2>3. G(g)
    BY <1>1, <2>1, <2>2
  <2>. QED BY <2>3
<1>4. ASSUME NEW f, G(f) PROVE f[n] = IF n = 0 THEN s0 ELSE IF n = 1 THEN s1 ELSE s2
  <2>1. \A i \in 0..n : f[i] = IF i = 0 THEN s0
                               ELSE IF f[i - 1].out = NoImage THEN f[i - 1] ELSE ApplyFragment(m, f[i - 1], i)
    BY <1>1, <1>4
  <2>. HIDE DEF G
  <2>2. f[0] = s0
    BY <2>1
  <2>3. n >= 1 => f[1] = s1
    <3>. SUFFICES ASSUME n >= 1 PROVE f[1] = s1
      OBVIOUS
    <3>. 1 \in 0..n /\ 1 - 1 = 0 /\ 1 # 0
      OBVIOUS
    <3>. f[1] = IF f[0].out = NoImage THEN f[0] ELSE ApplyFragment(m, f[0], 1)
      BY <2>1
    <3>. QED BY <1>1, <2>2 DEF OneMore
  <2>4. n = 2 => f[2] = s2
    <3>. SUFFICES ASSUME n = 2 PROVE f[2] = s2
      OBVIOUS
    <3>. 2 \in 0..n /\ 2 - 1 = 1 /\ 2 # 0
      OBVIOUS
    <3>. f[2] = IF f[1].out = NoImage THEN f[1] ELSE ApplyFragment(m, f[1], 2)
      BY <2>1
    <3>. QED BY <1>1, <2>3 DEF OneMore
  <2>5. n = 0 \/ n = 1 \/ n = 2
    BY <1>0
  <2>6. n = 1 => f[n] = s1
    BY <2>3
  <2>. QED BY <2>2, <2>4, <2>5, <2>6, Zenon
<1>. HIDE DEF G
<1>5. (CHOOSE f : G(f))[n] = IF n = 0 THEN s0 ELSE IF n = 1 THEN s1 ELSE s2
  BY <1>3, <1>4
<1>. QED BY <1>n, <1>1, <1>2, <1>5, Zenon DEF Begin

Associative(s, t, u) == (s \o t) \o u = s \o (t \o u)

(* Concatenation is associative.                                           *)
LEMMA Associate ==
  ASSUME NEW s \in Seq(Int), NEW t \in Seq(Int), NEW u \in Seq(Int)
  PROVE  Associative(s, t, u)
<1>1. (s \o t) \o u = s \o (t \o u)
  BY ConcatAssociative
<1>. QED BY <1>1 DEF Associative

(* The payload has, after X, a fragment that is o before the update and n  *)
(* after it, and then more.                                                *)
PayloadAt(payload, X, o, n, more) == payload = X \o Aligned(o) \o (n \o more)

Reads(payload, X, o, n, more) ==
  LET start == Len(X) + align4(Len(o)) IN
  /\ Slice(payload, Len(X), Len(X) + Len(o)) = o
  /\ Slice(payload, start, start + Len(n)) = n
  /\ start \in Nat /\ start + Len(n) <= Len(payload) /\ Len(payload) \in Nat
  /\ Len(payload) = start + Len(n) + Len(more)

(* ApplyModifyColumns finds both parts of a fragment in the payload, from  *)
(* its cursor.                                                             *)
LEMMA PayloadReads ==
  ASSUME NEW X \in Seq(Int), NEW o \in Seq(Int), NEW n \in Seq(Int), NEW more \in Seq(Int),
         NEW payload, PayloadAt(payload, X, o, n, more)
  PROVE  Reads(payload, X, o, n, more)
<1>1. PICK A : A = Aligned(o)
  OBVIOUS
<1>2. Pads(o, A)
  BY <1>1, AlignedPads, Zenon
<1>3. A \in Seq(Int) /\ Len(A) = align4(Len(o)) /\ align4(Len(o)) \in Nat
  BY <1>2, Zenon DEF Pads
<1>4. PICK pad \in Seq(Int) : A = o \o pad
  BY <1>2, Zenon DEF Pads
<1>5. PICK rest \in Seq(Int) : rest = n \o more
  <2>. n \o more \in Seq(Int)
    OBVIOUS
  <2>. QED OBVIOUS
<1>6. payload = X \o A \o rest
  BY <1>1, <1>5, Zenon DEF PayloadAt
<1>7. payload = X \o o \o (pad \o rest)
  <2>1. Associative(X, o, pad)
    BY Associate
  <2>2. PICK Z \in Seq(Int) : Z = X \o o
    <3>. X \o o \in Seq(Int)
      OBVIOUS
    <3>. QED OBVIOUS
  <2>3. Associative(Z, pad, rest)
    BY Associate
  <2>. QED BY <1>4, <1>6, <2>1, <2>2, <2>3, Zenon DEF Associative
<1>8. Slice(payload, Len(X), Len(X) + Len(o)) = o
  <2>1. PICK t \in Seq(Int) : t = pad \o rest
    <3>. pad \o rest \in Seq(Int)
      OBVIOUS
    <3>. QED OBVIOUS
  <2>2. SlicesTo(X \o o \o t, X, o, t)
    BY SliceOfParts
  <2>. QED BY <1>7, <2>1, <2>2, Zenon DEF SlicesTo
<1>9. PICK Y \in Seq(Int) : Y = X \o A
  <2>. X \o A \in Seq(Int)
    BY <1>3
  <2>. QED OBVIOUS
<1>10. Len(Y) = Len(X) + align4(Len(o))
  <2>1. \A u, v \in Seq(Int) : Len(u \o v) = Len(u) + Len(v)
    OBVIOUS
  <2>2. Len(X \o A) = Len(X) + Len(A)
    BY <1>3, <2>1
  <2>. QED BY <1>3, <1>9, <2>2, Zenon
<1>11. payload = Y \o n \o more
  <2>1. Associative(Y, n, more)
    BY Associate
  <2>. QED BY <1>5, <1>6, <1>9, <2>1, Zenon DEF Associative
<1>12. SlicesTo(Y \o n \o more, Y, n, more)
  BY SliceOfParts
<1>13. Joins(Int, Y \o n \o more, Y, n, more)
  BY ThreeParts
<1>14. Slice(payload, Len(Y), Len(Y) + Len(n)) = n
  BY <1>11, <1>12, Zenon DEF SlicesTo
<1>15. Len(payload) = Len(Y) + Len(n) + Len(more)
  BY <1>11, <1>13, Zenon DEF Joins
<1>16. PICK ly \in Nat, ln \in Nat, lm \in Nat : ly = Len(Y) /\ ln = Len(n) /\ lm = Len(more)
  OBVIOUS
<1>17. ly + ln <= ly + ln + lm /\ ly + ln + lm \in Nat
  OBVIOUS
<1>18. Len(Y) \in Nat /\ Len(Y) + Len(n) <= Len(payload) /\ Len(payload) \in Nat
  BY <1>15, <1>16, <1>17, Zenon
<1>. QED BY <1>8, <1>10, <1>14, <1>15, <1>18, Zenon DEF Reads

(* What a fragment is applied to.                                          *)
Ready(m, s, i, X, o, P, Q) ==
  /\ s.cursor = Len(X) /\ m.oldLens[i] = Len(o)
  /\ s.out = P \o o \o Q /\ m.oldStarts[i] + s.shift = Len(P)

LastApplied(m, s, i, P, n, Q) == ApplyFragment(m, s, i).out = P \o n \o Q

(* The last fragment takes the rest of the payload.                        *)
LEMMA LastFragment ==
  ASSUME NEW m, NEW s, NEW X \in Seq(Int), NEW o \in Seq(Int), NEW n \in Seq(Int),
         NEW P \in Seq(Int), NEW Q \in Seq(Int), NEW i, i = Len(m.oldStarts),
         PayloadAt(m.payload, X, o, n, <<>>), Ready(m, s, i, X, o, P, Q)
  PROVE  LastApplied(m, s, i, P, n, Q)
<1>1. PICK payload : payload = m.payload
  OBVIOUS
<1>0. PICK none \in Seq(Int) : none = <<>>
  <2>. <<>> \in Seq(Int)
    OBVIOUS
  <2>. QED OBVIOUS
<1>2. Reads(payload, X, o, n, none)
  <2>. PayloadAt(payload, X, o, n, none)
    BY <1>0, <1>1
  <2>. QED BY PayloadReads
<1>3. PICK start \in Nat : start = Len(X) + align4(Len(o))
  BY <1>2 DEF Reads
<1>4. PICK len \in Nat : len = Len(n)
  OBVIOUS
<1>5. /\ Slice(payload, Len(X), Len(X) + Len(o)) = o
      /\ Slice(payload, start, start + len) = n
      /\ Len(payload) = start + len
  <2>0. Len(none) = 0
    BY <1>0
  <2>1. Len(payload) = start + len + 0
    BY <1>2, <1>3, <1>4, <2>0, Zenon DEF Reads
  <2>2. start + len + 0 = start + len
    OBVIOUS
  <2>. QED BY <1>2, <1>3, <1>4, <2>1, <2>2, Zenon DEF Reads
<1>6. OldFrag(m, s, i) = o /\ NewStart(m, s, i) = start
  BY <1>1, <1>3, <1>5, Zenon DEF OldFrag, NewStart, Ready
<1>7. ~(start > Len(payload)) /\ Len(payload) - start = len /\ ~(len < 0) /\ ~(start + len > Len(payload))
  BY <1>5
<1>8. ApplyFragment(m, s, i).out = ApplyModifyRowFragment(s.out, o, n, Len(P))
  <2>1. ~Truncated(m, s, i)
    BY <1>1, <1>6, <1>7, Zenon DEF Truncated
  <2>2. ~(i < Len(m.oldStarts))
    <3>. i \in Nat => ~(i < Len(m.oldStarts))
      OBVIOUS
    <3>. QED OBVIOUS
  <2>. QED BY <1>1, <1>5, <1>6, <1>7, <2>1, <2>2 DEF ApplyFragment, Ready
<1>9. Applies(P, Q, o, n)
  BY ApplyBetween
<1>. QED BY <1>8, <1>9, Zenon DEF Applies, Ready, LastApplied

MidApplied(m, s, i, X, o, n, P, Q) ==
  ApplyFragment(m, s, i) =
    [out |-> P \o n \o Q, cursor |-> Len(X) + align4(Len(o)) + align4(Len(n)),
     shift |-> s.shift + Len(n) - Len(o)]

(* A fragment that is not the last one takes NewLen bytes, and the cursor  *)
(* goes to the next.                                                       *)
LEMMA NotTheLastFragment ==
  ASSUME NEW m, NEW s, NEW X \in Seq(Int), NEW o \in Seq(Int), NEW n \in Seq(Int),
         NEW rest \in Seq(Int), NEW P \in Seq(Int), NEW Q \in Seq(Int), NEW i,
         i < Len(m.oldStarts), NewLen(m, i) = Len(n),
         m.payload = X \o Aligned(o) \o (Aligned(n) \o rest), Ready(m, s, i, X, o, P, Q)
  PROVE  MidApplied(m, s, i, X, o, n, P, Q)
<1>1. PICK payload : payload = m.payload
  OBVIOUS
<1>2. Pads(n, Aligned(n))
  BY AlignedPads
<1>3. PICK pad \in Seq(Int) : Aligned(n) = n \o pad
  BY <1>2, Zenon DEF Pads
<1>4. Len(n \o pad) = align4(Len(n)) /\ align4(Len(n)) \in Nat
  BY <1>2, <1>3, Zenon DEF Pads
<1>5. PICK more \in Seq(Int) : more = pad \o rest
  <2>. pad \o rest \in Seq(Int)
    OBVIOUS
  <2>. QED OBVIOUS
<1>6. Reads(payload, X, o, n, more)
  <2>1. Associative(n, pad, rest)
    BY Associate
  <2>2. PayloadAt(payload, X, o, n, more)
    BY <1>1, <1>3, <1>5, <2>1, Zenon DEF Associative, PayloadAt
  <2>. QED BY <2>2, PayloadReads
<1>7. PICK start \in Nat : start = Len(X) + align4(Len(o))
  BY <1>6 DEF Reads
<1>8. PICK len \in Nat, lp \in Nat, lr \in Nat : len = Len(n) /\ lp = Len(pad) /\ lr = Len(rest)
  OBVIOUS
<1>9. align4(len) = len + lp
  <2>1. Len(n \o pad) = Len(n) + Len(pad)
    OBVIOUS
  <2>. QED BY <1>4, <1>8, <2>1, Zenon
<1>10. Len(payload) = start + len + (lp + lr)
  <2>1. Len(pad \o rest) = Len(pad) + Len(rest)
    OBVIOUS
  <2>. QED BY <1>5, <1>6, <1>7, <1>8, <2>1, Zenon DEF Reads
<1>11. OldFrag(m, s, i) = o /\ NewStart(m, s, i) = start /\ NewLen(m, i) = len
       /\ Slice(payload, start, start + len) = n
  BY <1>1, <1>6, <1>7, <1>8, Zenon DEF OldFrag, NewStart, Ready, Reads
<1>12. ~(start > Len(payload)) /\ ~(len < 0) /\ ~(start + len > Len(payload))
       /\ start + align4(len) <= Len(payload) /\ start + align4(len) \in Nat /\ Len(payload) \in Nat
  BY <1>9, <1>10
<1>13. Min({start + align4(len), Len(payload)}) = start + align4(len)
  <2>1. PICK x \in Nat, y \in Nat : x = start + align4(len) /\ y = Len(payload)
    BY <1>12
  <2>2. x <= y
    BY <1>12, <2>1
  <2>3. Min({x, y}) = x
    <3>1. x \in {x, y} /\ \A z \in {x, y} : x <= z
      BY <2>2
    <3>2. \A w \in {x, y} : (\A z \in {x, y} : w <= z) => w = x
      BY <2>2
    <3>. QED BY <3>1, <3>2 DEF Min
  <2>. QED BY <2>1, <2>3, Zenon
<1>14. ApplyModifyRowFragment(s.out, o, n, Len(P)) = P \o n \o Q
  <2>1. Applies(P, Q, o, n)
    BY ApplyBetween
  <2>. QED BY <2>1, Zenon DEF Applies, Ready
<1>15. ApplyFragment(m, s, i) =
         [out |-> ApplyModifyRowFragment(s.out, o, n, Len(P)), cursor |-> start + align4(len),
          shift |-> s.shift + len - Len(o)]
  <2>1. ~Truncated(m, s, i)
    BY <1>1, <1>11, <1>12, Zenon DEF Truncated
  <2>2. m.oldStarts[i] + s.shift = Len(P) /\ m.oldLens[i] = Len(o)
    BY Zenon DEF Ready
  <2>. QED BY <1>1, <1>11, <1>12, <1>13, <2>1, <2>2, Zenon DEF ApplyFragment
<1>. QED BY <1>7, <1>8, <1>14, <1>15, Zenon DEF MidApplied

-----------------------------------------------------------------------------
(* LOP_MODIFY_COLUMNS, with one fragment or two.                           *)

(* Flattened, one sequence is itself.                                      *)
Flat1(s) == FlattenSeq(<<s>>) = s
(* The concatenation of one sequence.                                      *)
LEMMA FlattenOne ==
  ASSUME NEW s \in Seq(Int)
  PROVE  Flat1(s)
<1>1. PICK ss : ss = <<s>>
  OBVIOUS
<1>2. ss \in Seq(Seq(Int)) /\ Len(ss) = 1 /\ ss[1] = s
  BY <1>1
<1>3. /\ FlattenSeq(SubSeq(ss, 1, 0)) = <<>>
      /\ \A k \in 1..Len(ss) : FlattenSeq(SubSeq(ss, 1, k)) = FlattenSeq(SubSeq(ss, 1, k - 1)) \o ss[k]
      /\ FlattenSeq(SubSeq(ss, 1, Len(ss))) = FlattenSeq(ss)
  BY <1>2, FlattenSeqSteps
<1>4. 1 \in 1..Len(ss) /\ 1 - 1 = 0
  BY <1>2
<1>5. FlattenSeq(ss) = <<>> \o s
  BY <1>2, <1>3, <1>4
<1>6. <<>> \o s = s
  OBVIOUS
<1>. QED BY <1>1, <1>5, <1>6, Zenon DEF Flat1

(* Two are joined.                                                         *)
Flat2(s, t) == FlattenSeq(<<s, t>>) = s \o t
(* The concatenation of two sequences.                                     *)
LEMMA FlattenTwo ==
  ASSUME NEW s \in Seq(Int), NEW t \in Seq(Int)
  PROVE  Flat2(s, t)
<1>1. PICK ss : ss = <<s, t>>
  OBVIOUS
<1>2. ss \in Seq(Seq(Int)) /\ Len(ss) = 2 /\ ss[1] = s /\ ss[2] = t
  BY <1>1
<1>3. /\ FlattenSeq(SubSeq(ss, 1, 0)) = <<>>
      /\ \A k \in 1..Len(ss) : FlattenSeq(SubSeq(ss, 1, k)) = FlattenSeq(SubSeq(ss, 1, k - 1)) \o ss[k]
      /\ FlattenSeq(SubSeq(ss, 1, Len(ss))) = FlattenSeq(ss)
  BY <1>2, FlattenSeqSteps
<1>4. 1 \in 1..Len(ss) /\ 1 - 1 = 0 /\ 2 \in 1..Len(ss) /\ 2 - 1 = 1
  BY <1>2
<1>5. FlattenSeq(SubSeq(ss, 1, 1)) = <<>> \o s
  BY <1>2, <1>3, <1>4
<1>6. <<>> \o s = s
  OBVIOUS
<1>7. FlattenSeq(ss) = s \o t
  BY <1>2, <1>3, <1>4, <1>5, <1>6
<1>. QED BY <1>1, <1>7, Zenon DEF Flat2

(* What a record of one fragment, or of two, has.                          *)
OneRecord(m, f, trailing) ==
  /\ Len(m.oldStarts) = 1 /\ m.oldStarts[1] = f.oldStart /\ m.oldLens[1] = Len(f.old)
  /\ m.payload = FlattenSeq(<<Aligned(f.old) \o f.new>>) \o trailing

(* The log record of one fragment, field by field.                         *)
LEMMA RecordOfOne ==
  ASSUME NEW f, NEW trailing
  PROVE  OneRecord(ColumnsRecord(<<f>>, trailing), f, trailing)
<1>1. PICK frags : frags = <<f>>
  OBVIOUS
<1>2. DOMAIN frags = {1} /\ Len(frags) = 1 /\ frags[1] = f /\ ~(1 < 1)
  BY <1>1
<1>3. [i \in {1} |-> Aligned(frags[i].old)
         \o IF i < Len(frags) THEN Aligned(frags[i].new) ELSE frags[i].new] = <<Aligned(f.old) \o f.new>>
  <2>1. PICK x : x = Aligned(f.old) \o f.new
    OBVIOUS
  <2>2. [i \in {1} |-> Aligned(frags[i].old)
           \o IF i < Len(frags) THEN Aligned(frags[i].new) ELSE frags[i].new] = [i \in {1} |-> x]
    BY <1>2, <2>1, Zenon
  <2>3. [i \in {1} |-> x] = <<x>>
    OBVIOUS
  <2>. QED BY <2>1, <2>2, <2>3, Zenon
<1>4. [i \in {1} |-> frags[i].oldStart] = <<f.oldStart>> /\ [i \in {1} |-> Len(frags[i].old)] = <<Len(f.old)>>
  BY <1>2
<1>5. PICK m : m = ColumnsRecord(frags, trailing)
  OBVIOUS
<1>6. /\ m.oldStarts = <<f.oldStart>> /\ m.oldLens = <<Len(f.old)>>
      /\ m.payload = FlattenSeq(<<Aligned(f.old) \o f.new>>) \o trailing
  BY <1>2, <1>3, <1>4, <1>5, Zenon DEF ColumnsRecord
<1>7. Len(m.oldStarts) = 1 /\ m.oldStarts[1] = f.oldStart /\ m.oldLens[1] = Len(f.old)
  BY <1>6
<1>. QED BY <1>1, <1>5, <1>6, <1>7, Zenon DEF OneRecord

TwoRecord(m, f, g, trailing) ==
  /\ Len(m.oldStarts) = 2 /\ m.oldStarts[1] = f.oldStart /\ m.oldLens[1] = Len(f.old)
  /\ m.oldStarts[2] = g.oldStart /\ m.oldLens[2] = Len(g.old)
  /\ m.newStarts[1] = f.newStart /\ m.newStarts[2] = g.newStart
  /\ m.payload = FlattenSeq(<<Aligned(f.old) \o Aligned(f.new), Aligned(g.old) \o g.new>>) \o trailing

(* The log record of two fragments, field by field.                        *)
LEMMA RecordOfTwo ==
  ASSUME NEW f, NEW g, NEW trailing
  PROVE  TwoRecord(ColumnsRecord(<<f, g>>, trailing), f, g, trailing)
<1>1. PICK frags : frags = <<f, g>>
  OBVIOUS
<1>2. DOMAIN frags = {1, 2} /\ Len(frags) = 2 /\ frags[1] = f /\ frags[2] = g /\ 1 < 2 /\ ~(2 < 2)
  BY <1>1
<1>. DEFINE F(i) == Aligned(frags[i].old)
                    \o IF i < Len(frags) THEN Aligned(frags[i].new) ELSE frags[i].new
<1>3. [i \in {1, 2} |-> F(i)] = <<Aligned(f.old) \o Aligned(f.new), Aligned(g.old) \o g.new>>
  <2>1. F(1) = Aligned(f.old) \o Aligned(f.new) /\ F(2) = Aligned(g.old) \o g.new
    BY <1>2, Zenon
  <2>. HIDE DEF F
  <2>2. PICK w : w = [i \in {1, 2} |-> F(i)]
    OBVIOUS
  <2>3. w = <<F(1), F(2)>>
    BY <2>2
  <2>. QED BY <2>1, <2>2, <2>3, Zenon
<1>4. /\ [i \in {1, 2} |-> frags[i].oldStart] = <<f.oldStart, g.oldStart>>
      /\ [i \in {1, 2} |-> frags[i].newStart] = <<f.newStart, g.newStart>>
      /\ [i \in {1, 2} |-> Len(frags[i].old)] = <<Len(f.old), Len(g.old)>>
  BY <1>2
<1>5. PICK m : m = ColumnsRecord(frags, trailing)
  OBVIOUS
<1>6. /\ m.oldStarts = <<f.oldStart, g.oldStart>> /\ m.newStarts = <<f.newStart, g.newStart>>
      /\ m.oldLens = <<Len(f.old), Len(g.old)>>
      /\ m.payload = FlattenSeq(<<Aligned(f.old) \o Aligned(f.new), Aligned(g.old) \o g.new>>) \o trailing
  BY <1>2, <1>3, <1>4, <1>5, Zenon DEF ColumnsRecord
<1>7. /\ Len(m.oldStarts) = 2 /\ m.oldStarts[1] = f.oldStart /\ m.oldLens[1] = Len(f.old)
      /\ m.oldStarts[2] = g.oldStart /\ m.oldLens[2] = Len(g.old)
      /\ m.newStarts[1] = f.newStart /\ m.newStarts[2] = g.newStart
  BY <1>6
<1>. QED BY <1>1, <1>5, <1>6, <1>7, Zenon DEF TwoRecord

(* A record of one fragment puts it, and what follows it in the record, in *)
(* the place of what it replaces.                                          *)
OneApplies(P, Q, o, n, trailing, f) ==
  ApplyModifyColumns(P \o o \o Q, ColumnsRecord(<<f>>, trailing)) = P \o (n \o trailing) \o Q

(* ApplyModifyColumns, for a record of one fragment.                       *)
LEMMA OneFragment ==
  ASSUME NEW P \in Seq(Int), NEW Q \in Seq(Int), NEW o \in Seq(Int), NEW n \in Seq(Int),
         NEW trailing \in Seq(Int), NEW f, f.old = o, f.new = n, f.oldStart = Len(P),
         P \o o \o Q # <<>>
  PROVE  OneApplies(P, Q, o, n, trailing, f)
<1>1. PICK m : m = ColumnsRecord(<<f>>, trailing)
  OBVIOUS
<1>2. PICK A \in Seq(Int) : A = Aligned(o)
  <2>1. Pads(o, Aligned(o))
    BY AlignedPads
  <2>. QED BY <2>1, Zenon DEF Pads
<1>3. /\ Len(m.oldStarts) = 1 /\ m.oldStarts[1] = f.oldStart /\ m.oldLens[1] = Len(f.old)
      /\ m.payload = FlattenSeq(<<Aligned(f.old) \o f.new>>) \o trailing
  <2>1. OneRecord(m, f, trailing)
    BY <1>1, RecordOfOne, Zenon
  <2>. QED BY <2>1, Zenon DEF OneRecord
<1>4. m.payload = (A \o n) \o trailing
  <2>1. PICK t \in Seq(Int) : t = A \o n
    <3>. A \o n \in Seq(Int)
      OBVIOUS
    <3>. QED OBVIOUS
  <2>2. Flat1(t)
    BY FlattenOne
  <2>. QED BY <1>2, <1>3, <2>1, <2>2, Zenon DEF Flat1
<1>5. PICK n2 \in Seq(Int) : n2 = n \o trailing
  <2>. n \o trailing \in Seq(Int)
    OBVIOUS
  <2>. QED OBVIOUS
<1>6. PICK X \in Seq(Int) : X = <<>>
  <2>. <<>> \in Seq(Int)
    OBVIOUS
  <2>. QED OBVIOUS
<1>7. PayloadAt(m.payload, X, o, n2, <<>>)
  <2>1. Associative(A, n, trailing)
    BY Associate
  <2>2. X \o A = A /\ n2 \o <<>> = n2
    BY <1>6
  <2>. QED BY <1>2, <1>4, <1>5, <2>1, <2>2, Zenon DEF Associative, PayloadAt
<1>8. PICK s : s = Begin(P \o o \o Q)
  OBVIOUS
<1>9. s.out = P \o o \o Q /\ s.cursor = 0 /\ s.shift = 0
  BY <1>8 DEF Begin
<1>10. Ready(m, s, 1, X, o, P, Q)
  <2>1. Len(X) = 0
    BY <1>6
  <2>2. m.oldStarts[1] + s.shift = Len(P)
    BY <1>3, <1>9
  <2>. QED BY <1>3, <1>9, <2>1, <2>2, Zenon DEF Ready
<1>11. LastApplied(m, s, 1, P, n2, Q)
  <2>. 1 = Len(m.oldStarts)
    BY <1>3
  <2>. PayloadAt(m.payload, X, o, n2, <<>>) /\ Ready(m, s, 1, X, o, P, Q)
    BY <1>7, <1>10
  <2>. QED BY LastFragment
<1>12. ApplyModifyColumns(P \o o \o Q, m) = OneMore(m, s, 1).out
  <2>1. Len(m.oldStarts) \in 0..2 /\ Len(m.oldStarts) # 0
    BY <1>3
  <2>. QED BY <1>3, <1>8, <2>1, UpToTwoFragments
<1>13. OneMore(m, s, 1) = ApplyFragment(m, s, 1)
  BY <1>9, Zenon DEF OneMore, NoImage
<1>. QED BY <1>1, <1>5, <1>11, <1>12, <1>13, Zenon DEF OneApplies, LastApplied

(* With two, the second is where the first has moved it to.                *)
TwoApply(a, f, g, trailing, P, n, Q) ==
  ApplyModifyColumns(a, ColumnsRecord(<<f, g>>, trailing)) = P \o (n \o trailing) \o Q

(* ApplyModifyColumns, for a record of two fragments, of which the second  *)
(* one is found at the shift of the first one.                             *)
LEMMA TwoFragmentsApply ==
  ASSUME NEW P1 \in Seq(Int), NEW Q1 \in Seq(Int), NEW o1 \in Seq(Int), NEW n1 \in Seq(Int),
         NEW P2 \in Seq(Int), NEW Q2 \in Seq(Int), NEW o2 \in Seq(Int), NEW n2 \in Seq(Int),
         NEW trailing \in Seq(Int), NEW f, NEW g,
         f.old = o1, f.new = n1, f.oldStart = Len(P1), g.old = o2, g.new = n2,
         Len(o1) + (g.newStart - g.oldStart) - (f.newStart - f.oldStart) = Len(n1),
         g.oldStart + (Len(n1) - Len(o1)) = Len(P2),
         P1 \o o1 \o Q1 # <<>>, P1 \o n1 \o Q1 # <<>>,
         P1 \o n1 \o Q1 = P2 \o o2 \o Q2
  PROVE  TwoApply(P1 \o o1 \o Q1, f, g, trailing, P2, n2, Q2)
<1>1. PICK m : m = ColumnsRecord(<<f, g>>, trailing)
  OBVIOUS
<1>2. PICK A1 \in Seq(Int), B1 \in Seq(Int), A2 \in Seq(Int) :
        A1 = Aligned(o1) /\ B1 = Aligned(n1) /\ A2 = Aligned(o2)
  <2>1. Pads(o1, Aligned(o1)) /\ Pads(n1, Aligned(n1)) /\ Pads(o2, Aligned(o2))
    BY AlignedPads
  <2>. QED BY <2>1, Zenon DEF Pads
<1>3. /\ Len(m.oldStarts) = 2 /\ m.oldStarts[1] = f.oldStart /\ m.oldLens[1] = Len(f.old)
      /\ m.oldStarts[2] = g.oldStart /\ m.oldLens[2] = Len(g.old)
      /\ m.newStarts[1] = f.newStart /\ m.newStarts[2] = g.newStart
      /\ m.payload = FlattenSeq(<<Aligned(f.old) \o Aligned(f.new), Aligned(g.old) \o g.new>>) \o trailing
  <2>1. TwoRecord(m, f, g, trailing)
    BY <1>1, RecordOfTwo, Zenon
  <2>. QED BY <2>1, Zenon DEF TwoRecord
<1>4. PICK t1 \in Seq(Int), t2 \in Seq(Int) : t1 = A1 \o B1 /\ t2 = A2 \o n2
  <2>. A1 \o B1 \in Seq(Int) /\ A2 \o n2 \in Seq(Int)
    OBVIOUS
  <2>. QED OBVIOUS
<1>5. m.payload = (t1 \o t2) \o trailing
  <2>1. Flat2(t1, t2)
    BY FlattenTwo
  <2>. QED BY <1>2, <1>3, <1>4, <2>1, Zenon DEF Flat2
<1>6. PICK new \in Seq(Int) : new = n2 \o trailing
  <2>. n2 \o trailing \in Seq(Int)
    OBVIOUS
  <2>. QED OBVIOUS
<1>7. PICK none \in Seq(Int) : none = <<>>
  <2>. <<>> \in Seq(Int)
    OBVIOUS
  <2>. QED OBVIOUS
<1>8. PICK rest \in Seq(Int) : rest = A2 \o new
  <2>. A2 \o new \in Seq(Int)
    OBVIOUS
  <2>. QED OBVIOUS
<1>9. m.payload = t1 \o rest
  <2>1. Associative(t1, t2, trailing) /\ Associative(A2, n2, trailing)
    BY Associate
  <2>. QED BY <1>4, <1>5, <1>6, <1>8, <2>1, Zenon DEF Associative
<1>10. m.payload = none \o Aligned(o1) \o (Aligned(n1) \o rest)
  <2>1. Associative(A1, B1, rest)
    BY Associate
  <2>2. none \o A1 = A1
    BY <1>7
  <2>. QED BY <1>2, <1>4, <1>9, <2>1, <2>2, Zenon DEF Associative
<1>11. PayloadAt(m.payload, t1, o2, new, <<>>)
  <2>1. Associative(t1, A2, new)
    BY Associate
  <2>2. new \o <<>> = new
    OBVIOUS
  <2>. QED BY <1>2, <1>8, <1>9, <2>1, <2>2, Zenon DEF Associative, PayloadAt
<1>12. PICK s : s = Begin(P1 \o o1 \o Q1)
  OBVIOUS
<1>13. s.out = P1 \o o1 \o Q1 /\ s.cursor = 0 /\ s.shift = 0
  BY <1>12 DEF Begin
<1>14. Ready(m, s, 1, none, o1, P1, Q1)
  <2>1. Len(none) = 0
    BY <1>7
  <2>2. m.oldStarts[1] + s.shift = Len(P1)
    BY <1>3, <1>13
  <2>. QED BY <1>3, <1>13, <2>1, <2>2, Zenon DEF Ready
<1>15. PICK u : u = ApplyFragment(m, s, 1)
  OBVIOUS
<1>16. MidApplied(m, s, 1, none, o1, n1, P1, Q1)
  <2>. 1 < Len(m.oldStarts)
    BY <1>3
  <2>. NewLen(m, 1) = Len(n1)
    <3>1. 1 + 1 = 2
      OBVIOUS
    <3>. QED BY <1>3, <3>1, Zenon DEF NewLen
  <2>. m.payload = none \o Aligned(o1) \o (Aligned(n1) \o rest) /\ Ready(m, s, 1, none, o1, P1, Q1)
    BY <1>10, <1>14
  <2>. QED BY NotTheLastFragment
<1>17. u.out = P1 \o n1 \o Q1 /\ u.cursor = Len(t1) /\ u.shift = Len(n1) - Len(o1)
  <2>1. Pads(o1, A1) /\ Pads(n1, B1)
    BY <1>2, AlignedPads, Zenon
  <2>2. Len(A1) = align4(Len(o1)) /\ Len(B1) = align4(Len(n1))
    BY <2>1, Zenon DEF Pads
  <2>3. Len(t1) = Len(A1) + Len(B1)
    BY <1>4
  <2>4. Len(none) = 0
    BY <1>7
  <2>5. 0 + Len(A1) + Len(B1) = Len(A1) + Len(B1) /\ 0 + Len(n1) - Len(o1) = Len(n1) - Len(o1)
    OBVIOUS
  <2>6. u.out = P1 \o n1 \o Q1 /\ u.cursor = Len(none) + align4(Len(o1)) + align4(Len(n1))
        /\ u.shift = s.shift + Len(n1) - Len(o1)
    <3>1. u = [out |-> P1 \o n1 \o Q1, cursor |-> Len(none) + align4(Len(o1)) + align4(Len(n1)),
               shift |-> s.shift + Len(n1) - Len(o1)]
      BY <1>15, <1>16, Zenon DEF MidApplied
    <3>. QED BY <3>1, Zenon
  <2>. QED BY <1>13, <2>2, <2>3, <2>4, <2>5, <2>6, Zenon
<1>18. Ready(m, u, 2, t1, o2, P2, Q2)
  <2>1. m.oldStarts[2] + u.shift = Len(P2)
    BY <1>3, <1>17, Zenon
  <2>. QED BY <1>3, <1>17, <2>1, Zenon DEF Ready
<1>19. LastApplied(m, u, 2, P2, new, Q2)
  <2>. 2 = Len(m.oldStarts)
    BY <1>3
  <2>. PayloadAt(m.payload, t1, o2, new, <<>>) /\ Ready(m, u, 2, t1, o2, P2, Q2)
    BY <1>11, <1>18
  <2>. QED BY LastFragment
<1>20. ApplyModifyColumns(P1 \o o1 \o Q1, m) = OneMore(m, OneMore(m, s, 1), 2).out
  <2>1. Len(m.oldStarts) \in 0..2 /\ Len(m.oldStarts) # 0 /\ Len(m.oldStarts) # 1
    BY <1>3
  <2>. QED BY <1>12, <2>1, UpToTwoFragments
<1>21. OneMore(m, s, 1) = u
  BY <1>13, <1>15, Zenon DEF OneMore, NoImage
<1>22. OneMore(m, u, 2) = ApplyFragment(m, u, 2)
  BY <1>17, Zenon DEF OneMore, NoImage
<1>. QED BY <1>1, <1>6, <1>19, <1>20, <1>21, <1>22, Zenon DEF TwoApply, LastApplied

(* A new row with something put into it: it is not empty, and it is the    *)
(* new row if that is nothing.                                             *)
GivesRow(image, b, trailing) == image # NoImage /\ (trailing = <<>> => image = b)

(* Bytes that follow the last fragment end up in the row, behind what they *)
(* were taken for a part of.                                               *)
LEMMA PutBetween ==
  ASSUME NEW P \in Seq(Int), NEW n \in Seq(Int), NEW Q \in Seq(Int), NEW trailing \in Seq(Int),
         P \o n \o Q # <<>>
  PROVE  GivesRow(P \o (n \o trailing) \o Q, P \o n \o Q, trailing)
<1>1. PICK t \in Seq(Int) : t = n \o trailing
  <2>. n \o trailing \in Seq(Int)
    OBVIOUS
  <2>. QED OBVIOUS
<1>2. P \o t \o Q # <<>>
  <2>1. Joins(Int, P \o n \o Q, P, n, Q) /\ Joins(Int, P \o t \o Q, P, t, Q)
    BY ThreeParts
  <2>2. Len(P \o n \o Q) = Len(P) + Len(n) + Len(Q) /\ P \o n \o Q \in Seq(Int)
    BY <2>1, Zenon DEF Joins
  <2>3. Len(P \o t \o Q) = Len(P) + Len(t) + Len(Q) /\ P \o t \o Q \in Seq(Int)
    BY <2>1, Zenon DEF Joins
  <2>4. Len(t) = Len(n) + Len(trailing)
    BY <1>1
  <2>5. PICK x \in Seq(Int), y \in Seq(Int) : x = P \o n \o Q /\ y = P \o t \o Q
    BY <2>2, <2>3
  <2>6. PICK lp \in Nat, ln \in Nat, lq \in Nat, lt \in Nat :
          lp = Len(P) /\ ln = Len(n) /\ lq = Len(Q) /\ lt = Len(trailing)
    OBVIOUS
  <2>7. Len(x) = lp + ln + lq /\ Len(y) = lp + (ln + lt) + lq
    BY <2>2, <2>3, <2>4, <2>5, <2>6, Zenon
  <2>8. x # <<>>
    BY <2>5
  <2>9. Len(x) # 0
    BY <2>8
  <2>10. Len(y) # 0
    BY <2>7, <2>9
  <2>11. y # <<>>
    BY <2>10
  <2>. QED BY <2>5, <2>11, Zenon
<1>3. ASSUME trailing = <<>> PROVE t = n
  BY <1>1, <1>3
<1>. QED BY <1>1, <1>2, <1>3, Zenon DEF GivesRow, NoImage

(* An image to which nothing is done.                                      *)
LEMMA NoFragment ==
  ASSUME NEW a, NEW trailing
  PROVE  ApplyModifyColumns(a, ColumnsRecord(<<>>, trailing)) = a
<1>1. PICK m : m = ColumnsRecord(<<>>, trailing)
  OBVIOUS
<1>2. Len(m.oldStarts) = 0
  <2>1. m.oldStarts = [i \in DOMAIN <<>> |-> <<>>[i].oldStart]
    BY <1>1 DEF ColumnsRecord
  <2>2. DOMAIN <<>> = {}
    OBVIOUS
  <2>3. m.oldStarts = <<>>
    BY <2>1, <2>2
  <2>. QED BY <2>3
<1>3. Len(m.oldStarts) \in 0..2
  BY <1>2
<1>4. ApplyModifyColumns(a, m) = Begin(a).out
  BY <1>2, <1>3, UpToTwoFragments
<1>. QED BY <1>1, <1>4 DEF Begin

(* The parts of a row before its data and its data.                        *)
InHalves(s, n, u, v) ==
  /\ u \in Seq(Int) /\ v \in Seq(Int) /\ s = u \o v /\ Len(u) = n
  /\ u = SubSeq(s, 1, n) /\ v = SubSeq(s, n + 1, Len(s))

(* A sequence is its first n elements and the rest.                        *)
LEMMA HalvesOf ==
  ASSUME NEW s \in Seq(Int), NEW n \in Nat, n <= Len(s)
  PROVE  InHalves(s, n, SubSeq(s, 1, n), SubSeq(s, n + 1, Len(s)))
<1>1. Len(s) \in Nat
  OBVIOUS
<1>2. SubSeq(s, 1, n) \o SubSeq(s, n + 1, Len(s)) = SubSeq(s, 1, Len(s))
  <2>. 1 \in 1..(Len(s) + 1) /\ n \in (1 - 1)..Len(s) /\ Len(s) \in n..Len(s)
    BY <1>1
  <2>. QED BY ConcatAdjacentSubSeq
<1>3. SubSeq(s, 1, Len(s)) = s
  BY SubSeqFull
<1>4. SubSeq(s, 1, n) \in Seq(Int) /\ Len(SubSeq(s, 1, n)) = n
  BY <1>1
<1>5. SubSeq(s, n + 1, Len(s)) \in Seq(Int)
  BY <1>1
<1>. QED BY <1>2, <1>3, <1>4, <1>5, Zenon DEF InHalves

(* A fragment of one of the halves is one of the row.                      *)
InFront(v, P, x, Q) == (P \o x \o Q) \o v = P \o x \o (Q \o v)
InBack(u, P, x, Q) == u \o (P \o x \o Q) = (u \o P) \o x \o Q

(* What is between two parts of a half is so between two parts of the      *)
(* whole.                                                                  *)
LEMMA FragmentInHalf ==
  ASSUME NEW u \in Seq(Int), NEW P \in Seq(Int), NEW x \in Seq(Int), NEW Q \in Seq(Int)
  PROVE  InFront(u, P, x, Q) /\ InBack(u, P, x, Q)
<1>1. PICK px \in Seq(Int) : px = P \o x
  <2>. P \o x \in Seq(Int)
    OBVIOUS
  <2>. QED OBVIOUS
<1>2. Associative(px, Q, u) /\ Associative(u, px, Q) /\ Associative(u, P, x)
  BY Associate
<1>3. InFront(u, P, x, Q)
  BY <1>1, <1>2, Zenon DEF InFront, Associative
<1>4. InBack(u, P, x, Q)
  BY <1>1, <1>2, Zenon DEF InBack, Associative
<1>. QED BY <1>3, <1>4

(* The length of a sequence is a natural number.                           *)
LEMMA LengthOf == \A s \in Seq(Int) : Len(s) \in Nat
  OBVIOUS

(* Sequences of at most one element each, joined.                          *)
LEMMA PairOf ==
  ASSUME NEW f, NEW g
  PROVE  <<>> \o <<g>> = <<g>> /\ <<f>> \o <<>> = <<f>> /\ <<f>> \o <<g>> = <<f, g>>
<1>1. PICK F, G : F = <<f>> /\ G = <<g>>
  OBVIOUS
<1>2. F \in Seq({f, g}) /\ G \in Seq({f, g}) /\ Len(F) = 1 /\ Len(G) = 1 /\ F[1] = f /\ G[1] = g
  BY <1>1
<1>3. <<>> \o G = G /\ F \o <<>> = F
  BY <1>2, ConcatEmptySeq
<1>4. PICK J : J = F \o G
  OBVIOUS
<1>5. J \in Seq({f, g}) /\ Len(J) = 2 /\ J[1] = f /\ J[2] = g
  <2>1. /\ F \o G \in Seq({f, g}) /\ Len(F \o G) = Len(F) + Len(G)
        /\ \A i \in 1..(Len(F) + Len(G)) : (F \o G)[i] = IF i <= Len(F) THEN F[i] ELSE G[i - Len(F)]
    BY <1>2, ConcatProperties
  <2>2. /\ J \in Seq({f, g}) /\ Len(J) = 1 + 1
        /\ \A i \in 1..(1 + 1) : J[i] = IF i <= 1 THEN F[i] ELSE G[i - 1]
    BY <1>2, <1>4, <2>1, Zenon
  <2>. QED BY <1>2, <2>2
<1>6. PICK H : H = <<f, g>>
  OBVIOUS
<1>7. H \in Seq({f, g}) /\ Len(H) = 2 /\ H[1] = f /\ H[2] = g
  BY <1>6
<1>8. \A i \in 1..Len(J) : J[i] = H[i]
  BY <1>5, <1>7
<1>9. J = H
  BY <1>5, <1>7, <1>8, SeqEqual
<1>. QED BY <1>1, <1>3, <1>4, <1>6, <1>9, Zenon

(* The columns that a record of LOP_MODIFY_COLUMNS names, applied to the   *)
(* row before the update, give the row after it, if nothing follows the    *)
(* last fragment in the record: and in any case the row is not lost        *)
(* (ApplyModifyColumns never fails on the row that it is for).             *)
THEOREM ModifyColumnsApply ==
  ASSUME NEW format, NEW n, NEW a \in Seq(Int), NEW b \in Seq(Int), NEW trailing \in Seq(Int),
         a # <<>>, DataStart(format, a, n) \in 0..Len(a), DataStart(format, b, n) \in 1..Len(b)
  PROVE  GivesRow(ApplyModifyColumns(a, ColumnsRecord(Fragments(format, a, b, n), trailing)), b, trailing)
<1>1. PICK p \in Nat, q \in Nat : p = DataStart(format, a, n) /\ q = DataStart(format, b, n)
  <2>. DataStart(format, a, n) \in Nat /\ DataStart(format, b, n) \in Nat
    OBVIOUS
  <2>. QED OBVIOUS
<1>2. p <= Len(a) /\ q <= Len(b) /\ q >= 1
  BY <1>1
<1>3. PICK a1 \in Seq(Int), a2 \in Seq(Int) : InHalves(a, p, a1, a2)
  <2>. p <= Len(a)
    BY <1>2
  <2>1. InHalves(a, p, SubSeq(a, 1, p), SubSeq(a, p + 1, Len(a)))
    BY HalvesOf
  <2>. QED BY <2>1, Zenon DEF InHalves
<1>4. PICK b1 \in Seq(Int), b2 \in Seq(Int) : InHalves(b, q, b1, b2)
  <2>. q <= Len(b)
    BY <1>2
  <2>1. InHalves(b, q, SubSeq(b, 1, q), SubSeq(b, q + 1, Len(b)))
    BY HalvesOf
  <2>. QED BY <2>1, Zenon DEF InHalves
<1>5. PICK f, g : f = Fragment(a1, b1, 0, 0) /\ g = Fragment(a2, b2, p, q)
  OBVIOUS
<1>6. FragmentOf(a1, b1, 0, 0, f)
  BY <1>5, FragmentProperties
<1>7. FragmentOf(a2, b2, p, q, g)
  BY <1>5, FragmentProperties
<1>8. PICK o1 \in Seq(Int), n1 \in Seq(Int), o2 \in Seq(Int), n2 \in Seq(Int) :
        f.old = o1 /\ f.new = n1 /\ g.old = o2 /\ g.new = n2
  <2>. f.old \in Seq(Int) /\ f.new \in Seq(Int) /\ g.old \in Seq(Int) /\ g.new \in Seq(Int)
    BY <1>6, <1>7, Zenon DEF FragmentOf
  <2>. QED OBVIOUS
<1>9. PICK P1 \in Seq(Int), Q1 \in Seq(Int) :
        Between(a1, b1, f, P1, Q1) /\ f.oldStart = 0 + Len(P1) /\ f.newStart = 0 + Len(P1)
  BY <1>6, Zenon DEF FragmentOf
<1>10. PICK P2 \in Seq(Int), Q2 \in Seq(Int) :
         Between(a2, b2, g, P2, Q2) /\ g.oldStart = p + Len(P2) /\ g.newStart = q + Len(P2)
  BY <1>7, Zenon DEF FragmentOf
<1>11. a1 = P1 \o o1 \o Q1 /\ b1 = P1 \o n1 \o Q1 /\ a2 = P2 \o o2 \o Q2 /\ b2 = P2 \o n2 \o Q2
  BY <1>8, <1>9, <1>10, Zenon DEF Between
<1>12. PICK R1 \in Seq(Int), S1 \in Seq(Int) : R1 = Q1 \o a2 /\ S1 = Q1 \o b2
  <2>. Q1 \o a2 \in Seq(Int) /\ Q1 \o b2 \in Seq(Int)
    OBVIOUS
  <2>. QED OBVIOUS
<1>13. PICK T2 \in Seq(Int), U2 \in Seq(Int) : T2 = a1 \o P2 /\ U2 = b1 \o P2
  <2>. a1 \o P2 \in Seq(Int) /\ b1 \o P2 \in Seq(Int)
    OBVIOUS
  <2>. QED OBVIOUS
<1>14. /\ a = a1 \o a2 /\ b = b1 \o b2 /\ Len(a1) = p /\ Len(b1) = q
       /\ a1 = SubSeq(a, 1, p) /\ b1 = SubSeq(b, 1, q)
       /\ a2 = SubSeq(a, p + 1, Len(a)) /\ b2 = SubSeq(b, q + 1, Len(b))
  BY <1>3, <1>4, Zenon DEF InHalves
<1>15. a = P1 \o o1 \o R1 /\ b1 \o a2 = P1 \o n1 \o R1
  <2>1. InFront(a2, P1, o1, Q1) /\ InFront(a2, P1, n1, Q1)
    BY FragmentInHalf
  <2>. QED BY <1>11, <1>12, <1>14, <2>1, Zenon DEF InFront
<1>16. a = T2 \o o2 \o Q2 /\ b1 \o a2 = U2 \o o2 \o Q2 /\ b = U2 \o n2 \o Q2
  <2>1. InBack(a1, P2, o2, Q2) /\ InBack(b1, P2, o2, Q2) /\ InBack(b1, P2, n2, Q2)
    BY FragmentInHalf
  <2>. QED BY <1>11, <1>13, <1>14, <2>1, Zenon DEF InBack
<1>17. Len(T2) = p + Len(P2) /\ Len(U2) = q + Len(P2)
  <2>1. \A u, v \in Seq(Int) : Len(u \o v) = Len(u) + Len(v)
    OBVIOUS
  <2>2. Len(a1 \o P2) = Len(a1) + Len(P2) /\ Len(b1 \o P2) = Len(b1) + Len(P2)
    BY <2>1
  <2>. QED BY <1>13, <1>14, <2>2, Zenon
<1>18. PICK lp1 \in Nat, lo1 \in Nat, ln1 \in Nat, lq1 \in Nat, lp2 \in Nat :
         /\ lp1 = Len(P1) /\ lo1 = Len(o1) /\ ln1 = Len(n1) /\ lq1 = Len(Q1) /\ lp2 = Len(P2)
  <2>. Len(P1) \in Nat /\ Len(o1) \in Nat /\ Len(n1) \in Nat /\ Len(Q1) \in Nat /\ Len(P2) \in Nat
    BY LengthOf, Zenon
  <2>. QED BY Zenon
<1>19. p = lp1 + lo1 + lq1 /\ q = lp1 + ln1 + lq1
  <2>1. Joins(Int, P1 \o o1 \o Q1, P1, o1, Q1) /\ Joins(Int, P1 \o n1 \o Q1, P1, n1, Q1)
    BY ThreeParts
  <2>2. Len(P1 \o o1 \o Q1) = Len(P1) + Len(o1) + Len(Q1) /\ Len(P1 \o n1 \o Q1) = Len(P1) + Len(n1) + Len(Q1)
    BY <2>1, Zenon DEF Joins
  <2>. QED BY <1>11, <1>14, <1>18, <2>2, Zenon
<1>20. b1 # <<>>
  <2>1. Len(b1) = q /\ q # 0
    BY <1>2, <1>14
  <2>. QED BY <2>1
<1>21. b # <<>> /\ b1 \o a2 # <<>>
  <2>1. \A u, v \in Seq(Int) : u # <<>> => u \o v # <<>>
    OBVIOUS
  <2>. QED BY <1>14, <1>20, <2>1
<1>22. f.oldStart = lp1 /\ f.newStart = lp1 /\ g.oldStart = p + lp2 /\ g.newStart = q + lp2
  BY <1>9, <1>10, <1>18
<1>. DEFINE IfChanged(h) == IF h.old # h.new THEN <<h>> ELSE <<>>
<1>23. Fragments(format, a, b, n) = IfChanged(f) \o IfChanged(g)
  BY <1>1, <1>5, <1>14, Zenon DEF Fragments
<1>24. <<>> \o <<g>> = <<g>> /\ <<f>> \o <<>> = <<f>> /\ <<f>> \o <<g>> = <<f, g>>
  BY PairOf, Zenon
<1>25. CASE o1 = n1 /\ o2 = n2
  <2>1. Fragments(format, a, b, n) = <<>>
    <3>1. <<>> \o <<>> = <<>>
      OBVIOUS
    <3>. QED BY <1>8, <1>23, <1>25, <3>1, Zenon
  <2>2. a = b
    BY <1>11, <1>14, <1>25, Zenon
  <2>3. ApplyModifyColumns(a, ColumnsRecord(<<>>, trailing)) = a
    BY NoFragment
  <2>. QED BY <2>1, <2>2, <2>3, Zenon DEF GivesRow, NoImage
<1>26. CASE o1 # n1 /\ o2 = n2
  <2>1. Fragments(format, a, b, n) = <<f>>
    BY <1>8, <1>23, <1>24, <1>26, Zenon
  <2>2. OneApplies(P1, R1, o1, n1, trailing, f)
    <3>. f.old = o1 /\ f.new = n1 /\ f.oldStart = Len(P1) /\ P1 \o o1 \o R1 # <<>>
      BY <1>8, <1>15, <1>18, <1>22, Zenon
    <3>. QED BY OneFragment
  <2>3. b = P1 \o n1 \o R1
    BY <1>11, <1>14, <1>15, <1>26, Zenon
  <2>4. GivesRow(P1 \o (n1 \o trailing) \o R1, P1 \o n1 \o R1, trailing)
    <3>. P1 \o n1 \o R1 # <<>>
      BY <1>21, <2>3, Zenon
    <3>. QED BY PutBetween
  <2>. QED BY <1>15, <2>1, <2>2, <2>3, <2>4, Zenon DEF OneApplies
<1>27. CASE o1 = n1 /\ o2 # n2
  <2>1. Fragments(format, a, b, n) = <<g>>
    BY <1>8, <1>23, <1>24, <1>27, Zenon
  <2>2. a1 = b1 /\ T2 = U2
    BY <1>11, <1>13, <1>27, Zenon
  <2>3. OneApplies(T2, Q2, o2, n2, trailing, g)
    <3>. g.old = o2 /\ g.new = n2 /\ g.oldStart = Len(T2) /\ T2 \o o2 \o Q2 # <<>>
      BY <1>8, <1>16, <1>17, <1>18, <1>22, Zenon
    <3>. QED BY OneFragment
  <2>4. GivesRow(T2 \o (n2 \o trailing) \o Q2, T2 \o n2 \o Q2, trailing)
    <3>. T2 \o n2 \o Q2 # <<>>
      BY <1>16, <1>21, <2>2, Zenon
    <3>. QED BY PutBetween
  <2>. QED BY <1>16, <2>1, <2>2, <2>3, <2>4, Zenon DEF OneApplies
<1>28. CASE o1 # n1 /\ o2 # n2
  <2>1. Fragments(format, a, b, n) = <<f, g>>
    BY <1>8, <1>23, <1>24, <1>28, Zenon
  <2>2. TwoApply(P1 \o o1 \o R1, f, g, trailing, U2, n2, Q2)
    <3>1. lo1 + ((q + lp2) - (p + lp2)) - (lp1 - lp1) = ln1
      BY <1>19
    <3>2. (p + lp2) + (ln1 - lo1) = q + lp2
      BY <1>19
    <3>. /\ f.old = o1 /\ f.new = n1 /\ f.oldStart = Len(P1) /\ g.old = o2 /\ g.new = n2
         /\ Len(o1) + (g.newStart - g.oldStart) - (f.newStart - f.oldStart) = Len(n1)
         /\ g.oldStart + (Len(n1) - Len(o1)) = Len(U2)
      BY <1>8, <1>17, <1>18, <1>22, <3>1, <3>2, Zenon
    <3>. /\ P1 \o o1 \o R1 # <<>> /\ P1 \o n1 \o R1 # <<>>
         /\ P1 \o n1 \o R1 = U2 \o o2 \o Q2
      BY <1>15, <1>16, <1>21, Zenon
    <3>. QED BY TwoFragmentsApply
  <2>3. GivesRow(U2 \o (n2 \o trailing) \o Q2, U2 \o n2 \o Q2, trailing)
    <3>. U2 \o n2 \o Q2 # <<>>
      BY <1>16, <1>21, Zenon
    <3>. QED BY PutBetween
  <2>. QED BY <1>15, <1>16, <2>1, <2>2, <2>3, Zenon DEF TwoApply
<1>. QED BY <1>25, <1>26, <1>27, <1>28, Zenon

(* The data of a row begin in it or at its end, and not at its beginning.  *)
LEMMA DataStartInRow ==
  ASSUME NEW format \in {"NONE", "ROW"}, NEW cols, NEW value, IsRow(cols, value)
  PROVE  DataStart(format, Encode(format, cols, value), Len(cols)) \in 1..Len(Encode(format, cols, value))
<1>1. PICK row : row = Encode(format, cols, value)
  OBVIOUS
<1>2. row \in Seq(Int) /\ Len(row) > 0
  BY <1>1, EncodedRow, Zenon
<1>3. CASE format = "ROW"
  <2>1. row = EncodeCompressed(cols, value)
    BY <1>1, <1>3 DEF Encode
  <2>2. PayloadStart(Len(cols)) \in 1..Len(EncodeCompressed(cols, value))
    BY CompressedRow
  <2>. QED BY <1>1, <1>3, <2>1, <2>2, Zenon DEF DataStart
<1>4. CASE format = "NONE"
  <2>1. row = EncodePlain(cols, value)
    BY <1>1, <1>4 DEF Encode
  <2>2. DataStart(format, row, Len(cols)) = IF NumVar(row) = 0 THEN Len(row) ELSE BitmapEnd(row) + 2 + 2 * NumVar(row)
    BY <1>4 DEF DataStart, VarStart
  <2>3. /\ BitmapEnd(row) = 6 + Len(FixedCols(cols)) + (Len(cols) + 7) \div 8
        /\ NumVar(row) = Len(StoredVars(cols, value))
        /\ NumVar(row) # 0 => BitmapEnd(row) + 2 + 2 * NumVar(row) <= Len(row)
    BY <2>1, PlainHeader, Zenon
  <2>4. Len(FixedCols(cols)) \in Nat /\ Len(StoredVars(cols, value)) \in Nat /\ Len(cols) \in Nat
    <3>1. /\ FixedCols(cols) \in Seq({i \in DOMAIN cols : Fixed(cols[i])})
          /\ StoredVars(cols, value) \in Seq({i \in DOMAIN cols : ~Fixed(cols[i])})
          /\ Len(cols) \in Nat
      BY ColumnPositions, Zenon
    <3>2. \A S : \A s \in Seq(S) : Len(s) \in Nat
      OBVIOUS
    <3>. QED BY <3>1, <3>2, Zenon
  <2>5. PICK e \in Nat, v \in Nat, l \in Nat : e = BitmapEnd(row) /\ v = NumVar(row) /\ l = Len(row)
    <3>1. BitmapEnd(row) \in Nat /\ NumVar(row) \in Nat /\ Len(row) \in Nat
      BY <1>2, <2>3, <2>4
    <3>. QED BY <3>1
  <2>6. (IF v = 0 THEN l ELSE e + 2 + 2 * v) \in 1..l
    BY <1>2, <2>3, <2>5
  <2>. QED BY <1>1, <2>2, <2>5, <2>6, Zenon
<1>. QED BY <1>3, <1>4
-----------------------------------------------------------------------------
(* Backwards: ReverseModifyColumns, of a record that ends with its last    *)
(* fragment.                                                               *)

(* What two sequences have in common that are the same.                    *)
LEMMA AllInCommon ==
  ASSUME NEW s \in Seq(Int)
  PROVE  CommonPrefix(s, s) = Len(s)
<1>1. PICK n \in Nat : n = Len(s)
  OBVIOUS
<1>2. Min({n, n}) = n
  BY DEF Min
<1>3. {k \in 1..n : s[k] # s[k]} = {}
  OBVIOUS
<1>. QED BY <1>1, <1>2, <1>3 DEF CommonPrefix

(* A row that has a fragment's new bytes after U, and a payload that ends  *)
(* with them.                                                              *)
Matches1(payload, start, U, n, V) ==
  Matching(payload, start, U \o n \o V, Len(U)) = Len(n)

(* The rest of the payload is found in the row in full.                    *)
LEMMA MatchingAll ==
  ASSUME NEW payload, NEW start \in Nat, NEW U \in Seq(Int), NEW n \in Seq(Int), NEW V \in Seq(Int),
         Slice(payload, start, start + Len(n)) = n, Len(payload) = start + Len(n)
  PROVE  Matches1(payload, start, U, n, V)
<1>1. PICK row : row = U \o n \o V
  OBVIOUS
<1>2. Slice(row, Len(U), Len(U) + Len(n)) = n
  <2>1. SlicesTo(U \o n \o V, U, n, V)
    BY SliceOfParts
  <2>. QED BY <1>1, <2>1, Zenon DEF SlicesTo
<1>3. Len(row) = Len(U) + Len(n) + Len(V)
  <2>1. Joins(Int, U \o n \o V, U, n, V)
    BY ThreeParts
  <2>. QED BY <1>1, <2>1, Zenon DEF Joins
<1>4. PICK lu \in Nat, ln \in Nat, lv \in Nat : lu = Len(U) /\ ln = Len(n) /\ lv = Len(V)
  OBVIOUS
<1>5. Len(payload) - start = ln /\ Len(row) - lu = ln + lv
  BY <1>3, <1>4
<1>6. Min({ln, ln + lv}) = ln
  <2>1. ln \in {ln, ln + lv} /\ \A z \in {ln, ln + lv} : ln <= z
    OBVIOUS
  <2>2. \A w \in {ln, ln + lv} : (\A z \in {ln, ln + lv} : w <= z) => w = ln
    OBVIOUS
  <2>. QED BY <2>1, <2>2 DEF Min
<1>7. Min({Len(payload) - start, Len(row) - Len(U)}) = ln
  BY <1>4, <1>5, <1>6, Zenon
<1>8. Matching(payload, start, row, Len(U)) = CommonPrefix(n, n)
  BY <1>2, <1>4, <1>7, Zenon DEF Matching
<1>. QED BY <1>1, <1>8, AllInCommon, Zenon DEF Matches1

OneBack(after, m, s, i) == IF s.out = NoImage THEN s ELSE ReverseFragment(after, m, s, i)

(* OverFragments again, unfolded for the records there are.                *)
LEMMA UpToTwoBack ==
  ASSUME NEW image, NEW m, Len(m.oldStarts) \in 0..2
  PROVE  ReverseModifyColumns(image, m) =
           (IF Len(m.oldStarts) = 0 THEN Begin(image)
            ELSE IF Len(m.oldStarts) = 1 THEN OneBack(image, m, Begin(image), 1)
            ELSE OneBack(image, m, OneBack(image, m, Begin(image), 1), 2)).out
<1>1. PICK n \in 0..2 : n = Len(m.oldStarts)
  OBVIOUS
<1>. DEFINE G(f) == f = [i \in 0..n |->
                           IF i = 0 THEN [out |-> image, cursor |-> 0, shift |-> 0]
                           ELSE IF f[i - 1].out = NoImage THEN f[i - 1]
                           ELSE ReverseFragment(image, m, f[i - 1], i)]
<1>2. n \in {0, 1, 2} /\ \A i \in 0..n : i \in {0, 1, 2}
  OBVIOUS
<1>3. PICK s0, s1, s2 : /\ s0 = [out |-> image, cursor |-> 0, shift |-> 0]
                        /\ s1 = OneBack(image, m, s0, 1) /\ s2 = OneBack(image, m, s1, 2)
  OBVIOUS
<1>4. ReverseModifyColumns(image, m) = (CHOOSE f : G(f))[n].out
  BY <1>1, Zenon DEF ReverseModifyColumns, OverFragments
<1>5. \E f : G(f)
  <2>. DEFINE g == [i \in 0..n |-> IF i = 0 THEN s0 ELSE IF i = 1 THEN s1 ELSE s2]
  <2>1. ASSUME NEW i \in 0..n
        PROVE  g[i] = IF i = 0 THEN s0
                      ELSE IF g[i - 1].out = NoImage THEN g[i - 1] ELSE ReverseFragment(image, m, g[i - 1], i)
    <3>1. CASE i = 0
      BY <3>1
    <3>2. CASE i = 1
      <4>. g[i] = s1 /\ g[i - 1] = s0
        BY <3>2
      <4>. QED BY <1>3, <3>2 DEF OneBack
    <3>3. CASE i = 2
      <4>. g[i] = s2 /\ g[i - 1] = s1
        BY <3>3
      <4>. QED BY <1>3, <3>3 DEF OneBack
    <3>. i = 0 \/ i = 1 \/ i = 2
      BY <1>2
    <3>. QED BY <3>1, <3>2, <3>3
  <2>2. g = [i \in 0..n |-> g[i]]
    OBVIOUS
  <2>. HIDE DEF g
  <2>3. G(g)
    BY <1>3, <2>1, <2>2
  <2>. QED BY <2>3
<1>6. ASSUME NEW f, G(f) PROVE f[n] = IF n = 0 THEN s0 ELSE IF n = 1 THEN s1 ELSE s2
  <2>1. \A i \in 0..n : f[i] = IF i = 0 THEN s0
                               ELSE IF f[i - 1].out = NoImage THEN f[i - 1]
                               ELSE ReverseFragment(image, m, f[i - 1], i)
    BY <1>3, <1>6
  <2>. HIDE DEF G
  <2>2. f[0] = s0
    BY <2>1
  <2>3. n >= 1 => f[1] = s1
    <3>. SUFFICES ASSUME n >= 1 PROVE f[1] = s1
      OBVIOUS
    <3>. 1 \in 0..n /\ 1 - 1 = 0 /\ 1 # 0
      OBVIOUS
    <3>. f[1] = IF f[0].out = NoImage THEN f[0] ELSE ReverseFragment(image, m, f[0], 1)
      BY <2>1
    <3>. QED BY <1>3, <2>2 DEF OneBack
  <2>4. n = 2 => f[2] = s2
    <3>. SUFFICES ASSUME n = 2 PROVE f[2] = s2
      OBVIOUS
    <3>. 2 \in 0..n /\ 2 - 1 = 1 /\ 2 # 0
      OBVIOUS
    <3>. f[2] = IF f[1].out = NoImage THEN f[1] ELSE ReverseFragment(image, m, f[1], 2)
      BY <2>1
    <3>. QED BY <1>3, <2>3 DEF OneBack
  <2>5. n = 0 \/ n = 1 \/ n = 2
    BY <1>2
  <2>6. n = 1 => f[n] = s1
    BY <2>3
  <2>. QED BY <2>2, <2>4, <2>5, <2>6, Zenon
<1>. HIDE DEF G
<1>7. (CHOOSE f : G(f))[n] = IF n = 0 THEN s0 ELSE IF n = 1 THEN s1 ELSE s2
  BY <1>5, <1>6
<1>. QED BY <1>1, <1>3, <1>4, <1>7, Zenon DEF Begin

(* What a fragment is taken back from: the row after, and what the         *)
(* fragments before have made of it.                                       *)
ReadyBack(m, s, i, X, o, n, P, Q, U) ==
  /\ s.cursor = Len(X) /\ m.oldLens[i] = Len(o) /\ m.oldStarts[i] = Len(P) /\ m.newStarts[i] = Len(U)
  /\ s.out = P \o n \o Q

(* What remains of the conditions, once the bytes are found.               *)
Goes(after, m, s, i, start, len) ==
  /\ NewStart(m, s, i) = start /\ Slice(m.payload, start, start + len) = Slice(after, m.newStarts[i], m.newStarts[i] + len)
  /\ ~Truncated(m, s, i) /\ ~(m.newStarts[i] > Len(after)) /\ ~(len < 0) /\ ~(start + len > Len(m.payload))
  /\ ~(m.newStarts[i] + len > Len(after)) /\ ~(m.oldStarts[i] + len > Len(s.out))

TakenBack(m, s, i, o, n, P, Q) == Replace(s.out, m.oldStarts[i], Len(n), OldFrag(m, s, i)) = P \o o \o Q

(* The row after has the new bytes where the fragment says, and so has     *)
(* what is to be changed.                                                  *)
LEMMA FragmentGoes ==
  ASSUME NEW m, NEW s, NEW i, NEW X \in Seq(Int), NEW o \in Seq(Int), NEW n \in Seq(Int),
         NEW more \in Seq(Int), NEW P \in Seq(Int), NEW Q \in Seq(Int), NEW U \in Seq(Int), NEW V \in Seq(Int),
         NEW after, after = U \o n \o V, Reads(m.payload, X, o, n, more), ReadyBack(m, s, i, X, o, n, P, Q, U)
  PROVE  /\ Goes(after, m, s, i, Len(X) + align4(Len(o)), Len(n))
         /\ TakenBack(m, s, i, o, n, P, Q)
<1>1. PICK payload : payload = m.payload
  OBVIOUS
<1>2. PICK start \in Nat : payload = m.payload /\ start = Len(X) + align4(Len(o))
  BY <1>1 DEF Reads
<1>3. PICK lu \in Nat, ln \in Nat, lv \in Nat, lp \in Nat, lq \in Nat :
        lu = Len(U) /\ ln = Len(n) /\ lv = Len(V) /\ lp = Len(P) /\ lq = Len(Q)
  <2>. Len(U) \in Nat /\ Len(n) \in Nat /\ Len(V) \in Nat /\ Len(P) \in Nat /\ Len(Q) \in Nat
    BY LengthOf, Zenon
  <2>. QED BY Zenon
<1>4. Slice(after, lu, lu + ln) = n /\ Len(after) = lu + ln + lv
  <2>1. SlicesTo(U \o n \o V, U, n, V) /\ Joins(Int, U \o n \o V, U, n, V)
    BY SliceOfParts, ThreeParts
  <2>. QED BY <1>3, <2>1, Zenon DEF SlicesTo, Joins
<1>5. Slice(s.out, 0, lp) = P /\ Slice(s.out, lp + ln, lp + ln + lq) = Q /\ Len(s.out) = lp + ln + lq
  <2>1. SlicesTo(P \o n \o Q, P, n, Q) /\ Joins(Int, P \o n \o Q, P, n, Q)
    BY SliceOfParts, ThreeParts
  <2>. QED BY <1>3, <2>1, Zenon DEF SlicesTo, Joins, ReadyBack
<1>6. Slice(payload, start, start + ln) = n /\ start + ln <= Len(payload) /\ Len(payload) \in Nat
  BY <1>2, <1>3, Zenon DEF Reads
<1>7. OldFrag(m, s, i) = o /\ NewStart(m, s, i) = start
  BY <1>2, Zenon DEF OldFrag, NewStart, ReadyBack, Reads
<1>8. ~(start > Len(payload)) /\ ~(lu > lu + ln + lv) /\ ~(ln < 0) /\ ~(start + ln > Len(payload))
      /\ ~(lu + ln > lu + ln + lv) /\ ~(lp + ln > lp + ln + lq)
  BY <1>6
<1>9. Goes(after, m, s, i, start, ln)
  BY <1>2, <1>3, <1>4, <1>5, <1>6, <1>7, <1>8, Zenon DEF Goes, ReadyBack, Truncated
<1>10. TakenBack(m, s, i, o, n, P, Q)
  BY <1>3, <1>5, <1>7, Zenon DEF TakenBack, Replace, ReadyBack
<1>. QED BY <1>2, <1>3, <1>9, <1>10, Zenon

LastBack(after, m, s, i, P, o, Q) == ReverseFragment(after, m, s, i).out = P \o o \o Q

(* The last fragment is as much of the payload as the row has there.       *)
LEMMA LastFragmentBack ==
  ASSUME NEW m, NEW s, NEW i, NEW X \in Seq(Int), NEW o \in Seq(Int), NEW n \in Seq(Int),
         NEW P \in Seq(Int), NEW Q \in Seq(Int), NEW U \in Seq(Int), NEW V \in Seq(Int), NEW after,
         after = U \o n \o V, PayloadAt(m.payload, X, o, n, <<>>), i = Len(m.oldStarts),
         ReadyBack(m, s, i, X, o, n, P, Q, U)
  PROVE  LastBack(after, m, s, i, P, o, Q)
<1>1. PICK payload : payload = m.payload
  OBVIOUS
<1>2. PICK none \in Seq(Int) : payload = m.payload /\ none = <<>>
  <2>. payload = m.payload
    BY <1>1
  <2>. <<>> \in Seq(Int)
    OBVIOUS
  <2>. QED OBVIOUS
<1>3. Reads(payload, X, o, n, none)
  <2>. PayloadAt(payload, X, o, n, none)
    BY <1>2
  <2>. QED BY PayloadReads
<1>4. PICK start \in Nat, ln \in Nat : start = Len(X) + align4(Len(o)) /\ ln = Len(n)
  BY <1>3 DEF Reads
<1>5. Goes(after, m, s, i, start, ln) /\ TakenBack(m, s, i, o, n, P, Q)
  <2>. Reads(m.payload, X, o, n, none)
    BY <1>2, <1>3
  <2>. QED BY <1>4, FragmentGoes
<1>6. Slice(payload, start, start + ln) = n /\ Len(payload) = start + ln
  <2>0. Len(none) = 0
    BY <1>2
  <2>1. Len(payload) = start + ln + 0
    BY <1>3, <1>4, <2>0, Zenon DEF Reads
  <2>2. start + ln + 0 = start + ln
    OBVIOUS
  <2>. QED BY <1>3, <1>4, <2>1, <2>2, Zenon DEF Reads
<1>7. Matching(payload, start, after, Len(U)) = ln
  <2>. Slice(payload, start, start + Len(n)) = n /\ Len(payload) = start + Len(n)
    BY <1>4, <1>6
  <2>1. Matches1(payload, start, U, n, V)
    BY MatchingAll
  <2>. QED BY <1>4, <2>1, Zenon DEF Matches1
<1>8. ~(i < Len(m.oldStarts))
  <2>. i \in Nat => ~(i < Len(m.oldStarts))
    OBVIOUS
  <2>. QED OBVIOUS
<1>9. ReverseFragment(after, m, s, i).out = Replace(s.out, m.oldStarts[i], ln, OldFrag(m, s, i))
  <2>1. m.newStarts[i] = Len(U)
    BY Zenon DEF ReadyBack
  <2>2. Matching(m.payload, NewStart(m, s, i), after, m.newStarts[i]) = ln
    BY <1>2, <1>5, <1>7, <2>1, Zenon DEF Goes
  <2>. QED BY <1>5, <1>8, <2>2, Zenon DEF ReverseFragment, Goes
<1>. QED BY <1>4, <1>5, <1>9, Zenon DEF LastBack, TakenBack

MidBack(after, m, s, i, X, o, n, P, Q) ==
  ReverseFragment(after, m, s, i) =
    [out |-> P \o o \o Q, cursor |-> Len(X) + align4(Len(o)) + align4(Len(n)), shift |-> 0]

(* Another one is as long as NewLen says.                                  *)
LEMMA NotTheLastBack ==
  ASSUME NEW m, NEW s, NEW i, NEW X \in Seq(Int), NEW o \in Seq(Int), NEW n \in Seq(Int), NEW rest \in Seq(Int),
         NEW P \in Seq(Int), NEW Q \in Seq(Int), NEW U \in Seq(Int), NEW V \in Seq(Int), NEW after,
         after = U \o n \o V, i < Len(m.oldStarts), NewLen(m, i) = Len(n),
         m.payload = X \o Aligned(o) \o (Aligned(n) \o rest), ReadyBack(m, s, i, X, o, n, P, Q, U)
  PROVE  MidBack(after, m, s, i, X, o, n, P, Q)
<1>1. PICK payload : payload = m.payload
  OBVIOUS
<1>2. Pads(n, Aligned(n))
  BY AlignedPads
<1>3. PICK pad \in Seq(Int) : Aligned(n) = n \o pad
  BY <1>2, Zenon DEF Pads
<1>4. PICK more \in Seq(Int) : more = pad \o rest
  <2>. pad \o rest \in Seq(Int)
    OBVIOUS
  <2>. QED OBVIOUS
<1>5. Reads(payload, X, o, n, more)
  <2>1. Associative(n, pad, rest)
    BY Associate
  <2>2. PayloadAt(payload, X, o, n, more)
    BY <1>1, <1>3, <1>4, <2>1, Zenon DEF Associative, PayloadAt
  <2>. QED BY <2>2, PayloadReads
<1>6. PICK start \in Nat, ln \in Nat : start = Len(X) + align4(Len(o)) /\ ln = Len(n)
  BY <1>5 DEF Reads
<1>7. Goes(after, m, s, i, start, ln) /\ TakenBack(m, s, i, o, n, P, Q)
  <2>. Reads(m.payload, X, o, n, more)
    BY <1>1, <1>5
  <2>. QED BY <1>6, FragmentGoes
<1>8. ReverseFragment(after, m, s, i) =
        [out |-> Replace(s.out, m.oldStarts[i], ln, OldFrag(m, s, i)), cursor |-> start + align4(ln), shift |-> 0]
  BY <1>6, <1>7, Zenon DEF ReverseFragment, Goes
<1>. QED BY <1>6, <1>7, <1>8, Zenon DEF MidBack, TakenBack
(* A record of one fragment is undone where it stands.                     *)
OneBackwards(P, Q, o, n, f) ==
  ReverseModifyColumns(P \o n \o Q, ColumnsRecord(<<f>>, <<>>)) = P \o o \o Q

(* ReverseModifyColumns, for a record of one fragment.                     *)
LEMMA OneFragmentBack ==
  ASSUME NEW P \in Seq(Int), NEW Q \in Seq(Int), NEW o \in Seq(Int), NEW n \in Seq(Int), NEW U \in Seq(Int),
         NEW V \in Seq(Int), NEW f, f.old = o, f.new = n, f.oldStart = Len(P), f.newStart = Len(U),
         P \o n \o Q # <<>>, P \o n \o Q = U \o n \o V
  PROVE  OneBackwards(P, Q, o, n, f)
<1>1. PICK none \in Seq(Int) : none = <<>>
  <2>. <<>> \in Seq(Int)
    OBVIOUS
  <2>. QED OBVIOUS
<1>2. PICK m : m = ColumnsRecord(<<f>>, none)
  OBVIOUS
<1>3. PICK A \in Seq(Int) : A = Aligned(o)
  <2>1. Pads(o, Aligned(o))
    BY AlignedPads
  <2>. QED BY <2>1, Zenon DEF Pads
<1>4. /\ Len(m.oldStarts) = 1 /\ m.oldStarts[1] = f.oldStart /\ m.oldLens[1] = Len(f.old)
      /\ m.newStarts[1] = f.newStart
      /\ m.payload = FlattenSeq(<<Aligned(f.old) \o f.new>>) \o none
  <2>1. OneRecord(m, f, none)
    BY <1>2, RecordOfOne, Zenon
  <2>2. m.newStarts[1] = f.newStart
    <3>1. PICK frags : frags = <<f>>
      OBVIOUS
    <3>2. 1 \in DOMAIN frags /\ frags[1] = f
      BY <3>1
    <3>3. m.newStarts = [i \in DOMAIN frags |-> frags[i].newStart]
      BY <1>2, <3>1, Zenon DEF ColumnsRecord
    <3>. QED BY <3>2, <3>3, Zenon
  <2>. QED BY <2>1, <2>2, Zenon DEF OneRecord
<1>5. m.payload = A \o n
  <2>1. PICK t \in Seq(Int) : t = A \o n
    <3>. A \o n \in Seq(Int)
      OBVIOUS
    <3>. QED OBVIOUS
  <2>2. Flat1(t)
    BY FlattenOne
  <2>3. t \o none = t
    BY <1>1
  <2>. QED BY <1>3, <1>4, <2>1, <2>2, <2>3, Zenon DEF Flat1
<1>6. PayloadAt(m.payload, none, o, n, <<>>)
  <2>1. none \o A = A /\ n \o <<>> = n
    BY <1>1
  <2>. QED BY <1>3, <1>5, <2>1, Zenon DEF PayloadAt
<1>7. PICK s, after : s = Begin(P \o n \o Q) /\ after = P \o n \o Q
  OBVIOUS
<1>8. s.out = P \o n \o Q /\ s.cursor = 0
  BY <1>7 DEF Begin
<1>9. ReadyBack(m, s, 1, none, o, n, P, Q, U)
  <2>1. Len(none) = 0
    BY <1>1
  <2>. QED BY <1>4, <1>8, <2>1, Zenon DEF ReadyBack
<1>10. LastBack(after, m, s, 1, P, o, Q)
  <2>. 1 = Len(m.oldStarts) /\ after = U \o n \o V
    BY <1>4, <1>7
  <2>. PayloadAt(m.payload, none, o, n, <<>>) /\ ReadyBack(m, s, 1, none, o, n, P, Q, U)
    BY <1>6, <1>9
  <2>. QED BY LastFragmentBack
<1>11. ReverseModifyColumns(after, m) = OneBack(after, m, s, 1).out
  <2>1. Len(m.oldStarts) \in 0..2 /\ Len(m.oldStarts) # 0
    BY <1>4
  <2>. QED BY <1>4, <1>7, <2>1, UpToTwoBack
<1>12. OneBack(after, m, s, 1) = ReverseFragment(after, m, s, 1)
  BY <1>8, Zenon DEF OneBack, NoImage
<1>. QED BY <1>1, <1>2, <1>7, <1>10, <1>11, <1>12, Zenon DEF OneBackwards, LastBack

TwoBackwards(after, f, g, P, o, Q) ==
  ReverseModifyColumns(after, ColumnsRecord(<<f, g>>, <<>>)) = P \o o \o Q

(* Two fragments: the second where it is with the first undone, and where  *)
(* it is in the row after.                                                 *)
OneByOne(f, g, P1, o1, n1, Q1, P2, o2, n2, Q2, U2) ==
  /\ f.old = o1 /\ f.new = n1 /\ f.oldStart = Len(P1) /\ f.newStart = Len(P1)
  /\ g.old = o2 /\ g.new = n2 /\ g.oldStart = Len(P2) /\ g.newStart = Len(U2)
  /\ Len(o1) + (g.newStart - g.oldStart) - (f.newStart - f.oldStart) = Len(n1)
  /\ P1 \o n1 \o Q1 # <<>> /\ P1 \o o1 \o Q1 # <<>>
  /\ P1 \o o1 \o Q1 = P2 \o n2 \o Q2 /\ P1 \o n1 \o Q1 = U2 \o n2 \o Q2

(* Of two, the first is undone, and then the second, where it was before   *)
(* the update.                                                             *)
LEMMA TwoFragmentsBack ==
  ASSUME NEW P1 \in Seq(Int), NEW Q1 \in Seq(Int), NEW o1 \in Seq(Int), NEW n1 \in Seq(Int),
         NEW P2 \in Seq(Int), NEW Q2 \in Seq(Int), NEW o2 \in Seq(Int), NEW n2 \in Seq(Int),
         NEW U2 \in Seq(Int), NEW f, NEW g, OneByOne(f, g, P1, o1, n1, Q1, P2, o2, n2, Q2, U2)
  PROVE  TwoBackwards(P1 \o n1 \o Q1, f, g, P2, o2, Q2)
<1>. /\ f.old = o1 /\ f.new = n1 /\ f.oldStart = Len(P1) /\ f.newStart = Len(P1)
     /\ g.old = o2 /\ g.new = n2 /\ g.oldStart = Len(P2) /\ g.newStart = Len(U2)
     /\ Len(o1) + (g.newStart - g.oldStart) - (f.newStart - f.oldStart) = Len(n1)
     /\ P1 \o n1 \o Q1 # <<>> /\ P1 \o o1 \o Q1 # <<>>
     /\ P1 \o o1 \o Q1 = P2 \o n2 \o Q2 /\ P1 \o n1 \o Q1 = U2 \o n2 \o Q2
  BY Zenon DEF OneByOne
<1>1. PICK none \in Seq(Int) : none = <<>>
  <2>. <<>> \in Seq(Int)
    OBVIOUS
  <2>. QED OBVIOUS
<1>2. PICK m : m = ColumnsRecord(<<f, g>>, none)
  OBVIOUS
<1>3. PICK A1 \in Seq(Int), B1 \in Seq(Int), A2 \in Seq(Int) :
        A1 = Aligned(o1) /\ B1 = Aligned(n1) /\ A2 = Aligned(o2)
  <2>1. Pads(o1, Aligned(o1)) /\ Pads(n1, Aligned(n1)) /\ Pads(o2, Aligned(o2))
    BY AlignedPads
  <2>. QED BY <2>1, Zenon DEF Pads
<1>4. /\ Len(m.oldStarts) = 2 /\ m.oldStarts[1] = f.oldStart /\ m.oldLens[1] = Len(f.old)
      /\ m.oldStarts[2] = g.oldStart /\ m.oldLens[2] = Len(g.old)
      /\ m.newStarts[1] = f.newStart /\ m.newStarts[2] = g.newStart
      /\ m.payload = FlattenSeq(<<Aligned(f.old) \o Aligned(f.new), Aligned(g.old) \o g.new>>) \o none
  <2>1. TwoRecord(m, f, g, none)
    BY <1>2, RecordOfTwo, Zenon
  <2>. QED BY <2>1, Zenon DEF TwoRecord
<1>5. PICK t1 \in Seq(Int), rest \in Seq(Int) : t1 = A1 \o B1 /\ rest = A2 \o n2
  <2>. A1 \o B1 \in Seq(Int) /\ A2 \o n2 \in Seq(Int)
    OBVIOUS
  <2>. QED OBVIOUS
<1>6. m.payload = t1 \o rest
  <2>1. Flat2(t1, rest)
    BY FlattenTwo
  <2>2. (t1 \o rest) \o none = t1 \o rest
    BY <1>1
  <2>. QED BY <1>3, <1>4, <1>5, <2>1, <2>2, Zenon DEF Flat2
<1>7. m.payload = none \o Aligned(o1) \o (Aligned(n1) \o rest)
  <2>1. Associative(A1, B1, rest)
    BY Associate
  <2>2. none \o A1 = A1
    BY <1>1
  <2>. QED BY <1>3, <1>5, <1>6, <2>1, <2>2, Zenon DEF Associative
<1>8. PayloadAt(m.payload, t1, o2, n2, <<>>)
  <2>1. Associative(t1, A2, n2)
    BY Associate
  <2>2. n2 \o <<>> = n2
    OBVIOUS
  <2>. QED BY <1>3, <1>5, <1>6, <2>1, <2>2, Zenon DEF Associative, PayloadAt
<1>9. PICK s, after : s = Begin(P1 \o n1 \o Q1) /\ after = P1 \o n1 \o Q1
  OBVIOUS
<1>10. s.out = P1 \o n1 \o Q1 /\ s.cursor = 0
  BY <1>9 DEF Begin
<1>11. ReadyBack(m, s, 1, none, o1, n1, P1, Q1, P1)
  <2>1. Len(none) = 0
    BY <1>1
  <2>. QED BY <1>4, <1>10, <2>1, Zenon DEF ReadyBack
<1>12. PICK u : u = ReverseFragment(after, m, s, 1)
  OBVIOUS
<1>13. MidBack(after, m, s, 1, none, o1, n1, P1, Q1)
  <2>. 1 < Len(m.oldStarts) /\ after = P1 \o n1 \o Q1
    BY <1>4, <1>9
  <2>. NewLen(m, 1) = Len(n1)
    <3>1. 1 + 1 = 2
      OBVIOUS
    <3>. QED BY <1>4, <3>1, Zenon DEF NewLen
  <2>. m.payload = none \o Aligned(o1) \o (Aligned(n1) \o rest) /\ ReadyBack(m, s, 1, none, o1, n1, P1, Q1, P1)
    BY <1>7, <1>11
  <2>. QED BY NotTheLastBack
<1>14. u.out = P1 \o o1 \o Q1 /\ u.cursor = Len(t1)
  <2>1. Pads(o1, A1) /\ Pads(n1, B1)
    BY <1>3, AlignedPads, Zenon
  <2>2. Len(A1) = align4(Len(o1)) /\ Len(B1) = align4(Len(n1))
    BY <2>1, Zenon DEF Pads
  <2>3. Len(t1) = Len(A1) + Len(B1) /\ Len(none) = 0 /\ 0 + Len(A1) + Len(B1) = Len(A1) + Len(B1)
    BY <1>1, <1>5
  <2>4. u = [out |-> P1 \o o1 \o Q1, cursor |-> Len(none) + align4(Len(o1)) + align4(Len(n1)), shift |-> 0]
    BY <1>12, <1>13, Zenon DEF MidBack
  <2>5. u.out = P1 \o o1 \o Q1 /\ u.cursor = Len(none) + align4(Len(o1)) + align4(Len(n1))
    BY <2>4, Zenon
  <2>. QED BY <2>2, <2>3, <2>5, Zenon
<1>15. ReadyBack(m, u, 2, t1, o2, n2, P2, Q2, U2)
  BY <1>4, <1>14, Zenon DEF ReadyBack
<1>16. LastBack(after, m, u, 2, P2, o2, Q2)
  <2>. 2 = Len(m.oldStarts) /\ after = U2 \o n2 \o Q2
    BY <1>4, <1>9
  <2>. PayloadAt(m.payload, t1, o2, n2, <<>>) /\ ReadyBack(m, u, 2, t1, o2, n2, P2, Q2, U2)
    BY <1>8, <1>15
  <2>. QED BY LastFragmentBack
<1>17. ReverseModifyColumns(after, m) = OneBack(after, m, OneBack(after, m, s, 1), 2).out
  <2>1. Len(m.oldStarts) \in 0..2 /\ Len(m.oldStarts) # 0 /\ Len(m.oldStarts) # 1
    BY <1>4
  <2>. QED BY <1>9, <2>1, UpToTwoBack
<1>18. OneBack(after, m, s, 1) = u
  BY <1>10, <1>12, Zenon DEF OneBack, NoImage
<1>19. OneBack(after, m, u, 2) = ReverseFragment(after, m, u, 2)
  BY <1>14, Zenon DEF OneBack, NoImage
<1>. QED BY <1>1, <1>2, <1>9, <1>16, <1>17, <1>18, <1>19, Zenon DEF TwoBackwards, LastBack

(* The columns that a record of LOP_MODIFY_COLUMNS names, taken back from  *)
(* the row after the update, give the row before it, if nothing follows    *)
(* the last fragment in the record.                                        *)
THEOREM ModifyColumnsReverse ==
  ASSUME NEW format, NEW n, NEW a \in Seq(Int), NEW b \in Seq(Int), a # <<>>, b # <<>>,
         DataStart(format, a, n) \in 1..Len(a), DataStart(format, b, n) \in 1..Len(b)
  PROVE  ReverseModifyColumns(b, ColumnsRecord(Fragments(format, a, b, n), <<>>)) = a
<1>1. PICK p \in Nat, q \in Nat : p = DataStart(format, a, n) /\ q = DataStart(format, b, n)
  <2>. DataStart(format, a, n) \in Nat /\ DataStart(format, b, n) \in Nat
    OBVIOUS
  <2>. QED OBVIOUS
<1>2. p <= Len(a) /\ q <= Len(b) /\ p >= 1
  BY <1>1
<1>3. PICK a1 \in Seq(Int), a2 \in Seq(Int) : InHalves(a, p, a1, a2)
  <2>. p <= Len(a)
    BY <1>2
  <2>1. InHalves(a, p, SubSeq(a, 1, p), SubSeq(a, p + 1, Len(a)))
    BY HalvesOf
  <2>. QED BY <2>1, Zenon DEF InHalves
<1>4. PICK b1 \in Seq(Int), b2 \in Seq(Int) : InHalves(b, q, b1, b2)
  <2>. q <= Len(b)
    BY <1>2
  <2>1. InHalves(b, q, SubSeq(b, 1, q), SubSeq(b, q + 1, Len(b)))
    BY HalvesOf
  <2>. QED BY <2>1, Zenon DEF InHalves
<1>5. PICK f, g : f = Fragment(a1, b1, 0, 0) /\ g = Fragment(a2, b2, p, q)
  OBVIOUS
<1>6. FragmentOf(a1, b1, 0, 0, f)
  BY <1>5, FragmentProperties
<1>7. FragmentOf(a2, b2, p, q, g)
  BY <1>5, FragmentProperties
<1>8. PICK o1 \in Seq(Int), n1 \in Seq(Int), o2 \in Seq(Int), n2 \in Seq(Int) :
        f.old = o1 /\ f.new = n1 /\ g.old = o2 /\ g.new = n2
  <2>. f.old \in Seq(Int) /\ f.new \in Seq(Int) /\ g.old \in Seq(Int) /\ g.new \in Seq(Int)
    BY <1>6, <1>7, Zenon DEF FragmentOf
  <2>. QED OBVIOUS
<1>9. PICK P1 \in Seq(Int), Q1 \in Seq(Int) :
        Between(a1, b1, f, P1, Q1) /\ f.oldStart = 0 + Len(P1) /\ f.newStart = 0 + Len(P1)
  BY <1>6, Zenon DEF FragmentOf
<1>10. PICK P2 \in Seq(Int), Q2 \in Seq(Int) :
         Between(a2, b2, g, P2, Q2) /\ g.oldStart = p + Len(P2) /\ g.newStart = q + Len(P2)
  BY <1>7, Zenon DEF FragmentOf
<1>11. a1 = P1 \o o1 \o Q1 /\ b1 = P1 \o n1 \o Q1 /\ a2 = P2 \o o2 \o Q2 /\ b2 = P2 \o n2 \o Q2
  BY <1>8, <1>9, <1>10, Zenon DEF Between
<1>12. PICK S1 \in Seq(Int), R1 \in Seq(Int) : S1 = Q1 \o b2 /\ R1 = Q1 \o a2
  <2>. Q1 \o b2 \in Seq(Int) /\ Q1 \o a2 \in Seq(Int)
    OBVIOUS
  <2>. QED OBVIOUS
<1>13. PICK T2 \in Seq(Int), U2 \in Seq(Int) : T2 = a1 \o P2 /\ U2 = b1 \o P2
  <2>. a1 \o P2 \in Seq(Int) /\ b1 \o P2 \in Seq(Int)
    OBVIOUS
  <2>. QED OBVIOUS
<1>14. /\ a = a1 \o a2 /\ b = b1 \o b2 /\ Len(a1) = p /\ Len(b1) = q
       /\ a1 = SubSeq(a, 1, p) /\ b1 = SubSeq(b, 1, q)
       /\ a2 = SubSeq(a, p + 1, Len(a)) /\ b2 = SubSeq(b, q + 1, Len(b))
  BY <1>3, <1>4, Zenon DEF InHalves
<1>15. b = P1 \o n1 \o S1 /\ a1 \o b2 = P1 \o o1 \o S1 /\ a = P1 \o o1 \o R1
  <2>1. InFront(b2, P1, o1, Q1) /\ InFront(b2, P1, n1, Q1) /\ InFront(a2, P1, o1, Q1)
    BY FragmentInHalf
  <2>. QED BY <1>11, <1>12, <1>14, <2>1, Zenon DEF InFront
<1>16. a = T2 \o o2 \o Q2 /\ a1 \o b2 = T2 \o n2 \o Q2 /\ b = U2 \o n2 \o Q2
  <2>1. InBack(a1, P2, o2, Q2) /\ InBack(a1, P2, n2, Q2) /\ InBack(b1, P2, n2, Q2)
    BY FragmentInHalf
  <2>. QED BY <1>11, <1>13, <1>14, <2>1, Zenon DEF InBack
<1>17. Len(T2) = p + Len(P2) /\ Len(U2) = q + Len(P2)
  <2>1. \A u, v \in Seq(Int) : Len(u \o v) = Len(u) + Len(v)
    OBVIOUS
  <2>2. Len(a1 \o P2) = Len(a1) + Len(P2) /\ Len(b1 \o P2) = Len(b1) + Len(P2)
    BY <2>1
  <2>. QED BY <1>13, <1>14, <2>2, Zenon
<1>18. PICK lp1 \in Nat, lo1 \in Nat, ln1 \in Nat, lq1 \in Nat, lp2 \in Nat :
         /\ lp1 = Len(P1) /\ lo1 = Len(o1) /\ ln1 = Len(n1) /\ lq1 = Len(Q1) /\ lp2 = Len(P2)
  <2>. Len(P1) \in Nat /\ Len(o1) \in Nat /\ Len(n1) \in Nat /\ Len(Q1) \in Nat /\ Len(P2) \in Nat
    BY LengthOf, Zenon
  <2>. QED BY Zenon
<1>19. p = lp1 + lo1 + lq1 /\ q = lp1 + ln1 + lq1
  <2>1. Joins(Int, P1 \o o1 \o Q1, P1, o1, Q1) /\ Joins(Int, P1 \o n1 \o Q1, P1, n1, Q1)
    BY ThreeParts
  <2>2. Len(P1 \o o1 \o Q1) = Len(P1) + Len(o1) + Len(Q1) /\ Len(P1 \o n1 \o Q1) = Len(P1) + Len(n1) + Len(Q1)
    BY <2>1, Zenon DEF Joins
  <2>. QED BY <1>11, <1>14, <1>18, <2>2, Zenon
<1>20. a1 # <<>>
  <2>1. Len(a1) = p /\ p # 0
    BY <1>2, <1>14
  <2>. QED BY <2>1
<1>21. a1 \o b2 # <<>>
  <2>1. \A u, v \in Seq(Int) : u # <<>> => u \o v # <<>>
    OBVIOUS
  <2>. QED BY <1>20, <2>1
<1>22. f.oldStart = lp1 /\ f.newStart = lp1 /\ g.oldStart = p + lp2 /\ g.newStart = q + lp2
  BY <1>9, <1>10, <1>18
<1>. DEFINE IfChanged(h) == IF h.old # h.new THEN <<h>> ELSE <<>>
<1>23. Fragments(format, a, b, n) = IfChanged(f) \o IfChanged(g)
  BY <1>1, <1>5, <1>14, Zenon DEF Fragments
<1>24. <<>> \o <<g>> = <<g>> /\ <<f>> \o <<>> = <<f>> /\ <<f>> \o <<g>> = <<f, g>>
  BY PairOf, Zenon
<1>25. CASE o1 = n1 /\ o2 = n2
  <2>1. Fragments(format, a, b, n) = <<>>
    <3>1. <<>> \o <<>> = <<>>
      OBVIOUS
    <3>. QED BY <1>8, <1>23, <1>25, <3>1, Zenon
  <2>2. a = b
    BY <1>11, <1>14, <1>25, Zenon
  <2>3. PICK m : m = ColumnsRecord(<<>>, <<>>)
    OBVIOUS
  <2>4. Len(m.oldStarts) = 0
    <3>1. m.oldStarts = [i \in DOMAIN <<>> |-> <<>>[i].oldStart]
      BY <2>3 DEF ColumnsRecord
    <3>2. DOMAIN <<>> = {}
      OBVIOUS
    <3>3. m.oldStarts = <<>>
      BY <3>1, <3>2
    <3>. QED BY <3>3
  <2>5. Len(m.oldStarts) \in 0..2
    BY <2>4
  <2>6. ReverseModifyColumns(b, m) = Begin(b).out
    BY <2>4, <2>5, UpToTwoBack
  <2>7. Begin(b).out = b
    BY DEF Begin
  <2>. QED BY <2>1, <2>2, <2>3, <2>6, <2>7, Zenon
<1>26. CASE o1 # n1 /\ o2 = n2
  <2>1. Fragments(format, a, b, n) = <<f>>
    BY <1>8, <1>23, <1>24, <1>26, Zenon
  <2>2. R1 = S1
    BY <1>11, <1>12, <1>26, Zenon
  <2>3. OneBackwards(P1, S1, o1, n1, f)
    <3>. /\ f.old = o1 /\ f.new = n1 /\ f.oldStart = Len(P1) /\ f.newStart = Len(P1)
         /\ P1 \o n1 \o S1 # <<>>
      BY <1>8, <1>15, <1>18, <1>22, Zenon
    <3>1. PICK U \in Seq(Int), V \in Seq(Int) : U = P1 /\ V = S1
      OBVIOUS
    <3>. f.newStart = Len(U) /\ P1 \o n1 \o S1 = U \o n1 \o V
      BY <3>1
    <3>. QED BY OneFragmentBack
  <2>. QED BY <1>15, <2>1, <2>2, <2>3, Zenon DEF OneBackwards
<1>27. CASE o1 = n1 /\ o2 # n2
  <2>1. Fragments(format, a, b, n) = <<g>>
    BY <1>8, <1>23, <1>24, <1>27, Zenon
  <2>2. a1 = b1 /\ T2 = U2
    BY <1>11, <1>13, <1>27, Zenon
  <2>3. OneBackwards(T2, Q2, o2, n2, g)
    <3>. /\ g.old = o2 /\ g.new = n2 /\ g.oldStart = Len(T2) /\ g.newStart = Len(U2)
         /\ T2 \o n2 \o Q2 # <<>> /\ T2 \o n2 \o Q2 = U2 \o n2 \o Q2
      BY <1>8, <1>16, <1>17, <1>18, <1>22, <2>2, Zenon
    <3>. QED BY OneFragmentBack
  <2>. QED BY <1>16, <2>1, <2>2, <2>3, Zenon DEF OneBackwards
<1>28. CASE o1 # n1 /\ o2 # n2
  <2>1. Fragments(format, a, b, n) = <<f, g>>
    BY <1>8, <1>23, <1>24, <1>28, Zenon
  <2>2. TwoBackwards(P1 \o n1 \o S1, f, g, T2, o2, Q2)
    <3>1. lo1 + ((q + lp2) - (p + lp2)) - (lp1 - lp1) = ln1
      BY <1>19
    <3>. /\ f.old = o1 /\ f.new = n1 /\ f.oldStart = Len(P1) /\ f.newStart = Len(P1)
         /\ g.old = o2 /\ g.new = n2 /\ g.oldStart = Len(T2) /\ g.newStart = Len(U2)
         /\ Len(o1) + (g.newStart - g.oldStart) - (f.newStart - f.oldStart) = Len(n1)
      BY <1>8, <1>17, <1>18, <1>22, <3>1, Zenon
    <3>. /\ P1 \o n1 \o S1 # <<>> /\ P1 \o o1 \o S1 # <<>>
         /\ P1 \o o1 \o S1 = T2 \o n2 \o Q2 /\ P1 \o n1 \o S1 = U2 \o n2 \o Q2
      BY <1>15, <1>16, <1>21, Zenon
    <3>2. OneByOne(f, g, P1, o1, n1, S1, T2, o2, n2, Q2, U2)
      BY Zenon DEF OneByOne
    <3>. QED BY <3>2, TwoFragmentsBack
  <2>. QED BY <1>15, <1>16, <2>1, <2>2, Zenon DEF TwoBackwards
<1>. QED BY <1>25, <1>26, <1>27, <1>28, Zenon
-----------------------------------------------------------------------------
(* What a fragment shows by itself.                                        *)

(* Values of columns of fixed length, or zero for NULL.                    *)
TrulyShows(f, cols, value) ==
  \A i \in DOMAIN f :
    /\ i \in DOMAIN cols
    /\ value[cols[i].id] = f[i] \/ (value[cols[i].id] = Null /\ f[i] = <<0>>)

(* So with any part of a row, that begins where it is said to.             *)
LEMMA PartShows ==
  ASSUME NEW cols, NEW value, IsRow(cols, value),
         NEW P \in Seq(Int), NEW o \in Seq(Int), NEW Q \in Seq(Int), EncodePlain(cols, value) = P \o o \o Q
  PROVE  TrulyShows(DecodeModifyRowFragment(o, Len(P), cols), cols, value)
<1>1. PICK row, n : row = EncodePlain(cols, value) /\ n = Len(cols)
  OBVIOUS
<1>2. n \in Nat /\ DOMAIN cols = 1..n
  BY <1>1, ColumnPositions
<1>3. Padded(row, EncodePlain(cols, value))
  <2>1. row \in Seq(Int)
    BY <1>1
  <2>. QED BY <1>1, <2>1 DEF Padded
<1>4. PICK p \in Nat, m \in Nat : p = Len(P) /\ m = Len(o)
  <2>. Len(P) \in Nat /\ Len(o) \in Nat
    OBVIOUS
  <2>. QED OBVIOUS
<1>5. \A j \in 1..m : row[p + j] = o[j]
  <2>1. Joins(Int, P \o o \o Q, P, o, Q)
    BY ThreeParts
  <2>. QED BY <1>1, <1>4, <2>1 DEF Joins
<1>6. PICK f : f = DecodeModifyRowFragment(o, p, cols)
  OBVIOUS
<1>7. ASSUME NEW i \in DOMAIN f
      PROVE  /\ i \in DOMAIN cols
             /\ value[cols[i].id] = f[i] \/ (value[cols[i].id] = Null /\ f[i] = <<0>>)
  <2>1. /\ i \in 1..n /\ Fixed(cols[i]) /\ f[i] = <<o[(4 + computeLayout(cols, i) - p) + 1]>>
        /\ 4 + computeLayout(cols, i) - p >= 0 /\ 4 + computeLayout(cols, i) - p < m
    BY <1>2, <1>4, <1>6 DEF DecodeModifyRowFragment
  <2>2. FixedByte(row, cols, value, i)
    BY <1>1, <1>3, <2>1, PlainFixed
  <2>3. InLayout(cols, i)
    BY <1>2, <2>1, LayoutOf
  <2>4. PICK k \in Nat : k = computeLayout(cols, i)
    BY <2>3 DEF InLayout
  <2>5. PICK j \in 1..m : j = (4 + k - p) + 1
    BY <2>1, <2>4
  <2>6. p + j = (4 + k) + 1
    BY <2>5
  <2>7. Byte(row, 4 + k) = o[j]
    BY <1>5, <2>6 DEF Byte
  <2>8. o[j] = IF value[cols[i].id] = Null THEN 0 ELSE value[cols[i].id][1]
    BY <2>2, <2>4, <2>7 DEF FixedByte
  <2>9. value[cols[i].id] = Null \/ \E b \in 0..255 : value[cols[i].id] = <<b>>
    <3>1. value[cols[i].id] \in StoredValues(cols[i])
      BY <1>2, <2>1 DEF IsRow
    <3>. QED BY <2>1, <3>1 DEF StoredValues
  <2>10. value[cols[i].id] # Null => value[cols[i].id] = <<o[j]>>
    <3>1. SUFFICES ASSUME value[cols[i].id] # Null PROVE value[cols[i].id] = <<o[j]>>
      OBVIOUS
    <3>2. PICK b \in 0..255 : value[cols[i].id] = <<b>>
      BY <2>9, <3>1
    <3>3. o[j] = b
      <4>1. o[j] = value[cols[i].id][1]
        BY <2>8, <3>1, Zenon
      <4>2. <<b>>[1] = b
        OBVIOUS
      <4>. QED BY <3>2, <4>1, <4>2
    <3>. QED BY <3>2, <3>3
  <2>11. f[i] = <<o[j]>>
    BY <2>1, <2>4, <2>5
  <2>. QED BY <1>2, <2>1, <2>8, <2>10, <2>11
<1>. QED BY <1>4, <1>6, <1>7 DEF TrulyShows

(* So with both fragments of an update.                                    *)
LEMMA FragmentShows ==
  ASSUME NEW cols, NEW from, NEW to, IsRow(cols, from), IsRow(cols, to),
         NEW f, f = RowFragment(EncodePlain(cols, from), EncodePlain(cols, to))
  PROVE  /\ TrulyShows(DecodeModifyRowFragment(f.old, f.oldStart, cols), cols, from)
         /\ TrulyShows(DecodeModifyRowFragment(f.new, f.oldStart, cols), cols, to)
<1>1. PICK a, b : a = EncodePlain(cols, from) /\ b = EncodePlain(cols, to)
  OBVIOUS
<1>2. a \in Seq(Int) /\ b \in Seq(Int)
  BY <1>1, PlainRow DEF PlainLayout
<1>3. FragmentOf(a, b, 0, 0, Fragment(a, b, 0, 0))
  BY <1>2, FragmentProperties
<1>4. FragmentOf(a, b, 0, 0, f)
  BY <1>1, <1>3, Zenon DEF RowFragment
<1>5. f.old \in Seq(Int) /\ f.new \in Seq(Int)
  BY <1>4, Zenon DEF FragmentOf
<1>6. PICK P \in Seq(Int), Q \in Seq(Int) : Between(a, b, f, P, Q) /\ f.oldStart = 0 + Len(P)
  BY <1>4, Zenon DEF FragmentOf
<1>7. f.oldStart = Len(P)
  BY <1>6
<1>8. EncodePlain(cols, from) = P \o f.old \o Q /\ EncodePlain(cols, to) = P \o f.new \o Q
  BY <1>1, <1>6 DEF Between
<1>. QED BY <1>5, <1>7, <1>8, PartShows
=============================================================================
