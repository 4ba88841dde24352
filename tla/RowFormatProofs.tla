-------------------------- MODULE RowFormatProofs --------------------------
(***************************************************************************)
(* Row images: that what the source writes is a sequence of bytes with the *)
(* parts that the decoders look for where they look for them.              *)
(*                                                                         *)
(* What the definitions compute by recursion is proved by induction, with  *)
(* the natural numbers' well-foundedness from the library: a set of them   *)
(* with 0 and all successors is all of them.                               *)
(***************************************************************************)
EXTENDS RowFormat, WellFoundedInduction, FiniteSetTheorems, SequenceTheorems, TLAPS

-----------------------------------------------------------------------------
(* Induction.                                                              *)

(* A set of naturals that has a member has a least one.                    *)
LEMMA LeastMember ==
  ASSUME NEW T, T \subseteq Nat, T # {}
  PROVE  \E x \in T : \A y \in T : x <= y
<1>. DEFINE R == {ss \in Nat \X Nat : ss[1] < ss[2]}
<1>1. IsWellFoundedOn(R, Nat)
  BY NatLessThanWellFounded DEF OpToRel
<1>2. \A x, y \in Nat : <<y, x>> \notin R => x <= y
  OBVIOUS
<1>. HIDE DEF R
<1>3. \E x \in T : \A y \in T : <<y, x>> \notin R
  BY <1>1, WFMin
<1>. QED BY <1>2, <1>3

(* A set with 0 and the successors of its naturals has all naturals.       *)
LEMMA Induction ==
  ASSUME NEW T, 0 \in T, \A n \in Nat : n \in T => n + 1 \in T
  PROVE  Nat \subseteq T
<1>. SUFFICES ASSUME Nat \ T # {} PROVE FALSE
  OBVIOUS
<1>1. PICK x \in Nat \ T : \A y \in Nat \ T : x <= y
  BY LeastMember
<1>2. x # 0 /\ x - 1 \in Nat /\ ~(x <= x - 1) /\ (x - 1) + 1 = x
  BY <1>1
<1>3. x - 1 \in T
  BY <1>1, <1>2
<1>. QED BY <1>1, <1>2, <1>3

-----------------------------------------------------------------------------
(* Concatenation.                                                          *)

(* The parts of a concatenation lie one after the other.                   *)
LEMMA TwoParts ==
  ASSUME NEW S, NEW p \in Seq(S), NEW q \in Seq(S)
  PROVE  /\ p \o q \in Seq(S) /\ Len(p \o q) = Len(p) + Len(q)
         /\ \A k \in 1..Len(p) : (p \o q)[k] = p[k]
         /\ \A k \in 1..Len(q) : (p \o q)[Len(p) + k] = q[k]
OBVIOUS

Joins(S, s, p, q, r) ==
  /\ s \in Seq(S) /\ Len(s) = Len(p) + Len(q) + Len(r)
  /\ \A k \in 1..Len(p) : s[k] = p[k]
  /\ \A k \in 1..Len(q) : s[Len(p) + k] = q[k]
  /\ \A k \in 1..Len(r) : s[Len(p) + Len(q) + k] = r[k]

(* A concatenation of three parts has their lengths and elements in turn.  *)
LEMMA ThreeParts ==
  ASSUME NEW S, NEW p \in Seq(S), NEW q \in Seq(S), NEW r \in Seq(S)
  PROVE  Joins(S, p \o q \o r, p, q, r)
<1>0. PICK s : s = p \o q \o r
  OBVIOUS
<1>1. PICK t : t = p \o q
  OBVIOUS
<1>2. s = t \o r
  BY <1>0, <1>1
<1>3. PICK lp, lq, lr : lp = Len(p) /\ lq = Len(q) /\ lr = Len(r)
  OBVIOUS
<1>4. lp \in Nat /\ lq \in Nat /\ lr \in Nat
  BY <1>3
<1>5. t \in Seq(S) /\ Len(t) = lp + lq /\ (\A k \in 1..lp : t[k] = p[k]) /\ \A k \in 1..lq : t[lp + k] = q[k]
  BY <1>1, <1>3, TwoParts
<1>6. s \in Seq(S) /\ Len(s) = Len(t) + lr /\ (\A k \in 1..Len(t) : s[k] = t[k]) /\ \A k \in 1..lr : s[Len(t) + k] = r[k]
  <2>1. t \in Seq(S)
    BY <1>5
  <2>2. /\ t \o r \in Seq(S) /\ Len(t \o r) = Len(t) + Len(r)
        /\ \A k \in 1..Len(t) : (t \o r)[k] = t[k]
        /\ \A k \in 1..Len(r) : (t \o r)[Len(t) + k] = r[k]
    BY <2>1, TwoParts
  <2>. QED BY <1>2, <1>3, <2>2, Zenon
<1>7. s \in Seq(S) /\ Len(s) = lp + lq + lr /\ (\A k \in 1..(lp + lq) : s[k] = t[k]) /\ \A k \in 1..lr : s[lp + lq + k] = r[k]
  BY <1>5, <1>6
<1>8. ASSUME NEW k \in 1..lp PROVE s[k] = p[k]
  <2>1. k \in 1..(lp + lq)
    BY <1>4
  <2>2. s[k] = t[k]
    BY <1>7, <2>1
  <2>. QED BY <1>5, <2>2
<1>9. ASSUME NEW k \in 1..lq PROVE s[lp + k] = q[k]
  <2>1. lp + k \in 1..(lp + lq)
    BY <1>4
  <2>2. s[lp + k] = t[lp + k]
    BY <1>7, <2>1
  <2>. QED BY <1>5, <2>2
<1>10. Joins(S, s, p, q, r)
  BY <1>3, <1>7, <1>8, <1>9 DEF Joins
<1>. QED BY <1>0, <1>10, Zenon

-----------------------------------------------------------------------------
(* FlattenSeq: the concatenation, step by step.                            *)

Concatenates(f, n, ss) == f[0] = <<>> /\ \A i \in 1..n : f[i] = f[i - 1] \o ss[i]

(* The concatenations of the first elements, one after another, exist as a *)
(* function.                                                               *)
LEMMA ConcatenationExists ==
  ASSUME NEW S, NEW n \in Nat, NEW ss \in [1..n -> Seq(S)]
  PROVE  \E f \in [0..n -> Seq(S)] : Concatenates(f, n, ss)
<1>. DEFINE P(m) == m <= n => \E f \in [0..m -> Seq(S)] : Concatenates(f, m, ss)
            T == {m \in Nat : P(m)}
<1>1. P(0)
  <2>. DEFINE f == [i \in 0..0 |-> <<>>]
  <2>. f \in [0..0 -> Seq(S)] /\ Concatenates(f, 0, ss)
    BY DEF Concatenates
  <2>. QED OBVIOUS
<1>2. ASSUME NEW m \in Nat, P(m) PROVE P(m + 1)
  <2>. SUFFICES ASSUME m + 1 <= n
                PROVE  \E f \in [0..(m + 1) -> Seq(S)] : Concatenates(f, m + 1, ss)
    OBVIOUS
  <2>1. PICK g \in [0..m -> Seq(S)] : Concatenates(g, m, ss)
    BY <1>2
  <2>. DEFINE last == g[m] \o ss[m + 1]
              f == [i \in 0..(m + 1) |-> IF i = m + 1 THEN last ELSE g[i]]
  <2>2. last \in Seq(S)
    <3>. g[m] \in Seq(S) /\ ss[m + 1] \in Seq(S)
      OBVIOUS
    <3>. QED OBVIOUS
  <2>3. \A i \in 1..m : g[i] = g[i - 1] \o ss[i]
    BY <2>1 DEF Concatenates
  <2>4. g[0] = <<>>
    BY <2>1 DEF Concatenates
  <2>5. ASSUME NEW i \in 1..(m + 1) PROVE f[i] = f[i - 1] \o ss[i]
    <3>1. f[i - 1] = g[i - 1]
      OBVIOUS
    <3>2. CASE i = m + 1
      <4>. f[i] = last /\ i - 1 = m
        BY <3>2
      <4>. QED BY <3>1, <3>2
    <3>3. CASE i # m + 1
      <4>. i \in 1..m /\ f[i] = g[i]
        BY <3>3
      <4>. QED BY <2>3, <3>1
    <3>. QED BY <3>2, <3>3
  <2>6. f[0] = <<>>
    BY <2>4
  <2>. HIDE DEF last
  <2>7. f \in [0..(m + 1) -> Seq(S)]
    BY <2>2
  <2>. HIDE DEF f
  <2>. QED BY <2>5, <2>6, <2>7 DEF Concatenates
<1>. HIDE DEF P
<1>3. n \in T
  <2>. 0 \in T /\ \A m \in Nat : m \in T => m + 1 \in T
    BY <1>1, <1>2
  <2>. HIDE DEF T
  <2>. QED BY Induction
<1>. QED BY <1>3 DEF P

(* FlattenSeq is the last of these concatenations.                         *)
LEMMA FlattenSeqConcatenates ==
  ASSUME NEW S, NEW ss \in Seq(Seq(S)), NEW f, Concatenates(f, Len(ss), ss)
  PROVE  FlattenSeq(ss) = f[Len(ss)]
<1>. DEFINE n == Len(ss)
            Flattens(h) == h = [i \in 1..n |-> IF i = 1 THEN ss[i] ELSE h[i - 1] \o ss[i]]
<1>0. n \in Nat /\ \A i \in 1..n : ss[i] \in Seq(S)
  OBVIOUS
<1>1. CASE n = 0
  <2>. ss = <<>> /\ FlattenSeq(ss) = ss /\ f[0] = <<>>
    BY <1>1 DEF FlattenSeq, Concatenates
  <2>. QED BY <1>1
<1>2. CASE n # 0
  <2>1. FlattenSeq(ss) = (CHOOSE h : Flattens(h))[n]
    BY <1>2 DEF FlattenSeq
  <2>2. \A i \in 1..n : f[i] = f[i - 1] \o ss[i]
    BY DEF Concatenates
  <2>. HIDE DEF n
  <2>3. f[1] = ss[1]
    <3>. 1 \in 1..n /\ 1 - 1 = 0
      BY <1>0, <1>2
    <3>. f[1] = f[0] \o ss[1] /\ f[0] = <<>> /\ ss[1] \in Seq(S)
      BY <1>0, <2>2 DEF Concatenates
    <3>. QED OBVIOUS
  <2>. DEFINE g == [i \in 1..n |-> f[i]]
  <2>4. ASSUME NEW i \in 1..n
        PROVE  f[i] = IF i = 1 THEN ss[i] ELSE g[i - 1] \o ss[i]
    <3>. i # 1 => i - 1 \in 1..n
      BY <1>0
    <3>. QED BY <2>2, <2>3
  <2>5. Flattens(g)
    BY <2>4
  <2>6. ASSUME NEW h, Flattens(h) PROVE h[n] = f[n]
    <3>. DEFINE P(k) == k + 1 <= n => h[k + 1] = f[k + 1]
                T == {k \in Nat : P(k)}
    <3>1. \A i \in 1..n : h[i] = IF i = 1 THEN ss[i] ELSE h[i - 1] \o ss[i]
      BY <2>6
    <3>2. P(0)
      <4>. 1 \in 1..n
        BY <1>0, <1>2
      <4>. QED BY <2>3, <3>1
    <3>3. ASSUME NEW k \in Nat, P(k) PROVE P(k + 1)
      <4>. SUFFICES ASSUME (k + 1) + 1 <= n PROVE h[(k + 1) + 1] = f[(k + 1) + 1]
        OBVIOUS
      <4>. DEFINE j == (k + 1) + 1
      <4>1. j \in 1..n /\ j # 1 /\ j - 1 = k + 1 /\ k + 1 <= n
        BY <1>0
      <4>2. h[j - 1] = f[j - 1]
        BY <3>3, <4>1
      <4>. HIDE DEF j
      <4>3. h[j] = f[j]
        BY <2>2, <3>1, <4>1, <4>2
      <4>. QED BY <4>3 DEF j
    <3>. HIDE DEF P
    <3>4. n - 1 \in T
      <4>. 0 \in T /\ \A k \in Nat : k \in T => k + 1 \in T
        BY <3>2, <3>3
      <4>. n - 1 \in Nat
        BY <1>0, <1>2
      <4>. HIDE DEF T
      <4>. QED BY Induction
    <3>. (n - 1) + 1 = n
      BY <1>0
    <3>. QED BY <1>0, <3>4 DEF P
  <2>. HIDE DEF Flattens
  <2>7. Flattens(CHOOSE h : Flattens(h))
    BY <2>5
  <2>. QED BY <2>1, <2>6, <2>7 DEF n
<1>. QED BY <1>1, <1>2

(* Of no sequences it is empty; of one more, it is longer by that one.     *)
LEMMA FlattenSeqSteps ==
  ASSUME NEW S, NEW ss \in Seq(Seq(S))
  PROVE  /\ \A k \in 0..Len(ss) : FlattenSeq(SubSeq(ss, 1, k)) \in Seq(S)
         /\ FlattenSeq(SubSeq(ss, 1, 0)) = <<>>
         /\ \A k \in 1..Len(ss) :
              FlattenSeq(SubSeq(ss, 1, k)) = FlattenSeq(SubSeq(ss, 1, k - 1)) \o ss[k]
         /\ FlattenSeq(SubSeq(ss, 1, Len(ss))) = FlattenSeq(ss)
<1>. DEFINE n == Len(ss)
<1>1. n \in Nat /\ ss \in [1..n -> Seq(S)] /\ SubSeq(ss, 1, n) = ss
  OBVIOUS
<1>2. PICK f \in [0..n -> Seq(S)] : Concatenates(f, n, ss)
  BY <1>1, ConcatenationExists
<1>3. ASSUME NEW k \in 0..n PROVE FlattenSeq(SubSeq(ss, 1, k)) = f[k]
  <2>. DEFINE tt == SubSeq(ss, 1, k)
  <2>1. tt \in Seq(Seq(S)) /\ Len(tt) = k /\ \A i \in 1..k : tt[i] = ss[i]
    OBVIOUS
  <2>2. Concatenates(f, k, tt)
    <3>. HIDE DEF tt, n
    <3>1. f[0] = <<>> /\ \A i \in 1..n : f[i] = f[i - 1] \o ss[i]
      BY <1>2 DEF Concatenates
    <3>2. \A i \in 1..k : i \in 1..n
      BY <1>1
    <3>. QED BY <2>1, <3>1, <3>2 DEF Concatenates
  <2>. HIDE DEF tt
  <2>3. FlattenSeq(tt) = f[k]
    BY <2>1, <2>2, FlattenSeqConcatenates
  <2>. QED BY <2>3 DEF tt
<1>4. \A k \in 1..n : k - 1 \in 0..n /\ f[k] = f[k - 1] \o ss[k]
  BY <1>1, <1>2 DEF Concatenates
<1>5. f[0] = <<>> /\ 0 \in 0..n /\ n \in 0..n /\ 1..n \subseteq 0..n
  BY <1>1, <1>2 DEF Concatenates
<1>. HIDE DEF n
<1>. QED BY <1>1, <1>2, <1>3, <1>4, <1>5 DEF n

(* The result is a sequence of the elements' elements.                     *)
LEMMA FlattenSeqType ==
  ASSUME NEW S, NEW ss \in Seq(Seq(S))
  PROVE  FlattenSeq(ss) \in Seq(S)
<1>. Len(ss) \in 0..Len(ss)
  OBVIOUS
<1>. QED BY FlattenSeqSteps

(* Of pairs, it is twice as long.                                          *)
LEMMA FlattenPairs ==
  ASSUME NEW S, NEW ss \in Seq(Seq(S)), \A i \in 1..Len(ss) : Len(ss[i]) = 2
  PROVE  Len(FlattenSeq(ss)) = 2 * Len(ss)
<1>. DEFINE n == Len(ss)
            F(k) == FlattenSeq(SubSeq(ss, 1, k))
            P(k) == k <= n => Len(F(k)) = 2 * k
            T == {k \in Nat : P(k)}
<1>0. n \in Nat /\ n \in 0..n /\ \A i \in 1..n : ss[i] \in Seq(S) /\ Len(ss[i]) = 2
  OBVIOUS
<1>1. /\ \A k \in 0..n : F(k) \in Seq(S)
      /\ F(0) = <<>> /\ F(n) = FlattenSeq(ss)
      /\ \A k \in 1..n : F(k) = F(k - 1) \o ss[k]
  BY FlattenSeqSteps
<1>. HIDE DEF n, F
<1>2. P(0)
  BY <1>1
<1>3. ASSUME NEW k \in Nat, P(k) PROVE P(k + 1)
  <2>. SUFFICES ASSUME k + 1 <= n PROVE Len(F(k + 1)) = 2 * (k + 1)
    OBVIOUS
  <2>1. k + 1 \in 1..n /\ (k + 1) - 1 = k /\ k \in 0..n /\ k <= n
    BY <1>0
  <2>2. F(k + 1) = F(k) \o ss[k + 1] /\ F(k) \in Seq(S)
    BY <1>1, <2>1
  <2>3. ss[k + 1] \in Seq(S) /\ Len(ss[k + 1]) = 2 /\ Len(F(k)) = 2 * k
    BY <1>0, <1>3, <2>1
  <2>4. \A s, u \in Seq(S) : Len(s \o u) = Len(s) + Len(u)
    OBVIOUS
  <2>5. Len(F(k) \o ss[k + 1]) = Len(F(k)) + Len(ss[k + 1])
    BY <2>2, <2>3, <2>4
  <2>6. Len(F(k + 1)) = 2 * k + 2
    BY <2>2, <2>3, <2>5
  <2>. QED BY <2>6
<1>. HIDE DEF P
<1>4. n \in T
  <2>. 0 \in T /\ \A k \in Nat : k \in T => k + 1 \in T
    BY <1>2, <1>3
  <2>. HIDE DEF T
  <2>. QED BY <1>0, Induction
<1>. QED BY <1>0, <1>1, <1>4 DEF P, n

(* An element of the sequences lies whole in the concatenation, behind     *)
(* those before it.                                                        *)
LiesIn(ss, k) ==
  LET o == Len(FlattenSeq(SubSeq(ss, 1, k - 1)))
  IN /\ o \in Nat /\ Len(FlattenSeq(SubSeq(ss, 1, k))) = o + Len(ss[k])
     /\ o + Len(ss[k]) <= Len(FlattenSeq(ss))
     /\ \A j \in 1..Len(ss[k]) : FlattenSeq(ss)[o + j] = ss[k][j]

LEMMA FlattenElements ==
  ASSUME NEW S, NEW ss \in Seq(Seq(S)), NEW k \in 1..Len(ss)
  PROVE  LiesIn(ss, k)
<1>. DEFINE F(m) == FlattenSeq(SubSeq(ss, 1, m))
            P(m) == k + m <= Len(ss) =>
                      /\ Len(F(k)) <= Len(F(k + m))
                      /\ \A j \in 1..Len(F(k)) : F(k + m)[j] = F(k)[j]
            T == {m \in Nat : P(m)}
<1>1. PICK n \in Nat : n = Len(ss)
  OBVIOUS
<1>2. /\ \A m \in 0..n : F(m) \in Seq(S)
      /\ F(n) = FlattenSeq(ss)
      /\ \A m \in 1..n : F(m) = F(m - 1) \o ss[m]
  BY <1>1, FlattenSeqSteps
<1>3. \A m \in 1..n : ss[m] \in Seq(S)
  BY <1>1
<1>. HIDE DEF F
<1>4. k \in 1..n /\ k - 1 \in 0..n /\ k \in 0..n
  BY <1>1
<1>5. P(0)
  <2>. k + 0 = k /\ Len(F(k)) \in Nat
    BY <1>2, <1>4
  <2>. QED OBVIOUS
<1>6. ASSUME NEW m \in Nat, P(m) PROVE P(m + 1)
  <2>. SUFFICES ASSUME k + (m + 1) <= n
                PROVE  /\ Len(F(k)) <= Len(F(k + (m + 1)))
                       /\ \A j \in 1..Len(F(k)) : F(k + (m + 1))[j] = F(k)[j]
    BY <1>1
  <2>1. k + (m + 1) \in 1..n /\ (k + (m + 1)) - 1 = k + m /\ k + m \in 0..n /\ k + m <= n
    BY <1>4
  <2>2. PICK s \in Seq(S), t \in Seq(S), u \in Seq(S) :
          s = F(k) /\ t = F(k + m) /\ u = ss[k + (m + 1)]
    BY <1>2, <1>3, <1>4, <2>1
  <2>3. F(k + (m + 1)) = t \o u
    BY <1>2, <2>1, <2>2
  <2>4. Len(s) <= Len(t) /\ \A j \in 1..Len(s) : t[j] = s[j]
    BY <1>1, <1>6, <2>1, <2>2
  <2>5. Len(t \o u) = Len(t) + Len(u) /\ \A j \in 1..Len(t) : (t \o u)[j] = t[j]
    BY <2>2, TwoParts
  <2>6. Len(s) \in Nat /\ Len(t) \in Nat /\ Len(u) \in Nat
    BY <2>2
  <2>7. Len(s) <= Len(t \o u) /\ \A j \in 1..Len(s) : (t \o u)[j] = s[j]
    BY <2>4, <2>5, <2>6
  <2>. QED BY <2>2, <2>3, <2>7
<1>7. n - k \in T
  <2>. HIDE DEF P
  <2>1. 0 \in T /\ \A m \in Nat : m \in T => m + 1 \in T
    BY <1>5, <1>6
  <2>. HIDE DEF T
  <2>2. n - k \in Nat
    BY <1>4
  <2>. QED BY <2>1, <2>2, Induction
<1>8. Len(F(k)) <= Len(F(n)) /\ \A j \in 1..Len(F(k)) : F(n)[j] = F(k)[j]
  <2>. P(n - k) /\ k + (n - k) = n
    BY <1>4, <1>7
  <2>. QED BY <1>1
<1>. HIDE DEF P, T
<1>9. PICK s \in Seq(S), t \in Seq(S) : s = F(k - 1) /\ t = ss[k]
  BY <1>2, <1>3, <1>4
<1>10. F(k) = s \o t
  BY <1>2, <1>4, <1>9
<1>11. PICK o \in Nat, l \in Nat : o = Len(s) /\ l = Len(t)
  OBVIOUS
<1>12. Len(s \o t) = o + l /\ \A j \in 1..l : (s \o t)[o + j] = t[j]
  BY <1>11, TwoParts
<1>13. Len(F(k)) = o + l /\ o + l <= Len(F(n))
  BY <1>8, <1>10, <1>12
<1>14. ASSUME NEW j \in 1..l PROVE F(n)[o + j] = t[j]
  <2>. o + j \in 1..Len(F(k))
    BY <1>13
  <2>. QED BY <1>8, <1>10, <1>12
<1>15. FlattenSeq(ss) = F(n)
  BY <1>2
<1>16. FlattenSeq(SubSeq(ss, 1, k)) = F(k) /\ FlattenSeq(SubSeq(ss, 1, k - 1)) = F(k - 1)
  BY DEF F
<1>. QED BY <1>9, <1>11, <1>13, <1>14, <1>15, <1>16, Zenon DEF LiesIn

(* The k-th pair is at 2k - 1 and 2k.                                      *)
PairsIn(ss) ==
  \A k \in 1..Len(ss) : FlattenSeq(ss)[2 * k - 1] = ss[k][1] /\ FlattenSeq(ss)[2 * k] = ss[k][2]

LEMMA FlattenPairElements ==
  ASSUME NEW S, NEW ss \in Seq(Seq(S)), \A i \in 1..Len(ss) : Len(ss[i]) = 2
  PROVE  PairsIn(ss)
<1>1. ASSUME NEW k \in 1..Len(ss)
      PROVE  FlattenSeq(ss)[2 * k - 1] = ss[k][1] /\ FlattenSeq(ss)[2 * k] = ss[k][2]
  <2>1. PICK t : t = SubSeq(ss, 1, k - 1)
    OBVIOUS
  <2>2. t \in Seq(Seq(S)) /\ Len(t) = k - 1 /\ \A i \in 1..Len(t) : Len(t[i]) = 2
    BY <2>1
  <2>3. Len(FlattenSeq(t)) = 2 * (k - 1)
    BY <2>2, FlattenPairs
  <2>4. LiesIn(ss, k)
    BY FlattenElements
  <2>5. \A j \in 1..2 : FlattenSeq(ss)[2 * (k - 1) + j] = ss[k][j]
    BY <2>1, <2>3, <2>4 DEF LiesIn
  <2>6. 1 \in 1..2 /\ 2 \in 1..2 /\ 2 * (k - 1) + 1 = 2 * k - 1 /\ 2 * (k - 1) + 2 = 2 * k
    OBVIOUS
  <2>. QED BY <2>5, <2>6
<1>. QED BY <1>1 DEF PairsIn

-----------------------------------------------------------------------------
(* InOrder: as many as there are, each with as many up to it as its place. *)

(* Rank counts: from 0, one more at each member, up to the cardinality.    *)
LEMMA RankSteps ==
  ASSUME NEW n \in Nat, NEW S \in SUBSET (1..n)
  PROVE  /\ IsFiniteSet(S) /\ Cardinality(S) \in Nat
         /\ \A i \in 0..n : Rank(S, i) \in 0..Cardinality(S)
         /\ Rank(S, 0) = 0 /\ Rank(S, n) = Cardinality(S)
         /\ \A i \in 1..n : Rank(S, i) = Rank(S, i - 1) + IF i \in S THEN 1 ELSE 0
<1>. DEFINE upTo(i) == {j \in S : j <= i}
<1>1. IsFiniteSet(S) /\ Cardinality(S) \in Nat
  <2>. IsFiniteSet(1..n)
    BY FS_Interval
  <2>. IsFiniteSet(S)
    BY FS_Subset
  <2>. QED BY FS_CardinalityType
<1>2. ASSUME NEW i \in 0..n
      PROVE  IsFiniteSet(upTo(i)) /\ Rank(S, i) = Cardinality(upTo(i)) /\ Rank(S, i) \in 0..Cardinality(S)
  <2>. upTo(i) \in SUBSET S
    OBVIOUS
  <2>. HIDE DEF upTo
  <2>1. IsFiniteSet(upTo(i)) /\ Cardinality(upTo(i)) <= Cardinality(S) /\ Cardinality(upTo(i)) \in Nat
    BY <1>1, FS_Subset, FS_CardinalityType
  <2>2. Rank(S, i) = Cardinality(upTo(i))
    BY DEF Rank, upTo
  <2>. QED BY <1>1, <2>1, <2>2
<1>3. upTo(0) = {} /\ upTo(n) = S
  <2>. \A j \in S : j \in Nat /\ ~(j <= 0) /\ j <= n
    OBVIOUS
  <2>. QED OBVIOUS
<1>4. ASSUME NEW i \in 1..n
      PROVE  upTo(i) = IF i \in S THEN upTo(i - 1) \cup {i} ELSE upTo(i - 1)
  <2>. \A j \in S : (j <= i <=> j <= i - 1 \/ j = i)
    OBVIOUS
  <2>. QED OBVIOUS
<1>5. \A i \in 1..n : i - 1 \in 0..n /\ i \in 0..n /\ i \notin upTo(i - 1)
  OBVIOUS
<1>6. 0 \in 0..n /\ n \in 0..n
  OBVIOUS
<1>. HIDE DEF upTo
<1>7. ASSUME NEW i \in 1..n PROVE Rank(S, i) = Rank(S, i - 1) + IF i \in S THEN 1 ELSE 0
  <2>1. CASE i \in S
    <3>1. Cardinality(upTo(i - 1) \cup {i}) = Cardinality(upTo(i - 1)) + 1
      BY <1>2, <1>5, FS_AddElement
    <3>. QED BY <1>2, <1>4, <1>5, <2>1, <3>1
  <2>2. CASE i \notin S
    <3>1. Rank(S, i) = Rank(S, i - 1) /\ Rank(S, i) \in 0..Cardinality(S)
      BY <1>2, <1>4, <1>5, <2>2
    <3>. QED BY <1>1, <2>2, <3>1
  <2>. QED BY <2>1, <2>2
<1>8. Rank(S, 0) = 0 /\ Rank(S, n) = Cardinality(S)
  BY <1>2, <1>3, <1>6, FS_EmptySet
<1>. QED BY <1>1, <1>2, <1>7, <1>8

(* Rank does not decrease, and increases up to a member.                   *)
LEMMA RankMonotonic ==
  ASSUME NEW n \in Nat, NEW S \in SUBSET (1..n), NEW i \in 0..n, NEW j \in 0..n, i <= j
  PROVE  Rank(S, i) <= Rank(S, j) /\ (i < j /\ j \in S => Rank(S, i) < Rank(S, j))
<1>. DEFINE P(k) == i + k <= n => Rank(S, i) <= Rank(S, i + k)
            T == {k \in Nat : P(k)}
<1>1. /\ \A k \in 0..n : Rank(S, k) \in Int
      /\ \A k \in 1..n : Rank(S, k) = Rank(S, k - 1) + IF k \in S THEN 1 ELSE 0
  BY RankSteps
<1>2. P(0)
  BY <1>1
<1>3. ASSUME NEW k \in Nat, P(k) PROVE P(k + 1)
  <2>. SUFFICES ASSUME i + (k + 1) <= n PROVE Rank(S, i) <= Rank(S, i + (k + 1))
    OBVIOUS
  <2>. DEFINE l == i + (k + 1)
  <2>1. l \in 1..n /\ l - 1 = i + k /\ l - 1 \in 0..n /\ l \in 0..n /\ i + k <= n
    OBVIOUS
  <2>. HIDE DEF l
  <2>2. Rank(S, i) <= Rank(S, l - 1)
    BY <1>3, <2>1
  <2>3. Rank(S, l - 1) <= Rank(S, l)
    BY <1>1, <2>1
  <2>4. Rank(S, i) <= Rank(S, l)
    BY <1>1, <2>1, <2>2, <2>3
  <2>. QED BY <2>4 DEF l
<1>. HIDE DEF P
<1>4. T = Nat
  <2>. 0 \in T /\ \A k \in Nat : k \in T => k + 1 \in T
    BY <1>2, <1>3
  <2>. T \subseteq Nat
    OBVIOUS
  <2>. HIDE DEF T
  <2>. QED BY Induction
<1>5. ASSUME NEW k \in i..n PROVE Rank(S, i) <= Rank(S, k)
  <2>. k - i \in Nat /\ i + (k - i) = k
    OBVIOUS
  <2>. P(k - i)
    BY <1>4
  <2>. QED BY DEF P
<1>6. ASSUME i < j, j \in S PROVE Rank(S, i) < Rank(S, j)
  <2>1. j \in 1..n /\ j - 1 \in i..n /\ j - 1 \in 0..n
    BY <1>6
  <2>2. Rank(S, i) <= Rank(S, j - 1) /\ Rank(S, j) = Rank(S, j - 1) + 1
    BY <1>1, <1>5, <1>6, <2>1
  <2>. QED BY <1>1, <2>1, <2>2
<1>. QED BY <1>5, <1>6

(* InOrder lists each member of a set once, at its rank.                   *)
LEMMA InOrderProperties ==
  ASSUME NEW n \in Nat, NEW S \in SUBSET (1..n)
  PROVE  /\ IsFiniteSet(S) /\ Cardinality(S) \in Nat
         /\ InOrder(S) \in [1..Cardinality(S) -> S] /\ InOrder(S) \in Seq(S)
         /\ \A k \in 1..Cardinality(S) : Rank(S, InOrder(S)[k]) = k
         /\ \A i \in S : Rank(S, i) \in 1..Cardinality(S) /\ InOrder(S)[Rank(S, i)] = i
<1>. DEFINE c == Cardinality(S)
<1>1. /\ IsFiniteSet(S) /\ c \in Nat
      /\ \A i \in 0..n : Rank(S, i) \in 0..c
      /\ Rank(S, 0) = 0 /\ Rank(S, n) = c
      /\ \A i \in 1..n : Rank(S, i) = Rank(S, i - 1) + IF i \in S THEN 1 ELSE 0
  BY RankSteps
<1>. HIDE DEF c
<1>2. ASSUME NEW k \in 1..c PROVE \E i \in S : Rank(S, i) = k
  <2>. DEFINE T == {i \in 0..n : Rank(S, i) >= k}
  <2>1. T \subseteq Nat /\ n \in T
    BY <1>1
  <2>2. PICK m \in T : \A y \in T : m <= y
    BY <2>1, LeastMember
  <2>3. m \in 1..n
    BY <1>1, <2>2
  <2>4. m - 1 \in 0..n /\ m - 1 \notin T
    BY <2>2, <2>3
  <2>5. Rank(S, m) >= k /\ ~(Rank(S, m - 1) >= k)
    BY <2>2, <2>4
  <2>6. m \in S /\ Rank(S, m) = k
    BY <1>1, <2>3, <2>4, <2>5
  <2>. QED BY <2>6
<1>3. ASSUME NEW i \in S, NEW j \in S, Rank(S, i) = Rank(S, j) PROVE i = j
  <2>1. i \in 0..n /\ j \in 0..n /\ Rank(S, i) \in Int /\ Rank(S, j) \in Int
    BY <1>1
  <2>2. i < j => Rank(S, i) < Rank(S, j)
    BY <2>1, RankMonotonic
  <2>3. j < i => Rank(S, j) < Rank(S, i)
    BY <2>1, RankMonotonic
  <2>. QED BY <1>3, <2>1, <2>2, <2>3
<1>4. ASSUME NEW k \in 1..c PROVE InOrder(S)[k] \in S /\ Rank(S, InOrder(S)[k]) = k
  <2>1. InOrder(S)[k] = CHOOSE i \in S : Rank(S, i) = k
    BY DEF InOrder, c
  <2>. QED BY <1>2, <2>1
<1>5. ASSUME NEW i \in S PROVE Rank(S, i) \in 1..c
  <2>1. i \in 1..n /\ i - 1 \in 0..n /\ i \in 0..n
    OBVIOUS
  <2>2. Rank(S, i) = Rank(S, i - 1) + 1 /\ Rank(S, i - 1) \in 0..c /\ Rank(S, i) \in 0..c
    BY <1>1, <2>1
  <2>. QED BY <1>1, <2>2
<1>6. ASSUME NEW i \in S PROVE InOrder(S)[Rank(S, i)] = i
  BY <1>3, <1>4, <1>5
<1>7. InOrder(S) \in [1..c -> S]
  <2>1. InOrder(S) = [k \in 1..c |-> CHOOSE i \in S : Rank(S, i) = k]
    BY DEF InOrder, c
  <2>. QED BY <1>4, <2>1
<1>8. InOrder(S) \in Seq(S)
  BY <1>1, <1>7
<1>. QED BY <1>1, <1>4, <1>5, <1>6, <1>7, <1>8 DEF c

-----------------------------------------------------------------------------
(* A set of naturals up to a bound has a greatest one.                     *)
LEMMA MaxMember ==
  ASSUME NEW n \in Nat, NEW S \in SUBSET (0..n), S # {}
  PROVE  Max(S) \in S /\ \A y \in S : y <= Max(S)
<1>. DEFINE T == {k \in Nat : n - k \in S}
<1>1. T \subseteq Nat /\ T # {}
  <2>1. PICK y \in S : TRUE
    OBVIOUS
  <2>2. n - y \in Nat /\ n - (n - y) = y
    BY <2>1
  <2>. QED BY <2>2
<1>2. PICK k \in T : \A l \in T : k <= l
  <2>. HIDE DEF T
  <2>. QED BY <1>1, LeastMember
<1>3. n - k \in S
  BY <1>2
<1>4. ASSUME NEW y \in S PROVE y <= n - k
  <2>1. n - y \in Nat /\ n - (n - y) = y /\ y \in Int
    OBVIOUS
  <2>2. n - y \in T
    BY <2>1
  <2>3. k <= n - y /\ k \in Int
    BY <1>2, <2>2
  <2>. QED BY <2>1, <2>3
<1>5. \E x \in S : \A y \in S : x >= y
  BY <1>3, <1>4
<1>6. Max(S) \in S /\ \A y \in S : Max(S) >= y
  BY <1>5 DEF Max
<1>7. \A x, y \in S : x >= y => y <= x
  OBVIOUS
<1>. QED BY <1>6, <1>7

(* The fixed, variable and stored columns of a row are positions of its    *)
(* columns.                                                                *)
LEMMA ColumnPositions ==
  ASSUME NEW cols, NEW value, IsRow(cols, value)
  PROVE  /\ Len(cols) \in Nat /\ DOMAIN cols = 1..Len(cols)
         /\ FixedCols(cols) \in Seq({i \in DOMAIN cols : Fixed(cols[i])})
         /\ VarCols(cols) \in Seq({i \in DOMAIN cols : ~Fixed(cols[i])})
         /\ StoredVars(cols, value) \in Seq({i \in DOMAIN cols : ~Fixed(cols[i])})
<1>. DEFINE F == {i \in DOMAIN cols : Fixed(cols[i])}
            V == {i \in DOMAIN cols : ~Fixed(cols[i])}
            some == {k \in DOMAIN VarCols(cols) : value[cols[VarCols(cols)[k]].id] # Null}
            m == IF some = {} THEN 0 ELSE Max(some)
<1>1. Len(cols) \in Nat /\ DOMAIN cols = 1..Len(cols)
  BY DEF IsRow
<1>2. F \in SUBSET (1..Len(cols)) /\ V \in SUBSET (1..Len(cols))
  BY <1>1
<1>. HIDE DEF F, V
<1>3. InOrder(F) \in Seq(F) /\ InOrder(V) \in Seq(V)
  BY <1>1, <1>2, InOrderProperties
<1>4. FixedCols(cols) \in Seq(F) /\ VarCols(cols) \in Seq(V)
  BY <1>3 DEF FixedCols, VarCols, F, V
<1>5. m \in 0..Len(VarCols(cols))
  <2>1. DOMAIN VarCols(cols) = 1..Len(VarCols(cols)) /\ Len(VarCols(cols)) \in Nat
    BY <1>4
  <2>2. some \in SUBSET (0..Len(VarCols(cols))) /\ \A k \in some : k \in 0..Len(VarCols(cols))
    BY <2>1
  <2>. HIDE DEF some
  <2>3. some # {} => Max(some) \in some
    BY <2>1, <2>2, MaxMember
  <2>4. CASE some = {}
    BY <2>1, <2>4
  <2>5. CASE some # {}
    <3>. m = Max(some)
      BY <2>5
    <3>. QED BY <2>2, <2>3, <2>5
  <2>. QED BY <2>4, <2>5
<1>6. StoredVars(cols, value) = SubSeq(VarCols(cols), 1, m)
  BY DEF StoredVars
<1>. HIDE DEF m
<1>7. SubSeq(VarCols(cols), 1, m) \in Seq(V)
  BY <1>4, <1>5
<1>. QED BY <1>1, <1>4, <1>6, <1>7 DEF F, V

(* The parts of an uncompressed row are bytes, or numbers beyond a byte    *)
(* where a table is that large.                                            *)
LEMMA PlainParts ==
  ASSUME NEW cols, NEW value, IsRow(cols, value)
  PROVE  /\ FixedPart(cols, value) \in Seq(Int)
         /\ Len(FixedPart(cols, value)) = Len(FixedCols(cols))
         /\ NullBitmap(cols, value) \in Seq(Int)
         /\ Len(NullBitmap(cols, value)) = (Len(cols) + 7) \div 8
         /\ VarBytes(cols, value) \in Seq(Seq(Int))
         /\ Len(VarBytes(cols, value)) = Len(StoredVars(cols, value))
         /\ VarEnds(cols, value) \in Seq(Seq(Int))
         /\ Len(VarEnds(cols, value)) = Len(StoredVars(cols, value))
         /\ \A k \in 1..Len(VarEnds(cols, value)) : Len(VarEnds(cols, value)[k]) = 2
<1>. DEFINE v(i) == value[cols[i].id]
            n == Len(cols)
            fixed == FixedCols(cols)
            var == StoredVars(cols, value)
<1>1. /\ n \in Nat /\ DOMAIN cols = 1..n
      /\ fixed \in Seq({i \in DOMAIN cols : Fixed(cols[i])})
      /\ var \in Seq({i \in DOMAIN cols : ~Fixed(cols[i])})
  BY ColumnPositions
<1>2. \A k \in DOMAIN fixed : fixed[k] \in DOMAIN cols /\ Fixed(cols[fixed[k]])
  BY <1>1
<1>3. \A k \in DOMAIN var : var[k] \in DOMAIN cols /\ ~Fixed(cols[var[k]])
  BY <1>1
<1>4. Len(fixed) \in Nat /\ DOMAIN fixed = 1..Len(fixed) /\ Len(var) \in Nat /\ DOMAIN var = 1..Len(var)
  BY <1>1
<1>5. \A i \in DOMAIN cols : v(i) \in StoredValues(cols[i])
  BY DEF IsRow
<1>6. ASSUME NEW k \in DOMAIN fixed PROVE (IF v(fixed[k]) = Null THEN 0 ELSE v(fixed[k])[1]) \in Int
  <2>1. v(fixed[k]) \in {Null} \cup {<<b>> : b \in 0..255}
    BY <1>2, <1>5 DEF StoredValues
  <2>. QED BY <2>1
<1>7. FixedPart(cols, value) \in Seq(Int) /\ Len(FixedPart(cols, value)) = Len(fixed)
  <2>1. FixedPart(cols, value) = [k \in DOMAIN fixed |-> IF v(fixed[k]) = Null THEN 0 ELSE v(fixed[k])[1]]
    BY DEF FixedPart
  <2>2. FixedPart(cols, value) \in [1..Len(fixed) -> Int]
    BY <1>4, <1>6, <2>1
  <2>. QED BY <1>4, <2>2
<1>8. ASSUME NEW k \in DOMAIN var PROVE InRow(v(var[k])) \in Seq(Int)
  <2>1. v(var[k]) \in {Null, Lob} \cup Seq(0..255)
    BY <1>3, <1>5 DEF StoredValues
  <2>2. ASSUME NEW s \in Seq(0..255) PROVE s \in Seq(Int)
    <3>. 0..255 \subseteq Int
      OBVIOUS
    <3>. QED BY SeqMonotonic
  <2>3. <<>> \in Seq(Int) /\ <<0, 7>> \in Seq(Int)
    OBVIOUS
  <2>. QED BY <2>1, <2>2, <2>3 DEF InRow
<1>9. VarBytes(cols, value) \in Seq(Seq(Int)) /\ Len(VarBytes(cols, value)) = Len(var)
  <2>1. VarBytes(cols, value) = [k \in DOMAIN var |-> InRow(v(var[k]))]
    BY DEF VarBytes
  <2>2. VarBytes(cols, value) \in [1..Len(var) -> Seq(Int)]
    BY <1>4, <1>8, <2>1
  <2>. QED BY <1>4, <2>2
<1>10. /\ VarEnds(cols, value) \in Seq(Seq(Int)) /\ Len(VarEnds(cols, value)) = Len(var)
       /\ \A k \in 1..Len(VarEnds(cols, value)) : Len(VarEnds(cols, value)[k]) = 2
  <2>. DEFINE base == 8 + Len(fixed) + (n + 7) \div 8 + 2 * Len(var)
              len(k) == Len(FlattenSeq(SubSeq(VarBytes(cols, value), 1, k)))
              high(k) == IF v(var[k]) = Lob THEN 128 ELSE 0
              end(k) == <<base + len(k), high(k)>>
  <2>1. base \in Int
    BY <1>1, <1>4
  <2>2. ASSUME NEW k \in DOMAIN var PROVE len(k) \in Int
    <3>1. k \in 0..Len(VarBytes(cols, value))
      BY <1>4, <1>9
    <3>2. FlattenSeq(SubSeq(VarBytes(cols, value), 1, k)) \in Seq(Int)
      BY <1>9, <3>1, FlattenSeqSteps
    <3>. QED BY <3>2
  <2>3. VarEnds(cols, value) = [k \in DOMAIN var |-> end(k)]
    BY DEF VarEnds
  <2>. HIDE DEF base, len
  <2>4. ASSUME NEW k \in DOMAIN var PROVE end(k) \in Seq(Int) /\ Len(end(k)) = 2
    <3>1. base + len(k) \in Int /\ high(k) \in Int
      BY <2>1, <2>2
    <3>. HIDE DEF high
    <3>. QED BY <3>1
  <2>. HIDE DEF end
  <2>5. VarEnds(cols, value) \in [1..Len(var) -> Seq(Int)]
    BY <1>4, <2>3, <2>4
  <2>6. VarEnds(cols, value) \in Seq(Seq(Int)) /\ Len(VarEnds(cols, value)) = Len(var)
    BY <1>4, <2>5
  <2>7. \A k \in 1..Len(var) : Len(VarEnds(cols, value)[k]) = 2
    BY <1>4, <2>3, <2>4
  <2>. QED BY <2>6, <2>7
<1>11. NullBitmap(cols, value) \in Seq(Int) /\ Len(NullBitmap(cols, value)) = (n + 7) \div 8
  <2>. DEFINE null == {i \in DOMAIN cols : v(i) = Null}
              bit(i, w) == IF i \in null THEN w ELSE 0
              byte(i) == bit(i + 1, 1) + bit(i + 2, 2) + bit(i + 3, 4) + bit(i + 4, 8)
                         + bit(i + 5, 16) + bit(i + 6, 32) + bit(i + 7, 64) + bit(i + 8, 128)
              bytes == (n + 7) \div 8
  <2>1. NullBitmap(cols, value) = [b \in 1..bytes |-> byte(8 * (b - 1))]
    BY DEF NullBitmap
  <2>2. bytes \in Nat
    BY <1>1
  <2>3. \A i : byte(i) \in Int
    OBVIOUS
  <2>. HIDE DEF byte, bytes
  <2>4. NullBitmap(cols, value) \in [1..bytes -> Int]
    BY <2>1, <2>3
  <2>5. NullBitmap(cols, value) \in Seq(Int) /\ Len(NullBitmap(cols, value)) = bytes
    BY <2>2, <2>4
  <2>. QED BY <2>5 DEF bytes
<1>. QED BY <1>7, <1>9, <1>10, <1>11

(* The variable part: nothing, or the number of entries, the entries and   *)
(* the data.                                                               *)
LEMMA PlainVarPart ==
  ASSUME NEW cols, NEW value, IsRow(cols, value)
  PROVE  /\ Len(StoredVars(cols, value)) \in Nat
         /\ VarPart(cols, value) \in Seq(Int)
         /\ Len(StoredVars(cols, value)) = 0 => VarPart(cols, value) = <<>>
         /\ Len(StoredVars(cols, value)) # 0 =>
              /\ Len(VarPart(cols, value)) >= 2 + 2 * Len(StoredVars(cols, value))
              /\ VarPart(cols, value)[1] = Len(StoredVars(cols, value))
              /\ VarPart(cols, value)[2] = 0
<1>1. PICK v, sv, E, D : v = VarPart(cols, value) /\ sv = Len(StoredVars(cols, value))
                         /\ E = FlattenSeq(VarEnds(cols, value)) /\ D = FlattenSeq(VarBytes(cols, value))
  OBVIOUS
<1>2. sv \in Nat /\ (sv = 0 <=> StoredVars(cols, value) = <<>>)
  BY <1>1, ColumnPositions
<1>3. E \in Seq(Int) /\ Len(E) = 2 * sv
  <2>1. /\ VarEnds(cols, value) \in Seq(Seq(Int)) /\ Len(VarEnds(cols, value)) = sv
        /\ \A k \in 1..Len(VarEnds(cols, value)) : Len(VarEnds(cols, value)[k]) = 2
    BY <1>1, PlainParts
  <2>2. FlattenSeq(VarEnds(cols, value)) \in Seq(Int)
    BY <2>1, FlattenSeqType
  <2>3. Len(FlattenSeq(VarEnds(cols, value))) = 2 * Len(VarEnds(cols, value))
    BY <2>1, FlattenPairs
  <2>. QED BY <1>1, <2>1, <2>2, <2>3
<1>4. D \in Seq(Int)
  <2>1. VarBytes(cols, value) \in Seq(Seq(Int))
    BY PlainParts
  <2>. QED BY <1>1, <2>1, FlattenSeqType
<1>5. PICK head : head = <<sv, 0>>
  OBVIOUS
<1>6. head \in Seq(Int) /\ Len(head) = 2 /\ head[1] = sv /\ head[2] = 0
  BY <1>2, <1>5
<1>7. v = IF sv = 0 THEN <<>> ELSE head \o E \o D
  <2>1. v = IF StoredVars(cols, value) = <<>> THEN <<>>
            ELSE <<Len(StoredVars(cols, value)), 0>> \o FlattenSeq(VarEnds(cols, value)) \o FlattenSeq(VarBytes(cols, value))
    BY <1>1 DEF VarPart
  <2>. QED BY <1>1, <1>2, <1>5, <2>1, Zenon
<1>8. PICK hed : hed = head \o E \o D
  OBVIOUS
<1>9. /\ hed \in Seq(Int) /\ Len(hed) = 2 + 2 * sv + Len(D)
      /\ \A k \in 1..2 : hed[k] = head[k]
  <2>1. /\ hed \in Seq(Int) /\ Len(hed) = Len(head) + Len(E) + Len(D)
        /\ \A k \in 1..Len(head) : hed[k] = head[k]
    <3>1. Joins(Int, head \o E \o D, head, E, D)
      <4>. head \in Seq(Int) /\ E \in Seq(Int) /\ D \in Seq(Int)
        BY <1>3, <1>4, <1>6
      <4>. QED BY ThreeParts
    <3>. QED BY <1>8, <3>1, Zenon DEF Joins
  <2>. QED BY <1>3, <1>6, <2>1
<1>10. hed[1] = sv /\ hed[2] = 0 /\ Len(hed) >= 2 + 2 * sv
  <2>. 1 \in 1..2 /\ 2 \in 1..2 /\ Len(D) \in Nat
    BY <1>4
  <2>. QED BY <1>2, <1>6, <1>9
<1>. QED
  <2>1. CASE sv = 0
    <3>. v = <<>> /\ <<>> \in Seq(Int)
      BY <1>7, <2>1
    <3>. QED BY <1>1, <1>2, <2>1
  <2>2. CASE sv # 0
    <3>. v = hed
      BY <1>7, <1>8, <2>2
    <3>. QED BY <1>1, <1>2, <1>9, <1>10, <2>2
  <2>. QED BY <2>1, <2>2

(* An uncompressed row: header, fixed columns, number of columns, bitmap,  *)
(* variable part.                                                          *)
PlainLayout(row, n, fixed, bitmap, v) ==
  LET nf == Len(fixed)
      nb == Len(bitmap)
  IN /\ row \in Seq(Int) /\ n \in Nat /\ fixed \in Seq(Int) /\ bitmap \in Seq(Int) /\ v \in Seq(Int)
     /\ Len(row) = 6 + nf + nb + Len(v)
     /\ row[3] = 4 + nf /\ row[4] = 0
     /\ \A k \in 1..nf : row[4 + k] = fixed[k]
     /\ row[5 + nf] = n /\ row[6 + nf] = 0
     /\ \A k \in 1..nb : row[6 + nf + k] = bitmap[k]
     /\ \A j \in 1..Len(v) : row[6 + nf + nb + j] = v[j]

(* An uncompressed row is its header, fixed part, column count, bitmap and *)
(* variable part.                                                          *)
LEMMA PlainRow ==
  ASSUME NEW cols, NEW value, IsRow(cols, value)
  PROVE  /\ PlainLayout(EncodePlain(cols, value), Len(cols), FixedPart(cols, value),
                        NullBitmap(cols, value), VarPart(cols, value))
         /\ Len(FixedPart(cols, value)) = Len(FixedCols(cols))
         /\ Len(NullBitmap(cols, value)) = (Len(cols) + 7) \div 8
<1>0. PICK row, n, nf, nb, v : /\ row = EncodePlain(cols, value) /\ n = Len(cols)
                               /\ nf = Len(FixedCols(cols)) /\ nb = (n + 7) \div 8 /\ v = VarPart(cols, value)
  OBVIOUS
<1>1. n \in Nat /\ nf \in Nat /\ nb \in Nat
  BY <1>0, ColumnPositions
<1>2. PICK h, f, c, b : /\ h = <<IF StoredVars(cols, value) = <<>> THEN 16 ELSE 48, 0, 4 + nf, 0>>
                        /\ f = FixedPart(cols, value) /\ c = <<n, 0>> /\ b = NullBitmap(cols, value)
  OBVIOUS
<1>3. PICK x : x = h \o f \o c
  OBVIOUS
<1>4. row = x \o b \o v
  <2>1. row = <<IF StoredVars(cols, value) = <<>> THEN 16 ELSE 48, 0, 4 + Len(FixedCols(cols)), 0>>
              \o FixedPart(cols, value) \o <<Len(cols), 0>> \o NullBitmap(cols, value) \o VarPart(cols, value)
    BY <1>0 DEF EncodePlain
  <2>. QED BY <1>0, <1>2, <1>3, <2>1, Zenon
<1>5. h \in Seq(Int) /\ Len(h) = 4 /\ h[3] = 4 + nf /\ h[4] = 0
  BY <1>1, <1>2
<1>6. c \in Seq(Int) /\ Len(c) = 2 /\ c[1] = n /\ c[2] = 0
  BY <1>1, <1>2
<1>7. f \in Seq(Int) /\ Len(f) = nf
  BY <1>0, <1>2, PlainParts, Zenon
<1>8. b \in Seq(Int) /\ Len(b) = nb
  BY <1>0, <1>2, PlainParts, Zenon
<1>9. v \in Seq(Int)
  BY <1>0, PlainVarPart, Zenon
<1>10. /\ x \in Seq(Int) /\ Len(x) = Len(h) + Len(f) + Len(c)
       /\ \A k \in 1..Len(h) : x[k] = h[k]
       /\ \A k \in 1..Len(f) : x[Len(h) + k] = f[k]
       /\ \A k \in 1..Len(c) : x[Len(h) + Len(f) + k] = c[k]
  <2>1. Joins(Int, h \o f \o c, h, f, c)
    <3>. h \in Seq(Int) /\ f \in Seq(Int) /\ c \in Seq(Int)
      BY <1>5, <1>6, <1>7
    <3>. QED BY ThreeParts
  <2>. QED BY <1>3, <2>1, Zenon DEF Joins
<1>11. /\ row \in Seq(Int) /\ Len(row) = Len(x) + Len(b) + Len(v)
       /\ \A k \in 1..Len(x) : row[k] = x[k]
       /\ \A k \in 1..Len(b) : row[Len(x) + k] = b[k]
       /\ \A k \in 1..Len(v) : row[Len(x) + Len(b) + k] = v[k]
  <2>1. Joins(Int, x \o b \o v, x, b, v)
    <3>. x \in Seq(Int) /\ b \in Seq(Int) /\ v \in Seq(Int)
      BY <1>8, <1>9, <1>10
    <3>. QED BY ThreeParts
  <2>. QED BY <1>4, <2>1, Zenon DEF Joins
<1>12. Len(x) = 6 + nf /\ Len(v) \in Nat
  BY <1>1, <1>5, <1>6, <1>7, <1>9, <1>10
<1>13. /\ Len(row) = 6 + nf + nb + Len(v)
       /\ \A k \in 1..nb : row[6 + nf + k] = b[k]
       /\ \A k \in 1..Len(v) : row[6 + nf + nb + k] = v[k]
       /\ \A k \in 1..(6 + nf) : row[k] = x[k]
  BY <1>8, <1>11, <1>12, Zenon
<1>14. /\ \A k \in 1..4 : x[k] = h[k]
       /\ \A k \in 1..nf : x[4 + k] = f[k]
       /\ \A k \in 1..2 : x[4 + nf + k] = c[k]
  BY <1>5, <1>6, <1>7, <1>10, Zenon
<1>15. 1 \in 1..2 /\ 2 \in 1..2 /\ 3 \in 1..4 /\ 4 \in 1..4
  OBVIOUS
<1>16. 3 \in 1..(6 + nf) /\ 4 \in 1..(6 + nf) /\ 5 + nf \in 1..(6 + nf) /\ 6 + nf \in 1..(6 + nf)
       /\ (4 + nf) + 1 = 5 + nf /\ (4 + nf) + 2 = 6 + nf
  BY <1>1
<1>17. row[3] = h[3] /\ row[4] = h[4]
  BY <1>13, <1>14, <1>15, <1>16
<1>18. row[5 + nf] = x[5 + nf] /\ row[6 + nf] = x[6 + nf]
  BY <1>13, <1>16
<1>19. x[5 + nf] = c[1] /\ x[6 + nf] = c[2]
  <2>. x[4 + nf + 1] = c[1] /\ x[4 + nf + 2] = c[2]
    BY <1>14, <1>15
  <2>. QED BY <1>16
<1>20. ASSUME NEW k \in 1..nf PROVE row[4 + k] = f[k]
  <2>1. 4 + k \in 1..(6 + nf)
    BY <1>1
  <2>. QED BY <1>13, <1>14, <2>1
<1>21. row[3] = 4 + nf /\ row[4] = 0 /\ row[5 + nf] = n /\ row[6 + nf] = 0
  BY <1>5, <1>6, <1>17, <1>18, <1>19
<1>22. PlainLayout(row, n, f, b, v)
  BY <1>1, <1>7, <1>8, <1>9, <1>11, <1>13, <1>20, <1>21 DEF PlainLayout
<1>. QED BY <1>0, <1>2, <1>7, <1>8, <1>22, Zenon

(* The bytes of an image, followed by zeros.                               *)
Padded(row, image) ==
  /\ row \in Seq(Int) /\ image \in Seq(Int) /\ Len(image) <= Len(row)
  /\ \A k \in 1..Len(image) : row[k] = image[k]
  /\ \A k \in 1..Len(row) : k > Len(image) => row[k] = 0

(* What DecodeRow reads of the header of a row, with zeros after it or     *)
(* without.                                                                *)
LEMMA PaddedHeader ==
  ASSUME NEW cols, NEW value, IsRow(cols, value), NEW row, Padded(row, EncodePlain(cols, value))
  PROVE  /\ Foffset(row) = 4 + Len(FixedCols(cols)) /\ NumCols(row) = Len(cols)
         /\ BitmapEnd(row) = 6 + Len(FixedCols(cols)) + (Len(cols) + 7) \div 8
         /\ NumVar(row) = Len(StoredVars(cols, value))
         /\ BitmapEnd(row) <= Len(row)
         /\ NumVar(row) # 0 => BitmapEnd(row) + 2 + 2 * NumVar(row) <= Len(row)
<1>1. PICK n, nf, nb, v, sv : /\ n = Len(cols) /\ nf = Len(FixedCols(cols)) /\ nb = (n + 7) \div 8
                              /\ v = VarPart(cols, value) /\ sv = Len(StoredVars(cols, value))
  OBVIOUS
<1>2. /\ row \in Seq(Int) /\ n \in Nat /\ nf \in Nat /\ nb \in Nat /\ v \in Seq(Int)
      /\ Len(row) >= 6 + nf + nb + Len(v)
      /\ row[3] = 4 + nf /\ row[4] = 0
      /\ row[5 + nf] = n /\ row[6 + nf] = 0
      /\ \A j \in 1..Len(v) : row[6 + nf + nb + j] = v[j]
      /\ \A k \in 1..Len(row) : k > 6 + nf + nb + Len(v) => row[k] = 0
  <2>1. PICK f, b, image : f = FixedPart(cols, value) /\ b = NullBitmap(cols, value) /\ image = EncodePlain(cols, value)
    OBVIOUS
  <2>2. PlainLayout(image, n, f, b, v) /\ Len(f) = nf /\ Len(b) = nb
    BY <1>1, <2>1, PlainRow, Zenon
  <2>3. /\ image \in Seq(Int) /\ n \in Nat /\ nf \in Nat /\ nb \in Nat /\ v \in Seq(Int)
        /\ Len(image) = 6 + nf + nb + Len(v)
        /\ image[3] = 4 + nf /\ image[4] = 0
        /\ image[5 + nf] = n /\ image[6 + nf] = 0
        /\ \A j \in 1..Len(v) : image[6 + nf + nb + j] = v[j]
    BY <2>2 DEF PlainLayout
  <2>4. Padded(row, image)
    BY <2>1, Zenon
  <2>7. /\ row \in Seq(Int) /\ Len(image) <= Len(row)
        /\ \A k \in 1..Len(image) : row[k] = image[k]
        /\ \A k \in 1..Len(row) : k > Len(image) => row[k] = 0
    BY <2>4 DEF Padded
  <2>8. PICK lv \in Nat : lv = Len(v)
    BY <2>3
  <2>9. PICK lr \in Nat : lr = Len(row)
    BY <2>7
  <2>10. Len(image) = 6 + nf + nb + lv
    BY <2>3, <2>8
  <2>5. /\ 3 \in 1..Len(image) /\ 4 \in 1..Len(image) /\ 5 + nf \in 1..Len(image) /\ 6 + nf \in 1..Len(image)
        /\ \A j \in 1..lv : 6 + nf + nb + j \in 1..Len(image)
    <3>. nf \in Nat /\ nb \in Nat
      BY <2>3
    <3>. QED BY <2>10
  <2>6. \A k \in 1..Len(row) : k > 6 + nf + nb + lv => row[k] = 0
    BY <2>7, <2>10
  <2>11. \A j \in 1..Len(v) : row[6 + nf + nb + j] = v[j]
    BY <2>3, <2>5, <2>7, <2>8
  <2>12. row[3] = 4 + nf /\ row[4] = 0 /\ row[5 + nf] = n /\ row[6 + nf] = 0
    BY <2>3, <2>5, <2>7
  <2>. QED BY <2>3, <2>6, <2>7, <2>8, <2>10, <2>11, <2>12
<1>3. Foffset(row) = 4 + nf
  BY <1>2 DEF Foffset, Uint16, Byte
<1>4. NumCols(row) = n
  <2>1. (4 + nf) + 1 = 5 + nf /\ ((4 + nf) + 1) + 1 = 6 + nf
    BY <1>2
  <2>2. NumCols(row) = row[5 + nf] + 256 * row[6 + nf]
    BY <1>3, <2>1 DEF NumCols, Uint16, Byte
  <2>. QED BY <1>2, <2>2
<1>5. BitmapEnd(row) = 6 + nf + nb
  BY <1>1, <1>2, <1>3, <1>4 DEF BitmapEnd
<1>6. PICK e : e = 6 + nf + nb
  OBVIOUS
<1>7. e \in Nat /\ (e + 1) + 1 = e + 2 /\ Len(v) \in Nat /\ Len(row) \in Nat /\ Len(row) >= e + Len(v)
  BY <1>2, <1>6
<1>8. NumVar(row) = IF e + 2 <= Len(row) THEN row[e + 1] + 256 * row[e + 2] ELSE 0
  BY <1>5, <1>6, <1>7 DEF NumVar, Uint16, Byte
<1>9. sv \in Nat /\ (sv = 0 => v = <<>>)
      /\ (sv # 0 => Len(v) >= 2 + 2 * sv /\ v[1] = sv /\ v[2] = 0)
  BY <1>1, PlainVarPart, Zenon
<1>10. NumVar(row) = sv /\ e <= Len(row) /\ (sv # 0 => e + 2 + 2 * sv <= Len(row))
  <2>1. CASE sv = 0
    <3>1. Len(v) = 0
      BY <1>9, <2>1
    <3>2. \A k \in 1..Len(row) : k > e => row[k] = 0
      BY <1>2, <1>6, <1>7, <3>1
    <3>3. e + 2 <= Len(row) => row[e + 1] = 0 /\ row[e + 2] = 0
      BY <1>7, <3>2
    <3>. QED BY <1>7, <1>8, <2>1, <3>3
  <2>2. CASE sv # 0
    <3>1. Len(v) >= 2 + 2 * sv /\ 1 \in 1..Len(v) /\ 2 \in 1..Len(v)
      BY <1>7, <1>9, <2>2
    <3>2. row[e + 1] = v[1] /\ row[e + 2] = v[2]
      BY <1>2, <1>6, <3>1
    <3>3. e + 2 <= Len(row) /\ e <= Len(row) /\ e + 2 + 2 * sv <= Len(row)
      BY <1>7, <1>9, <3>1
    <3>4. NumVar(row) = sv
      BY <1>8, <1>9, <2>2, <3>2, <3>3
    <3>. QED BY <3>3, <3>4
  <2>. QED BY <2>1, <2>2
<1>11. BitmapEnd(row) <= Len(row) /\ (NumVar(row) # 0 => BitmapEnd(row) + 2 + 2 * NumVar(row) <= Len(row))
  BY <1>5, <1>6, <1>10
<1>. QED BY <1>1, <1>3, <1>4, <1>5, <1>10, <1>11

(* What DecodeRow reads of its header.                                     *)
LEMMA PlainHeader ==
  ASSUME NEW cols, NEW value, IsRow(cols, value), NEW row, row = EncodePlain(cols, value)
  PROVE  /\ Foffset(row) = 4 + Len(FixedCols(cols)) /\ NumCols(row) = Len(cols)
         /\ BitmapEnd(row) = 6 + Len(FixedCols(cols)) + (Len(cols) + 7) \div 8
         /\ NumVar(row) = Len(StoredVars(cols, value))
         /\ BitmapEnd(row) <= Len(row)
         /\ NumVar(row) # 0 => BitmapEnd(row) + 2 + 2 * NumVar(row) <= Len(row)
<1>1. row \in Seq(Int)
  BY PlainRow DEF PlainLayout
<1>2. Padded(row, row)
  BY <1>1 DEF Padded
<1>3. Padded(row, EncodePlain(cols, value))
  BY <1>2
<1>. QED BY <1>3, PaddedHeader

-----------------------------------------------------------------------------
(* DecodeRow, column by column.                                            *)

(* A byte of the NULL bitmap: bit j of the byte of columns i + 1 to i + 8. *)
BitOf(null, i, n) == IF i \in null THEN n ELSE 0
ByteOf(null, i) ==
  BitOf(null, i + 1, 1) + BitOf(null, i + 2, 2) + BitOf(null, i + 3, 4) + BitOf(null, i + 4, 8)
  + BitOf(null, i + 5, 16) + BitOf(null, i + 6, 32) + BitOf(null, i + 7, 64) + BitOf(null, i + 8, 128)

(* Bit j of it says whether column i + j + 1 is NULL.                      *)
LEMMA BitsOf ==
  ASSUME NEW null, NEW i \in Nat, NEW j \in 0..7
  PROVE  Bit(ByteOf(null, i), j) <=> i + j + 1 \in null
<1>1. PICK c1 \in {0, 1}, c2 \in {0, 1}, c3 \in {0, 1}, c4 \in {0, 1} :
        /\ c1 = (IF i + 1 \in null THEN 1 ELSE 0) /\ c2 = (IF i + 2 \in null THEN 1 ELSE 0)
        /\ c3 = (IF i + 3 \in null THEN 1 ELSE 0) /\ c4 = (IF i + 4 \in null THEN 1 ELSE 0)
  OBVIOUS
<1>2. PICK c5 \in {0, 1}, c6 \in {0, 1}, c7 \in {0, 1}, c8 \in {0, 1} :
        /\ c5 = (IF i + 5 \in null THEN 1 ELSE 0) /\ c6 = (IF i + 6 \in null THEN 1 ELSE 0)
        /\ c7 = (IF i + 7 \in null THEN 1 ELSE 0) /\ c8 = (IF i + 8 \in null THEN 1 ELSE 0)
  OBVIOUS
<1>3. PICK b : b = c1 + 2 * c2 + 4 * c3 + 8 * c4 + 16 * c5 + 32 * c6 + 64 * c7 + 128 * c8
  OBVIOUS
<1>4. ByteOf(null, i) = b
  BY <1>1, <1>2, <1>3 DEF ByteOf, BitOf
<1>5. /\ b % 2 = c1 /\ (b \div 2) % 2 = c2 /\ (b \div 4) % 2 = c3 /\ (b \div 8) % 2 = c4
  BY <1>3
<1>6. /\ (b \div 16) % 2 = c5 /\ (b \div 32) % 2 = c6 /\ (b \div 64) % 2 = c7 /\ (b \div 128) % 2 = c8
  BY <1>3
<1>7. CASE j = 0
  <2>. Bit(b, j) <=> c1 = 1
    BY <1>3, <1>5, <1>7 DEF Bit
  <2>. QED BY <1>1, <1>4, <1>7
<1>8. CASE j = 1
  <2>. Bit(b, j) <=> c2 = 1
    BY <1>5, <1>8 DEF Bit
  <2>. QED BY <1>1, <1>4, <1>8
<1>9. CASE j = 2
  <2>. Bit(b, j) <=> c3 = 1
    BY <1>5, <1>9 DEF Bit
  <2>. QED BY <1>1, <1>4, <1>9
<1>10. CASE j = 3
  <2>. Bit(b, j) <=> c4 = 1
    BY <1>5, <1>10 DEF Bit
  <2>. QED BY <1>1, <1>4, <1>10
<1>11. CASE j = 4
  <2>. Bit(b, j) <=> c5 = 1
    BY <1>6, <1>11 DEF Bit
  <2>. QED BY <1>2, <1>4, <1>11
<1>12. CASE j = 5
  <2>. Bit(b, j) <=> c6 = 1
    BY <1>6, <1>12 DEF Bit
  <2>. QED BY <1>2, <1>4, <1>12
<1>13. CASE j = 6
  <2>. Bit(b, j) <=> c7 = 1
    BY <1>6, <1>13 DEF Bit
  <2>. QED BY <1>2, <1>4, <1>13
<1>14. CASE j = 7
  <2>. Bit(b, j) <=> c8 = 1
    BY <1>6, <1>14 DEF Bit
  <2>. QED BY <1>2, <1>4, <1>14
<1>. QED BY <1>7, <1>8, <1>9, <1>10, <1>11, <1>12, <1>13, <1>14

(* DecodeRow finds the NULLs, of any column and with zeros after the row.  *)
NullsFound(row, cols, value) ==
  \A i \in 1..Len(cols) : IsNull(row, i) <=> value[cols[i].id] = Null

LEMMA PlainNulls ==
  ASSUME NEW cols, NEW value, IsRow(cols, value), NEW row, Padded(row, EncodePlain(cols, value))
  PROVE  NullsFound(row, cols, value)
<1>1. PICK n, nf, nb, image, f, b, v :
        /\ n = Len(cols) /\ nf = Len(FixedCols(cols)) /\ nb = (n + 7) \div 8
        /\ image = EncodePlain(cols, value) /\ f = FixedPart(cols, value) /\ b = NullBitmap(cols, value)
        /\ v = VarPart(cols, value)
  OBVIOUS
<1>2. n \in Nat /\ nf \in Nat /\ nb \in Nat /\ DOMAIN cols = 1..n
  BY <1>1, ColumnPositions
<1>3. PlainLayout(image, n, f, b, v) /\ Len(f) = nf /\ Len(b) = nb
  BY <1>1, PlainRow, Zenon
<1>4. /\ Len(image) = 6 + nf + nb + Len(v) /\ Len(v) \in Nat
      /\ \A k \in 1..nb : image[6 + nf + k] = b[k]
  BY <1>3 DEF PlainLayout
<1>5. \A k \in 1..Len(image) : row[k] = image[k]
  BY <1>1 DEF Padded
<1>6. Foffset(row) = 4 + nf /\ NumCols(row) = n
  BY <1>1, PaddedHeader, Zenon
<1>7. PICK null : null = {i \in DOMAIN cols : value[cols[i].id] = Null}
  OBVIOUS
<1>8. \A k \in 1..nb : b[k] = ByteOf(null, 8 * (k - 1))
  BY <1>1, <1>7 DEF NullBitmap, ByteOf, BitOf
<1>9. ASSUME NEW i \in 1..n PROVE IsNull(row, i) <=> i \in null
  <2>1. PICK q \in Nat, r \in 0..7 : i - 1 = 8 * q + r
    <3>. (i - 1) \div 8 \in Nat /\ (i - 1) % 8 \in 0..7 /\ i - 1 = 8 * ((i - 1) \div 8) + ((i - 1) % 8)
      BY <1>2
    <3>. QED OBVIOUS
  <2>2. (i - 1) \div 8 = q /\ (i - 1) % 8 = r /\ 8 * q + r + 1 = i
    BY <2>1
  <2>3. q + 1 \in 1..nb /\ 8 * ((q + 1) - 1) = 8 * q
    <3>. nb = (n + 7) \div 8 /\ i <= n /\ n \in Nat /\ nb \in Nat
      BY <1>1, <1>2
    <3>. 8 * q + 1 <= n
      BY <2>2
    <3>. QED OBVIOUS
  <2>4. 6 + nf + (q + 1) \in 1..Len(image)
    BY <1>2, <1>4, <2>3
  <2>5. row[6 + nf + (q + 1)] = b[q + 1]
    BY <1>4, <1>5, <2>3, <2>4
  <2>6. Byte(row, Foffset(row) + 2 + q) = ByteOf(null, 8 * q)
    <3>1. (4 + nf + 2 + q) + 1 = 6 + nf + (q + 1)
      BY <1>2
    <3>. QED BY <1>6, <1>8, <2>3, <2>5, <3>1 DEF Byte
  <2>7. 8 * q \in Nat
    OBVIOUS
  <2>8. Bit(ByteOf(null, 8 * q), r) <=> i \in null
    BY <2>2, <2>7, BitsOf
  <2>9. ~(i > n)
    BY <1>2
  <2>. QED BY <1>6, <2>2, <2>6, <2>8, <2>9, Zenon DEF IsNull
<1>. QED BY <1>1, <1>2, <1>7, <1>9 DEF NullsFound

(* computeLayout counts the columns of its kind before a column, which is  *)
(* the next one of them.                                                   *)
InLayout(cols, i) ==
  LET k == computeLayout(cols, i) IN
  /\ k \in Nat
  /\ Fixed(cols[i]) => k + 1 \in 1..Len(FixedCols(cols)) /\ FixedCols(cols)[k + 1] = i
  /\ ~Fixed(cols[i]) => k + 1 \in 1..Len(VarCols(cols)) /\ VarCols(cols)[k + 1] = i

LEMMA LayoutOf ==
  ASSUME NEW cols, NEW n \in Nat, DOMAIN cols = 1..n, NEW i \in 1..n
  PROVE  InLayout(cols, i)
<1>1. PICK S \in SUBSET (1..n) : S = {j \in DOMAIN cols : Fixed(cols[j]) = Fixed(cols[i])}
  OBVIOUS
<1>2. i \in S
  BY <1>1
<1>3. computeLayout(cols, i) = Rank(S, i - 1)
  <2>1. {k \in 1..(i - 1) : Fixed(cols[k]) = Fixed(cols[i])} = {j \in S : j <= i - 1}
    BY <1>1
  <2>. QED BY <2>1 DEF computeLayout, Rank
<1>4. Rank(S, i) = Rank(S, i - 1) + 1 /\ Rank(S, i - 1) \in Nat
  <2>1. /\ \A j \in 0..n : Rank(S, j) \in 0..Cardinality(S)
        /\ \A j \in 1..n : Rank(S, j) = Rank(S, j - 1) + IF j \in S THEN 1 ELSE 0
    BY RankSteps
  <2>2. i - 1 \in 0..n
    OBVIOUS
  <2>. QED BY <1>2, <2>1, <2>2
<1>5. PICK s : s = InOrder(S)
  OBVIOUS
<1>6. /\ s \in [1..Cardinality(S) -> S] /\ Cardinality(S) \in Nat
      /\ Rank(S, i) \in 1..Cardinality(S) /\ s[Rank(S, i)] = i
  BY <1>2, <1>5, InOrderProperties, Zenon
<1>7. Len(s) = Cardinality(S)
  BY <1>6
<1>8. PICK k \in Nat : k = computeLayout(cols, i)
  BY <1>3, <1>4
<1>9. k + 1 \in 1..Len(s) /\ s[k + 1] = i
  BY <1>3, <1>4, <1>6, <1>7, <1>8
<1>10. Fixed(cols[i]) => s = FixedCols(cols)
  <2>. SUFFICES ASSUME Fixed(cols[i]) PROVE s = FixedCols(cols)
    OBVIOUS
  <2>1. S = {j \in DOMAIN cols : Fixed(cols[j])}
    BY <1>1 DEF Fixed
  <2>. QED BY <1>5, <2>1, Zenon DEF FixedCols
<1>11. ~Fixed(cols[i]) => s = VarCols(cols)
  <2>. SUFFICES ASSUME ~Fixed(cols[i]) PROVE s = VarCols(cols)
    OBVIOUS
  <2>1. S = {j \in DOMAIN cols : ~Fixed(cols[j])}
    BY <1>1 DEF Fixed
  <2>. QED BY <1>5, <2>1, Zenon DEF VarCols
<1>. QED BY <1>8, <1>9, <1>10, <1>11 DEF InLayout

(* The byte of a column of fixed length, zero for NULL.                    *)
FixedByte(row, cols, value, i) ==
  LET k == computeLayout(cols, i) IN
  /\ 5 + k <= Len(row) /\ 5 + k <= Foffset(row)
  /\ Byte(row, 4 + k) = IF value[cols[i].id] = Null THEN 0 ELSE value[cols[i].id][1]

LEMMA PlainFixed ==
  ASSUME NEW cols, NEW value, IsRow(cols, value), NEW row, Padded(row, EncodePlain(cols, value)),
         NEW i \in 1..Len(cols), Fixed(cols[i])
  PROVE  FixedByte(row, cols, value, i)
<1>1. PICK n, nf, nb, image, f, b, v :
        /\ n = Len(cols) /\ nf = Len(FixedCols(cols)) /\ nb = (n + 7) \div 8
        /\ image = EncodePlain(cols, value) /\ f = FixedPart(cols, value) /\ b = NullBitmap(cols, value)
        /\ v = VarPart(cols, value)
  OBVIOUS
<1>2. n \in Nat /\ nf \in Nat /\ nb \in Nat /\ DOMAIN cols = 1..n /\ DOMAIN FixedCols(cols) = 1..nf
  BY <1>1, ColumnPositions
<1>3. PlainLayout(image, n, f, b, v) /\ Len(f) = nf /\ Len(b) = nb
  BY <1>1, PlainRow, Zenon
<1>4. /\ Len(image) = 6 + nf + nb + Len(v) /\ Len(v) \in Nat
      /\ \A k \in 1..nf : image[4 + k] = f[k]
  BY <1>3 DEF PlainLayout
<1>5. Len(image) <= Len(row) /\ Len(row) \in Nat /\ \A k \in 1..Len(image) : row[k] = image[k]
  BY <1>1 DEF Padded
<1>6. Foffset(row) = 4 + nf
  BY <1>1, PaddedHeader, Zenon
<1>7. InLayout(cols, i)
  BY <1>1, <1>2, LayoutOf
<1>8. PICK k \in Nat : k = computeLayout(cols, i)
  BY <1>7 DEF InLayout
<1>9. k + 1 \in 1..nf /\ FixedCols(cols)[k + 1] = i
  BY <1>1, <1>7, <1>8 DEF InLayout
<1>10. f[k + 1] = IF value[cols[i].id] = Null THEN 0 ELSE value[cols[i].id][1]
  BY <1>1, <1>2, <1>9 DEF FixedPart
<1>11. 4 + (k + 1) \in 1..Len(image) /\ 5 + k <= Len(row) /\ 5 + k <= 4 + nf /\ (4 + k) + 1 = 4 + (k + 1)
  BY <1>2, <1>4, <1>5, <1>9
<1>12. Byte(row, 4 + k) = f[k + 1]
  BY <1>4, <1>5, <1>9, <1>11 DEF Byte
<1>. QED BY <1>6, <1>8, <1>10, <1>11, <1>12 DEF FixedByte

(* The variable columns that are stored are the first ones, and all that   *)
(* are not NULL.                                                           *)
StoredFirst(cols, value) ==
  LET var == StoredVars(cols, value)
      all == VarCols(cols)
  IN /\ Len(var) \in Nat /\ DOMAIN var = 1..Len(var) /\ Len(var) <= Len(all)
     /\ \A k \in 1..Len(var) : var[k] = all[k]
     /\ \A k \in 1..Len(all) : value[cols[all[k]].id] # Null => k <= Len(var)

LEMMA StoredVarsFirst ==
  ASSUME NEW cols, NEW value, IsRow(cols, value)
  PROVE  StoredFirst(cols, value)
<1>1. PICK all, n : all = VarCols(cols) /\ n = Len(all)
  OBVIOUS
<1>2. PICK V : V = {i \in DOMAIN cols : ~Fixed(cols[i])}
  OBVIOUS
<1>3. all \in Seq(V) /\ n \in Nat /\ DOMAIN all = 1..n
  <2>1. all \in Seq(V)
    BY <1>1, <1>2, ColumnPositions
  <2>. QED BY <1>1, <2>1
<1>4. PICK some : some = {k \in DOMAIN all : value[cols[all[k]].id] # Null}
  OBVIOUS
<1>5. some \in SUBSET (0..n) /\ \A k \in some : k \in 1..n
  BY <1>3, <1>4
<1>6. PICK m : m = IF some = {} THEN 0 ELSE Max(some)
  OBVIOUS
<1>7. m \in 0..n /\ \A k \in some : k <= m
  <2>1. CASE some = {}
    BY <1>3, <1>6, <2>1
  <2>2. CASE some # {}
    <3>1. Max(some) \in some /\ \A k \in some : k <= Max(some)
      BY <1>3, <1>5, <2>2, MaxMember
    <3>. QED BY <1>5, <1>6, <2>2, <3>1
  <2>. QED BY <2>1, <2>2
<1>8. StoredVars(cols, value) = SubSeq(all, 1, m)
  BY <1>1, <1>4, <1>6 DEF StoredVars
<1>9. PICK var : var = SubSeq(all, 1, m)
  OBVIOUS
<1>10. Len(var) = m /\ DOMAIN var = 1..m /\ \A k \in 1..m : var[k] = all[k]
  BY <1>3, <1>7, <1>9
<1>11. \A k \in 1..n : value[cols[all[k]].id] # Null => k <= m
  BY <1>3, <1>4, <1>7
<1>12. m \in Nat /\ m <= n
  BY <1>3, <1>7
<1>13. StoredVars(cols, value) = var
  BY <1>8, <1>9
<1>. QED BY <1>1, <1>10, <1>11, <1>12, <1>13, Zenon DEF StoredFirst

(* The variable part, read: the entry of a stored column says where its    *)
(* bytes end, and whether they are a pointer to a LOB.                     *)
Base(cols, value) ==
  8 + Len(FixedCols(cols)) + (Len(cols) + 7) \div 8 + 2 * Len(StoredVars(cols, value))
EndOf(cols, value, k) == Base(cols, value) + Len(FlattenSeq(SubSeq(VarBytes(cols, value), 1, k)))

VarRead(row, cols, value, k) ==
  LET v == value[cols[StoredVars(cols, value)[k]].id] IN
  /\ VarEntry(row, k - 1) = EndOf(cols, value, k) + 256 * IF v = Lob THEN 128 ELSE 0
  /\ Base(cols, value) \in Nat /\ EndOf(cols, value, k - 1) \in Nat
  /\ EndOf(cols, value, k - 1) >= Base(cols, value)
  /\ EndOf(cols, value, k) = EndOf(cols, value, k - 1) + Len(InRow(v))
  /\ EndOf(cols, value, k) <= Len(EncodePlain(cols, value))
  /\ \A j \in 1..Len(InRow(v)) : row[EndOf(cols, value, k - 1) + j] = InRow(v)[j]

LEMMA PlainVar ==
  ASSUME NEW cols, NEW value, IsRow(cols, value), NEW row, Padded(row, EncodePlain(cols, value)),
         NEW k \in 1..Len(StoredVars(cols, value))
  PROVE  VarRead(row, cols, value, k)
<1>1. PICK n, nf, nb, image, f, b, v, var, sv :
        /\ n = Len(cols) /\ nf = Len(FixedCols(cols)) /\ nb = (n + 7) \div 8
        /\ image = EncodePlain(cols, value) /\ f = FixedPart(cols, value) /\ b = NullBitmap(cols, value)
        /\ v = VarPart(cols, value) /\ var = StoredVars(cols, value) /\ sv = Len(var)
  OBVIOUS
<1>2. n \in Nat /\ nf \in Nat /\ nb \in Nat /\ sv \in Nat /\ DOMAIN var = 1..sv /\ k \in 1..sv
  BY <1>1, ColumnPositions
<1>3. PICK E, D, ee, dd : /\ ee = VarEnds(cols, value) /\ dd = VarBytes(cols, value)
                          /\ E = FlattenSeq(ee) /\ D = FlattenSeq(dd)
  OBVIOUS
<1>4. /\ ee \in Seq(Seq(Int)) /\ Len(ee) = sv /\ dd \in Seq(Seq(Int)) /\ Len(dd) = sv
      /\ \A i \in 1..Len(ee) : Len(ee[i]) = 2
  BY <1>1, <1>3, PlainParts, Zenon
<1>5. E \in Seq(Int) /\ Len(E) = 2 * sv /\ D \in Seq(Int)
  <2>1. FlattenSeq(ee) \in Seq(Int) /\ FlattenSeq(dd) \in Seq(Int)
    BY <1>4, FlattenSeqType
  <2>2. Len(FlattenSeq(ee)) = 2 * Len(ee)
    BY <1>4, FlattenPairs
  <2>. QED BY <1>3, <1>4, <2>1, <2>2
<1>6. E[2 * k - 1] = ee[k][1] /\ E[2 * k] = ee[k][2]
  <2>1. PairsIn(ee)
    BY <1>4, FlattenPairElements
  <2>. QED BY <1>2, <1>3, <1>4, <2>1 DEF PairsIn
<1>7. LiesIn(dd, k)
  <2>. k \in 1..Len(dd)
    BY <1>2, <1>4
  <2>. QED BY <1>4, FlattenElements
<1>8. PICK o, e : o = Len(FlattenSeq(SubSeq(dd, 1, k - 1))) /\ e = Len(FlattenSeq(SubSeq(dd, 1, k)))
  OBVIOUS
<1>9. PICK x, l : x = InRow(value[cols[var[k]].id]) /\ l = Len(x)
  OBVIOUS
<1>10. dd[k] = x
  BY <1>1, <1>2, <1>3, <1>9 DEF VarBytes
<1>11. /\ o \in Nat /\ l \in Nat /\ e = o + l /\ e <= Len(D)
       /\ \A j \in 1..l : D[o + j] = x[j]
  <2>1. l \in Nat
    BY <1>2, <1>4, <1>9, <1>10
  <2>. QED BY <1>3, <1>7, <1>8, <1>9, <1>10, <2>1, Zenon DEF LiesIn
<1>12. PICK base : base = 8 + nf + nb + 2 * sv
  OBVIOUS
<1>13. base \in Nat /\ Base(cols, value) = base
  BY <1>1, <1>2, <1>12 DEF Base
<1>14. EndOf(cols, value, k - 1) = base + o /\ EndOf(cols, value, k) = base + e
  BY <1>3, <1>8, <1>13, Zenon DEF EndOf
<1>15. PICK flag : flag = IF value[cols[var[k]].id] = Lob THEN 128 ELSE 0
  OBVIOUS
<1>16. ee[k][1] = base + e /\ ee[k][2] = flag
  <2>1. ee[k] = <<8 + Len(FixedCols(cols)) + (Len(cols) + 7) \div 8 + 2 * Len(StoredVars(cols, value))
                   + Len(FlattenSeq(SubSeq(VarBytes(cols, value), 1, k))), flag>>
    BY <1>1, <1>2, <1>3, <1>15 DEF VarEnds
  <2>2. ee[k] = <<base + e, flag>>
    BY <1>1, <1>3, <1>8, <1>12, <2>1, Zenon
  <2>. QED BY <2>2
<1>17. PICK head : head = <<sv, 0>>
  OBVIOUS
<1>18. v = head \o E \o D
  <2>1. var # <<>>
    BY <1>1, <1>2
  <2>. QED BY <1>1, <1>3, <1>17, <2>1, Zenon DEF VarPart
<1>19. head \in Seq(Int) /\ Len(head) = 2
  BY <1>2, <1>17
<1>20. /\ v \in Seq(Int) /\ Len(v) = 2 + 2 * sv + Len(D)
       /\ \A j \in 1..(2 * sv) : v[2 + j] = E[j]
       /\ \A j \in 1..Len(D) : v[2 + 2 * sv + j] = D[j]
  <2>1. Joins(Int, v, head, E, D)
    <3>. head \in Seq(Int) /\ E \in Seq(Int) /\ D \in Seq(Int)
      BY <1>5, <1>19
    <3>. QED BY <1>18, ThreeParts
  <2>. QED BY <1>5, <1>19, <2>1, Zenon DEF Joins
<1>21. PlainLayout(image, n, f, b, v) /\ Len(f) = nf /\ Len(b) = nb
  BY <1>1, PlainRow, Zenon
<1>22. /\ Len(image) = 6 + nf + nb + Len(v)
       /\ \A j \in 1..Len(v) : image[6 + nf + nb + j] = v[j]
  BY <1>21 DEF PlainLayout
<1>23. Len(image) <= Len(row) /\ Len(row) \in Nat /\ \A j \in 1..Len(image) : row[j] = image[j]
  BY <1>1 DEF Padded
<1>24. PICK ld \in Nat : ld = Len(D)
  BY <1>5
<1>25. Len(image) = base + ld /\ \A j \in 1..(2 + 2 * sv + ld) : row[6 + nf + nb + j] = v[j]
  <2>1. Len(image) = base + ld
    BY <1>2, <1>12, <1>20, <1>22, <1>24
  <2>2. \A j \in 1..(2 + 2 * sv + ld) : 6 + nf + nb + j \in 1..Len(image)
    BY <1>2, <1>12, <1>24, <2>1
  <2>. QED BY <1>20, <1>22, <1>23, <1>24, <2>1, <2>2
<1>26. BitmapEnd(row) = 6 + nf + nb
  BY <1>1, PaddedHeader, Zenon
<1>27. VarEntry(row, k - 1) = base + e + 256 * flag
  <2>1. PICK pos \in Nat : pos = 6 + nf + nb + 2 + 2 * (k - 1)
    BY <1>2
  <2>2. pos + 2 <= Len(row)
    BY <1>2, <1>12, <1>23, <1>24, <1>25, <2>1
  <2>3. /\ pos + 1 = 6 + nf + nb + (2 + (2 * k - 1)) /\ (pos + 1) + 1 = 6 + nf + nb + (2 + 2 * k)
        /\ 2 * k - 1 \in 1..(2 * sv) /\ 2 * k \in 1..(2 * sv)
        /\ 2 + (2 * k - 1) \in 1..(2 + 2 * sv + ld) /\ 2 + 2 * k \in 1..(2 + 2 * sv + ld)
    BY <1>2, <1>24, <2>1
  <2>4. row[pos + 1] = base + e /\ row[(pos + 1) + 1] = flag
    BY <1>6, <1>16, <1>20, <1>25, <2>3
  <2>5. VarEntry(row, k - 1) = Uint16(row, pos)
    BY <1>26, <2>1, <2>2 DEF VarEntry
  <2>. QED BY <2>4, <2>5 DEF Uint16, Byte
<1>28. ASSUME NEW j \in 1..l PROVE row[base + o + j] = x[j]
  <2>1. /\ base + o + j = 6 + nf + nb + (2 + 2 * sv + (o + j))
        /\ 2 + 2 * sv + (o + j) \in 1..(2 + 2 * sv + ld) /\ o + j \in 1..ld
    BY <1>2, <1>11, <1>12, <1>24
  <2>. QED BY <1>11, <1>20, <1>24, <1>25, <2>1
<1>29. base + o >= base /\ base + e = base + o + l /\ base + e <= Len(image) /\ base + o \in Nat
  BY <1>11, <1>13, <1>24, <1>25
<1>. QED BY <1>1, <1>9, <1>13, <1>14, <1>15, <1>27, <1>28, <1>29, Zenon DEF VarRead

(* Bytes are integers, and so are sequences of them.                       *)
LEMMA BytesAreInts ==
  ASSUME NEW x \in Seq(0..255)
  PROVE  x \in Seq(Int)
<1>. 0..255 \subseteq Int
  OBVIOUS
<1>. QED BY SeqMonotonic

(* Nothing flattens to nothing.                                            *)
LEMMA FlattenNone ==
  ASSUME NEW ss \in Seq(Seq(Int))
  PROVE  FlattenSeq(SubSeq(ss, 1, 0)) = <<>>
BY FlattenSeqSteps

(* A slice is what the row has there.                                      *)
LEMMA SliceIs ==
  ASSUME NEW row \in Seq(Int), NEW s \in Seq(Int), NEW from \in Nat, NEW to \in Nat,
         to = from + Len(s), to <= Len(row), \A j \in 1..Len(s) : row[from + j] = s[j]
  PROVE  Slice(row, from, to) = s
<1>1. PICK t : t = SubSeq(row, from + 1, to)
  OBVIOUS
<1>2. PICK l \in Nat : l = Len(s)
  OBVIOUS
<1>3. t = [j \in 1..l |-> row[from + j]]
  BY <1>1, <1>2
<1>4. s = [j \in 1..l |-> s[j]]
  BY <1>2
<1>5. t = s
  BY <1>2, <1>3, <1>4
<1>. QED BY <1>1, <1>5 DEF Slice

(* Where a variable column begins.                                         *)
LEMMA PlainVarStart ==
  ASSUME NEW cols, NEW value, IsRow(cols, value), NEW row, Padded(row, EncodePlain(cols, value)),
         FitsPage(EncodePlain(cols, value)), NEW k \in 1..Len(StoredVars(cols, value))
  PROVE  VarStart(row, k - 1) = EndOf(cols, value, k - 1)
<1>1. PICK sv \in Nat : sv = Len(StoredVars(cols, value))
  BY ColumnPositions
<1>2. k \in 1..sv
  BY <1>1
<1>3. CASE k = 1
  <2>1. VarStart(row, 0) = BitmapEnd(row) + 2 + 2 * NumVar(row)
    BY DEF VarStart
  <2>2. /\ NumVar(row) = Len(StoredVars(cols, value))
        /\ BitmapEnd(row) = 6 + Len(FixedCols(cols)) + (Len(cols) + 7) \div 8
    BY PaddedHeader
  <2>3. Len(FixedCols(cols)) \in Nat /\ (Len(cols) + 7) \div 8 \in Nat
    <3>. Len(cols) \in Nat /\ Len(FixedCols(cols)) \in Nat
      BY ColumnPositions
    <3>. QED OBVIOUS
  <2>4. VarStart(row, 0) = Base(cols, value)
    BY <1>1, <2>1, <2>2, <2>3 DEF Base
  <2>5. FlattenSeq(SubSeq(VarBytes(cols, value), 1, 0)) = <<>>
    <3>1. VarBytes(cols, value) \in Seq(Seq(Int))
      BY PlainParts
    <3>2. PICK ss \in Seq(Seq(Int)) : ss = VarBytes(cols, value)
      BY <3>1
    <3>3. FlattenSeq(SubSeq(ss, 1, 0)) = <<>>
      BY FlattenNone
    <3>. QED BY <3>2, <3>3
  <2>6. Base(cols, value) \in Nat
    BY <1>1, <2>3 DEF Base
  <2>7. EndOf(cols, value, 0) = Base(cols, value)
    BY <2>5, <2>6 DEF EndOf
  <2>8. k - 1 = 0
    BY <1>3
  <2>. QED BY <2>4, <2>7, <2>8
<1>4. CASE k > 1
  <2>1. PICK j \in 1..sv : k = j + 1
    BY <1>2, <1>4
  <2>2. VarRead(row, cols, value, j)
    BY <1>1, PlainVar
  <2>3. k - 1 = j /\ (k - 1) - 1 = j - 1 /\ k - 1 > 0
    BY <2>1
  <2>4. VarStart(row, k - 1) = VarEntry(row, j - 1) % 32768
    BY <2>3 DEF VarStart, VarEnd
  <2>5. PICK e, f : /\ e = EndOf(cols, value, j)
                    /\ f = IF value[cols[StoredVars(cols, value)[j]].id] = Lob THEN 128 ELSE 0
    OBVIOUS
  <2>6. VarEntry(row, j - 1) = e + 256 * f /\ e <= Len(EncodePlain(cols, value))
    BY <2>2, <2>5 DEF VarRead
  <2>7. e \in Nat
    <3>1. \A s \in Seq(Int) : Len(s) \in Nat
      OBVIOUS
    <3>2. PICK o, x : o = EndOf(cols, value, j - 1) /\ x = InRow(value[cols[StoredVars(cols, value)[j]].id])
      OBVIOUS
    <3>3. o \in Nat /\ e = o + Len(x)
      BY <2>2, <2>5, <3>2 DEF VarRead
    <3>4. x \in Seq(Int)
      <4>1. VarBytes(cols, value) \in Seq(Seq(Int)) /\ Len(VarBytes(cols, value)) = sv
        BY <1>1, PlainParts
      <4>2. VarBytes(cols, value)[j] \in Seq(Int)
        BY <4>1
      <4>3. DOMAIN StoredVars(cols, value) = 1..sv
        BY <1>1, ColumnPositions
      <4>4. VarBytes(cols, value)[j] = x
        BY <3>2, <4>3 DEF VarBytes
      <4>. QED BY <4>2, <4>4
    <3>5. Len(x) \in Nat
      BY <3>1, <3>4
    <3>. QED BY <3>3, <3>5
  <2>8. e < 32768
    <3>. EncodePlain(cols, value) \in Seq(Int)
      BY PlainRow DEF PlainLayout
    <3>. Len(EncodePlain(cols, value)) \in Nat
      OBVIOUS
    <3>. QED BY <2>6, <2>7 DEF FitsPage
  <2>9. (e + 256 * f) % 32768 = e
    <3>1. CASE f = 0
      BY <2>7, <2>8, <3>1
    <3>2. CASE f = 128
      BY <2>7, <2>8, <3>2
    <3>. QED BY <2>5, <3>1, <3>2
  <2>. QED BY <2>3, <2>4, <2>5, <2>6, <2>9
<1>. QED BY <1>2, <1>3, <1>4

(* DecodeRow reads what was written, and finds what is stored off-row.     *)
ColumnRead(row, cols, value, i) ==
  /\ IsOffRow(row, cols, i) <=> value[cols[i].id] = Lob
  /\ value[cols[i].id] # Lob => ColumnValue(row, cols, i) = value[cols[i].id]

(* ColumnValue of a fixed column that is there.                             *)
LEMMA FixedValue ==
  ASSUME NEW row, NEW cols, NEW i, ~IsNull(row, i), Fixed(cols[i]), NEW k, k = computeLayout(cols, i),
         ~(5 + k > Len(row)), ~(5 + k > Foffset(row))
  PROVE  ColumnValue(row, cols, i) = <<Byte(row, 4 + k)>>
BY Zenon DEF ColumnValue

(* The same for a variable one.                                            *)
LEMMA VarValue ==
  ASSUME NEW row, NEW cols, NEW i, ~IsNull(row, i), ~Fixed(cols[i]), NEW k, k = computeLayout(cols, i),
         ~(k >= NumVar(row)), ~(VarStart(row, k) > Len(row)), ~(VarEnd(row, k) > Len(row)),
         ~(VarStart(row, k) > VarEnd(row, k))
  PROVE  ColumnValue(row, cols, i) = Slice(row, VarStart(row, k), VarEnd(row, k))
BY Zenon DEF ColumnValue

(* So it is for every column of a row written plain, LOBs found.            *)
LEMMA PlainColumn ==
  ASSUME NEW cols, NEW value, IsRow(cols, value), NEW row, Padded(row, EncodePlain(cols, value)),
         FitsPage(EncodePlain(cols, value)), NEW i \in 1..Len(cols)
  PROVE  ColumnRead(row, cols, value, i)
<1>1. PICK v : v = value[cols[i].id]
  OBVIOUS
<1>2. Len(cols) \in Nat /\ DOMAIN cols = 1..Len(cols)
  BY ColumnPositions
<1>3. v \in StoredValues(cols[i])
  BY <1>1, <1>2 DEF IsRow
<1>4. IsNull(row, i) <=> v = Null
  BY <1>1, PlainNulls DEF NullsFound
<1>5. InLayout(cols, i)
  BY <1>2, LayoutOf
<1>6. PICK k \in Nat : k = computeLayout(cols, i)
  BY <1>5 DEF InLayout
<1>7. Null # Lob
  BY DEF Null, Lob
<1>8. CASE v = Null
  BY <1>1, <1>4, <1>7, <1>8 DEF ColumnRead, IsOffRow, ColumnValue
<1>9. CASE v # Null /\ Fixed(cols[i])
  <2>1. PICK b \in 0..255 : v = <<b>>
    BY <1>3, <1>9 DEF StoredValues
  <2>2. FixedByte(row, cols, value, i)
    BY <1>9, PlainFixed
  <2>3. Byte(row, 4 + k) = v[1] /\ 5 + k <= Len(row) /\ 5 + k <= Foffset(row)
    BY <1>1, <1>6, <1>9, <2>2 DEF FixedByte
  <2>4. ~(5 + k > Len(row)) /\ ~(5 + k > Foffset(row))
    <3>. Len(row) \in Nat /\ Foffset(row) \in Nat
      <4>1. row \in Seq(Int)
        BY DEF Padded
      <4>2. Foffset(row) = 4 + Len(FixedCols(cols)) /\ Len(FixedCols(cols)) \in Nat
        BY PaddedHeader, ColumnPositions
      <4>. QED BY <4>1, <4>2
    <3>. QED BY <2>3
  <2>5. ColumnValue(row, cols, i) = <<Byte(row, 4 + k)>>
    BY <1>4, <1>6, <1>9, <2>4, FixedValue
  <2>6. v # Lob /\ <<v[1]>> = v
    BY <2>1 DEF Lob
  <2>7. ~IsOffRow(row, cols, i)
    BY <1>9 DEF IsOffRow
  <2>. QED BY <1>1, <2>3, <2>5, <2>6, <2>7 DEF ColumnRead
<1>10. CASE v # Null /\ ~Fixed(cols[i])
  <2>1. PICK sv \in Nat : sv = Len(StoredVars(cols, value))
    BY ColumnPositions
  <2>2. k + 1 \in 1..Len(VarCols(cols)) /\ VarCols(cols)[k + 1] = i
    BY <1>5, <1>6, <1>10 DEF InLayout
  <2>3. k + 1 \in 1..sv /\ StoredVars(cols, value)[k + 1] = i
    <3>1. StoredFirst(cols, value)
      BY StoredVarsFirst
    <3>2. k + 1 <= sv
      BY <1>1, <1>10, <2>1, <2>2, <3>1 DEF StoredFirst
    <3>3. k + 1 \in 1..sv
      BY <3>2
    <3>. QED BY <2>1, <2>2, <3>1, <3>3 DEF StoredFirst
  <2>4. VarRead(row, cols, value, k + 1)
    BY <2>1, <2>3, PlainVar
  <2>5. PICK s, e, w : s = EndOf(cols, value, k) /\ e = EndOf(cols, value, k + 1) /\ w = InRow(v)
    OBVIOUS
  <2>6. (k + 1) - 1 = k
    OBVIOUS
  <2>7. /\ VarEntry(row, k) = e + 256 * IF v = Lob THEN 128 ELSE 0
        /\ s \in Nat /\ e = s + Len(w) /\ e <= Len(EncodePlain(cols, value))
        /\ \A j \in 1..Len(w) : row[s + j] = w[j]
    <3>1. PICK j : j = k + 1
      OBVIOUS
    <3>2. VarRead(row, cols, value, j) /\ j - 1 = k /\ StoredVars(cols, value)[j] = i
          /\ e = EndOf(cols, value, j)
      BY <2>3, <2>4, <2>5, <2>6, <3>1
    <3>3. value[cols[StoredVars(cols, value)[j]].id] = v
      BY <1>1, <3>2
    <3>4. PICK x, y : x = EndOf(cols, value, j - 1) /\ y = InRow(v)
      OBVIOUS
    <3>5. x = s /\ y = w
      BY <2>5, <3>2, <3>4
    <3>6. /\ VarEntry(row, j - 1) = EndOf(cols, value, j) + 256 * IF v = Lob THEN 128 ELSE 0
          /\ x \in Nat /\ EndOf(cols, value, j) = x + Len(y)
          /\ EndOf(cols, value, j) <= Len(EncodePlain(cols, value))
          /\ \A l \in 1..Len(y) : row[x + l] = y[l]
      BY <3>2, <3>3, <3>4 DEF VarRead
    <3>. QED BY <3>2, <3>5, <3>6
  <2>8. VarStart(row, k) = s
    BY <2>1, <2>3, <2>5, <2>6, PlainVarStart
  <2>9. /\ NumVar(row) = sv /\ row \in Seq(Int) /\ Len(EncodePlain(cols, value)) \in Nat
        /\ Len(EncodePlain(cols, value)) <= Len(row) /\ Len(row) \in Nat
    <3>1. NumVar(row) = sv
      BY <2>1, PaddedHeader
    <3>2. row \in Seq(Int) /\ EncodePlain(cols, value) \in Seq(Int) /\ Len(EncodePlain(cols, value)) <= Len(row)
      BY DEF Padded
    <3>. QED BY <3>1, <3>2
  <2>10. v \in {Lob} \cup Seq(0..255)
    BY <1>3, <1>10 DEF StoredValues
  <2>11. w \in Seq(Int) /\ Len(w) \in Nat /\ (v # Lob => w = v)
    <3>1. <<0, 7>> \in Seq(Int)
      OBVIOUS
    <3>2. \A x \in Seq(0..255) : x \in Seq(Int)
      BY BytesAreInts
    <3>3. w \in Seq(Int) /\ (v # Lob => w = v)
      BY <1>10, <2>5, <2>10, <3>1, <3>2 DEF InRow
    <3>. QED BY <3>3
  <2>12. e \in Nat /\ e < 32768 /\ e <= Len(row) /\ s <= e
    BY <2>7, <2>9, <2>11 DEF FitsPage
  <2>13. CASE v = Lob
    <3>1. VarEntry(row, k) >= 2 ^ 15
      BY <2>7, <2>12, <2>13
    <3>2. k < sv
      BY <2>3
    <3>. QED BY <1>1, <1>4, <1>6, <1>10, <2>9, <2>13, <3>1, <3>2 DEF ColumnRead, IsOffRow, OffRow
  <2>14. CASE v # Lob
    <3>1. VarEntry(row, k) = e
      BY <2>7, <2>12, <2>14
    <3>2. ~(VarEntry(row, k) >= 2 ^ 15) /\ VarEntry(row, k) % 2 ^ 15 = e
      BY <2>12, <3>1
    <3>3. ~OffRow(row, k) /\ VarEnd(row, k) = e
      BY <3>2 DEF OffRow, VarEnd
    <3>4. Slice(row, s, e) = w
      <4>. /\ row \in Seq(Int) /\ w \in Seq(Int) /\ s \in Nat /\ e \in Nat
           /\ e = s + Len(w) /\ e <= Len(row) /\ \A j \in 1..Len(w) : row[s + j] = w[j]
        BY <2>7, <2>9, <2>11, <2>12
      <4>. QED BY SliceIs
    <3>5. ~(k >= NumVar(row)) /\ ~(VarStart(row, k) > Len(row)) /\ ~(VarEnd(row, k) > Len(row))
          /\ ~(VarStart(row, k) > VarEnd(row, k))
      BY <2>3, <2>7, <2>8, <2>9, <2>12, <3>3
    <3>6. ColumnValue(row, cols, i) = Slice(row, VarStart(row, k), VarEnd(row, k))
      BY <1>4, <1>6, <1>10, <3>5, VarValue
    <3>7. ColumnValue(row, cols, i) = v
      BY <2>8, <2>11, <2>14, <3>3, <3>4, <3>6
    <3>8. ~IsOffRow(row, cols, i)
      BY <1>6, <3>3 DEF IsOffRow
    <3>. QED BY <1>1, <2>14, <3>7, <3>8 DEF ColumnRead
  <2>. QED BY <2>13, <2>14
<1>. QED BY <1>8, <1>9, <1>10

(* The decoder's columns are of the row's kinds, as far as both go.        *)
SameKinds(dcols, cols) ==
  /\ Len(dcols) \in Nat /\ DOMAIN dcols = 1..Len(dcols)
  /\ \A i \in 1..Len(cols) : i <= Len(dcols) => Fixed(dcols[i]) = Fixed(cols[i])

(* Then it reads these columns as if they were the row's.                  *)
ReadAlike(row, dcols, cols, i) ==
  /\ IsOffRow(row, dcols, i) <=> IsOffRow(row, cols, i)
  /\ ColumnValue(row, dcols, i) = ColumnValue(row, cols, i)

LEMMA SameColumn ==
  ASSUME NEW row, NEW dcols, NEW cols, SameKinds(dcols, cols), Len(cols) \in Nat,
         NEW i \in 1..Len(cols), i <= Len(dcols)
  PROVE  ReadAlike(row, dcols, cols, i)
<1>1. \A k \in 1..i : Fixed(dcols[k]) = Fixed(cols[k])
  BY DEF SameKinds
<1>2. i \in 1..i /\ \A k \in 1..(i - 1) : k \in 1..i
  OBVIOUS
<1>3. {k \in 1..(i - 1) : Fixed(dcols[k]) = Fixed(dcols[i])}
      = {k \in 1..(i - 1) : Fixed(cols[k]) = Fixed(cols[i])}
  BY <1>1, <1>2
<1>4. computeLayout(dcols, i) = computeLayout(cols, i)
  BY <1>3 DEF computeLayout
<1>5. Fixed(dcols[i]) = Fixed(cols[i])
  BY <1>1, <1>2
<1>6. IsOffRow(row, dcols, i) <=> IsOffRow(row, cols, i)
  BY <1>4, <1>5 DEF IsOffRow
<1>7. ColumnValue(row, dcols, i) = ColumnValue(row, cols, i)
  BY <1>4, <1>5, Zenon DEF ColumnValue
<1>. QED BY <1>6, <1>7 DEF ReadAlike

(* What it takes for NULL, is NULL.                                        *)
LEMMA NullValue ==
  ASSUME NEW row, NEW cols, NEW i, IsNull(row, i)
  PROVE  ColumnValue(row, cols, i) = Null
BY DEF ColumnValue

(* What DecodeRow makes of a row, with zeros after it or without.          *)
PlainDecoded(res, cols, value, dcols) ==
  IF Len(cols) > Len(dcols) \/ (Len(cols) = Len(dcols) /\ HasGaps(dcols))
  THEN res = Refused("SchemaMismatch")
  ELSE IF \E i \in 1..Len(cols) : value[cols[i].id] = Lob THEN res = Refused("OffRowLOB")
  ELSE res = Accepted([i \in DOMAIN dcols |-> IF i <= Len(cols) THEN value[cols[i].id] ELSE Null])

LEMMA PlainDecode ==
  ASSUME NEW cols, NEW value, IsRow(cols, value), NEW row, Padded(row, EncodePlain(cols, value)),
         FitsPage(EncodePlain(cols, value)), NEW dcols, SameKinds(dcols, cols)
  PROVE  PlainDecoded(DecodeRow(row, dcols), cols, value, dcols)
<1>1. Len(cols) \in Nat /\ Len(dcols) \in Nat /\ DOMAIN dcols = 1..Len(dcols)
  BY ColumnPositions DEF SameKinds
<1>2. PICK n \in Nat : n = Len(cols)
  BY <1>1
<1>3. Len(dcols) \in Nat
  BY <1>1
<1>4. PICK m \in Nat : m = Len(dcols)
  BY <1>3
<1>5. n = Len(cols) /\ m = Len(dcols)
  BY <1>2, <1>4
<1>6. Len(FixedCols(cols)) \in Nat
  BY ColumnPositions
<1>7. PICK nf \in Nat : nf = Len(FixedCols(cols))
  BY <1>6
<1>8. /\ Foffset(row) = 4 + nf /\ NumCols(row) = n
      /\ BitmapEnd(row) = 6 + nf + (n + 7) \div 8 /\ BitmapEnd(row) <= Len(row)
  BY <1>5, <1>7, PaddedHeader
<1>9. Len(row) \in Nat
  BY DEF Padded
<1>10. /\ ~(Len(row) < 4) /\ ~(Foffset(row) < 4) /\ ~(Foffset(row) > Len(row))
      /\ ~(Foffset(row) + 2 > Len(row)) /\ ~(BitmapEnd(row) > Len(row))
  <2>. (n + 7) \div 8 \in Nat
    OBVIOUS
  <2>. QED BY <1>8, <1>9
<1>11. CASE n > m \/ (n = m /\ HasGaps(dcols))
  <2>1. DecodeRow(row, dcols) = Refused("SchemaMismatch")
    BY <1>5, <1>8, <1>10, <1>11 DEF DecodeRow
  <2>. QED BY <1>5, <1>11, <2>1 DEF PlainDecoded
<1>12. CASE ~(n > m \/ (n = m /\ HasGaps(dcols)))
  <2>0. ~(n > m)
    BY <1>12
  <2>1. DOMAIN dcols = 1..m /\ n <= m
    BY <1>1, <1>5, <2>0
  <2>2. ASSUME NEW i \in 1..n
        PROVE  /\ IsOffRow(row, dcols, i) <=> value[cols[i].id] = Lob
               /\ value[cols[i].id] # Lob => ColumnValue(row, dcols, i) = value[cols[i].id]
    <3>1. ColumnRead(row, cols, value, i)
      BY <1>5, PlainColumn
    <3>2. ReadAlike(row, dcols, cols, i)
      <4>. i \in 1..Len(cols) /\ i <= Len(dcols) /\ Len(cols) \in Nat
        BY <1>5, <2>1
      <4>. QED BY SameColumn
    <3>. QED BY <3>1, <3>2 DEF ColumnRead, ReadAlike
  <2>3. ASSUME NEW i \in 1..m, i > n
        PROVE  ~IsOffRow(row, dcols, i) /\ ColumnValue(row, dcols, i) = Null
    <3>1. IsNull(row, i)
      BY <1>8, <2>3 DEF IsNull
    <3>2. ~IsOffRow(row, dcols, i)
      BY <3>1 DEF IsOffRow
    <3>. QED BY <3>1, <3>2, NullValue
  <2>4. \A i \in 1..m : i <= n => i \in 1..n
    BY <2>1
  <2>5. \A i \in 1..n : i \in 1..m
    BY <2>1
  <2>6. (\E i \in DOMAIN dcols : IsOffRow(row, dcols, i)) <=> \E i \in 1..n : value[cols[i].id] = Lob
    BY <2>1, <2>2, <2>3, <2>4, <2>5
  <2>7. CASE \E i \in 1..n : value[cols[i].id] = Lob
    <3>1. DecodeRow(row, dcols) = Refused("OffRowLOB")
      BY <1>5, <1>8, <1>10, <1>12, <2>6, <2>7 DEF DecodeRow
    <3>. QED BY <1>5, <1>12, <2>7, <3>1 DEF PlainDecoded
  <2>8. CASE ~\E i \in 1..n : value[cols[i].id] = Lob
    <3>1. DecodeRow(row, dcols) = Accepted([i \in DOMAIN dcols |-> ColumnValue(row, dcols, i)])
      BY <1>5, <1>8, <1>10, <1>12, <2>6, <2>8 DEF DecodeRow
    <3>2. \A i \in DOMAIN dcols : ColumnValue(row, dcols, i) = IF i <= n THEN value[cols[i].id] ELSE Null
      <4>. \A i \in 1..m : ~(i <= n) => i > n
        OBVIOUS
      <4>. QED BY <2>1, <2>2, <2>3, <2>4, <2>8
    <3>3. [i \in DOMAIN dcols |-> ColumnValue(row, dcols, i)]
          = [i \in DOMAIN dcols |-> IF i <= n THEN value[cols[i].id] ELSE Null]
      BY <3>2
    <3>4. DecodeRow(row, dcols) = Accepted([i \in DOMAIN dcols |-> IF i <= n THEN value[cols[i].id] ELSE Null])
      BY <3>1, <3>3
    <3>. QED BY <1>5, <1>12, <2>8, <3>4 DEF PlainDecoded
  <2>. QED BY <2>7, <2>8
<1>. QED BY <1>11, <1>12

-----------------------------------------------------------------------------
(* A compressed row.                                                       *)

(* The parts of a compressed row are bytes, and of these lengths.          *)
LEMMA CompressedParts ==
  ASSUME NEW cols, NEW value, IsRow(cols, value)
  PROVE  /\ Nibbles(cols, value) \in Seq(Int)
         /\ Len(Nibbles(cols, value)) = (Len(cols) + 1) \div 2
         /\ ShortPart(cols, value) \in Seq(Seq(Int)) /\ Len(ShortPart(cols, value)) = Len(cols)
         /\ TailPart(cols, value) \in Seq(Int)
<1>. DEFINE v(i) == value[cols[i].id]
            n == Len(cols)
<1>1. n \in Nat /\ DOMAIN cols = 1..n
  BY DEF IsRow
<1>2. ASSUME NEW i \in DOMAIN cols PROVE v(i) \in {Null, Lob} \cup Seq(0..255)
  <2>1. v(i) \in StoredValues(cols[i])
    BY DEF IsRow
  <2>2. \A b \in 0..255 : <<b>> \in Seq(0..255)
    OBVIOUS
  <2>. QED BY <2>1, <2>2 DEF StoredValues
<1>3. ASSUME NEW s \in Seq(0..255) PROVE s \in Seq(Int) /\ Len(s) \in Nat
  <2>. 0..255 \subseteq Int
    OBVIOUS
  <2>1. s \in Seq(Int)
    BY SeqMonotonic
  <2>. QED BY <2>1
<1>4. ASSUME NEW i \in DOMAIN cols PROVE Nibble(v(i)) \in Int
  <2>. HIDE DEF v
  <2>. QED BY <1>2, <1>3 DEF Nibble, Long
<1>5. Nibbles(cols, value) \in Seq(Int) /\ Len(Nibbles(cols, value)) = (n + 1) \div 2
  <2>. DEFINE nibble(i) == IF i > n THEN 0 ELSE Nibble(v(i))
              byte(k) == nibble(2 * k - 1) + 16 * nibble(2 * k)
              m == (n + 1) \div 2
  <2>1. Nibbles(cols, value) = [k \in 1..m |-> byte(k)]
    BY DEF Nibbles
  <2>2. ASSUME NEW i \in Nat \ {0} PROVE nibble(i) \in Int
    BY <1>1, <1>4
  <2>. HIDE DEF nibble
  <2>3. m \in Nat
    BY <1>1
  <2>4. ASSUME NEW k \in 1..m PROVE byte(k) \in Int
    <3>. 2 * k - 1 \in Nat \ {0} /\ 2 * k \in Nat \ {0}
      BY <2>3
    <3>. nibble(2 * k - 1) \in Int /\ nibble(2 * k) \in Int
      BY <2>2
    <3>. QED OBVIOUS
  <2>. HIDE DEF byte, m
  <2>5. Nibbles(cols, value) \in [1..m -> Int]
    BY <2>1, <2>4
  <2>6. Nibbles(cols, value) \in Seq(Int) /\ Len(Nibbles(cols, value)) = m
    BY <2>3, <2>5
  <2>. QED BY <2>6 DEF m
<1>6. ShortPart(cols, value) \in Seq(Seq(Int)) /\ Len(ShortPart(cols, value)) = n
  <2>. DEFINE short(i) == IF v(i) = Null \/ Long(v(i)) \/ v(i) = <<0>> THEN <<>> ELSE v(i)
  <2>1. ShortPart(cols, value) = [i \in 1..n |-> short(i)]
    BY <1>1 DEF ShortPart
  <2>2. ASSUME NEW i \in 1..n PROVE short(i) \in Seq(Int)
    <3>1. v(i) \in {Null, Lob} \cup Seq(0..255) /\ <<>> \in Seq(Int)
      BY <1>1, <1>2
    <3>2. v(i) = Lob => Long(v(i)) \/ v(i) = Null
      BY DEF Long
    <3>. HIDE DEF v
    <3>. QED BY <1>3, <3>1, <3>2
  <2>. HIDE DEF short
  <2>3. ShortPart(cols, value) \in [1..n -> Seq(Int)]
    BY <2>1, <2>2
  <2>. QED BY <1>1, <2>3
<1>7. TailPart(cols, value) \in Seq(Int)
  <2>. DEFINE tail == LongCols(cols, value)
              bytes == [k \in DOMAIN tail |-> InRow(v(tail[k]))]
              ends == [k \in DOMAIN tail |-> <<0, Len(FlattenSeq(SubSeq(bytes, 1, k)))>>]
              head == <<1, Len(tail)>>
              longs == {i \in DOMAIN cols : Long(v(i))}
  <2>1. TailPart(cols, value) = IF tail = <<>> THEN <<>> ELSE head \o FlattenSeq(ends) \o <<0>> \o FlattenSeq(bytes)
    BY DEF TailPart
  <2>2. tail \in Seq(longs)
    <3>. longs \in SUBSET (1..n)
      BY <1>1
    <3>. HIDE DEF longs
    <3>1. InOrder(longs) \in Seq(longs)
      BY <1>1, InOrderProperties
    <3>. QED BY <3>1 DEF LongCols, longs
  <2>3. Len(tail) \in Nat /\ DOMAIN tail = 1..Len(tail) /\ \A k \in DOMAIN tail : tail[k] \in DOMAIN cols
    BY <2>2
  <2>4. ASSUME NEW i \in DOMAIN cols PROVE InRow(v(i)) \in Seq(Int)
    <3>1. v(i) \in {Null, Lob} \cup Seq(0..255)
      BY <1>2
    <3>2. <<>> \in Seq(Int) /\ <<0, 7>> \in Seq(Int)
      OBVIOUS
    <3>. HIDE DEF v
    <3>. QED BY <1>3, <3>1, <3>2 DEF InRow
  <2>. HIDE DEF tail
  <2>5. bytes \in Seq(Seq(Int)) /\ Len(bytes) = Len(tail)
    <3>1. bytes \in [1..Len(tail) -> Seq(Int)]
      BY <2>3, <2>4
    <3>. QED BY <2>3, <3>1
  <2>. HIDE DEF bytes
  <2>6. ASSUME NEW k \in DOMAIN tail PROVE <<0, Len(FlattenSeq(SubSeq(bytes, 1, k)))>> \in Seq(Int)
    <3>1. k \in 0..Len(bytes)
      BY <2>3, <2>5
    <3>2. FlattenSeq(SubSeq(bytes, 1, k)) \in Seq(Int)
      BY <2>5, <3>1, FlattenSeqSteps
    <3>3. Len(FlattenSeq(SubSeq(bytes, 1, k))) \in Int
      BY <3>2
    <3>. QED BY <3>3
  <2>7. ends \in Seq(Seq(Int))
    <3>1. ends \in [1..Len(tail) -> Seq(Int)]
      BY <2>3, <2>6
    <3>. QED BY <2>3, <3>1
  <2>8. FlattenSeq(ends) \in Seq(Int) /\ FlattenSeq(bytes) \in Seq(Int)
    BY <2>5, <2>7, FlattenSeqType
  <2>9. head \in Seq(Int) /\ <<0>> \in Seq(Int) /\ <<>> \in Seq(Int)
    BY <2>3
  <2>. HIDE DEF head, ends
  <2>10. head \o FlattenSeq(ends) \o <<0>> \o FlattenSeq(bytes) \in Seq(Int)
    BY <2>8, <2>9
  <2>. QED BY <2>1, <2>9, <2>10
<1>. QED BY <1>5, <1>6, <1>7

(* A compressed row is bytes, of which PayloadStart lies within.           *)
LEMMA CompressedRow ==
  ASSUME NEW cols, NEW value, IsRow(cols, value)
  PROVE  /\ EncodeCompressed(cols, value) \in Seq(Int)
         /\ PayloadStart(Len(cols)) \in 1..Len(EncodeCompressed(cols, value))
<1>1. PICK h, b, s, t : /\ h = <<33, Len(cols)>> /\ b = Nibbles(cols, value)
                        /\ s = FlattenSeq(ShortPart(cols, value)) /\ t = TailPart(cols, value)
  OBVIOUS
<1>2. Len(cols) \in Nat
  BY DEF IsRow
<1>3. h \in Seq(Int) /\ Len(h) = 2
  BY <1>1, <1>2
<1>4. b \in Seq(Int) /\ Len(b) = (Len(cols) + 1) \div 2
  BY <1>1, CompressedParts, Zenon
<1>5. s \in Seq(Int)
  <2>. ShortPart(cols, value) \in Seq(Seq(Int))
    BY CompressedParts
  <2>. QED BY <1>1, FlattenSeqType
<1>6. t \in Seq(Int)
  BY <1>1, CompressedParts, Zenon
<1>7. PICK x : x = h \o b \o s
  OBVIOUS
<1>8. EncodeCompressed(cols, value) = x \o t
  BY <1>1, <1>7, Zenon DEF EncodeCompressed
<1>9. x \in Seq(Int) /\ Len(x) = Len(h) + Len(b) + Len(s)
  <2>1. Joins(Int, h \o b \o s, h, b, s)
    <3>. h \in Seq(Int) /\ b \in Seq(Int) /\ s \in Seq(Int)
      BY <1>3, <1>4, <1>5
    <3>. QED BY ThreeParts
  <2>. QED BY <1>7, <2>1, Zenon DEF Joins
<1>10. x \o t \in Seq(Int) /\ Len(x \o t) = Len(x) + Len(t)
  BY <1>6, <1>9
<1>11. PICK lb, ls, lt : lb = Len(b) /\ ls = Len(s) /\ lt = Len(t)
  OBVIOUS
<1>12. lb \in Nat /\ ls \in Nat /\ lt \in Nat /\ lb = (Len(cols) + 1) \div 2
  BY <1>4, <1>5, <1>6, <1>11
<1>13. Len(EncodeCompressed(cols, value)) = 2 + lb + ls + lt
  BY <1>3, <1>8, <1>9, <1>10, <1>11
<1>14. PayloadStart(Len(cols)) = 2 + lb
  BY <1>12 DEF PayloadStart
<1>. QED BY <1>8, <1>10, <1>12, <1>13, <1>14

(* A compressed row: header, nibbles, short values, tail.                  *)
CompressedLayout(row, cols, value) ==
  LET m == (Len(cols) + 1) \div 2
      s == FlattenSeq(ShortPart(cols, value))
      t == TailPart(cols, value)
  IN /\ row \in Seq(Int) /\ Len(row) = 2 + m + Len(s) + Len(t)
     /\ row[1] = 33
     /\ \A k \in 1..m : row[2 + k] = Nibbles(cols, value)[k]
     /\ \A j \in 1..Len(s) : row[2 + m + j] = s[j]
     /\ \A j \in 1..Len(t) : row[2 + m + Len(s) + j] = t[j]

(* EncodeCompressed writes such rows.                                      *)
LEMMA CompressedRowLayout ==
  ASSUME NEW cols, NEW value, IsRow(cols, value)
  PROVE  CompressedLayout(EncodeCompressed(cols, value), cols, value)
<1>1. PICK h, b, s, t, m : /\ h = <<33, Len(cols)>> /\ b = Nibbles(cols, value)
                        /\ s = FlattenSeq(ShortPart(cols, value)) /\ t = TailPart(cols, value)
                        /\ m = (Len(cols) + 1) \div 2
  OBVIOUS
<1>2. Len(cols) \in Nat
  BY DEF IsRow
<1>3. h \in Seq(Int) /\ Len(h) = 2 /\ h[1] = 33
  BY <1>1, <1>2
<1>4. b \in Seq(Int) /\ Len(b) = m /\ m \in Nat
  <2>1. b \in Seq(Int) /\ Len(b) = m
    BY <1>1, CompressedParts, Zenon
  <2>. QED BY <2>1
<1>5. s \in Seq(Int)
  <2>. ShortPart(cols, value) \in Seq(Seq(Int))
    BY CompressedParts
  <2>. QED BY <1>1, FlattenSeqType
<1>6. t \in Seq(Int)
  BY <1>1, CompressedParts, Zenon
<1>7. PICK x, row : x = h \o b \o s /\ row = EncodeCompressed(cols, value)
  OBVIOUS
<1>8. row = x \o t
  BY <1>1, <1>7, Zenon DEF EncodeCompressed
<1>9. /\ x \in Seq(Int) /\ Len(x) = 2 + m + Len(s)
      /\ \A k \in 1..2 : x[k] = h[k]
      /\ \A k \in 1..m : x[2 + k] = b[k]
      /\ \A k \in 1..Len(s) : x[2 + m + k] = s[k]
  <2>1. Joins(Int, h \o b \o s, h, b, s)
    <3>. h \in Seq(Int) /\ b \in Seq(Int) /\ s \in Seq(Int)
      BY <1>3, <1>4, <1>5
    <3>. QED BY ThreeParts
  <2>2. Joins(Int, x, h, b, s)
    BY <1>7, <2>1, Zenon
  <2>. QED BY <1>3, <1>4, <2>2 DEF Joins
<1>10. PICK ls \in Nat : ls = Len(s)
  BY <1>5
<1>11. /\ row \in Seq(Int) /\ Len(row) = Len(x) + Len(t)
       /\ \A k \in 1..Len(x) : row[k] = x[k]
       /\ \A j \in 1..Len(t) : row[Len(x) + j] = t[j]
  <2>1. PICK p \in Seq(Int), q \in Seq(Int) : p = x /\ q = t
    BY <1>6, <1>9
  <2>2. /\ p \o q \in Seq(Int) /\ Len(p \o q) = Len(p) + Len(q)
        /\ \A k \in 1..Len(p) : (p \o q)[k] = p[k]
        /\ \A j \in 1..Len(q) : (p \o q)[Len(p) + j] = q[j]
    BY TwoParts
  <2>. QED BY <1>8, <2>1, <2>2, Zenon
<1>12. /\ Len(x) = 2 + m + ls /\ 1 \in 1..2
       /\ 1 \in 1..Len(x) /\ \A k \in 1..m : 2 + k \in 1..Len(x)
       /\ \A j \in 1..ls : 2 + m + j \in 1..Len(x)
  BY <1>4, <1>9, <1>10
<1>13. /\ Len(row) = 2 + m + ls + Len(t) /\ row[1] = 33
       /\ \A k \in 1..m : row[2 + k] = b[k]
       /\ \A j \in 1..ls : row[2 + m + j] = s[j]
       /\ \A j \in 1..Len(t) : row[2 + m + ls + j] = t[j]
  BY <1>3, <1>9, <1>10, <1>11, <1>12
<1>. QED BY <1>1, <1>7, <1>10, <1>11, <1>13, Zenon DEF CompressedLayout

(* The descriptor of a column: none for one added behind the row's.        *)
NibbleOf(cols, value, i) == IF i > Len(cols) THEN 0 ELSE Nibble(value[cols[i].id])

(* A descriptor is NULL, zero, a length or a long value.                   *)
LEMMA NibbleRange ==
  ASSUME NEW cols, NEW value, IsRow(cols, value), NEW i \in Nat \ {0}
  PROVE  NibbleOf(cols, value, i) \in 0..10
<1>1. PICK v : v = value[cols[i].id]
  OBVIOUS
<1>2. Len(cols) \in Nat /\ DOMAIN cols = 1..Len(cols)
  BY ColumnPositions
<1>3. CASE i > Len(cols)
  BY <1>3 DEF NibbleOf
<1>4. CASE ~(i > Len(cols))
  <2>1. v \in StoredValues(cols[i])
    <3>. i \in 1..Len(cols)
      BY <1>2, <1>4
    <3>. QED BY <1>1, <1>2 DEF IsRow
  <2>2. NibbleOf(cols, value, i) = Nibble(v)
    BY <1>1, <1>4 DEF NibbleOf
  <2>3. v = Null \/ v = Lob \/ v \in Seq(0..255)
    <3>. \A b \in 0..255 : <<b>> \in Seq(0..255)
      OBVIOUS
    <3>. QED BY <2>1 DEF StoredValues
  <2>4. CASE v = Null \/ v = Lob
    BY <2>2, <2>4 DEF Nibble, Long
  <2>5. CASE v \in Seq(0..255)
    <3>. Len(v) \in Nat
      BY <2>5
    <3>. QED BY <2>2 DEF Nibble, Long
  <2>. QED BY <2>3, <2>4, <2>5
<1>. QED BY <1>3, <1>4

(* What ExtractCompressedColumnNibbles finds.                              *)
LEMMA NibblesRead ==
  ASSUME NEW cols, NEW value, IsRow(cols, value), NEW row, CompressedLayout(row, cols, value),
         NEW n \in Nat, n >= Len(cols), (n + 1) \div 2 = (Len(cols) + 1) \div 2,
         NEW i \in 1..n
  PROVE  ExtractCompressedColumnNibbles(row, n)[i] = NibbleOf(cols, value, i)
<1>1. PICK k \in Nat : k = (i - 1) \div 2
  OBVIOUS
<1>2. PICK m \in Nat : m = (Len(cols) + 1) \div 2
  OBVIOUS
<1>3. k + 1 \in 1..m
  BY <1>1, <1>2
<1>4. PICK x, y : x = NibbleOf(cols, value, 2 * k + 1) /\ y = NibbleOf(cols, value, 2 * k + 2)
  OBVIOUS
<1>5. x \in 0..10 /\ y \in 0..10
  BY <1>4, NibbleRange
<1>6. PICK j \in 1..m : j = k + 1
  BY <1>3
<1>7. Nibbles(cols, value)[j] = x + 16 * y
  <2>1. Nibbles(cols, value)[j] = NibbleOf(cols, value, 2 * j - 1) + 16 * NibbleOf(cols, value, 2 * j)
    BY <1>2 DEF Nibbles, NibbleOf
  <2>2. 2 * j - 1 = 2 * k + 1 /\ 2 * j = 2 * k + 2
    BY <1>6
  <2>. QED BY <1>4, <2>1, <2>2
<1>8. Byte(row, 2 + k) = x + 16 * y
  <2>1. row[2 + j] = Nibbles(cols, value)[j]
    BY <1>2 DEF CompressedLayout
  <2>2. (2 + k) + 1 = 2 + j
    BY <1>6
  <2>. QED BY <1>7, <2>1, <2>2 DEF Byte
<1>9. ExtractCompressedColumnNibbles(row, n)[i]
      = IF i % 2 = 1 THEN (x + 16 * y) % 16 ELSE ((x + 16 * y) \div 16) % 16
  BY <1>1, <1>8 DEF ExtractCompressedColumnNibbles
<1>10. (x + 16 * y) % 16 = x /\ ((x + 16 * y) \div 16) % 16 = y
  BY <1>5
<1>11. IF i % 2 = 1 THEN i = 2 * k + 1 ELSE i = 2 * k + 2
  BY <1>1
<1>. QED BY <1>4, <1>9, <1>10, <1>11

(* The local function of InlineOffset adds the lengths up.                 *)
AddsUp(g, nibbles, n) ==
  /\ g[0] = PayloadStart(n)
  /\ \A k \in 1..n : g[k] = g[k - 1] + InlineLength(nibbles[k])

(* There is no other such function.                                        *)
LEMMA InlineOffsetIs ==
  ASSUME NEW nibbles, NEW n \in Nat, Len(nibbles) = n, NEW g \in [0..n -> Int], AddsUp(g, nibbles, n),
         NEW i \in 1..(n + 1)
  PROVE  InlineOffset(nibbles, i) = g[i - 1]
<1>. DEFINE Adds(f) == f = [k \in 0..n |-> IF k = 0 THEN PayloadStart(n) ELSE f[k - 1] + InlineLength(nibbles[k])]
<1>1. Adds(g)
  <2>1. \A k \in 0..n : g[k] = IF k = 0 THEN PayloadStart(n) ELSE g[k - 1] + InlineLength(nibbles[k])
    <3>. \A k \in 0..n : k # 0 => k \in 1..n
      OBVIOUS
    <3>. QED BY DEF AddsUp
  <2>. QED BY <2>1
<1>2. ASSUME NEW f, Adds(f) PROVE \A k \in 0..n : f[k] = g[k]
  <2>. DEFINE T == {k \in Nat : k <= n => f[k] = g[k]}
  <2>1. /\ 0 \in 0..n /\ f[0] = PayloadStart(n)
        /\ \A k \in 1..n : k \in 0..n /\ f[k] = f[k - 1] + InlineLength(nibbles[k])
    <3>1. \A k \in 0..n : f[k] = IF k = 0 THEN PayloadStart(n) ELSE f[k - 1] + InlineLength(nibbles[k])
      BY <1>2
    <3>2. 0 \in 0..n /\ \A k \in 1..n : k \in 0..n /\ k # 0
      OBVIOUS
    <3>. QED BY <3>1, <3>2
  <2>. HIDE DEF Adds
  <2>2. 0 \in T
    BY <2>1 DEF AddsUp
  <2>3. ASSUME NEW k \in Nat, k \in T PROVE k + 1 \in T
    <3>. SUFFICES ASSUME k + 1 <= n PROVE f[k + 1] = g[k + 1]
      OBVIOUS
    <3>1. k + 1 \in 1..n /\ (k + 1) - 1 = k /\ k <= n
      OBVIOUS
    <3>. USE DEF AddsUp
    <3>2. f[k] = g[k]
      BY <2>3, <3>1
    <3>. QED BY <2>1, <3>1, <3>2
  <2>4. T \subseteq Nat
    OBVIOUS
  <2>5. \A k \in 0..n : k \in Nat /\ k <= n
    OBVIOUS
  <2>6. T = Nat
    <3>. HIDE DEF T
    <3>. QED BY <2>2, <2>3, <2>4, Induction
  <2>. QED BY <2>5, <2>6
<1>3. InlineOffset(nibbles, i) = (CHOOSE f : Adds(f))[i - 1]
  BY DEF InlineOffset
<1>. HIDE DEF Adds
<1>4. Adds(CHOOSE f : Adds(f))
  BY <1>1
<1>5. i - 1 \in 0..n
  OBVIOUS
<1>. QED BY <1>2, <1>3, <1>4, <1>5

(* Where the value of column i + 1 begins: behind the first i.             *)
ShortEnd(cols, value, i) ==
  Len(FlattenSeq(SubSeq(ShortPart(cols, value), 1, IF i > Len(cols) THEN Len(cols) ELSE i)))

(* A descriptor says how long the value is.                                *)
LEMMA ShortLength ==
  ASSUME NEW cols, NEW value, IsRow(cols, value), NEW i \in 1..Len(cols)
  PROVE  InlineLength(NibbleOf(cols, value, i)) = Len(ShortPart(cols, value)[i])
<1>1. PICK v : v = value[cols[i].id]
  OBVIOUS
<1>2. Len(cols) \in Nat /\ DOMAIN cols = 1..Len(cols)
  BY ColumnPositions
<1>3. ~(i > Len(cols))
  BY <1>2
<1>4. NibbleOf(cols, value, i) = Nibble(v)
  BY <1>1, <1>3 DEF NibbleOf
<1>5. ShortPart(cols, value)[i] = IF v = Null \/ Long(v) \/ v = <<0>> THEN <<>> ELSE v
  BY <1>1, <1>2 DEF ShortPart
<1>6. v = Null \/ v = Lob \/ v \in Seq(0..255)
  <2>1. v \in StoredValues(cols[i])
    BY <1>1, <1>2 DEF IsRow
  <2>. \A b \in 0..255 : <<b>> \in Seq(0..255)
    OBVIOUS
  <2>. QED BY <2>1 DEF StoredValues
<1>7. Len(<<>>) = 0
  OBVIOUS
<1>8. CASE v = Null
  BY <1>4, <1>5, <1>7, <1>8 DEF Nibble, InlineLength
<1>9. CASE v # Null /\ Long(v)
  BY <1>4, <1>5, <1>7, <1>9 DEF Nibble, InlineLength
<1>10. CASE v # Null /\ ~Long(v)
  <2>1. v \in Seq(0..255) /\ Len(v) \in Nat /\ ~(Len(v) > 8)
    BY <1>6, <1>10 DEF Long
  <2>2. CASE v = <<0>>
    BY <1>4, <1>5, <1>7, <1>10, <2>2 DEF Nibble, InlineLength
  <2>3. CASE v # <<0>>
    <3>1. Nibble(v) = Len(v) + 1
      BY <1>10, <2>3 DEF Nibble
    <3>2. ShortPart(cols, value)[i] = v
      BY <1>5, <1>10, <2>3
    <3>. QED BY <1>4, <2>1, <3>1, <3>2 DEF InlineLength
  <2>. QED BY <2>2, <2>3
<1>. QED BY <1>8, <1>9, <1>10

(* So the decoder finds where the values begin.                            *)
LEMMA OffsetsRead ==
  ASSUME NEW cols, NEW value, IsRow(cols, value), NEW row, CompressedLayout(row, cols, value),
         NEW n \in Nat, n >= Len(cols), (n + 1) \div 2 = (Len(cols) + 1) \div 2,
         NEW i \in 1..(n + 1)
  PROVE  /\ InlineOffset(ExtractCompressedColumnNibbles(row, n), i)
            = PayloadStart(n) + ShortEnd(cols, value, i - 1)
         /\ ShortEnd(cols, value, i - 1) \in Nat
<1>1. Len(cols) \in Nat
  BY ColumnPositions
<1>2. PICK c \in Nat : c = Len(cols)
  BY <1>1
<1>3. PICK short, nibbles, ps : /\ short = ShortPart(cols, value) /\ ps = PayloadStart(n)
                                /\ nibbles = ExtractCompressedColumnNibbles(row, n)
  OBVIOUS
<1>4. short \in Seq(Seq(Int)) /\ Len(short) = c
  BY <1>2, <1>3, CompressedParts
<1>5. ps \in Nat /\ Len(nibbles) = n /\ c <= n
  BY <1>2, <1>3 DEF PayloadStart, ExtractCompressedColumnNibbles
<1>. DEFINE F(k) == FlattenSeq(SubSeq(short, 1, k))
            E(k) == Len(F(IF k > c THEN c ELSE k))
            g == [k \in 0..n |-> ps + E(k)]
<1>6. /\ \A k \in 0..c : F(k) \in Seq(Int)
      /\ F(0) = <<>>
      /\ \A k \in 1..c : F(k) = F(k - 1) \o short[k]
  BY <1>4, FlattenSeqSteps
<1>7. \A k \in 1..c : short[k] \in Seq(Int)
  BY <1>4
<1>. HIDE DEF F
<1>8. ASSUME NEW k \in 0..n PROVE E(k) \in Nat
  <2>1. (IF k > c THEN c ELSE k) \in 0..c
    OBVIOUS
  <2>2. \A s \in Seq(Int) : Len(s) \in Nat
    OBVIOUS
  <2>. QED BY <1>6, <2>1, <2>2
<1>9. E(0) = 0
  <2>. ~(0 > c) /\ Len(<<>>) = 0
    OBVIOUS
  <2>. QED BY <1>6
<1>10. ASSUME NEW k \in 1..n PROVE E(k) = E(k - 1) + InlineLength(nibbles[k])
  <2>1. nibbles[k] = NibbleOf(cols, value, k)
    BY <1>3, NibblesRead
  <2>2. CASE k <= c
    <3>1. k \in 1..c /\ k - 1 \in 0..c /\ ~(k > c) /\ ~(k - 1 > c)
      BY <2>2
    <3>2. PICK p \in Seq(Int), q \in Seq(Int) : p = F(k - 1) /\ q = short[k]
      BY <1>6, <1>7, <3>1
    <3>3. F(k) = p \o q
      BY <1>6, <3>1, <3>2
    <3>4. Len(p \o q) = Len(p) + Len(q)
      BY TwoParts
    <3>5. InlineLength(nibbles[k]) = Len(q)
      BY <1>2, <1>3, <2>1, <3>1, <3>2, ShortLength
    <3>. QED BY <3>1, <3>2, <3>3, <3>4, <3>5
  <2>3. CASE k > c
    <3>1. (IF k - 1 > c THEN c ELSE k - 1) = c
      BY <2>3
    <3>2. InlineLength(nibbles[k]) = 0
      BY <1>2, <2>1, <2>3 DEF NibbleOf, InlineLength
    <3>3. E(k) = E(k - 1)
      BY <2>3, <3>1
    <3>4. k - 1 \in 0..n
      OBVIOUS
    <3>. QED BY <1>8, <3>2, <3>3, <3>4
  <2>. QED BY <2>2, <2>3
<1>. HIDE DEF E
<1>11. g \in [0..n -> Int] /\ g[0] = ps
  BY <1>5, <1>8, <1>9
<1>12. ASSUME NEW k \in 1..n PROVE g[k] = g[k - 1] + InlineLength(nibbles[k])
  <2>1. k \in 0..n /\ k - 1 \in 0..n
    OBVIOUS
  <2>2. PICK l : l = InlineLength(nibbles[k])
    OBVIOUS
  <2>3. E(k) = E(k - 1) + l
    BY <1>10, <2>2
  <2>4. l \in Nat
    <3>1. nibbles[k] = NibbleOf(cols, value, k)
      BY <1>3, NibblesRead
    <3>2. NibbleOf(cols, value, k) \in 0..10
      BY NibbleRange
    <3>. QED BY <2>2, <3>1, <3>2 DEF InlineLength
  <2>. QED BY <1>5, <1>8, <2>1, <2>2, <2>3, <2>4
<1>13. i - 1 \in 0..n /\ g[i - 1] = ps + E(i - 1)
  BY <1>5
<1>. HIDE DEF g
<1>14. InlineOffset(nibbles, i) = g[i - 1]
  <2>1. AddsUp(g, nibbles, n)
    BY <1>3, <1>11, <1>12 DEF AddsUp
  <2>2. PICK f \in [0..n -> Int] : f = g
    BY <1>11
  <2>3. AddsUp(f, nibbles, n) /\ Len(nibbles) = n
    BY <1>5, <2>1, <2>2
  <2>4. InlineOffset(nibbles, i) = f[i - 1]
    BY <2>3, InlineOffsetIs
  <2>. QED BY <2>2, <2>4
<1>15. E(i - 1) = ShortEnd(cols, value, i - 1)
  BY <1>2, <1>3 DEF E, F, ShortEnd
<1>. QED BY <1>3, <1>8, <1>13, <1>14, <1>15

(* The values a column may have.                                           *)
LEMMA ValueCases ==
  ASSUME NEW cols, NEW value, IsRow(cols, value), NEW i \in 1..Len(cols), NEW v, v = value[cols[i].id]
  PROVE  v = Null \/ v = Lob \/ (v \in Seq(0..255) /\ v # Null /\ v # Lob)
<1>1. DOMAIN cols = 1..Len(cols)
  BY ColumnPositions
<1>2. v \in StoredValues(cols[i])
  BY <1>1 DEF IsRow
<1>3. \A b \in 0..255 : <<b>> \in Seq(0..255)
  OBVIOUS
<1>. QED BY <1>2, <1>3 DEF StoredValues

(* What ReadSlice finds of a value.                                        *)
SliceShows(slice, v) ==
  IF v = Null THEN slice.kind = "null"
  ELSE IF Long(v) THEN slice.kind = "tail"
  ELSE slice.kind = "value" /\ slice.bytes = IF v = <<0>> THEN <<>> ELSE v

(* A short value is read as it is.                                         *)
LEMMA ReadShort ==
  ASSUME NEW row, NEW at, NEW desc \in 2..9
  PROVE  ReadSlice(row, at, desc) = [kind |-> "value", bytes |-> Slice(row, at, at + desc - 1)]
<1>1. PICK s : s = Slice(row, at, at + desc - 1)
  OBVIOUS
<1>2. desc \notin {1, 11} /\ desc # 10 /\ desc \notin {12, 13}
  OBVIOUS
<1>. QED BY <1>2 DEF ReadSlice

(* So the decoder finds every value, or that it is in the tail.            *)
LEMMA SliceRead ==
  ASSUME NEW cols, NEW value, IsRow(cols, value), NEW row, CompressedLayout(row, cols, value),
         NEW n \in Nat, n >= Len(cols), (n + 1) \div 2 = (Len(cols) + 1) \div 2,
         NEW i \in 1..Len(cols), NEW nibbles, nibbles = ExtractCompressedColumnNibbles(row, n)
  PROVE  SliceShows(ReadSlice(row, InlineOffset(nibbles, i), nibbles[i]), value[cols[i].id])
<1>1. Len(cols) \in Nat /\ DOMAIN cols = 1..Len(cols)
  BY ColumnPositions
<1>2. i \in 1..n /\ i \in 1..(n + 1) /\ ~(i > Len(cols)) /\ ~(i - 1 > Len(cols))
  BY <1>1
<1>3. PICK v, desc, from : v = value[cols[i].id] /\ desc = nibbles[i] /\ from = InlineOffset(nibbles, i)
  OBVIOUS
<1>4. desc = Nibble(v)
  <2>1. nibbles[i] = NibbleOf(cols, value, i)
    BY <1>2, NibblesRead
  <2>. QED BY <1>2, <1>3, <2>1 DEF NibbleOf
<1>5. v = Null \/ v = Lob \/ (v \in Seq(0..255) /\ v # Null /\ v # Lob)
  BY <1>3, ValueCases
<1>6. CASE v = Null
  <2>1. desc = 0
    BY <1>4, <1>6 DEF Nibble
  <2>2. ReadSlice(row, from, desc).kind = "null"
    BY <2>1 DEF ReadSlice
  <2>. QED BY <1>3, <1>6, <2>2 DEF SliceShows
<1>7. CASE v # Null /\ Long(v)
  <2>1. desc = 10
    BY <1>4, <1>7 DEF Nibble
  <2>2. ReadSlice(row, from, desc).kind = "tail"
    BY <2>1 DEF ReadSlice
  <2>. QED BY <1>3, <1>7, <2>2 DEF SliceShows
<1>8. CASE v # Null /\ ~Long(v)
  <2>1. v \in Seq(0..255) /\ Len(v) \in Nat /\ ~(Len(v) > 8)
    BY <1>5, <1>8 DEF Long
  <2>2. CASE v = <<0>> \/ v = <<>>
    <3>1. desc = 1
      <4>. Len(<<>>) = 0
        OBVIOUS
      <4>. QED BY <1>4, <1>8, <2>2 DEF Nibble
    <3>2. ReadSlice(row, from, desc) = [kind |-> "value", bytes |-> <<>>]
      BY <3>1 DEF ReadSlice
    <3>. QED BY <1>3, <1>8, <2>2, <3>2 DEF SliceShows
  <2>3. CASE v # <<0>> /\ v # <<>>
    <3>1. desc = Len(v) + 1 /\ desc \in 2..9 /\ desc \notin {1, 11}
      <4>1. Len(v) # 0
        BY <2>1, <2>3
      <4>2. desc = Len(v) + 1
        BY <1>4, <1>8, <2>3 DEF Nibble
      <4>. QED BY <2>1, <4>1, <4>2
    <3>2. PICK l \in Nat : l = Len(v)
      BY <2>1
    <3>3. ReadSlice(row, from, desc) = [kind |-> "value", bytes |-> Slice(row, from, from + desc - 1)]
      BY <3>1, ReadShort
    <3>4. PICK short, o, m : /\ short = ShortPart(cols, value) /\ o = ShortEnd(cols, value, i - 1)
                             /\ m = (Len(cols) + 1) \div 2
      OBVIOUS
    <3>5. short \in Seq(Seq(Int)) /\ Len(short) = Len(cols) /\ short[i] = v
      <4>1. short \in Seq(Seq(Int)) /\ Len(short) = Len(cols)
        BY <3>4, CompressedParts
      <4>2. short[i] = v
        BY <1>1, <1>3, <1>8, <2>3, <3>4 DEF ShortPart
      <4>. QED BY <4>1, <4>2
    <3>6. from = 2 + m + o /\ o \in Nat /\ m \in Nat
      <4>1. from = PayloadStart(n) + o /\ o \in Nat
        BY <1>2, <1>3, <3>4, OffsetsRead
      <4>2. PayloadStart(n) = 2 + m /\ m \in Nat
        BY <1>1, <3>4 DEF PayloadStart
      <4>. QED BY <4>1, <4>2
    <3>7. PICK s \in Seq(Int) : s = FlattenSeq(short)
      <4>. FlattenSeq(short) \in Seq(Int)
        BY <3>5, FlattenSeqType
      <4>. QED OBVIOUS
    <3>8. o + l <= Len(s) /\ \A j \in 1..l : s[o + j] = v[j]
      <4>1. LiesIn(short, i)
        BY <3>5, FlattenElements
      <4>2. o = Len(FlattenSeq(SubSeq(short, 1, i - 1)))
        BY <1>2, <3>4 DEF ShortEnd
      <4>. QED BY <3>2, <3>5, <3>7, <4>1, <4>2 DEF LiesIn
    <3>9. PICK ls \in Nat : ls = Len(s)
      BY <3>7
    <3>10. /\ row \in Seq(Int) /\ Len(row) = 2 + m + ls + Len(TailPart(cols, value))
           /\ \A j \in 1..ls : row[2 + m + j] = s[j]
      BY <3>4, <3>7, <3>9 DEF CompressedLayout
    <3>11. Len(TailPart(cols, value)) \in Nat
      <4>. TailPart(cols, value) \in Seq(Int)
        BY CompressedParts
      <4>. QED OBVIOUS
    <3>12. from + l <= Len(row)
      BY <3>6, <3>8, <3>9, <3>10, <3>11
    <3>13. ASSUME NEW j \in 1..l PROVE row[from + j] = v[j]
      <4>1. o + j \in 1..ls /\ from + j = 2 + m + (o + j)
        BY <3>6, <3>8, <3>9
      <4>2. row[2 + m + (o + j)] = s[o + j]
        BY <3>10, <4>1
      <4>. QED BY <3>8, <4>1, <4>2
    <3>14. v \in Seq(Int)
      BY <2>1, BytesAreInts
    <3>15. PICK to \in Nat : to = from + l
      BY <3>6
    <3>16. Slice(row, from, to) = v
      <4>. /\ row \in Seq(Int) /\ v \in Seq(Int) /\ from \in Nat /\ to = from + Len(v) /\ to <= Len(row)
           /\ \A j \in 1..Len(v) : row[from + j] = v[j]
        BY <3>2, <3>6, <3>10, <3>12, <3>13, <3>14, <3>15
      <4>. QED BY SliceIs
    <3>17. from + desc - 1 = to
      BY <3>1, <3>2, <3>6, <3>15
    <3>18. ReadSlice(row, from, desc) = [kind |-> "value", bytes |-> v]
      BY <3>3, <3>16, <3>17
    <3>. QED BY <1>3, <1>8, <2>3, <3>18 DEF SliceShows
  <2>. QED BY <2>2, <2>3
<1>. QED BY <1>6, <1>7, <1>8

(* The tail's values, and where they end in its data.                      *)
LongBytes(cols, value) ==
  [k \in DOMAIN LongCols(cols, value) |-> InRow(value[cols[LongCols(cols, value)[k]].id])]
LongEnd(cols, value, k) == Len(FlattenSeq(SubSeq(LongBytes(cols, value), 1, k)))

(* They are bytes, as many as the columns that have them.                  *)
LEMMA LongParts ==
  ASSUME NEW cols, NEW value, IsRow(cols, value)
  PROVE  /\ LongCols(cols, value) \in Seq({i \in DOMAIN cols : Long(value[cols[i].id])})
         /\ LongBytes(cols, value) \in Seq(Seq(Int))
         /\ Len(LongBytes(cols, value)) = Len(LongCols(cols, value)) /\ Len(LongCols(cols, value)) \in Nat
<1>1. Len(cols) \in Nat /\ DOMAIN cols = 1..Len(cols)
  BY ColumnPositions
<1>. DEFINE longs == {i \in DOMAIN cols : Long(value[cols[i].id])}
<1>2. longs \in SUBSET (1..Len(cols))
  BY <1>1
<1>3. InOrder(longs) \in Seq(longs)
  <2>. HIDE DEF longs
  <2>. QED BY <1>1, <1>2, InOrderProperties
<1>4. LongCols(cols, value) = InOrder(longs)
  BY DEF LongCols
<1>5. PICK tail : tail = LongCols(cols, value)
  OBVIOUS
<1>6. tail \in Seq(longs)
  BY <1>3, <1>4, <1>5
<1>7. PICK lt \in Nat : lt = Len(tail)
  BY <1>6
<1>8. DOMAIN tail = 1..lt /\ \A k \in 1..lt : tail[k] \in longs
  <2>. HIDE DEF longs
  <2>. QED BY <1>6, <1>7
<1>9. ASSUME NEW k \in 1..lt PROVE InRow(value[cols[tail[k]].id]) \in Seq(Int)
  <2>1. PICK i, v : i \in 1..Len(cols) /\ i = tail[k] /\ v = value[cols[i].id]
    BY <1>1, <1>8
  <2>2. v = Null \/ v = Lob \/ v \in Seq(0..255)
    BY <2>1, ValueCases
  <2>3. <<>> \in Seq(Int) /\ <<0, 7>> \in Seq(Int)
    OBVIOUS
  <2>4. InRow(v) \in Seq(Int)
    BY <2>2, <2>3, BytesAreInts DEF InRow
  <2>. QED BY <2>1, <2>4
<1>10. LongBytes(cols, value) = [k \in 1..lt |-> InRow(value[cols[tail[k]].id])]
  BY <1>5, <1>8 DEF LongBytes
<1>11. LongBytes(cols, value) \in [1..lt -> Seq(Int)]
  BY <1>9, <1>10
<1>12. LongBytes(cols, value) \in Seq(Seq(Int)) /\ Len(LongBytes(cols, value)) = lt
  BY <1>11
<1>. QED BY <1>5, <1>6, <1>7, <1>12

(* The tail: a header, the ends in pairs of bytes, a byte, the values.     *)
TailLayout(t, cols, value) ==
  LET lt == Len(LongCols(cols, value))
      fb == FlattenSeq(LongBytes(cols, value))
  IN /\ t \in Seq(Int) /\ Len(t) = 3 + 2 * lt + Len(fb)
     /\ \A l \in 1..lt : t[2 * l + 1] = 0 /\ t[2 * l + 2] = LongEnd(cols, value, l)
     /\ \A j \in 1..Len(fb) : t[3 + 2 * lt + j] = fb[j]

(* The ends are numbers.                                                   *)
LEMMA LongEnds ==
  ASSUME NEW cols, NEW value, IsRow(cols, value), NEW l \in 0..Len(LongCols(cols, value))
  PROVE  LongEnd(cols, value, l) \in Nat
<1>1. PICK bytes \in Seq(Seq(Int)) : bytes = LongBytes(cols, value)
  BY LongParts
<1>2. Len(bytes) = Len(LongCols(cols, value))
  BY <1>1, LongParts
<1>3. FlattenSeq(SubSeq(bytes, 1, l)) \in Seq(Int)
  BY <1>2, FlattenSeqSteps
<1>4. Len(FlattenSeq(SubSeq(bytes, 1, l))) \in Nat
  BY <1>3
<1>. QED BY <1>1, <1>4 DEF LongEnd

(* TailPart writes it so.                                                  *)
LEMMA TailPartLayout ==
  ASSUME NEW cols, NEW value, IsRow(cols, value), LongCols(cols, value) # <<>>
  PROVE  TailLayout(TailPart(cols, value), cols, value)
<1>1. PICK tail, bytes : tail = LongCols(cols, value) /\ bytes = LongBytes(cols, value)
  OBVIOUS
<1>2. bytes \in Seq(Seq(Int)) /\ Len(bytes) = Len(tail) /\ Len(tail) \in Nat
  BY <1>1, LongParts, Zenon
<1>3. PICK lt \in Nat : lt = Len(tail)
  BY <1>2
<1>4. DOMAIN tail = 1..lt
  <2>. tail \in Seq({i \in DOMAIN cols : Long(value[cols[i].id])})
    BY <1>1, LongParts, Zenon
  <2>. QED BY <1>3
<1>. DEFINE T(l) == LongEnd(cols, value, l)
            ends == [l \in 1..lt |-> <<0, T(l)>>]
<1>5. ASSUME NEW l \in 1..lt PROVE <<0, T(l)>> \in Seq(Int)
  <2>. T(l) \in Nat
    <3>. l \in 0..Len(LongCols(cols, value))
      BY <1>1, <1>3
    <3>. QED BY LongEnds
  <2>. HIDE DEF T
  <2>. QED OBVIOUS
<1>6. bytes = [l \in DOMAIN tail |-> InRow(value[cols[tail[l]].id])]
  BY <1>1 DEF LongBytes
<1>7. ends = [l \in DOMAIN tail |-> <<0, Len(FlattenSeq(SubSeq(bytes, 1, l)))>>]
  BY <1>1, <1>4 DEF LongEnd
<1>8. PICK fe, fb, x, t : /\ fe = FlattenSeq(ends) /\ fb = FlattenSeq(bytes)
                       /\ x = <<1, lt>> \o fe \o <<0>> /\ t = TailPart(cols, value)
  OBVIOUS
<1>9. t = x \o fb
  <2>. tail # <<>>
    BY <1>1
  <2>1. TailPart(cols, value)
        = <<1, Len(tail)>> \o FlattenSeq(ends) \o <<0>> \o FlattenSeq(bytes)
    BY <1>1, <1>6, <1>7 DEF TailPart
  <2>. QED BY <1>3, <1>8, <2>1
<1>. HIDE DEF T
<1>10. ends \in Seq(Seq(Int)) /\ Len(ends) = lt
       /\ \A l \in 1..lt : Len(ends[l]) = 2 /\ ends[l][1] = 0 /\ ends[l][2] = T(l)
  <2>1. ends \in [1..lt -> Seq(Int)]
    BY <1>5
  <2>. QED BY <2>1
<1>. HIDE DEF ends
<1>11. /\ fe \in Seq(Int) /\ Len(fe) = 2 * lt
       /\ \A l \in 1..lt : fe[2 * l - 1] = 0 /\ fe[2 * l] = T(l)
  <2>1. \A l \in 1..Len(ends) : Len(ends[l]) = 2
    BY <1>10
  <2>2. Len(FlattenSeq(ends)) = 2 * Len(ends)
    BY <1>10, <2>1, FlattenPairs
  <2>3. PairsIn(ends)
    BY <1>10, <2>1, FlattenPairElements
  <2>4. FlattenSeq(ends) \in Seq(Int)
    BY <1>10, FlattenSeqType
  <2>5. ASSUME NEW l \in 1..lt PROVE fe[2 * l - 1] = 0 /\ fe[2 * l] = T(l)
    BY <1>8, <1>10, <2>3 DEF PairsIn
  <2>. QED BY <1>8, <1>10, <2>2, <2>4, <2>5
<1>12. fb \in Seq(Int)
  <2>. FlattenSeq(bytes) \in Seq(Int)
    BY <1>2, FlattenSeqType
  <2>. QED BY <1>8
<1>13. x \in Seq(Int) /\ Len(x) = 3 + 2 * lt /\ \A j \in 1..(2 * lt) : x[2 + j] = fe[j]
  <2>1. PICK h, z : h = <<1, lt>> /\ z = <<0>>
    OBVIOUS
  <2>2. h \in Seq(Int) /\ z \in Seq(Int) /\ Len(h) = 2 /\ Len(z) = 1
    BY <2>1
  <2>3. Joins(Int, h \o fe \o z, h, fe, z)
    <3>. fe \in Seq(Int)
      BY <1>11
    <3>. h \in Seq(Int) /\ z \in Seq(Int)
      BY <2>2
    <3>. QED BY ThreeParts
  <2>4. x = h \o fe \o z
    BY <1>8, <2>1
  <2>5. Joins(Int, x, h, fe, z)
    BY <2>3, <2>4
  <2>6. /\ x \in Seq(Int) /\ Len(x) = Len(h) + Len(fe) + Len(z)
        /\ \A j \in 1..Len(fe) : x[Len(h) + j] = fe[j]
    BY <2>5 DEF Joins
  <2>. QED BY <1>11, <2>2, <2>6
<1>14. PICK lf \in Nat : lf = Len(fb)
  BY <1>12
<1>15. /\ t \in Seq(Int) /\ Len(t) = 3 + 2 * lt + lf
       /\ \A j \in 1..(3 + 2 * lt) : t[j] = x[j]
       /\ \A j \in 1..lf : t[3 + 2 * lt + j] = fb[j]
  <2>1. PICK p \in Seq(Int), q \in Seq(Int) : p = x /\ q = fb
    BY <1>12, <1>13
  <2>2. /\ p \o q \in Seq(Int) /\ Len(p \o q) = Len(p) + Len(q)
        /\ \A j \in 1..Len(p) : (p \o q)[j] = p[j]
        /\ \A j \in 1..Len(q) : (p \o q)[Len(p) + j] = q[j]
    BY TwoParts
  <2>3. t = p \o q /\ Len(p) = 3 + 2 * lt /\ Len(q) = lf
    BY <1>9, <1>13, <1>14, <2>1
  <2>. QED BY <2>1, <2>2, <2>3
<1>16. ASSUME NEW l \in 1..lt PROVE t[2 * l + 1] = 0 /\ t[2 * l + 2] = T(l)
  <2>1. PICK a \in 1..(2 * lt), b \in 1..(2 * lt) : a = 2 * l - 1 /\ b = 2 * l
    OBVIOUS
  <2>2. 2 * l + 1 = 2 + a /\ 2 * l + 2 = 2 + b /\ 2 + a \in 1..(3 + 2 * lt) /\ 2 + b \in 1..(3 + 2 * lt)
    BY <2>1
  <2>3. t[2 + a] = x[2 + a] /\ t[2 + b] = x[2 + b]
    BY <1>15, <2>2
  <2>4. x[2 + a] = fe[a] /\ x[2 + b] = fe[b]
    BY <1>13
  <2>5. fe[a] = 0 /\ fe[b] = T(l)
    BY <1>11, <2>1
  <2>. QED BY <2>2, <2>3, <2>4, <2>5
<1>17. \A l \in 1..lt : t[2 * l + 1] = 0 /\ t[2 * l + 2] = LongEnd(cols, value, l)
  BY <1>16 DEF T
<1>18. TailLayout(t, cols, value)
  <2>1. lt = Len(LongCols(cols, value)) /\ fb = FlattenSeq(LongBytes(cols, value))
    BY <1>1, <1>3, <1>8
  <2>2. Len(t) = 3 + 2 * lt + Len(fb) /\ \A j \in 1..Len(fb) : t[3 + 2 * lt + j] = fb[j]
    BY <1>14, <1>15
  <2>. QED BY <1>15, <1>17, <2>1, <2>2 DEF TailLayout
<1>. QED BY <1>8, <1>18

(* A row that ends with a tail, from start.                                *)
EndsWith(row, start, t) ==
  /\ start \in Nat /\ row \in Seq(Int) /\ Len(row) = start + Len(t) /\ FitsPage(row)
  /\ \A j \in 1..Len(t) : row[start + j] = t[j]

(* A value of the tail, as ParseCompressedTailValues finds it.             *)
TailFound(row, cols, value, start, k) ==
  LET data == start + 3 + 2 * Len(LongCols(cols, value))
      x == LongBytes(cols, value)[k]
      from == LongEnd(cols, value, k - 1)
      to == LongEnd(cols, value, k)
  IN /\ TailEnd(row, start, k) = to /\ from \in Nat /\ to \in Nat /\ from <= to
     /\ data + to <= Len(row) /\ Slice(row, data + from, data + to) = x

(* So is each of them found.                                               *)
LEMMA TailRead ==
  ASSUME NEW cols, NEW value, IsRow(cols, value), NEW row, NEW start,
         EndsWith(row, start, TailPart(cols, value)), NEW k \in 1..Len(LongCols(cols, value))
  PROVE  TailFound(row, cols, value, start, k)
<1>1. PICK bytes, t : bytes = LongBytes(cols, value) /\ t = TailPart(cols, value)
  OBVIOUS
<1>2. bytes \in Seq(Seq(Int)) /\ Len(bytes) = Len(LongCols(cols, value)) /\ Len(LongCols(cols, value)) \in Nat
  BY <1>1, LongParts, Zenon
<1>3. PICK lt \in Nat : lt = Len(LongCols(cols, value))
  BY <1>2
<1>4. k \in 1..lt /\ k \in 0..lt /\ k - 1 \in 0..lt
  BY <1>3
<1>5. PICK fb : fb = FlattenSeq(bytes)
  OBVIOUS
<1>6. fb \in Seq(Int)
  BY <1>2, <1>5, FlattenSeqType
<1>7. PICK lf \in Nat : lf = Len(fb)
  BY <1>6
<1>8. PICK to \in Nat, from \in Nat : to = LongEnd(cols, value, k) /\ from = LongEnd(cols, value, k - 1)
  BY <1>3, <1>4, LongEnds
<1>9. /\ t \in Seq(Int) /\ Len(t) = 3 + 2 * lt + lf
      /\ t[2 * k + 1] = 0 /\ t[2 * k + 2] = to
      /\ \A j \in 1..lf : t[3 + 2 * lt + j] = fb[j]
  <2>1. LongCols(cols, value) # <<>>
    <3>. Len(<<>>) = 0 /\ lt # 0
      BY <1>4
    <3>. QED BY <1>3
  <2>2. TailLayout(t, cols, value)
    BY <1>1, <2>1, TailPartLayout
  <2>. QED BY <1>1, <1>3, <1>4, <1>5, <1>7, <1>8, <2>2 DEF TailLayout
<1>10. /\ start \in Nat /\ row \in Seq(Int) /\ Len(row) = start + 3 + 2 * lt + lf /\ Len(row) < 32768
       /\ \A j \in 1..(3 + 2 * lt + lf) : row[start + j] = t[j]
  BY <1>1, <1>9 DEF EndsWith, FitsPage
<1>11. PICK xs \in Seq(Int) : xs = bytes[k]
  BY <1>2, <1>3, <1>4
<1>12. PICK lx \in Nat : lx = Len(xs)
  BY <1>11
<1>13. to = from + lx /\ to <= lf /\ \A j \in 1..lx : fb[from + j] = xs[j]
  <2>1. LiesIn(bytes, k)
    BY <1>2, <1>3, <1>4, FlattenElements
  <2>2. from = Len(FlattenSeq(SubSeq(bytes, 1, k - 1))) /\ to = Len(FlattenSeq(SubSeq(bytes, 1, k)))
    BY <1>1, <1>8 DEF LongEnd
  <2>. QED BY <1>5, <1>7, <1>11, <1>12, <2>1, <2>2 DEF LiesIn
<1>14. to < 32768
  BY <1>10, <1>13
<1>15. TailEnd(row, start, k) = to
  <2>1. PICK a \in 1..(3 + 2 * lt + lf), b \in 1..(3 + 2 * lt + lf) : a = 2 * k + 1 /\ b = 2 * k + 2
    BY <1>4
  <2>2. row[start + a] = 0 /\ row[start + b] = to
    BY <1>9, <1>10, <2>1
  <2>3. start + 2 * k + 1 = start + a /\ start + 2 * k + 1 + 1 = start + b
    BY <1>10, <2>1
  <2>4. Uint16BE(row, start + 2 * k) = 256 * 0 + to
    BY <2>2, <2>3 DEF Uint16BE, Byte
  <2>5. k # 0 /\ (256 * 0 + to) % 2 ^ 15 = to
    BY <1>14
  <2>. QED BY <2>4, <2>5 DEF TailEnd
<1>16. PICK data \in Nat : data = start + 3 + 2 * lt
  BY <1>10
<1>17. data + to <= Len(row)
  BY <1>10, <1>13, <1>16
<1>18. ASSUME NEW j \in 1..lx PROVE row[data + from + j] = xs[j]
  <2>1. PICK i \in 1..lf : i = from + j
    BY <1>13
  <2>2. PICK p \in 1..(3 + 2 * lt + lf) : p = 3 + 2 * lt + i
    OBVIOUS
  <2>3. row[start + p] = t[p]
    BY <1>10
  <2>4. data + from + j = start + p
    BY <1>10, <1>16, <2>1, <2>2
  <2>. QED BY <1>9, <1>13, <2>1, <2>2, <2>3, <2>4
<1>19. PICK f \in Nat, e \in Nat : f = data + from /\ e = data + to
  OBVIOUS
<1>20. Slice(row, f, e) = xs
  <2>1. e = f + lx /\ e <= Len(row) /\ row \in Seq(Int)
    BY <1>10, <1>13, <1>17, <1>19
  <2>. /\ row \in Seq(Int) /\ e = f + Len(xs) /\ e <= Len(row)
       /\ \A j \in 1..Len(xs) : row[f + j] = xs[j]
    BY <1>12, <1>18, <1>19, <2>1
  <2>. QED BY SliceIs
<1>21. from <= to
  BY <1>13
<1>. QED BY <1>1, <1>3, <1>8, <1>11, <1>15, <1>16, <1>17, <1>19, <1>20, <1>21 DEF TailFound

(* The columns a decoder has for a compressed row: the row's, and perhaps  *)
(* one more for which its descriptors have room.                           *)
HasRoom(n, cols) == n \in Nat /\ n >= Len(cols) /\ (n + 1) \div 2 = (Len(cols) + 1) \div 2
ValueOf(cols, value, i) == IF i > Len(cols) THEN Null ELSE value[cols[i].id]

(* The tail begins behind the short values.                                *)
LEMMA TailStart ==
  ASSUME NEW cols, NEW value, IsRow(cols, value), NEW row, CompressedLayout(row, cols, value),
         NEW n, HasRoom(n, cols), FitsPage(row)
  PROVE  LET end == InlineOffset(ExtractCompressedColumnNibbles(row, n), n + 1)
         IN /\ PayloadStart(n) <= Len(row) /\ end <= Len(row)
            /\ EndsWith(row, end, TailPart(cols, value))
<1>1. PICK s, t, end, short : /\ short = ShortPart(cols, value) /\ s = FlattenSeq(short) /\ t = TailPart(cols, value)
                       /\ end = InlineOffset(ExtractCompressedColumnNibbles(row, n), n + 1)
  OBVIOUS
<1>2. short \in Seq(Seq(Int)) /\ Len(short) = Len(cols) /\ t \in Seq(Int)
  BY <1>1, CompressedParts
<1>3. s \in Seq(Int)
  BY <1>1, <1>2, FlattenSeqType
<1>4. Len(cols) \in Nat /\ n \in Nat /\ n >= Len(cols)
  BY ColumnPositions DEF HasRoom
<1>5. PICK m, ls, lt : m = (Len(cols) + 1) \div 2 /\ ls = Len(s) /\ lt = Len(t)
  OBVIOUS
<1>6. m \in Nat /\ ls \in Nat /\ lt \in Nat
  BY <1>2, <1>3, <1>4, <1>5
<1>7. PayloadStart(n) = 2 + m
  BY <1>5 DEF PayloadStart, HasRoom
<1>8. ShortEnd(cols, value, n) = ls
  <2>1. FlattenSeq(SubSeq(short, 1, Len(short))) = FlattenSeq(short)
    <3>. SubSeq(short, 1, Len(short)) = short
      BY <1>2
    <3>. QED OBVIOUS
  <2>2. (IF n > Len(cols) THEN Len(cols) ELSE n) = Len(short)
    BY <1>2, <1>4
  <2>. QED BY <1>1, <1>5, <2>1, <2>2 DEF ShortEnd
<1>9. end = 2 + m + ls
  <2>1. end = PayloadStart(n) + ShortEnd(cols, value, (n + 1) - 1)
    <3>. n \in Nat /\ n >= Len(cols) /\ (n + 1) \div 2 = (Len(cols) + 1) \div 2
      BY DEF HasRoom
    <3>1. PICK i \in 1..(n + 1) : i = n + 1
      BY <1>4
    <3>2. InlineOffset(ExtractCompressedColumnNibbles(row, n), i) = PayloadStart(n) + ShortEnd(cols, value, i - 1)
      BY OffsetsRead
    <3>. QED BY <1>1, <3>1, <3>2
  <2>2. (n + 1) - 1 = n
    BY <1>4
  <2>. QED BY <1>7, <1>8, <2>1, <2>2
<1>10. /\ row \in Seq(Int) /\ Len(row) = 2 + m + ls + lt
       /\ \A j \in 1..lt : row[2 + m + ls + j] = t[j]
  BY <1>1, <1>5 DEF CompressedLayout
<1>11. EndsWith(row, end, t)
  <2>1. end \in Nat
    BY <1>6, <1>9
  <2>2. Len(row) = end + Len(t)
    BY <1>5, <1>9, <1>10
  <2>3. ASSUME NEW j \in 1..Len(t) PROVE row[end + j] = t[j]
    <3>1. j \in 1..lt
      BY <1>5
    <3>. QED BY <1>9, <1>10, <3>1
  <2>4. row \in Seq(Int)
    BY <1>10
  <2>. QED BY <2>1, <2>2, <2>3, <2>4 DEF EndsWith
<1>12. PayloadStart(n) <= Len(row) /\ end <= Len(row)
  BY <1>6, <1>7, <1>9, <1>10
<1>. QED BY <1>1, <1>11, <1>12

(* The columns whose descriptor says so are those with long values.        *)
LEMMA TailColumns ==
  ASSUME NEW cols, NEW value, IsRow(cols, value), NEW row, CompressedLayout(row, cols, value),
         NEW n, HasRoom(n, cols)
  PROVE  InOrder({i \in 1..n : ExtractCompressedColumnNibbles(row, n)[i] = 10}) = LongCols(cols, value)
<1>1. Len(cols) \in Nat /\ DOMAIN cols = 1..Len(cols)
  BY ColumnPositions
<1>2. n \in Nat /\ n >= Len(cols) /\ (n + 1) \div 2 = (Len(cols) + 1) \div 2
  BY DEF HasRoom
<1>3. ASSUME NEW i \in 1..n PROVE ExtractCompressedColumnNibbles(row, n)[i] = NibbleOf(cols, value, i)
  BY <1>2, NibblesRead
<1>4. ASSUME NEW i \in 1..n PROVE NibbleOf(cols, value, i) = 10 <=> i \in 1..Len(cols) /\ Long(value[cols[i].id])
  <2>1. CASE i > Len(cols)
    <3>. i \notin 1..Len(cols)
      BY <1>1, <2>1
    <3>. QED BY <2>1 DEF NibbleOf
  <2>2. CASE ~(i > Len(cols))
    <3>1. i \in 1..Len(cols)
      BY <1>1, <1>2, <2>2
    <3>2. PICK v : v = value[cols[i].id]
      OBVIOUS
    <3>3. NibbleOf(cols, value, i) = Nibble(v)
      BY <2>2, <3>2 DEF NibbleOf
    <3>4. v = Null \/ v = Lob \/ (v \in Seq(0..255) /\ v # Null /\ v # Lob)
      BY <3>1, <3>2, ValueCases
    <3>5. Nibble(v) = 10 <=> Long(v)
      <4>1. CASE v = Null
        BY <4>1 DEF Nibble, Long
      <4>2. CASE v # Null /\ Long(v)
        BY <4>2 DEF Nibble
      <4>3. CASE v # Null /\ ~Long(v)
        <5>. v \in Seq(0..255) /\ Len(v) \in Nat /\ ~(Len(v) > 8)
          BY <3>4, <4>3 DEF Long
        <5>. QED BY <4>3 DEF Nibble
      <4>. QED BY <4>1, <4>2, <4>3
    <3>. QED BY <3>1, <3>2, <3>3, <3>5
  <2>. QED BY <2>1, <2>2
<1>5. 1..Len(cols) \subseteq 1..n
  BY <1>1, <1>2
<1>6. {i \in 1..n : ExtractCompressedColumnNibbles(row, n)[i] = 10} = {i \in DOMAIN cols : Long(value[cols[i].id])}
  BY <1>1, <1>3, <1>4, <1>5
<1>. QED BY <1>6 DEF LongCols

(* What the decoder has of a value before it is converted.                 *)
ValueSlice(slice, v) ==
  IF v = Null THEN slice.kind = "null"
  ELSE slice.kind = "value" /\ slice.bytes = IF v = <<0>> THEN <<>> ELSE InRow(v)

ParsedRow(res, cols, value, n) ==
  /\ res = Accepted(res.vals)
  /\ \A i \in 1..n : ValueSlice(res.vals[i], ValueOf(cols, value, i))

(* The slices before the tail is read.                                     *)
LEMMA SlicesRead ==
  ASSUME NEW cols, NEW value, IsRow(cols, value), NEW row, CompressedLayout(row, cols, value),
         NEW n, HasRoom(n, cols), NEW i \in 1..n, NEW nibbles, nibbles = ExtractCompressedColumnNibbles(row, n)
  PROVE  SliceShows(ReadSlice(row, InlineOffset(nibbles, i), nibbles[i]), ValueOf(cols, value, i))
<1>1. Len(cols) \in Nat
  BY ColumnPositions
<1>2. n \in Nat /\ n >= Len(cols) /\ (n + 1) \div 2 = (Len(cols) + 1) \div 2
  BY DEF HasRoom
<1>3. CASE i > Len(cols)
  <2>1. nibbles[i] = NibbleOf(cols, value, i)
    BY <1>2, NibblesRead
  <2>2. nibbles[i] = 0
    BY <1>3, <2>1 DEF NibbleOf
  <2>3. ValueOf(cols, value, i) = Null
    BY <1>3 DEF ValueOf
  <2>. QED BY <2>2, <2>3 DEF ReadSlice, SliceShows
<1>4. CASE ~(i > Len(cols))
  <2>1. i \in 1..Len(cols)
    BY <1>1, <1>2, <1>4
  <2>2. ValueOf(cols, value, i) = value[cols[i].id]
    BY <1>4 DEF ValueOf
  <2>. QED BY <1>2, <2>1, <2>2, SliceRead
<1>. QED BY <1>3, <1>4

(* Zero is no long value.                                                  *)
LEMMA ZeroIsShort == ~Long(<<0>>)
<1>. Len(<<0>>) = 1 /\ <<0>> # Lob
  BY DEF Lob
<1>. QED BY DEF Long

(* The tail is read.                                                       *)
LEMMA TailParsed ==
  ASSUME NEW cols, NEW value, IsRow(cols, value), NEW row, NEW start,
         EndsWith(row, start, TailPart(cols, value)), LongCols(cols, value) # <<>>,
         NEW n, HasRoom(n, cols), NEW slices, DOMAIN slices = 1..n,
         \A i \in 1..n : SliceShows(slices[i], ValueOf(cols, value, i))
  PROVE  ParsedRow(ParseCompressedTailValues(row, start, LongCols(cols, value), slices), cols, value, n)
<1>1. Len(cols) \in Nat /\ DOMAIN cols = 1..Len(cols) /\ n \in Nat /\ n >= Len(cols)
  BY ColumnPositions DEF HasRoom
<1>2. PICK tail, bytes : tail = LongCols(cols, value) /\ bytes = LongBytes(cols, value)
  OBVIOUS
<1>3. PICK lt \in Nat : lt = Len(tail)
  BY <1>2, LongParts, Zenon
<1>4. tail \in Seq({i \in DOMAIN cols : Long(value[cols[i].id])})
  BY <1>2, LongParts, Zenon
<1>5. DOMAIN tail = 1..lt /\ lt # 0
  <2>1. DOMAIN tail = 1..lt
    BY <1>3, <1>4
  <2>2. lt # 0
    BY <1>2, <1>3, <1>4
  <2>. QED BY <2>1, <2>2
<1>6. ASSUME NEW k \in 1..lt PROVE TailFound(row, cols, value, start, k)
  BY <1>2, <1>3, TailRead
<1>7. PICK data : data = start + 3 + 2 * lt
  OBVIOUS
<1>8. Len(row) \in Nat /\ data \in Nat
  BY <1>7 DEF EndsWith
<1>9. ASSUME NEW k \in 1..lt
      PROVE  /\ TailEnd(row, start, k) = LongEnd(cols, value, k)
             /\ TailEnd(row, start, k - 1) = LongEnd(cols, value, k - 1)
             /\ LongEnd(cols, value, k) \in Nat /\ LongEnd(cols, value, k - 1) \in Nat
             /\ LongEnd(cols, value, k - 1) <= LongEnd(cols, value, k)
             /\ data + LongEnd(cols, value, k) <= Len(row)
             /\ Slice(row, data + LongEnd(cols, value, k - 1), data + LongEnd(cols, value, k)) = bytes[k]
  <2>1. TailFound(row, cols, value, start, k)
    BY <1>6
  <2>2. TailEnd(row, start, k - 1) = LongEnd(cols, value, k - 1)
    <3>1. CASE k = 1
      <4>1. bytes \in Seq(Seq(Int))
        BY <1>2, LongParts, Zenon
      <4>2. FlattenSeq(SubSeq(bytes, 1, 0)) = <<>>
        BY <4>1, FlattenNone
      <4>3. Len(<<>>) = 0 /\ k - 1 = 0
        BY <3>1
      <4>. QED BY <1>2, <4>2, <4>3 DEF LongEnd, TailEnd
    <3>2. CASE k # 1
      <4>1. PICK j \in 1..lt : j = k - 1
        BY <3>2
      <4>2. TailFound(row, cols, value, start, j)
        BY <1>6
      <4>. QED BY <4>1, <4>2 DEF TailFound
    <3>. QED BY <3>1, <3>2
  <2>. QED BY <1>2, <1>3, <1>7, <2>1, <2>2 DEF TailFound
<1>10. ~(data > Len(row))
  <2>1. 1 \in 1..lt
    BY <1>5
  <2>2. data + LongEnd(cols, value, 1) <= Len(row) /\ LongEnd(cols, value, 1) \in Nat
    BY <1>9, <2>1
  <2>. QED BY <1>8, <2>2
<1>11. ~\E k \in DOMAIN tail : \/ TailEnd(row, start, k) < TailEnd(row, start, k - 1)
                               \/ data + TailEnd(row, start, k) > Len(row)
  <2>. SUFFICES ASSUME NEW k \in 1..lt
                PROVE  /\ ~(TailEnd(row, start, k) < TailEnd(row, start, k - 1))
                       /\ ~(data + TailEnd(row, start, k) > Len(row))
    BY <1>5
  <2>1. PICK a \in Nat, b \in Nat : a = LongEnd(cols, value, k - 1) /\ b = LongEnd(cols, value, k)
    BY <1>9
  <2>2. a <= b /\ data + b <= Len(row) /\ TailEnd(row, start, k) = b /\ TailEnd(row, start, k - 1) = a
    BY <1>9, <2>1
  <2>. QED BY <1>8, <2>2
<1>. DEFINE rank(i) == CHOOSE k \in DOMAIN tail : tail[k] = i
            vals == [i \in DOMAIN slices |->
                       IF slices[i].kind # "tail" THEN slices[i]
                       ELSE [kind |-> "value",
                             bytes |-> Slice(row, data + TailEnd(row, start, rank(i) - 1),
                                                  data + TailEnd(row, start, rank(i)))]]
<1>12. ParseCompressedTailValues(row, start, tail, slices) = Accepted(vals)
  BY <1>3, <1>7, <1>10, <1>11 DEF ParseCompressedTailValues
<1>13. ASSUME NEW i \in 1..n PROVE ValueSlice(vals[i], ValueOf(cols, value, i))
  <2>1. PICK v : v = ValueOf(cols, value, i)
    OBVIOUS
  <2>2. SliceShows(slices[i], v)
    BY <2>1
  <2>3. CASE v = Null \/ ~Long(v)
    <3>1. slices[i].kind # "tail"
      BY <2>2, <2>3 DEF SliceShows
    <3>2. vals[i] = slices[i]
      BY <3>1
    <3>. HIDE DEF vals
    <3>3. v # Null => InRow(v) = v
      BY <2>3 DEF InRow, Long
    <3>. QED BY <2>1, <2>2, <2>3, <3>2, <3>3 DEF SliceShows, ValueSlice
  <2>4. CASE v # Null /\ Long(v)
    <3>1. i \in 1..Len(cols) /\ v = value[cols[i].id]
      <4>. ~(i > Len(cols))
        BY <2>1, <2>4 DEF ValueOf
      <4>. QED BY <1>1, <2>1 DEF ValueOf
    <3>2. \E k \in 1..lt : tail[k] = i
      <4>. DEFINE S == {j \in DOMAIN cols : Long(value[cols[j].id])}
      <4>1. S \in SUBSET (1..Len(cols)) /\ i \in S
        BY <1>1, <2>4, <3>1
      <4>2. tail = InOrder(S)
        BY <1>2 DEF LongCols
      <4>. HIDE DEF S
      <4>3. Rank(S, i) \in 1..Cardinality(S) /\ InOrder(S)[Rank(S, i)] = i
        BY <1>1, <4>1, InOrderProperties
      <4>4. DOMAIN InOrder(S) = 1..Cardinality(S)
        BY <1>1, <4>1, InOrderProperties
      <4>. QED BY <1>5, <4>2, <4>3, <4>4
    <3>3. PICK k \in 1..lt : k = rank(i) /\ tail[k] = i
      BY <1>5, <3>2
    <3>4. slices[i].kind = "tail"
      BY <2>2, <2>4 DEF SliceShows
    <3>5. vals[i] = [kind |-> "value", bytes |-> Slice(row, data + TailEnd(row, start, k - 1),
                                                            data + TailEnd(row, start, k))]
      BY <3>3, <3>4
    <3>6. vals[i] = [kind |-> "value", bytes |-> bytes[k]]
      BY <1>9, <3>5
    <3>7. bytes[k] = InRow(v)
      BY <1>2, <1>5, <3>1, <3>3 DEF LongBytes
    <3>. HIDE DEF vals
    <3>8. v # <<0>>
      BY <2>4, ZeroIsShort
    <3>. QED BY <2>1, <2>4, <3>6, <3>7, <3>8 DEF ValueSlice
  <2>. QED BY <2>3, <2>4
<1>. HIDE DEF vals
<1>14. Accepted(vals).vals = vals
  BY DEF Accepted
<1>. QED BY <1>2, <1>12, <1>13, <1>14 DEF ParsedRow

(* So the decoder finds the values of a compressed row.                    *)
LEMMA CompressedParse ==
  ASSUME NEW cols, NEW value, IsRow(cols, value), NEW row, CompressedLayout(row, cols, value), FitsPage(row),
         NEW phys, HasRoom(Len(phys), cols)
  PROVE  ParsedRow(ParseCompressedRowLayout(row, phys), cols, value, Len(phys))
<1>1. PICK n : n = Len(phys)
  OBVIOUS
<1>. DEFINE nibbles == ExtractCompressedColumnNibbles(row, n)
            end == InlineOffset(nibbles, n + 1)
            slices == [i \in 1..n |-> ReadSlice(row, InlineOffset(nibbles, i), nibbles[i])]
            tail == InOrder({i \in 1..n : nibbles[i] = 10})
<1>2. HasRoom(n, cols) /\ n \in Nat
  BY <1>1 DEF HasRoom
<1>3. PayloadStart(n) <= Len(row) /\ end <= Len(row) /\ EndsWith(row, end, TailPart(cols, value))
  BY <1>2, TailStart
<1>4. tail = LongCols(cols, value)
  BY <1>2, TailColumns
<1>5. ASSUME NEW i \in 1..n PROVE SliceShows(slices[i], ValueOf(cols, value, i))
  <2>1. SliceShows(ReadSlice(row, InlineOffset(nibbles, i), nibbles[i]), ValueOf(cols, value, i))
    BY <1>2, SlicesRead
  <2>2. slices[i] = ReadSlice(row, InlineOffset(nibbles, i), nibbles[i])
    OBVIOUS
  <2>. HIDE DEF slices, nibbles
  <2>. QED BY <2>1, <2>2
<1>6. ~(PayloadStart(n) > Len(row) \/ end > Len(row))
  <2>. PayloadStart(n) \in Nat /\ end \in Nat /\ Len(row) \in Nat
    <3>. HIDE DEF end
    <3>. QED BY <1>2, <1>3 DEF EndsWith, PayloadStart
  <2>. HIDE DEF end
  <2>. QED BY <1>3
<1>7. ParseCompressedRowLayout(row, phys)
      = IF tail # <<>> THEN ParseCompressedTailValues(row, end, tail, slices) ELSE Accepted(slices)
  <2>1. ParseCompressedRowLayout(row, phys)
        = IF PayloadStart(n) > Len(row) \/ end > Len(row) THEN Refused("ParseFailed")
          ELSE IF tail # <<>> THEN ParseCompressedTailValues(row, end, tail, slices) ELSE Accepted(slices)
    BY <1>1 DEF ParseCompressedRowLayout
  <2>. HIDE DEF end, tail, slices
  <2>. QED BY <1>6, <2>1
<1>8. DOMAIN slices = 1..n
  OBVIOUS
<1>. HIDE DEF end, tail, slices
<1>9. CASE tail # <<>>
  <2>1. ParsedRow(ParseCompressedTailValues(row, end, LongCols(cols, value), slices), cols, value, n)
    BY <1>2, <1>3, <1>4, <1>5, <1>8, <1>9, TailParsed
  <2>. QED BY <1>1, <1>4, <1>7, <1>9, <2>1
<1>10. CASE tail = <<>>
  <2>1. ASSUME NEW i \in 1..n PROVE ValueSlice(slices[i], ValueOf(cols, value, i))
    <3>1. PICK v : v = ValueOf(cols, value, i)
      OBVIOUS
    <3>2. v = Null \/ ~Long(v)
      <4>1. LongCols(cols, value) = <<>>
        BY <1>4, <1>10
      <4>2. Len(cols) \in Nat /\ DOMAIN cols = 1..Len(cols)
        BY ColumnPositions
      <4>3. CASE i > Len(cols)
        BY <3>1, <4>3 DEF ValueOf
      <4>4. CASE ~(i > Len(cols))
        <5>. DEFINE S == {j \in DOMAIN cols : Long(value[cols[j].id])}
        <5>1. i \in 1..Len(cols) /\ v = value[cols[i].id]
          BY <1>2, <3>1, <4>2, <4>4 DEF ValueOf
        <5>2. S \in SUBSET (1..Len(cols)) /\ (Long(v) => i \in S)
          BY <4>2, <5>1
        <5>3. InOrder(S) = <<>>
          BY <4>1 DEF LongCols
        <5>. HIDE DEF S
        <5>4. InOrder(S) \in [1..Cardinality(S) -> S] /\ \A j \in S : Rank(S, j) \in 1..Cardinality(S)
          BY <4>2, <5>2, InOrderProperties
        <5>5. DOMAIN InOrder(S) = 1..Cardinality(S) /\ DOMAIN <<>> = {}
          BY <5>4
        <5>6. S = {}
          BY <5>3, <5>4, <5>5
        <5>. QED BY <5>2, <5>6
      <4>. QED BY <4>3, <4>4
    <3>3. SliceShows(slices[i], v)
      BY <1>5, <3>1
    <3>4. v # Null => InRow(v) = v
      BY <3>2 DEF InRow, Long
    <3>. QED BY <3>1, <3>2, <3>3, <3>4 DEF SliceShows, ValueSlice
  <2>2. Accepted(slices).vals = slices
    BY DEF Accepted
  <2>3. ParseCompressedRowLayout(row, phys) = Accepted(slices)
    BY <1>7, <1>10
  <2>. QED BY <1>1, <2>1, <2>2, <2>3 DEF ParsedRow
<1>. QED BY <1>9, <1>10

(* A column shows its value, unless that is stored off-row, which it shows *)
(* as NULL, or is a string that begins with a zero, and so may any.        *)
Shown(v) == IF v = Lob THEN Null ELSE v

(* What decodeCompressedColumnValue makes of it.                            *)
LEMMA ColumnConverted ==
  ASSUME NEW cols, NEW value, IsRow(cols, value), Readable(cols, value), NEW i \in Nat \ {0},
         NEW col, i <= Len(cols) => (Fixed(col) <=> Fixed(cols[i])),
         NEW slice, ValueSlice(slice, ValueOf(cols, value, i))
  PROVE  /\ decodeCompressedColumnValue(col, slice) = Shown(ValueOf(cols, value, i))
         /\ slice.kind # "reference"
<1>1. PICK v : v = ValueOf(cols, value, i)
  OBVIOUS
<1>2. CASE v = Null
  <2>1. slice.kind = "null" /\ Shown(v) = Null
    BY <1>1, <1>2 DEF ValueSlice, Shown
  <2>. QED BY <1>1, <2>1 DEF decodeCompressedColumnValue
<1>3. CASE v # Null
  <2>0. Len(cols) \in Nat /\ DOMAIN cols = 1..Len(cols)
    BY ColumnPositions
  <2>1. ~(i > Len(cols))
    BY <1>1, <1>3 DEF ValueOf
  <2>2. i \in 1..Len(cols) /\ v = value[cols[i].id] /\ (Fixed(col) <=> Fixed(cols[i]))
    BY <1>1, <2>0, <2>1 DEF ValueOf
  <2>3. v \in StoredValues(cols[i])
    BY <2>0, <2>2 DEF IsRow
  <2>4. slice.kind = "value" /\ slice.bytes = IF v = <<0>> THEN <<>> ELSE InRow(v)
    BY <1>1, <1>3 DEF ValueSlice
  <2>5. CASE Fixed(cols[i])
    <3>1. PICK b \in 0..255 : v = <<b>>
      BY <1>3, <2>3, <2>5 DEF StoredValues
    <3>2. v # Lob /\ v # <<>> /\ Shown(v) = v /\ InRow(v) = v
      BY <1>3, <3>1 DEF Lob, Shown, InRow
    <3>3. decodeCompressedColumnValue(col, slice) = IF slice.bytes = <<>> THEN <<0>> ELSE <<slice.bytes[1]>>
      BY <2>2, <2>4, <2>5 DEF decodeCompressedColumnValue
    <3>4. v[1] = b /\ <<v[1]>> = v
      BY <3>1
    <3>. QED BY <1>1, <2>4, <3>2, <3>3, <3>4
  <2>6. CASE ~Fixed(cols[i])
    <3>1. decodeCompressedColumnValue(col, slice) = decodeCompressedVarChar(slice.bytes)
      BY <2>2, <2>4, <2>6 DEF decodeCompressedColumnValue
    <3>2. CASE v = Lob
      <4>1. InRow(v) = <<0, 7>> /\ v # <<0>> /\ Shown(v) = Null
        BY <1>3, <3>2 DEF InRow, Shown, Lob
      <4>2. <<0, 7>> # <<>> /\ <<0, 7>>[1] = 0
        OBVIOUS
      <4>. QED BY <1>1, <2>4, <3>1, <4>1, <4>2 DEF decodeCompressedVarChar
    <3>3. CASE v # Lob
      <4>1. v # <<>> => v[1] # 0
        BY <1>3, <2>0, <2>2, <2>6, <3>3 DEF Readable
      <4>2. v # <<0>>
        <5>. <<0>> # <<>> /\ <<0>>[1] = 0
          OBVIOUS
        <5>. QED BY <4>1
      <4>3. slice.bytes = v /\ Shown(v) = v
        BY <1>3, <2>4, <3>3, <4>2 DEF InRow, Shown
      <4>. QED BY <1>1, <2>4, <3>1, <4>1, <4>3 DEF decodeCompressedVarChar
    <3>. QED BY <3>2, <3>3
  <2>. QED BY <2>5, <2>6, <2>4
<1>. QED BY <1>2, <1>3

(* What CompressedDecode makes of a row: it goes by id, through the        *)
(* physical columns.                                                       *)
CompressedDecoded(res, cols, value, phys, dcols) ==
  LET at(id) == {k \in DOMAIN phys : phys[k].id = id /\ ~phys[k].phantom} IN
  res = Accepted([i \in DOMAIN dcols |->
          IF at(dcols[i].id) = {} THEN Null ELSE Shown(ValueOf(cols, value, Max(at(dcols[i].id))))])

(* A row that is accepted has no error.                                    *)
LEMMA AcceptedOk ==
  ASSUME NEW vals
  PROVE  Accepted(vals).err = "" /\ Accepted(vals).vals = vals
BY DEF Accepted

(* And so it does.                                                         *)
LEMMA CompressedDecodes ==
  ASSUME NEW cols, NEW value, IsRow(cols, value), Readable(cols, value),
         NEW row, CompressedLayout(row, cols, value), FitsPage(row),
         NEW dcols, NEW physical, NEW phys, phys = (IF physical # <<>> THEN physical ELSE dcols),
         HasRoom(Len(phys), cols), SameKinds(phys, cols)
  PROVE  CompressedDecoded(CompressedDecode(row, dcols, physical), cols, value, phys, dcols)
<1>1. PICK parsed, n : parsed = ParseCompressedRowLayout(row, phys) /\ n = Len(phys)
  OBVIOUS
<1>2. n \in Nat /\ DOMAIN phys = 1..n
  BY <1>1 DEF SameKinds
<1>3. ParsedRow(parsed, cols, value, n)
  BY <1>1, CompressedParse
<1>4. parsed.err = ""
  <2>1. PICK vals : vals = parsed.vals
    OBVIOUS
  <2>2. parsed = Accepted(vals)
    BY <1>3, <2>1 DEF ParsedRow
  <2>. QED BY <2>2, AcceptedOk
<1>5. ASSUME NEW k \in 1..n
      PROVE  /\ decodeCompressedColumnValue(phys[k], parsed.vals[k]) = Shown(ValueOf(cols, value, k))
             /\ parsed.vals[k].kind # "reference"
  <2>1. ValueSlice(parsed.vals[k], ValueOf(cols, value, k))
    BY <1>3 DEF ParsedRow
  <2>2. Len(cols) \in Nat
    BY ColumnPositions
  <2>3. k <= Len(cols) => (Fixed(phys[k]) <=> Fixed(cols[k]))
    <3>. SUFFICES ASSUME k <= Len(cols) PROVE Fixed(phys[k]) <=> Fixed(cols[k])
      OBVIOUS
    <3>1. k \in 1..Len(cols) /\ k <= Len(phys)
      BY <1>1, <1>2, <2>2
    <3>. QED BY <3>1 DEF SameKinds
  <2>4. k \in Nat \ {0}
    OBVIOUS
  <2>. QED BY <2>1, <2>3, <2>4, ColumnConverted
<1>6. ~(Len(row) < 2 \/ ~Bit(row[1], 5))
  <2>1. Bit(33, 5)
    BY DEF Bit
  <2>2. row[1] = 33 /\ Len(row) >= 2
    <3>1. PICK s, t, m : /\ s = FlattenSeq(ShortPart(cols, value)) /\ t = TailPart(cols, value)
                         /\ m = (Len(cols) + 1) \div 2
      OBVIOUS
    <3>2. s \in Seq(Int) /\ t \in Seq(Int)
      <4>1. ShortPart(cols, value) \in Seq(Seq(Int)) /\ TailPart(cols, value) \in Seq(Int)
        BY CompressedParts
      <4>. QED BY <3>1, <4>1, FlattenSeqType
    <3>3. Len(s) \in Nat /\ Len(t) \in Nat
      BY <3>2
    <3>4. m \in Nat
      <4>. Len(cols) \in Nat
        BY ColumnPositions
      <4>. QED BY <3>1
    <3>5. Len(row) = 2 + m + Len(s) + Len(t) /\ row[1] = 33
      BY <3>1 DEF CompressedLayout
    <3>. QED BY <3>3, <3>4, <3>5
  <2>3. Len(row) \in Nat
    BY DEF CompressedLayout
  <2>. QED BY <2>1, <2>2, <2>3
<1>7. ~\E k \in DOMAIN phys : parsed.vals[k].kind = "reference"
  BY <1>2, <1>5
<1>. DEFINE at(id) == {k \in DOMAIN phys : phys[k].id = id /\ ~phys[k].phantom}
<1>8. CompressedDecode(row, dcols, physical)
      = Accepted([i \in DOMAIN dcols |->
          IF at(dcols[i].id) = {} THEN Null
          ELSE decodeCompressedColumnValue(phys[Max(at(dcols[i].id))], parsed.vals[Max(at(dcols[i].id))])])
  BY <1>1, <1>4, <1>6, <1>7 DEF CompressedDecode
<1>9. ASSUME NEW i \in DOMAIN dcols, at(dcols[i].id) # {}
      PROVE  decodeCompressedColumnValue(phys[Max(at(dcols[i].id))], parsed.vals[Max(at(dcols[i].id))])
             = Shown(ValueOf(cols, value, Max(at(dcols[i].id))))
  <2>1. PICK S : S = at(dcols[i].id)
    OBVIOUS
  <2>2. S \in SUBSET (0..n) /\ S \subseteq 1..n /\ S # {}
    BY <1>2, <1>9, <2>1
  <2>3. Max(S) \in 1..n
    BY <1>2, <2>2, MaxMember
  <2>. HIDE DEF at
  <2>. QED BY <1>5, <2>1, <2>3
<1>10. [i \in DOMAIN dcols |->
          IF at(dcols[i].id) = {} THEN Null
          ELSE decodeCompressedColumnValue(phys[Max(at(dcols[i].id))], parsed.vals[Max(at(dcols[i].id))])]
       = [i \in DOMAIN dcols |->
          IF at(dcols[i].id) = {} THEN Null ELSE Shown(ValueOf(cols, value, Max(at(dcols[i].id))))]
  <2>. HIDE DEF at
  <2>. QED BY <1>9
<1>. QED BY <1>8, <1>10 DEF CompressedDecoded

-----------------------------------------------------------------------------
(* A row is a sequence of numbers that is not empty, and its data begin in *)
(* it or at its end.                                                       *)
LEMMA EncodedRow ==
  ASSUME NEW format \in {"NONE", "ROW"}, NEW cols, NEW value, IsRow(cols, value)
  PROVE  /\ Encode(format, cols, value) \in Seq(Int)
         /\ Len(Encode(format, cols, value)) > 0
<1>1. CASE format = "NONE"
  <2>1. PICK v, n, f, b : v = VarPart(cols, value) /\ n = Len(cols) /\ f = FixedPart(cols, value)
                          /\ b = NullBitmap(cols, value)
    OBVIOUS
  <2>2. PlainLayout(EncodePlain(cols, value), n, f, b, v)
    BY <2>1, PlainRow, Zenon
  <2>3. EncodePlain(cols, value) \in Seq(Int) /\ Len(EncodePlain(cols, value)) > 0
    BY <2>2 DEF PlainLayout
  <2>. QED BY <1>1, <2>3 DEF Encode
<1>2. CASE format = "ROW"
  <2>1. EncodeCompressed(cols, value) \in Seq(Int)
    BY CompressedRow
  <2>2. PayloadStart(Len(cols)) \in 1..Len(EncodeCompressed(cols, value))
    BY CompressedRow
  <2>3. Len(EncodeCompressed(cols, value)) > 0
    BY <2>1, <2>2
  <2>. QED BY <1>2, <2>1, <2>3 DEF Encode
<1>. QED BY <1>1, <1>2
-----------------------------------------------------------------------------
(* What is read is what was written.                                       *)

(* DecodeRow gives back the values of an uncompressed row, also with zeros *)
(* after it.                                                               *)
LEMMA PlainRoundTrip ==
  ASSUME NEW cols, NEW value, Positional(cols), InFull("NONE", cols, value),
         NEW row, Padded(row, EncodePlain(cols, value))
  PROVE  DecodeRow(row, cols) = Accepted([i \in DOMAIN cols |-> value[i]])
<1>1. Len(cols) \in Nat /\ DOMAIN cols = 1..Len(cols) /\ IsRow(cols, value)
  BY ColumnPositions DEF InFull
<1>2. SameKinds(cols, cols)
  BY <1>1 DEF SameKinds
<1>3. \A i \in DOMAIN cols : value[cols[i].id] = value[i]
  BY DEF Positional
<1>4. FitsPage(EncodePlain(cols, value))
  BY DEF InFull, Encode
<1>5. PlainDecoded(DecodeRow(row, cols), cols, value, cols)
  BY <1>1, <1>2, <1>4, PlainDecode
<1>6. ~HasGaps(cols) /\ ~(Len(cols) > Len(cols))
  BY <1>1 DEF HasGaps, Positional
<1>7. ~\E i \in 1..Len(cols) : value[cols[i].id] = Lob
  BY <1>1 DEF InFull
<1>8. DecodeRow(row, cols) = Accepted([i \in DOMAIN cols |-> IF i <= Len(cols) THEN value[cols[i].id] ELSE Null])
  BY <1>5, <1>6, <1>7 DEF PlainDecoded
<1>9. [i \in DOMAIN cols |-> IF i <= Len(cols) THEN value[cols[i].id] ELSE Null] = [i \in DOMAIN cols |-> value[i]]
  <2>. \A i \in DOMAIN cols : i <= Len(cols)
    BY <1>1
  <2>. QED BY <1>3
<1>. QED BY <1>8, <1>9

(* decodeRowImage gives back the values of such a row, in either format:   *)
(* and so does DecodeDMLRowImage, which has no other layout to fall back   *)
(* on.                                                                     *)
THEOREM RoundTrip ==
  ASSUME NEW format \in {"NONE", "ROW"}, NEW cols, NEW value, Positional(cols), InFull(format, cols, value)
  PROVE  /\ decodeRowImage(Encode(format, cols, value), cols, cols, format)
            = Accepted([i \in DOMAIN cols |-> value[i]])
         /\ DecodeDMLRowImage(Encode(format, cols, value), cols, cols, format)
            = Accepted([i \in DOMAIN cols |-> value[i]])
<1>1. Len(cols) \in Nat /\ DOMAIN cols = 1..Len(cols) /\ IsRow(cols, value)
  BY ColumnPositions DEF InFull
<1>2. SameKinds(cols, cols)
  BY <1>1 DEF SameKinds
<1>3. \A i \in DOMAIN cols : value[cols[i].id] = value[i]
  BY DEF Positional
<1>4. CASE format = "NONE"
  <2>1. PICK row : row = EncodePlain(cols, value)
    OBVIOUS
  <2>2. row = Encode(format, cols, value)
    BY <1>4, <2>1 DEF Encode
  <2>3. row \in Seq(Int)
    BY <1>1, <2>1, PlainRow DEF PlainLayout
  <2>4. Padded(row, EncodePlain(cols, value))
    BY <2>1, <2>3 DEF Padded
  <2>5. DecodeRow(row, cols) = Accepted([i \in DOMAIN cols |-> value[i]])
    BY <1>4, <2>4, PlainRoundTrip
  <2>6. DecodeDMLRowImage(row, cols, cols, format) = Accepted([i \in DOMAIN cols |-> value[i]])
    BY <1>4, <2>5 DEF DecodeDMLRowImage
  <2>. QED BY <1>4, <2>2, <2>6 DEF decodeRowImage
<1>5. CASE format = "ROW"
  <2>1. PICK row : row = EncodeCompressed(cols, value)
    OBVIOUS
  <2>2. row = Encode(format, cols, value)
    BY <1>5, <2>1 DEF Encode
  <2>3. CompressedLayout(row, cols, value) /\ FitsPage(row) /\ Readable(cols, value)
    <3>1. CompressedLayout(row, cols, value)
      BY <1>1, <2>1, CompressedRowLayout
    <3>2. FitsPage(row) /\ Readable(cols, value)
      BY <1>5, <2>2 DEF InFull
    <3>. QED BY <3>1, <3>2
  <2>4. HasRoom(Len(cols), cols)
    BY <1>1 DEF HasRoom
  <2>5. CompressedDecoded(CompressedDecode(row, cols, cols), cols, value, cols, cols)
    <3>. cols = IF cols # <<>> THEN cols ELSE cols
      OBVIOUS
    <3>. QED BY <1>1, <1>2, <2>3, <2>4, CompressedDecodes
  <2>. DEFINE at(id) == {k \in DOMAIN cols : cols[k].id = id /\ ~cols[k].phantom}
  <2>6. ASSUME NEW i \in DOMAIN cols PROVE at(cols[i].id) = {i}
    BY DEF Positional
  <2>7. ASSUME NEW i \in DOMAIN cols PROVE Max({i}) = i
    <3>. i \in Nat /\ {i} \in SUBSET (0..i)
      BY <1>1
    <3>. QED BY MaxMember
  <2>8. ASSUME NEW i \in DOMAIN cols PROVE Shown(ValueOf(cols, value, i)) = value[i]
    <3>1. ~(i > Len(cols))
      BY <1>1
    <3>2. ValueOf(cols, value, i) = value[i]
      BY <1>3, <3>1 DEF ValueOf
    <3>3. value[i] # Lob
      BY <1>3 DEF InFull
    <3>. QED BY <3>2, <3>3 DEF Shown
  <2>9. CompressedDecode(row, cols, cols)
        = Accepted([i \in DOMAIN cols |->
            IF at(cols[i].id) = {} THEN Null ELSE Shown(ValueOf(cols, value, Max(at(cols[i].id))))])
    BY <2>5 DEF CompressedDecoded
  <2>. HIDE DEF at
  <2>10. [i \in DOMAIN cols |-> IF at(cols[i].id) = {} THEN Null ELSE Shown(ValueOf(cols, value, Max(at(cols[i].id))))]
         = [i \in DOMAIN cols |-> value[i]]
    <3>. \A i \in DOMAIN cols : {i} # {}
      OBVIOUS
    <3>. QED BY <2>6, <2>7, <2>8
  <2>11. DecodeDMLRowImage(row, cols, cols, format) = Accepted([i \in DOMAIN cols |-> value[i]])
    BY <1>5, <2>9, <2>10 DEF DecodeDMLRowImage
  <2>12. Accepted([i \in DOMAIN cols |-> value[i]]).err = ""
    BY DEF Accepted
  <2>. QED BY <2>2, <2>11, <2>12 DEF decodeRowImage
<1>. QED BY <1>4, <1>5
=============================================================================
