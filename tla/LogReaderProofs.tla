-------------------------- MODULE LogReaderProofs --------------------------
(***************************************************************************)
(* The handler gets the records of a pass once and in order (OnceInOrder), *)
(* none is missed (NothingMissed, BackupsAreRead) and the variables have   *)
(* their types (ReaderTypeOK), for any page size, any number of log        *)
(* backups in a call and on the list, and any log.                         *)
(*                                                                         *)
(* OnceInOrder speaks of what was delivered.  It is kept because whatever  *)
(* this reader delivered lies before the page it is in, or before the one  *)
(* it asks for next, also when that is in the next call's backups.         *)
(* NothingMissed speaks of a pass that is over.  ReadInv says how far one  *)
(* has come that is not.                                                   *)
(***************************************************************************)
EXTENDS LogReader, FiniteSetTheorems, TLAPS

Stages == {"idle", "trn", "ldf", "done", "failed"}
Modes == {"none", "resume", "history", "poll", "gap"}

(* The log, and the backups that follow one another in it.                 *)
SourceInv ==
  /\ logEnd \in Nat /\ logEnd <= MaxLsn /\ head \in Nat /\ head <= LastBackup
  /\ backups \in Seq(Nat)
  /\ \A i \in 1..Len(backups) : 1 <= backups[i] /\ backups[i] <= logEnd
  /\ \A i, j \in 1..Len(backups) : i < j => backups[i] < backups[j]

(* The calls that are left have their backups on the list.                 *)
PassInv ==
  /\ mode \in Modes /\ stage \in Stages
  /\ from \in Nat /\ from <= logEnd /\ perCall \in {1, MaxFilesPerCall}
  /\ file \in Nat /\ lastFile \in Nat /\ lastFile <= Len(backups)
  /\ stage = "trn" => 1 <= file /\ file <= lastFile /\ mode \in {"history", "gap"}
  /\ endThen \in Nat /\ endThen <= logEnd
  /\ \A l \in listed \cup wanted : l \in Nat /\ 1 <= l /\ l <= logEnd

PageInv ==
  /\ cursor \in Nat /\ cursor <= logEnd
  /\ at \in Nat /\ pageEnd \in Nat /\ at <= pageEnd /\ pageEnd <= logEnd
  /\ count \in Nat /\ count <= ChunkSize

OutInv ==
  /\ delivered \in Seq(Nat)
  /\ \A i \in 1..Len(delivered) : 1 <= delivered[i] /\ delivered[i] <= logEnd
  /\ turn \in Nat /\ turn <= Len(delivered)
  /\ stage = "idle" => delivered = <<>>
  /\ stage = "trn" \/ mode \in {"none", "resume", "poll"} => turn = 0

FlagsInv == paging \in BOOLEAN /\ cancelled \in BOOLEAN /\ trnFailed \in BOOLEAN

TypesInv == SourceInv /\ PassInv /\ PageInv /\ OutInv

(* The LSN after which the next page of this reader begins, if it asks for *)
(* one now.                                                                *)
Start == Higher(cursor, IF stage = "trn" THEN FirstOf(file) ELSE head)

(* A call of fn_dump_dblog comes to the end of its last backup, or stays   *)
(* where it began.                                                         *)
Base == IF mode = "gap" THEN from ELSE 0
InCall(l) == l <= Base \/ l <= backups[LastInCall]

BehindPage ==
  /\ paging => stage \in {"trn", "ldf"}
  /\ stage \in {"trn", "ldf"} =>
       \A i \in turn + 1 .. Len(delivered) :
         /\ paging => delivered[i] <= at
         /\ ~paging => delivered[i] <= Start

WithinCall == stage = "trn" => InCall(cursor) /\ (paging => InCall(pageEnd))

OrderInv == OnceInOrder /\ BehindPage /\ WithinCall

LEMMA HigherLower ==
  ASSUME NEW a \in Nat, NEW b \in Nat
  PROVE  /\ Higher(a, b) \in Nat /\ Higher(a, b) >= a /\ Higher(a, b) >= b /\ Higher(a, b) \in {a, b}
         /\ Lower(a, b) \in Nat /\ Lower(a, b) <= a /\ Lower(a, b) <= b /\ Lower(a, b) \in {a, b}
BY DEF Higher, Lower

LEMMA CountBeforeType ==
  ASSUME SourceInv, NEW l \in Nat
  PROVE  CountBefore(l) \in Nat /\ CountBefore(l) <= Len(backups)
<1> DEFINE S == {i \in DOMAIN backups : backups[i] < l}
<1>1. Len(backups) \in Nat /\ DOMAIN backups = 1..Len(backups)
  BY DEF SourceInv
<1>2. IsFiniteSet(1..Len(backups)) /\ Cardinality(1..Len(backups)) = Len(backups)
  <2>1. 1 \in Int /\ Len(backups) \in Int
    BY <1>1
  <2>2. /\ IsFiniteSet(1..Len(backups))
        /\ Cardinality(1..Len(backups)) = IF 1 > Len(backups) THEN 0 ELSE Len(backups) - 1 + 1
    BY ONLY <2>1, FS_Interval
  <2> QED BY <1>1, <2>2
<1>3. S \subseteq 1..Len(backups)
  BY <1>1
<1>4. Cardinality(S) <= Cardinality(1..Len(backups)) /\ IsFiniteSet(S)
  BY <1>2, <1>3, FS_Subset
<1>5. Cardinality(S) \in Nat
  BY <1>4, FS_CardinalityType
<1> QED BY <1>2, <1>4, <1>5 DEF CountBefore

(* The backups of the call that is under way are on the list.              *)
LEMMA CallOnList ==
  ASSUME SourceInv, PassInv, stage = "trn"
  PROVE  /\ LastInCall \in Nat /\ file <= LastInCall /\ LastInCall <= lastFile
         /\ LastInCall \in 1..Len(backups)
         /\ backups[LastInCall] \in Nat /\ backups[LastInCall] <= logEnd
         /\ FirstOf(file) \in Nat /\ FirstOf(file) < backups[LastInCall]
<1>1. /\ LastInCall \in Nat /\ file <= LastInCall /\ LastInCall <= lastFile
      /\ LastInCall \in 1..Len(backups)
  BY ReaderAssumption DEF PassInv, SourceInv, LastInCall, Lower
<1>2. backups[LastInCall] \in Nat /\ 1 <= backups[LastInCall] /\ backups[LastInCall] <= logEnd
  BY <1>1 DEF SourceInv
<1>3. CASE file = 1
  BY <1>1, <1>2, <1>3 DEF FirstOf
<1>4. CASE file # 1
  <2>1. file - 1 \in 1..Len(backups) /\ file - 1 < LastInCall
    BY <1>1, <1>4 DEF PassInv, SourceInv
  <2>2. backups[file - 1] \in Nat /\ backups[file - 1] < backups[LastInCall]
    BY <1>1, <2>1 DEF SourceInv
  <2> QED BY <1>1, <1>2, <1>4, <2>2 DEF FirstOf
<1> QED BY <1>3, <1>4

LEMMA LastBackupBound ==
  ASSUME SourceInv
  PROVE  LastBackup \in Nat /\ LastBackup <= logEnd
<1>1. CASE backups = <<>>
  BY <1>1 DEF SourceInv, LastBackup
<1>2. CASE backups # <<>>
  <2>1. Len(backups) \in 1..Len(backups)
    BY <1>2 DEF SourceInv
  <2> QED BY <1>2, <2>1 DEF SourceInv, LastBackup
<1> QED BY <1>1, <1>2

LEMMA LastBackupIsLast ==
  ASSUME SourceInv, NEW i \in 1..Len(backups)
  PROVE  backups[i] <= LastBackup
<1>1. Len(backups) \in 1..Len(backups) /\ backups # <<>>
  BY DEF SourceInv
<1>2. i = Len(backups) \/ i < Len(backups)
  BY DEF SourceInv
<1> QED BY <1>1, <1>2 DEF SourceInv, LastBackup

-----------------------------------------------------------------------------
(* The source goes on: what has been read stays where it is.               *)
LEMMA SourceKeeps ==
  ASSUME TypesInv, OrderInv, LogRecord \/ BackUpLog \/ Truncate
  PROVE  TypesInv' /\ OrderInv'
<1> USE DEF TypesInv, OrderInv
<1>1. CASE LogRecord
  <2>1. /\ logEnd' = logEnd + 1 /\ logEnd' <= MaxLsn
        /\ UNCHANGED <<head, backups, passVars, stage, file, pageVars, outVars>>
    BY <1>1, ReaderAssumption DEF LogRecord, SourceInv
  <2>2. LastBackup' = LastBackup /\ Start' = Start /\ LastInCall' = LastInCall /\ Base' = Base
    BY <2>1 DEF LastBackup, Start, FirstOf, LastInCall, Base, passVars, pageVars
  <2>3. /\ SourceInv'
        /\ PassInv'
        /\ PageInv'
        /\ OutInv'
    <3>1. SourceInv'
      BY <2>1, <2>2 DEF SourceInv
    <3>2. PassInv'
      BY <2>1 DEF SourceInv, PassInv, passVars
    <3>3. PageInv'
      BY <2>1 DEF SourceInv, PageInv, pageVars
    <3>4. OutInv'
      BY <2>1 DEF SourceInv, OutInv, outVars, passVars
    <3> QED BY <3>1, <3>2, <3>3, <3>4
  <2>4. OnceInOrder' /\ WithinCall'
    BY <2>1, <2>2 DEF OnceInOrder, WithinCall, InCall, passVars, pageVars, outVars
  <2>5. BehindPage'
    BY <2>1, <2>2 DEF BehindPage, pageVars, outVars
  <2> QED BY <2>3, <2>4, <2>5
<1>2. CASE BackUpLog
  <2>1. /\ LastBackup < logEnd /\ backups' = Append(backups, logEnd)
        /\ UNCHANGED <<logEnd, head, passVars, stage, file, pageVars, outVars>>
    BY <1>2 DEF BackUpLog
  <2>2. /\ backups' \in Seq(Nat) /\ Len(backups') = Len(backups) + 1
        /\ backups'[Len(backups) + 1] = logEnd
        /\ \A i \in 1..Len(backups) : backups'[i] = backups[i] /\ backups[i] < logEnd
    BY <2>1, LastBackupIsLast, LastBackupBound DEF SourceInv
  <2>3. LastBackup' = logEnd
    BY <2>2 DEF LastBackup, SourceInv
  <2>4. SourceInv'
    BY <2>1, <2>2, <2>3, LastBackupBound DEF SourceInv
  <2>5. PassInv' /\ PageInv' /\ OutInv'
    BY <2>1, <2>2 DEF SourceInv, PassInv, PageInv, OutInv, passVars, pageVars, outVars
  <2>6. LastInCall' = LastInCall /\ Base' = Base
    BY <2>1 DEF LastInCall, Base, passVars
  <2>7. stage = "trn" => FirstOf(file)' = FirstOf(file) /\ backups'[LastInCall] = backups[LastInCall]
    BY <2>1, <2>2, CallOnList DEF FirstOf, PassInv, SourceInv
  <2>8. stage \in {"trn", "ldf"} => Start' = Start
    BY <2>1, <2>7 DEF Start, pageVars
  <2>9. OnceInOrder'
    BY <2>1 DEF OnceInOrder, outVars, passVars
  <2>10. BehindPage'
    BY <2>1, <2>8 DEF BehindPage, pageVars, outVars
  <2>11. WithinCall'
    BY <2>1, <2>6, <2>7 DEF WithinCall, InCall, pageVars
  <2> QED BY <2>4, <2>5, <2>9, <2>10, <2>11
<1>3. CASE Truncate
  <2>1. /\ head' \in Nat /\ head < head' /\ head' <= LastBackup
        /\ UNCHANGED <<logEnd, backups, passVars, stage, file, pageVars, outVars>>
    BY <1>3, LastBackupBound DEF Truncate, SourceInv
  <2>2. LastBackup' = LastBackup /\ LastInCall' = LastInCall /\ Base' = Base
    BY <2>1 DEF LastBackup, LastInCall, Base, passVars
  <2>3. SourceInv' /\ PassInv' /\ PageInv' /\ OutInv'
    BY <2>1, <2>2 DEF SourceInv, PassInv, PageInv, OutInv, passVars, pageVars, outVars
  <2>4. stage \in {"trn", "ldf"} => Start \in Nat /\ Start' \in Nat /\ Start <= Start'
    BY <2>1, CallOnList DEF Start, Higher, FirstOf, SourceInv, PageInv, pageVars
  <2>5. OnceInOrder' /\ WithinCall'
    BY <2>1, <2>2 DEF OnceInOrder, WithinCall, InCall, outVars, passVars, pageVars
  <2>6. BehindPage'
    BY <2>1, <2>4 DEF BehindPage, OutInv, pageVars, outVars
  <2> QED BY <2>3, <2>5, <2>6
<1> QED BY <1>1, <1>2, <1>3

-----------------------------------------------------------------------------
(* A pass begins, before anything is delivered.                            *)
LEMMA BeginKeeps ==
  ASSUME TypesInv, OrderInv, Resume \/ History \/ FillGap
  PROVE  TypesInv' /\ OrderInv'
<1> USE DEF TypesInv, OrderInv
<1>1. /\ UNCHANGED <<sourceVars, outVars>> /\ paging' = FALSE
      /\ at' = 0 /\ pageEnd' = 0 /\ count' = 0
      /\ perCall' \in {1, MaxFilesPerCall}
  BY DEF Resume, History, FillGap, Begin
<1>2. delivered = <<>> /\ turn = 0
  BY DEF Resume, History, FillGap, OutInv
<1>3. SourceInv'
  BY <1>1 DEF SourceInv, sourceVars, LastBackup
<1>4. OutInv' /\ OnceInOrder' /\ BehindPage'
  <2>1. delivered' = <<>> /\ turn' = 0 /\ stage' # "idle"
    BY <1>1, <1>2 DEF Resume, History, FillGap, outVars
  <2> QED BY <1>1, <2>1 DEF OutInv, OnceInOrder, BehindPage
<1>5. ReaderAssumption /\ LastBackup \in Nat /\ LastBackup <= logEnd
  BY ReaderAssumption, LastBackupBound
<1>6. \A i, j : HeldBy(i, j) \subseteq 1..logEnd
  BY DEF HeldBy
<1>7. CASE Resume
  <2>1. PICK m \in {"resume", "poll"}, lsn \in 0..logEnd : Begin(m, lsn, 1, 0) /\ cursor' = lsn
    BY <1>7 DEF Resume
  <2>2. stage' = "ldf" /\ endThen' = logEnd /\ wanted' = {}
    BY <1>7 DEF Resume
  <2>3. PassInv'
    BY <1>1, <1>6, <2>1, <2>2 DEF PassInv, SourceInv, Begin, Modes, Stages, sourceVars
  <2>4. PageInv' /\ WithinCall'
    BY <1>1, <1>5, <2>1, <2>2 DEF PageInv, WithinCall, SourceInv, sourceVars
  <2> QED BY <1>3, <1>4, <2>3, <2>4
<1>8. CASE History
  <2>1. PICK since \in 1..logEnd :
          /\ Begin("history", since - 1, HistoryFirst(since), HistoryLast(since))
          /\ wanted' = IF Len(backups) - CountBefore(since) <= MaxHistory
                       THEN {l \in 1..head : l >= since} ELSE {}
    BY <1>8 DEF History
  <2>2. stage' = "trn" /\ cursor' = 0 /\ endThen' = logEnd /\ backups # <<>>
    BY <1>8 DEF History
  <2>3. since \in Nat /\ CountBefore(since) \in Nat /\ CountBefore(since) <= Len(backups) /\ Len(backups) \in Nat
        /\ Len(backups) >= 1
    <3>1. since \in Nat
      BY <2>1 DEF SourceInv
    <3>2. CountBefore(since) \in Nat /\ CountBefore(since) <= Len(backups)
      BY <3>1, CountBeforeType
    <3>3. Len(backups) \in Nat /\ Len(backups) >= 1
      BY <2>2 DEF SourceInv
    <3> QED BY <3>1, <3>2, <3>3
  <2>4. /\ HistoryFirst(since) \in Nat /\ 1 <= HistoryFirst(since)
        /\ HistoryLast(since) \in Nat /\ HistoryFirst(since) <= HistoryLast(since)
        /\ HistoryLast(since) <= Len(backups)
    BY <1>5, <2>3 DEF HistoryFirst, HistoryLast, Higher, Lower, ReaderAssumption
  <2>5. wanted' \subseteq 1..logEnd
    BY <1>5, <2>1 DEF SourceInv
  <2>6. PassInv'
    BY <1>1, <1>6, <2>1, <2>2, <2>4, <2>5 DEF PassInv, SourceInv, Begin, Modes, Stages, sourceVars
  <2>7. PageInv' /\ WithinCall'
    BY <1>1, <1>5, <2>1, <2>2 DEF PageInv, WithinCall, InCall, Base, Begin, SourceInv, sourceVars, ReaderAssumption
  <2> QED BY <1>3, <1>4, <2>6, <2>7
<1>9. CASE FillGap
  <2>1. PICK old \in 0..Len(backups) :
          /\ Begin("gap", from, GapFirst(from, old), GapLast(from, old))
          /\ wanted' = IF old <= CountBefore(from) /\ Len(backups) - CountBefore(from) <= MaxFilesPerCall
                       THEN from + 1 .. head ELSE {}
          /\ stage' = IF GapFirst(from, old) <= Len(backups) THEN "trn" ELSE "ldf"
          /\ cursor' = IF GapFirst(from, old) <= Len(backups) THEN from ELSE 0
    BY <1>9 DEF FillGap
  <2>2. endThen' = endThen
    BY <1>9 DEF FillGap
  <2>3. from \in Nat /\ CountBefore(from) \in Nat /\ CountBefore(from) <= Len(backups) /\ Len(backups) \in Nat
    <3>1. from \in Nat
      BY DEF PassInv
    <3>2. CountBefore(from) \in Nat /\ CountBefore(from) <= Len(backups)
      BY <3>1, CountBeforeType
    <3>3. Len(backups) \in Nat
      BY DEF SourceInv
    <3> QED BY <3>1, <3>2, <3>3
  <2>4. /\ GapFirst(from, old) \in Nat /\ 1 <= GapFirst(from, old)
        /\ GapLast(from, old) \in Nat /\ GapLast(from, old) <= Len(backups)
        /\ GapFirst(from, old) <= Len(backups) => GapFirst(from, old) <= GapLast(from, old)
    BY <1>5, <2>1, <2>3 DEF GapFirst, GapLast, Higher, Lower, ReaderAssumption
  <2>5. wanted' \subseteq 1..logEnd
    BY <1>5, <2>1, <2>3 DEF SourceInv
  <2>6. PassInv'
    <3>1. /\ mode' = "gap" /\ from' = from /\ file' = GapFirst(from, old) /\ lastFile' = GapLast(from, old)
          /\ listed' \subseteq 1..logEnd /\ UNCHANGED <<logEnd, backups>>
      BY <1>1, <1>6, <2>1 DEF Begin, sourceVars
    <3>2. stage' \in {"trn", "ldf"} /\ (stage' = "trn" => file' <= Len(backups))
      BY <2>1, <2>4, <3>1
    <3> QED BY <1>1, <2>2, <2>4, <2>5, <3>1, <3>2 DEF PassInv, SourceInv, Modes, Stages
  <2>7. PageInv' /\ WithinCall'
    BY <1>1, <1>5, <2>1, <2>3 DEF PageInv, WithinCall, InCall, Base, Begin, PassInv, SourceInv, sourceVars, ReaderAssumption
  <2> QED BY <1>3, <1>4, <2>6, <2>7
<1> QED BY <1>7, <1>8, <1>9

-----------------------------------------------------------------------------
(* Pages.                                                                  *)
LEMMA QueryKeeps ==
  ASSUME TypesInv, OrderInv, QueryLdf \/ QueryTrn
  PROVE  TypesInv' /\ OrderInv'
<1> USE DEF TypesInv, OrderInv
<1>1. /\ UNCHANGED <<sourceVars, passVars, stage, file, cursor, outVars>>
      /\ ~paging /\ paging' = TRUE /\ stage \in {"trn", "ldf"}
  BY DEF QueryLdf, QueryTrn, QueryPage
<1>2. SourceInv' /\ PassInv' /\ OutInv' /\ OnceInOrder'
  <2>1. SourceInv'
    BY <1>1 DEF SourceInv, sourceVars, LastBackup
  <2>2. PassInv'
    BY <1>1 DEF PassInv, sourceVars, passVars
  <2>3. OutInv'
    BY <1>1 DEF OutInv, sourceVars, passVars, outVars
  <2>4. OnceInOrder'
    BY <1>1 DEF OnceInOrder, passVars, outVars
  <2> QED BY <2>1, <2>2, <2>3, <2>4
<1>3. PICK hi \in 0..logEnd :
        /\ at' = Start /\ pageEnd' = Higher(Start, Lower(Start + ChunkSize, hi))
        /\ count' = pageEnd' - Start
        /\ stage = "trn" => hi = backups[LastInCall] /\ Start \in {cursor, FirstOf(file)}
  <2>1. CASE QueryLdf
    <3>1. logEnd \in 0..logEnd
      BY DEF SourceInv
    <3> QED BY <2>1, <3>1 DEF QueryLdf, QueryPage, Start
  <2>2. CASE QueryTrn
    <3>1. backups[LastInCall] \in 0..logEnd
      BY <2>2, CallOnList DEF QueryTrn, SourceInv
    <3> QED BY <2>2, <3>1 DEF QueryTrn, QueryPage, Start, Higher
  <2> QED BY <2>1, <2>2
<1>4. Start \in Nat /\ Start <= logEnd
  <2>1. CASE stage = "trn"
    <3>1. FirstOf(file) \in Nat /\ FirstOf(file) <= logEnd
      BY <2>1, CallOnList DEF SourceInv
    <3> QED BY <2>1, <3>1 DEF Start, Higher, PageInv
  <2>2. CASE stage = "ldf"
    BY <2>2, LastBackupBound DEF Start, Higher, PageInv, SourceInv
  <2> QED BY <1>1, <2>1, <2>2
<1>5. /\ pageEnd' \in Nat /\ Start <= pageEnd' /\ pageEnd' <= logEnd /\ pageEnd' <= Start + ChunkSize
      /\ pageEnd' = Start \/ pageEnd' <= hi
  BY <1>3, <1>4, ReaderAssumption DEF Higher, Lower, SourceInv
<1>6. PageInv'
  BY <1>1, <1>3, <1>4, <1>5, ReaderAssumption DEF PageInv, SourceInv, sourceVars
<1>7. BehindPage'
  BY <1>1, <1>3, <1>4 DEF BehindPage, outVars
<1>8. WithinCall'
  <2>1. CASE stage = "trn"
    <3>1. InCall(cursor)
      BY <2>1 DEF WithinCall
    <3>2. InCall(pageEnd')
      BY <2>1, <1>3, <1>4, <1>5, <3>1, CallOnList DEF InCall
    <3>3. Base' = Base /\ LastInCall' = LastInCall /\ backups' = backups /\ cursor' = cursor
      BY <1>1 DEF Base, LastInCall, passVars, sourceVars
    <3> QED BY <3>1, <3>2, <3>3 DEF WithinCall, InCall
  <2>2. CASE stage # "trn"
    BY <1>1, <2>2 DEF WithinCall
  <2> QED BY <2>1, <2>2
<1> QED BY <1>2, <1>6, <1>7, <1>8

LEMMA SeqOfItsEntries ==
  ASSUME NEW S, NEW T, NEW s \in Seq(S), \A i \in 1..Len(s) : s[i] \in T
  PROVE  s \in Seq(T)
OBVIOUS

LEMMA Appended ==
  ASSUME NEW s \in Seq(Nat), NEW x \in Nat
  PROVE  /\ Append(s, x) \in Seq(Nat) /\ Len(s) \in Nat /\ Len(Append(s, x)) = Len(s) + 1
         /\ Append(s, x)[Len(s) + 1] = x
         /\ \A i \in 1..Len(s) : Append(s, x)[i] = s[i]
OBVIOUS

LEMMA HandleRecordKeeps ==
  ASSUME TypesInv, OrderInv, HandleRecord
  PROVE  TypesInv' /\ OrderInv'
<1> USE DEF TypesInv, OrderInv
<1>1. /\ UNCHANGED <<sourceVars, passVars, stage, file, paging, cursor, pageEnd, count, turn>>
      /\ paging /\ at < pageEnd /\ at' = at + 1
      /\ \/ delivered' = delivered
         \/ /\ delivered' = Append(delivered, at + 1)
            /\ ~(mode = "history" /\ at + 1 \in Delivered)
  BY DEF HandleRecord
<1>2. SourceInv' /\ PassInv'
  <2>1. SourceInv'
    BY <1>1 DEF SourceInv, sourceVars, LastBackup
  <2>2. PassInv'
    BY <1>1 DEF PassInv, sourceVars, passVars
  <2> QED BY <2>1, <2>2
<1>3. PageInv'
  BY <1>1 DEF PageInv, sourceVars
<1>4. WithinCall'
  BY <1>1 DEF WithinCall, InCall, Base, LastInCall, passVars, sourceVars
<1>5. CASE delivered' = delivered
  <2>1. OutInv' /\ OnceInOrder'
    BY <1>1, <1>5 DEF OutInv, OnceInOrder, sourceVars, passVars
  <2>2. BehindPage'
    BY <1>1, <1>5 DEF BehindPage, OutInv, PageInv
  <2> QED BY <1>2, <1>3, <1>4, <2>1, <2>2
<1>6. CASE delivered' = Append(delivered, at + 1) /\ ~(mode = "history" /\ at + 1 \in Delivered)
  <2> DEFINE n == Len(delivered)
  <2>1. /\ delivered' \in Seq(Nat) /\ n \in Nat /\ Len(delivered') = n + 1
        /\ delivered'[n + 1] = at + 1 /\ at + 1 \in Nat /\ at + 1 <= logEnd
        /\ \A i \in 1..n : delivered'[i] = delivered[i]
    <3>1. delivered \in Seq(Nat) /\ at + 1 \in Nat /\ at + 1 <= logEnd
      BY <1>1 DEF OutInv, PageInv, SourceInv
    <3> QED BY <1>6, <3>1, Appended
  <2>2. stage \in {"trn", "ldf"} /\ \A i \in turn + 1 .. n : delivered[i] <= at
    BY <1>1 DEF BehindPage
  <2>3. OutInv'
    <3>1. \A i \in 1..Len(delivered') : 1 <= delivered'[i] /\ delivered'[i] <= logEnd'
      <4> TAKE i \in 1..Len(delivered')
      <4>1. i \in 1..n \/ i = n + 1
        BY <2>1
      <4>2. logEnd' = logEnd
        BY <1>1 DEF sourceVars
      <4>3. CASE i \in 1..n
        <5>1. 1 <= delivered[i] /\ delivered[i] <= logEnd
          BY <4>3 DEF OutInv
        <5> QED BY <2>1, <4>2, <4>3, <5>1
      <4>4. CASE i = n + 1
        BY <2>1, <4>2, <4>4 DEF PageInv
      <4> QED BY <4>1, <4>3, <4>4
    <3> QED BY <1>1, <2>1, <2>2, <3>1 DEF OutInv, sourceVars, passVars
  <2>4. BehindPage'
    <3>1. \A i \in turn + 1 .. n + 1 : delivered'[i] <= at + 1
      <4> TAKE i \in turn + 1 .. n + 1
      <4>1. i \in 1..n \/ i = n + 1
        BY <2>1 DEF OutInv
      <4>2. CASE i \in 1..n
        <5>1. delivered[i] <= at /\ delivered[i] \in Nat
          BY <2>1, <2>2, <4>2 DEF OutInv
        <5> QED BY <2>1, <4>2, <5>1 DEF PageInv
      <4>3. CASE i = n + 1
        BY <2>1, <4>3
      <4> QED BY <4>1, <4>2, <4>3
    <3> QED BY <1>1, <2>1, <2>2, <3>1 DEF BehindPage
  <2>5. OnceInOrder'
    <3> SUFFICES ASSUME NEW i \in 1..n + 1, NEW j \in 1..n + 1, i < j
                 PROVE  IF i <= turn /\ turn < j
                        THEN mode # "gap" => delivered'[i] # delivered'[j]
                        ELSE delivered'[i] < delivered'[j]
      BY <1>1, <2>1 DEF OnceInOrder, passVars
    <3>0. DOMAIN delivered = 1..n
      BY DEF OutInv
    <3>1. CASE j <= n
      <4>0. i \in 1..n /\ j \in 1..n
        BY <2>1, <3>1
      <4>1. i \in DOMAIN delivered /\ j \in DOMAIN delivered /\ delivered'[i] = delivered[i] /\ delivered'[j] = delivered[j]
        BY <2>1, <3>0, <4>0
      <4> QED BY <4>1 DEF OnceInOrder
    <3>2. CASE j = n + 1 /\ i <= turn
      <4>1. mode \in {"history", "gap"} /\ delivered[i] \in Delivered
        <5>1. mode \in {"history", "gap"}
          BY <3>2 DEF OutInv, PassInv, Modes
        <5>2. i \in 1..n
          BY <2>1, <3>2
        <5> QED BY <3>0, <5>1, <5>2 DEF Delivered
      <4>2. delivered'[i] = delivered[i] /\ delivered'[j] = at + 1
        BY <2>1, <3>2
      <4> QED BY <1>6, <3>2, <4>1, <4>2, <2>1 DEF OutInv
    <3>3. CASE j = n + 1 /\ i > turn
      <4>1. delivered'[i] = delivered[i] /\ delivered'[j] = at + 1 /\ delivered[i] <= at /\ delivered[i] \in Nat
        BY <2>1, <2>2, <3>3 DEF OutInv
      <4> QED BY <3>3, <4>1 DEF PageInv, OutInv
    <3> QED BY <3>1, <3>2, <3>3, <2>1 DEF OutInv
  <2> QED BY <1>2, <1>3, <1>4, <2>3, <2>4, <2>5
<1> QED BY <1>1, <1>5, <1>6

(* A reader ends, or a cancelled or failed one does; the active log's turn *)
(* comes, or the pass is over.                                             *)
LEMMA ReaderEndKeeps ==
  ASSUME TypesInv, OrderInv, UNCHANGED <<sourceVars, passVars, file, delivered>>,
         \/ stage = "trn" /\ TurnToLdf
         \/ stage = "ldf" /\ (Finish("done") \/ Finish("failed"))
  PROVE  TypesInv' /\ OrderInv'
<1> USE DEF TypesInv, OrderInv
<1>1. SourceInv'
  BY DEF SourceInv, sourceVars, LastBackup
<1>2. PassInv'
  BY DEF PassInv, Stages, TurnToLdf, Finish, sourceVars, passVars
<1>3. PageInv' /\ paging' = FALSE
  BY ReaderAssumption DEF PageInv, SourceInv, TurnToLdf, Finish, sourceVars
<1>4. WithinCall'
  BY DEF WithinCall, TurnToLdf, Finish
<1>5. CASE stage = "trn" /\ TurnToLdf
  <2>1. turn = 0 /\ turn' = Len(delivered) /\ stage' = "ldf" /\ mode \in {"history", "gap"}
    BY <1>5 DEF TurnToLdf, OutInv, PassInv
  <2>2. OutInv'
    BY <2>1 DEF OutInv, sourceVars, passVars
  <2>3. OnceInOrder'
    BY <2>1 DEF OnceInOrder, OutInv, passVars
  <2>4. BehindPage'
    BY <1>3, <2>1 DEF BehindPage, OutInv
  <2> QED BY <1>1, <1>2, <1>3, <1>4, <2>2, <2>3, <2>4
<1>6. CASE stage = "ldf" /\ (Finish("done") \/ Finish("failed"))
  <2>1. turn' = turn /\ stage' \in {"done", "failed"}
    BY <1>6 DEF Finish
  <2>2. OutInv'
    BY <2>1 DEF OutInv, sourceVars, passVars
  <2>3. OnceInOrder'
    BY <2>1 DEF OnceInOrder, passVars
  <2>4. BehindPage'
    BY <1>3, <2>1 DEF BehindPage
  <2> QED BY <1>1, <1>2, <1>3, <1>4, <2>2, <2>3, <2>4
<1> QED BY <1>5, <1>6

(* The next page, or the first one of the next call.                       *)
LEMMA NextPageKeeps ==
  ASSUME TypesInv, OrderInv, PageIsOver, paging' = FALSE,
         UNCHANGED <<sourceVars, passVars, stage, at, pageEnd, count, outVars>>,
         \/ cursor' = pageEnd /\ file' = file
         \/ /\ stage = "trn" /\ LastInCall < lastFile
            /\ file' = LastInCall + 1 /\ cursor' = Base
  PROVE  TypesInv' /\ OrderInv'
<1> USE DEF TypesInv, OrderInv
<1>1. SourceInv'
  BY DEF SourceInv, sourceVars, LastBackup
<1>2. PassInv'
  <2>1. stage = "trn" => LastInCall \in Nat /\ file <= LastInCall
    BY CallOnList
  <2> QED BY <2>1 DEF PassInv, sourceVars, passVars
<1>3. PageInv'
  BY DEF PageInv, PassInv, SourceInv, Base, sourceVars
<1>4. OutInv' /\ OnceInOrder'
  BY DEF OutInv, OnceInOrder, sourceVars, passVars, outVars
<1>5. Base' = Base /\ backups' = backups /\ Base \in Nat
  BY DEF Base, passVars, sourceVars, PassInv
<1>6. paging /\ stage \in {"trn", "ldf"} /\ at = pageEnd
  BY DEF PageIsOver, BehindPage
<1>7. SUFFICES /\ \A i \in turn + 1 .. Len(delivered) : delivered[i] <= Start'
               /\ stage = "trn" => InCall(cursor)'
  BY <1>1, <1>2, <1>3, <1>4, <1>6 DEF BehindPage, WithinCall, outVars
<1>8. \A i \in turn + 1 .. Len(delivered) : delivered[i] <= pageEnd
  BY <1>6 DEF BehindPage
<1>9. CASE cursor' = pageEnd /\ file' = file
  <2>1. Start' \in Nat /\ pageEnd <= Start'
    <3>1. CASE stage = "trn"
      <4>1. FirstOf(file)' = FirstOf(file) /\ FirstOf(file) \in Nat
        BY <1>5, <1>9, <3>1, CallOnList DEF FirstOf
      <4> QED BY <1>9, <3>1, <4>1 DEF Start, Higher, PageInv
    <3>2. CASE stage = "ldf"
      BY <1>9, <3>2 DEF Start, Higher, PageInv, SourceInv, sourceVars
    <3> QED BY <1>6, <3>1, <3>2
  <2>2. \A i \in turn + 1 .. Len(delivered) : delivered[i] \in Nat
    BY DEF OutInv
  <2>3. \A i \in turn + 1 .. Len(delivered) : delivered[i] <= Start'
    BY <1>8, <2>1, <2>2 DEF PageInv
  <2>4. stage = "trn" => InCall(cursor)'
    <3>1. LastInCall' = LastInCall
      BY <1>9 DEF LastInCall, passVars
    <3>2. stage = "trn" => InCall(pageEnd)
      BY <1>6 DEF WithinCall
    <3> QED BY <1>5, <1>9, <3>1, <3>2 DEF InCall
  <2> QED BY <2>3, <2>4
<1>10. CASE stage = "trn" /\ LastInCall < lastFile /\ file' = LastInCall + 1 /\ cursor' = Base
  <2>1. LastInCall \in Nat /\ 1 <= LastInCall /\ backups[LastInCall] \in Nat
    BY <1>10, CallOnList DEF PassInv
  <2>2. FirstOf(file)' = backups[LastInCall]
    BY <1>5, <1>10, <2>1 DEF FirstOf
  <2>3. Start' = Higher(Base, backups[LastInCall])
    BY <1>10, <2>2 DEF Start
  <2>4. pageEnd <= Base \/ pageEnd <= backups[LastInCall]
    BY <1>6, <1>10 DEF WithinCall, InCall
  <2>5. pageEnd <= Start' /\ Start' \in Nat
    BY <1>5, <2>1, <2>3, <2>4 DEF Higher, PageInv
  <2>6. \A i \in turn + 1 .. Len(delivered) : delivered[i] \in Nat
    BY DEF OutInv
  <2>7. \A i \in turn + 1 .. Len(delivered) : delivered[i] <= Start'
    BY <1>8, <2>5, <2>6 DEF PageInv
  <2>8. InCall(cursor)'
    BY <1>5, <1>10 DEF InCall
  <2> QED BY <2>7, <2>8
<1> QED BY <1>9, <1>10

-----------------------------------------------------------------------------
LEMMA ReaderInit == Init => TypesInv /\ OrderInv /\ FlagsInv
<1> SUFFICES ASSUME Init PROVE TypesInv /\ OrderInv /\ FlagsInv
  OBVIOUS
<1>1. SourceInv
  BY ReaderAssumption DEF Init, SourceInv, LastBackup
<1>2. PassInv /\ PageInv /\ OutInv
  BY ReaderAssumption DEF Init, PassInv, PageInv, OutInv, Modes, Stages
<1>3. OrderInv
  BY DEF Init, OrderInv, OnceInOrder, BehindPage, WithinCall
<1>4. FlagsInv
  BY DEF Init, FlagsInv
<1> QED BY <1>1, <1>2, <1>3, <1>4 DEF TypesInv

LEMMA ReaderNext == TypesInv /\ OrderInv /\ [Next]_vars => TypesInv' /\ OrderInv'
<1> SUFFICES ASSUME TypesInv, OrderInv, [Next]_vars PROVE TypesInv' /\ OrderInv'
  OBVIOUS
<1>1. CASE LogRecord \/ BackUpLog \/ Truncate
  BY <1>1, SourceKeeps
<1>2. CASE Resume \/ History \/ FillGap
  BY <1>2, BeginKeeps
<1>3. CASE QueryLdf \/ QueryTrn
  BY <1>3, QueryKeeps
<1>4. CASE HandleRecord
  BY <1>4, HandleRecordKeeps
<1>5. CASE HandleCancelled
  BY <1>5, ReaderEndKeeps DEF HandleCancelled
<1>6. CASE NextPage
  BY <1>6, NextPageKeeps DEF NextPage
<1>7. CASE EndRead
  BY <1>7, NextPageKeeps, ReaderEndKeeps DEF EndRead, Base, outVars
<1>8. CASE ReadFails
  BY <1>8, ReaderEndKeeps DEF ReadFails
<1>9. CASE Cancel \/ UNCHANGED vars
  <2>1. UNCHANGED <<sourceVars, passVars, stage, file, pageVars, outVars>>
    BY <1>9 DEF Cancel, vars
  <2>2. TypesInv'
    BY <2>1 DEF TypesInv, SourceInv, PassInv, PageInv, OutInv, LastBackup, sourceVars, passVars, pageVars, outVars
  <2>3. Start' = Start /\ Base' = Base /\ LastInCall' = LastInCall
    BY <2>1 DEF Start, FirstOf, Base, LastInCall, sourceVars, passVars, pageVars
  <2>4. /\ stage' = stage /\ paging' = paging /\ at' = at /\ cursor' = cursor /\ pageEnd' = pageEnd
        /\ mode' = mode /\ delivered' = delivered /\ turn' = turn /\ backups' = backups
    BY <2>1 DEF sourceVars, passVars, pageVars, outVars
  <2>5. OnceInOrder'
    BY <2>4 DEF OrderInv, OnceInOrder
  <2>6. BehindPage'
    BY <2>3, <2>4 DEF OrderInv, BehindPage
  <2>7. WithinCall'
    BY <2>3, <2>4 DEF OrderInv, WithinCall, InCall
  <2> QED BY <2>2, <2>5, <2>6, <2>7 DEF OrderInv
<1> QED BY <1>1, <1>2, <1>3, <1>4, <1>5, <1>6, <1>7, <1>8, <1>9 DEF Next, Read

LEMMA FlagsNext == FlagsInv /\ [Next]_vars => FlagsInv'
<1> SUFFICES ASSUME FlagsInv, [Next]_vars PROVE FlagsInv'
  OBVIOUS
<1>1. UNCHANGED <<paging, cancelled, trnFailed>> => FlagsInv'
  BY DEF FlagsInv
<1>2. CASE LogRecord \/ BackUpLog \/ Truncate
  BY <1>1, <1>2 DEF LogRecord, BackUpLog, Truncate, pageVars
<1>3. CASE Resume \/ History \/ FillGap
  BY <1>3 DEF Resume, History, FillGap, Begin, FlagsInv
<1>4. CASE QueryLdf \/ QueryTrn \/ HandleRecord
  BY <1>4 DEF QueryLdf, QueryTrn, QueryPage, HandleRecord, FlagsInv
<1>5. CASE HandleCancelled \/ NextPage \/ EndRead \/ ReadFails
  BY <1>5 DEF HandleCancelled, NextPage, EndRead, ReadFails, TurnToLdf, Finish, FlagsInv
<1>6. CASE Cancel \/ UNCHANGED vars
  BY <1>6 DEF Cancel, vars, pageVars, FlagsInv
<1> QED BY <1>2, <1>3, <1>4, <1>5, <1>6 DEF Next, Read

(* The records of one reader come in the order of their LSNs, each of them *)
(* once, across pages and calls; and no record of the active log that the  *)
(* backups delivered before, except after a gap fill.                      *)
THEOREM ReadsOnceInOrder == Spec => []OnceInOrder
<1>1. TypesInv /\ OrderInv => OnceInOrder
  BY DEF OrderInv
<1> QED BY <1>1, ReaderInit, ReaderNext, PTL DEF Spec

(* The variables have their types: no page, call or list goes beyond the   *)
(* log and its backups.                                                    *)
THEOREM ReaderTypes == Spec => []ReaderTypeOK
<1>1. TypesInv /\ FlagsInv => ReaderTypeOK
  <2> SUFFICES ASSUME TypesInv, FlagsInv PROVE ReaderTypeOK
    OBVIOUS
  <2> USE DEF TypesInv
  <2>1. LastBackup \in Nat /\ LastBackup <= logEnd
    BY LastBackupBound
  <2>2. backups \in Seq(0..logEnd) /\ logEnd \in 0..MaxLsn /\ head \in 0..logEnd
    BY <2>1, ReaderAssumption DEF SourceInv
  <2>3. delivered \in Seq(1..logEnd) /\ turn \in 0..Len(delivered)
    <3>1. \A i \in 1..Len(delivered) : delivered[i] \in 1..logEnd
      BY DEF OutInv, SourceInv
    <3>2. delivered \in Seq(Nat) /\ turn \in 0..Len(delivered)
      BY DEF OutInv
    <3>3. delivered \in Seq(1..logEnd)
      BY ONLY <3>1, <3>2, SeqOfItsEntries
    <3> QED BY <3>2, <3>3
  <2>4. /\ mode \in {"none", "resume", "history", "poll", "gap"}
        /\ stage \in {"idle", "trn", "ldf", "done", "failed"}
        /\ from \in 0..MaxLsn /\ perCall \in {1, MaxFilesPerCall}
        /\ file \in Nat /\ lastFile \in 0..Len(backups)
        /\ endThen \in 0..logEnd
    BY ReaderAssumption DEF PassInv, SourceInv, Modes, Stages
  <2>5. listed \in SUBSET (1..logEnd) /\ wanted \in SUBSET (1..logEnd)
    BY DEF PassInv, SourceInv
  <2>6. cursor \in 0..logEnd /\ at \in 0..logEnd /\ pageEnd \in at..logEnd /\ count \in 0..ChunkSize
    BY ReaderAssumption DEF PageInv, SourceInv
  <2> QED BY <2>2, <2>3, <2>4, <2>5, <2>6 DEF ReaderTypeOK, FlagsInv
<1> QED BY <1>1, ReaderInit, ReaderNext, FlagsNext, PTL DEF Spec

-----------------------------------------------------------------------------
(* Nothing is missed.                                                      *)

(* The LSN up to which this reader has delivered what it could.            *)
Pos == IF paging THEN at ELSE Start

(* What NothingMissed grants to a cancelled pass.                          *)
Cover(l) ==
  \/ l \in Delivered
  \/ l <= head /\ (trnFailed \/ l \notin listed)
  \/ mode = "gap" /\ l \notin listed

(* The backups on the list hold what is listed, and with --since all that  *)
(* was logged since.                                                       *)
ListLeft ==
  stage = "trn" =>
    /\ \A l \in listed : l <= backups[lastFile]
    /\ mode = "history" => \A l \in from + 1 .. backups[lastFile] : l \in listed
    /\ paging => FirstOf(file) <= at

ListRead == stage = "trn" => \A l \in listed : from < l /\ l <= Pos => l \in Delivered

ListDone ==
  stage \in {"ldf", "done", "failed"} /\ ~trnFailed /\ ~cancelled =>
    \A l \in listed : from < l => l \in Delivered

LogRead ==
  stage = "ldf" /\ ~cancelled => \A l \in from + 1 .. Pos : l > head => l \in Delivered

(* A page that is not full goes as far as there is something to read.      *)
ShortPage ==
  paging /\ count < ChunkSize =>
    /\ stage = "trn" => backups[LastInCall] <= pageEnd
    /\ stage = "ldf" => endThen <= pageEnd /\ \A k \in Delivered : k <= pageEnd

Covered == \A k \in Delivered : \A l \in from + 1 .. k : Cover(l)

WantedListed == \A l \in wanted : l \in listed /\ from < l

ReadInv ==
  /\ ListLeft /\ ListRead /\ ListDone /\ LogRead /\ ShortPage
  /\ Covered /\ WantedListed /\ NothingMissed

LEMMA DeliveredLsns ==
  ASSUME TypesInv
  PROVE  /\ \A k \in Delivered : k \in Nat /\ 1 <= k /\ k <= logEnd
         /\ Delivered = {delivered[i] : i \in 1..Len(delivered)}
BY DEF TypesInv, OutInv, Delivered

LEMMA MaxSeenDelivered ==
  ASSUME TypesInv, delivered # <<>>, \E m \in Delivered : \A k \in Delivered : k <= m
  PROVE  MaxSeen \in Delivered /\ \A k \in Delivered : k <= MaxSeen
BY DEF MaxSeen

LEMMA PosInLog ==
  ASSUME TypesInv, stage \in {"trn", "ldf"}
  PROVE  Start \in Nat /\ Pos \in Nat /\ Pos <= logEnd
<1>1. Start \in Nat /\ Start <= logEnd
  <2>1. CASE stage = "trn"
    <3>1. FirstOf(file) \in Nat /\ FirstOf(file) <= logEnd
      BY <2>1, CallOnList DEF TypesInv, SourceInv
    <3> QED BY <2>1, <3>1 DEF Start, Higher, TypesInv, PageInv
  <2>2. CASE stage = "ldf"
    BY <2>2, LastBackupBound DEF Start, Higher, TypesInv, PageInv, SourceInv
  <2> QED BY <2>1, <2>2
<1> QED BY <1>1 DEF Pos, TypesInv, PageInv, SourceInv

(* Those backups come first that end before an LSN.                        *)
LEMMA CountBeforeCounts ==
  ASSUME SourceInv, NEW l \in Nat, NEW i \in 1..Len(backups)
  PROVE  i <= CountBefore(l) <=> backups[i] < l
<1> DEFINE S == {j \in DOMAIN backups : backups[j] < l}
<1>1. Len(backups) \in Nat /\ DOMAIN backups = 1..Len(backups)
  BY DEF SourceInv
<1>2. S \subseteq 1..Len(backups) /\ IsFiniteSet(S)
  <2>1. 1 \in Int /\ Len(backups) \in Int
    BY <1>1
  <2>2. IsFiniteSet(1..Len(backups))
    BY ONLY <2>1, FS_Interval
  <2>3. S \subseteq 1..Len(backups)
    BY <1>1
  <2> QED BY <2>2, <2>3, FS_Subset
<1>3. \A n \in Nat : IsFiniteSet(1..n) /\ Cardinality(1..n) = n
  <2> TAKE n \in Nat
  <2>1. 1 \in Int /\ n \in Int
    OBVIOUS
  <2>2. IsFiniteSet(1..n) /\ Cardinality(1..n) = IF 1 > n THEN 0 ELSE n - 1 + 1
    BY ONLY <2>1, FS_Interval
  <2> QED BY <2>2
<1>4. Cardinality(S) \in Nat /\ CountBefore(l) = Cardinality(S)
  BY <1>2, FS_CardinalityType DEF CountBefore
<1>5. ASSUME backups[i] < l PROVE i <= CountBefore(l)
  <2>1. 1..i \subseteq S
    BY <1>1, <1>5 DEF SourceInv
  <2>2. Cardinality(1..i) <= Cardinality(S)
    BY <1>2, <2>1, FS_Subset
  <2>3. i \in Nat
    BY <1>1
  <2> QED BY <1>3, <1>4, <2>2, <2>3
<1>6. ASSUME ~(backups[i] < l) PROVE ~(i <= CountBefore(l))
  <2>1. i - 1 \in Nat
    BY <1>1
  <2>2. S \subseteq 1..i - 1
    BY <1>1, <1>6 DEF SourceInv
  <2>3. Cardinality(S) <= Cardinality(1..i - 1)
    BY <1>3, <2>1, <2>2, FS_Subset
  <2> QED BY <1>1, <1>3, <1>4, <2>1, <2>3
<1> QED BY <1>5, <1>6

(* The backups of one reader come before its active log in delivered, each *)
(* part in order, so that one of two entries is the highest.               *)
LEMMA MaxSeenIsSeen ==
  ASSUME TypesInv, OnceInOrder
  PROVE  MaxSeen = 0 \/ MaxSeen \in Delivered
<1>1. CASE delivered = <<>>
  BY <1>1 DEF MaxSeen
<1>2. CASE delivered # <<>>
  <2> DEFINE n == Len(delivered)
  <2>1. n \in Nat /\ n >= 1 /\ DOMAIN delivered = 1..n /\ delivered[n] \in Delivered
    BY <1>2 DEF TypesInv, OutInv, Delivered
  <2>2. \A i \in 1..n : delivered[i] \in Nat
    BY DEF TypesInv, OutInv
  <2>3. \A i \in 1..n : i > turn => delivered[i] <= delivered[n]
    <3> SUFFICES ASSUME NEW i \in 1..n, i > turn
                 PROVE  delivered[i] <= delivered[n]
      OBVIOUS
    <3>1. turn \in Nat /\ i \in DOMAIN delivered /\ n \in DOMAIN delivered
      BY <2>1 DEF TypesInv, OutInv
    <3>2. CASE i < n
      <4>1. delivered[i] < delivered[n]
        BY <2>1, <3>1, <3>2 DEF OnceInOrder
      <4> QED BY <2>1, <2>2, <4>1
    <3>3. CASE i = n
      BY <2>1, <2>2, <3>3
    <3>4. i < n \/ i = n
      BY DEF TypesInv, OutInv
    <3> QED BY <3>2, <3>3, <3>4
  <2>4. CASE turn = 0
    <3>1. \A k \in Delivered : k <= delivered[n]
      <4> TAKE k \in Delivered
      <4>1. PICK i \in 1..n : k = delivered[i]
        BY <2>1 DEF Delivered
      <4>2. i > turn
        BY <2>1, <2>4
      <4> QED BY <2>3, <4>1, <4>2
    <3>2. \E m \in Delivered : \A k \in Delivered : k <= m
      BY <2>1, <3>1
    <3> QED BY <1>2, <3>2, MaxSeenDelivered
  <2>5. CASE turn # 0
    <3>1. turn \in 1..n /\ delivered[turn] \in Delivered
      BY <2>1, <2>5 DEF TypesInv, OutInv, Delivered
    <3>2. \A i \in 1..n : i <= turn => delivered[i] <= delivered[turn]
      <4> TAKE i \in 1..n
      <4>1. CASE i < turn
        BY <2>1, <2>2, <3>1, <4>1 DEF OnceInOrder
      <4>2. CASE i = turn
        BY <2>2, <4>2
      <4> QED BY <2>1, <3>1, <4>1, <4>2
    <3> DEFINE m == IF delivered[turn] <= delivered[n] THEN delivered[n] ELSE delivered[turn]
    <3>3. m \in Delivered
      BY <2>1, <3>1
    <3>4. \A k \in Delivered : k <= m
      <4> TAKE k \in Delivered
      <4>1. PICK i \in 1..n : k = delivered[i]
        BY <2>1 DEF Delivered
      <4>2. CASE i <= turn
        BY <2>1, <2>2, <3>1, <3>2, <4>1, <4>2
      <4>3. CASE i > turn
        BY <2>1, <2>2, <2>3, <3>1, <4>1, <4>3
      <4> QED BY <2>1, <3>1, <4>2, <4>3
    <3>5. \E x \in Delivered : \A k \in Delivered : k <= x
      BY <3>3, <3>4
    <3> QED BY <1>2, <3>5, MaxSeenDelivered
  <2> QED BY <2>4, <2>5
<1> QED BY <1>1, <1>2

(* Once a pass is over, only the source goes on.                           *)
LEMMA OverKeeps ==
  ASSUME TypesInv, NothingMissed, head' \in Nat, head <= head',
         UNCHANGED <<stage, from, cancelled, endThen, delivered, trnFailed, listed, mode>>
  PROVE  NothingMissed'
<1>1. Delivered' = Delivered /\ MaxSeen' = MaxSeen
  BY DEF Delivered, MaxSeen
<1> SUFFICES ASSUME stage = "done",
                    NEW l \in from + 1 .. (IF cancelled THEN MaxSeen ELSE Higher(endThen, MaxSeen))
             PROVE  \/ l \in Delivered
                    \/ l <= head' /\ (trnFailed \/ l \notin listed)
                    \/ cancelled /\ mode = "gap" /\ l \notin listed
  BY <1>1 DEF NothingMissed, Higher
<1>2. CASE l <= head /\ (trnFailed \/ l \notin listed)
  <2>1. l \in Int
    OBVIOUS
  <2>2. l <= head'
    BY <1>2, <2>1 DEF TypesInv, SourceInv
  <2> QED BY <1>2, <2>2
<1> QED BY <1>2 DEF NothingMissed

LEMMA SourceReads ==
  ASSUME TypesInv, OrderInv, ReadInv, LogRecord \/ BackUpLog \/ Truncate
  PROVE  ReadInv'
<1> USE DEF ReadInv
<1>1. /\ UNCHANGED <<passVars, stage, file, pageVars, outVars, cancelled, trnFailed>>
      /\ head' \in Nat /\ head <= head' /\ Delivered' = Delivered
  <2>1. head \in Nat
    BY DEF TypesInv, SourceInv
  <2>2. UNCHANGED <<passVars, stage, file, pageVars, outVars, cancelled, trnFailed>>
    BY DEF LogRecord, BackUpLog, Truncate
  <2>3. head' \in Nat /\ head <= head'
    BY <2>1, LastBackupBound DEF LogRecord, BackUpLog, Truncate, TypesInv
  <2> QED BY <2>2, <2>3 DEF Delivered, outVars
<1>2. /\ UNCHANGED <<mode, from, perCall, lastFile, endThen, listed, wanted>>
      /\ UNCHANGED <<paging, cursor, at, pageEnd, count, delivered, turn>>
  BY <1>1 DEF passVars, pageVars, outVars
<1>3. LastInCall' = LastInCall
  BY <1>1, <1>2 DEF LastInCall
<1>4. \A i \in 1..Len(backups) : backups'[i] = backups[i]
  BY DEF LogRecord, BackUpLog, Truncate, TypesInv, SourceInv
<1>5. stage = "trn" =>
        /\ FirstOf(file)' = FirstOf(file) /\ backups'[lastFile] = backups[lastFile]
        /\ backups'[LastInCall] = backups[LastInCall]
  <2>1. SUFFICES ASSUME stage = "trn"
                 PROVE  /\ FirstOf(file)' = FirstOf(file) /\ backups'[lastFile] = backups[lastFile]
                        /\ backups'[LastInCall] = backups[LastInCall]
    OBVIOUS
  <2>2. LastInCall \in 1..Len(backups) /\ lastFile \in 1..Len(backups) /\ file \in 1..Len(backups)
    BY <2>1, CallOnList DEF TypesInv, PassInv, SourceInv
  <2>3. file = 1 \/ file - 1 \in 1..Len(backups)
    BY <2>2 DEF TypesInv, SourceInv
  <2> QED BY <1>1, <1>4, <2>2, <2>3 DEF FirstOf
<1>6. stage = "trn" => Pos' = Pos
  BY <1>1, <1>2, <1>5 DEF Pos, Start
<1>7. ListLeft'
  BY <1>1, <1>2, <1>5 DEF ListLeft
<1>8. ListRead'
  BY <1>1, <1>2, <1>6 DEF ListRead
<1>9. ListDone'
  BY <1>1, <1>2 DEF ListDone
<1>10. LogRead'
  <2> SUFFICES ASSUME stage = "ldf", ~cancelled, NEW l \in from + 1 .. Pos', l > head'
               PROVE  l \in Delivered
    BY <1>1, <1>2 DEF LogRead
  <2>1. Pos \in Nat /\ from \in Nat /\ head \in Nat /\ cursor \in Nat
    BY PosInLog DEF TypesInv, PassInv, SourceInv, PageInv
  <2>2. Pos' = IF paging THEN at ELSE Higher(cursor, head')
    BY <1>1, <1>2 DEF Pos, Start
  <2>3. Pos = IF paging THEN at ELSE Higher(cursor, head)
    BY DEF Pos, Start
  <2>4. Pos' \in Nat
    BY <1>1, <2>1, <2>2 DEF Higher, TypesInv, PageInv
  <2>5. l \in from + 1 .. Pos /\ l > head
    BY <1>1, <2>1, <2>2, <2>3, <2>4 DEF Higher, TypesInv, PageInv
  <2> QED BY <2>5 DEF LogRead
<1>11. ShortPage'
  BY <1>1, <1>2, <1>3, <1>5 DEF ShortPage
<1>12. Covered'
  <2> SUFFICES ASSUME NEW k \in Delivered, NEW l \in from + 1 .. k
               PROVE  Cover(l)'
    BY <1>1, <1>2 DEF Covered
  <2>1. Cover(l) /\ l \in Int
    BY DEF Covered
  <2>2. l <= head => l <= head'
    BY <1>1, <2>1 DEF TypesInv, SourceInv
  <2> QED BY <1>1, <1>2, <2>1, <2>2 DEF Cover
<1>13. WantedListed'
  BY <1>2 DEF WantedListed
<1>14. NothingMissed'
  BY <1>1, <1>2, OverKeeps
<1> QED BY <1>7, <1>8, <1>9, <1>10, <1>11, <1>12, <1>13, <1>14

LEMMA QueryReads ==
  ASSUME TypesInv, OrderInv, ReadInv, QueryLdf \/ QueryTrn
  PROVE  ReadInv'
<1> USE DEF ReadInv
<1>1. /\ UNCHANGED <<sourceVars, passVars, stage, file, cursor, outVars, cancelled, trnFailed>>
      /\ ~paging /\ paging' = TRUE /\ stage \in {"trn", "ldf"} /\ Delivered' = Delivered
  BY DEF QueryLdf, QueryTrn, QueryPage, Delivered, outVars
<1>2. /\ UNCHANGED <<logEnd, head, backups, mode, from, perCall, lastFile, endThen, listed, wanted>>
      /\ UNCHANGED <<delivered, turn>>
  BY <1>1 DEF sourceVars, passVars, outVars
<1>3. LastInCall' = LastInCall /\ Pos = Start
  BY <1>1, <1>2 DEF LastInCall, Pos
<1>4. at' = Start /\ Pos' = Start
  BY <1>1 DEF QueryLdf, QueryTrn, QueryPage, Start, Pos
<1>5. ListLeft'
  <2>1. stage = "trn" => FirstOf(file)' = FirstOf(file) /\ FirstOf(file) <= Start
    <3>1. stage = "trn" => FirstOf(file) \in Nat
      BY CallOnList DEF TypesInv
    <3> QED BY <1>1, <1>2, <3>1 DEF FirstOf, Start, Higher, TypesInv, PageInv
  <2> QED BY <1>1, <1>2, <1>4, <2>1 DEF ListLeft
<1>6. ListRead'
  BY <1>1, <1>2, <1>3, <1>4 DEF ListRead
<1>7. ListDone'
  BY <1>1, <1>2 DEF ListDone
<1>8. LogRead'
  BY <1>1, <1>2, <1>3, <1>4 DEF LogRead
<1>9. ShortPage'
  <2>1. Start \in Nat
    BY <1>1, PosInLog
  <2>2. CASE QueryTrn
    <3>1. backups[LastInCall] \in Nat
      BY <2>2, CallOnList DEF TypesInv, QueryTrn
    <3>2. /\ pageEnd' = Higher(Start, Lower(Start + ChunkSize, backups[LastInCall]))
          /\ count' = pageEnd' - Start /\ stage = "trn"
      BY <2>2 DEF QueryTrn, QueryPage, Start
    <3>3. count' < ChunkSize => backups[LastInCall] <= pageEnd'
      BY <2>1, <3>1, <3>2, ReaderAssumption DEF Higher, Lower
    <3> QED BY <1>1, <1>2, <1>3, <3>2, <3>3 DEF ShortPage
  <2>3. CASE QueryLdf
    <3>1. /\ pageEnd' = Higher(Start, Lower(Start + ChunkSize, logEnd))
          /\ count' = pageEnd' - Start /\ stage = "ldf"
      BY <2>3 DEF QueryLdf, QueryPage, Start
    <3>2. count' < ChunkSize => logEnd <= pageEnd'
      BY <2>1, <3>1, ReaderAssumption DEF Higher, Lower, TypesInv, SourceInv
    <3>3. pageEnd' \in Nat /\ logEnd \in Nat /\ endThen \in Nat /\ endThen <= logEnd
      BY <2>1, <3>1, ReaderAssumption DEF Higher, Lower, TypesInv, SourceInv, PassInv
    <3>4. \A k \in Delivered : k \in Nat /\ k <= logEnd
      BY DeliveredLsns
    <3>5. count' < ChunkSize => endThen <= pageEnd' /\ \A k \in Delivered : k <= pageEnd'
      BY <3>2, <3>3, <3>4
    <3> QED BY <1>1, <1>2, <3>1, <3>5 DEF ShortPage
  <2> QED BY <2>2, <2>3
<1>10. Covered'
  BY <1>1, <1>2 DEF Covered, Cover
<1>11. WantedListed'
  BY <1>2 DEF WantedListed
<1>12. NothingMissed'
  BY <1>1 DEF NothingMissed
<1> QED BY <1>5, <1>6, <1>7, <1>8, <1>9, <1>10, <1>11, <1>12

LEMMA HandleReads ==
  ASSUME TypesInv, OrderInv, ReadInv, HandleRecord
  PROVE  ReadInv'
<1> USE DEF ReadInv
<1>1. /\ UNCHANGED <<sourceVars, passVars, stage, file, paging, cursor, pageEnd, count, turn, cancelled, trnFailed>>
      /\ paging /\ at < pageEnd /\ ~cancelled /\ at' = at + 1
  BY DEF HandleRecord
<1>2. UNCHANGED <<logEnd, head, backups, mode, from, perCall, lastFile, endThen, listed, wanted>>
  BY <1>1 DEF sourceVars, passVars
<1>3. Delivered' = Delivered \cup {at + 1}
  <2>1. CASE delivered' = delivered /\ at + 1 \in Delivered
    BY <2>1 DEF Delivered
  <2>2. CASE delivered' = Append(delivered, at + 1)
    <3>1. delivered \in Seq(Nat) /\ at + 1 \in Nat
      BY DEF TypesInv, OutInv, PageInv
    <3>2. /\ Len(delivered) \in Nat /\ DOMAIN delivered = 1..Len(delivered)
          /\ DOMAIN delivered' = 1..Len(delivered) + 1
          /\ delivered'[Len(delivered) + 1] = at + 1
          /\ \A i \in 1..Len(delivered) : delivered'[i] = delivered[i]
      BY <2>2, <3>1, Appended
    <3>3. \A i : i \in DOMAIN delivered' <=> i \in DOMAIN delivered \/ i = Len(delivered) + 1
      BY <3>2
    <3> QED BY <3>2, <3>3 DEF Delivered
  <2> QED BY <2>1, <2>2 DEF HandleRecord
<1>4. stage \in {"trn", "ldf"} /\ at \in Nat /\ pageEnd \in Nat /\ from \in Nat /\ Pos = at /\ Pos' = at + 1
  BY <1>1 DEF OrderInv, BehindPage, TypesInv, PageInv, PassInv, Pos
<1>5. LastInCall' = LastInCall /\ FirstOf(file)' = FirstOf(file)
  BY <1>1, <1>2 DEF LastInCall, FirstOf
<1>6. ListLeft'
  <2>1. stage = "trn" => FirstOf(file) \in Nat
    BY CallOnList DEF TypesInv
  <2>2. stage = "trn" => FirstOf(file) <= at + 1
    BY <1>1, <1>4, <2>1 DEF ListLeft
  <2> QED BY <1>1, <1>2, <1>5, <2>2 DEF ListLeft
<1>7. ListRead'
  <2> SUFFICES ASSUME stage = "trn", NEW l \in listed, from < l, l <= at + 1
               PROVE  l \in Delivered \cup {at + 1}
    BY <1>1, <1>2, <1>3, <1>4 DEF ListRead
  <2>1. l \in Nat
    BY DEF TypesInv, PassInv
  <2>2. l <= at \/ l = at + 1
    BY <1>4, <2>1
  <2> QED BY <1>4, <2>2 DEF ListRead
<1>8. ListDone'
  BY <1>1, <1>2, <1>3 DEF ListDone
<1>9. LogRead'
  <2> SUFFICES ASSUME stage = "ldf", NEW l \in from + 1 .. at + 1, l > head
               PROVE  l \in Delivered \cup {at + 1}
    BY <1>1, <1>2, <1>3, <1>4 DEF LogRead
  <2>1. l \in from + 1 .. at \/ l = at + 1
    BY <1>4
  <2> QED BY <1>1, <1>4, <2>1 DEF LogRead
<1>10. ShortPage'
  BY <1>1, <1>2, <1>3, <1>4, <1>5 DEF ShortPage
<1>11. \A l \in from + 1 .. at : Cover(l)
  <2> TAKE l \in from + 1 .. at
  <2>1. CASE stage = "ldf"
    <3>1. l \in Int /\ head \in Nat
      BY DEF TypesInv, SourceInv
    <3>2. CASE l > head
      BY <1>1, <1>4, <2>1, <3>2 DEF LogRead, Cover
    <3>3. CASE l <= head /\ l \in listed /\ ~trnFailed
      BY <1>1, <1>4, <2>1, <3>3 DEF ListDone, Cover
    <3>4. CASE l <= head /\ (l \notin listed \/ trnFailed)
      BY <3>4 DEF Cover
    <3> QED BY <3>1, <3>2, <3>3, <3>4
  <2>2. CASE stage = "trn"
    <3>1. CASE l \in listed
      BY <1>4, <2>2, <3>1 DEF ListRead, Cover
    <3>2. CASE l \notin listed /\ mode = "gap"
      BY <3>2 DEF Cover
    <3>3. CASE mode = "history"
      <4>1. /\ LastInCall \in 1..Len(backups) /\ lastFile \in 1..Len(backups) /\ LastInCall <= lastFile
            /\ backups[LastInCall] \in Nat /\ backups[lastFile] \in Nat
        BY <2>2, CallOnList DEF TypesInv, PassInv, SourceInv
      <4>2. backups[LastInCall] <= backups[lastFile]
        <5>1. LastInCall < lastFile \/ LastInCall = lastFile
          BY <4>1 DEF TypesInv, SourceInv
        <5> QED BY <4>1, <5>1 DEF TypesInv, SourceInv
      <4>3. pageEnd <= backups[LastInCall]
        BY <1>1, <1>4, <2>2, <3>3 DEF OrderInv, WithinCall, InCall, Base
      <4>4. l \in from + 1 .. backups[lastFile]
        BY <1>1, <1>4, <4>1, <4>2, <4>3
      <4>5. l \in listed
        BY <2>2, <3>3, <4>4 DEF ListLeft
      <4> QED BY <1>4, <2>2, <4>5 DEF ListRead, Cover
    <3> QED BY <2>2, <3>1, <3>2, <3>3 DEF TypesInv, PassInv
  <2> QED BY <1>4, <2>1, <2>2
<1>12. Covered'
  <2> SUFFICES ASSUME NEW k \in Delivered \cup {at + 1}, NEW l \in from + 1 .. k
               PROVE  Cover(l)'
    BY <1>2, <1>3 DEF Covered
  <2>1. Cover(l) \/ l = at + 1
    <3>1. CASE k \in Delivered
      BY <3>1 DEF Covered
    <3>2. CASE k = at + 1
      <4>1. l \in from + 1 .. at \/ l = at + 1
        BY <1>4, <3>2
      <4> QED BY <1>11, <4>1
    <3> QED BY <3>1, <3>2
  <2> QED BY <1>1, <1>2, <1>3, <2>1 DEF Cover
<1>13. WantedListed'
  BY <1>2 DEF WantedListed
<1>14. NothingMissed'
  BY <1>1, <1>4 DEF NothingMissed
<1> QED BY <1>6, <1>7, <1>8, <1>9, <1>10, <1>12, <1>13, <1>14

(* The active log's turn comes: the backups were read, or one failed, or   *)
(* the pass is cancelled.                                                  *)
LEMMA TurnReads ==
  ASSUME TypesInv, OrderInv, ReadInv, UNCHANGED <<sourceVars, passVars, file, delivered, cancelled>>,
         stage = "trn", TurnToLdf, trnFailed => trnFailed',
         trnFailed' \/ cancelled \/ (PageIsOver /\ count < ChunkSize /\ LastInCall = lastFile)
  PROVE  ReadInv'
<1> USE DEF ReadInv
<1>1. /\ UNCHANGED <<logEnd, head, backups, mode, from, lastFile, listed, wanted>>
      /\ Delivered' = Delivered /\ stage' = "ldf" /\ paging' = FALSE /\ cursor' = 0
  BY DEF sourceVars, passVars, Delivered, TurnToLdf
<1>2. ListLeft' /\ ListRead' /\ ShortPage' /\ WantedListed' /\ NothingMissed'
  BY <1>1 DEF ListLeft, ListRead, ShortPage, WantedListed, NothingMissed
<1>3. ListDone'
  <2> SUFFICES ASSUME ~trnFailed', ~cancelled, NEW l \in listed, from < l
               PROVE  l \in Delivered
    BY <1>1 DEF ListDone
  <2>1. paging /\ at = pageEnd /\ count < ChunkSize /\ LastInCall = lastFile
    BY DEF PageIsOver
  <2>2. l <= backups[lastFile] /\ backups[lastFile] <= pageEnd
    BY <2>1 DEF ListLeft, ShortPage
  <2>3. l \in Nat /\ backups[lastFile] \in Nat /\ at \in Nat
    BY <2>1, CallOnList DEF TypesInv, PassInv, PageInv
  <2>4. l <= Pos
    BY <2>1, <2>2, <2>3 DEF Pos
  <2> QED BY <2>4 DEF ListRead
<1>4. LogRead'
  <2>1. Pos' = Higher(0, head) /\ head \in Nat
    BY <1>1 DEF Pos, Start, TypesInv, SourceInv
  <2>2. Pos' = head
    BY <2>1 DEF Higher
  <2>3. \A l \in from + 1 .. head : ~(l > head)
    BY <2>1 DEF TypesInv, PassInv
  <2> QED BY <1>1, <2>2, <2>3 DEF LogRead
<1>5. Covered'
  <2> SUFFICES ASSUME NEW k \in Delivered, NEW l \in from + 1 .. k
               PROVE  Cover(l)'
    BY <1>1 DEF Covered
  <2>1. Cover(l)
    BY DEF Covered
  <2> QED BY <1>1, <2>1 DEF Cover
<1> QED BY <1>2, <1>3, <1>4, <1>5

(* The pass ends.                                                          *)
LEMMA FinishReads ==
  ASSUME TypesInv, OrderInv, ReadInv,
         UNCHANGED <<sourceVars, passVars, file, delivered, cancelled, trnFailed>>, stage = "ldf",
         \/ Finish("failed")
         \/ Finish("done") /\ (cancelled \/ (PageIsOver /\ count < ChunkSize))
  PROVE  ReadInv'
<1> USE DEF ReadInv
<1>1. /\ UNCHANGED <<logEnd, head, backups, mode, from, lastFile, endThen, listed, wanted>>
      /\ Delivered' = Delivered /\ MaxSeen' = MaxSeen /\ stage' \in {"done", "failed"} /\ paging' = FALSE
  BY DEF sourceVars, passVars, Delivered, MaxSeen, Finish
<1>2. ListLeft' /\ ListRead' /\ ShortPage' /\ LogRead' /\ WantedListed'
  BY <1>1 DEF ListLeft, ListRead, ShortPage, LogRead, WantedListed
<1>3. ListDone'
  BY <1>1 DEF ListDone
<1>4. Covered'
  BY <1>1 DEF Covered, Cover
<1>5. MaxSeen = 0 \/ MaxSeen \in Delivered
  BY MaxSeenIsSeen DEF OrderInv
<1>6. from \in Nat /\ endThen \in Nat /\ head \in Nat /\ MaxSeen \in Nat
  BY <1>5, DeliveredLsns DEF TypesInv, PassInv, SourceInv
<1>7. CASE Finish("failed")
  <2>1. NothingMissed'
    BY <1>7 DEF NothingMissed, Finish
  <2> QED BY <1>2, <1>3, <1>4, <2>1
<1>8. CASE cancelled
  <2>1. \A l \in from + 1 .. MaxSeen : Cover(l)
    BY <1>5, <1>6 DEF Covered
  <2>2. NothingMissed'
    BY <1>1, <1>8, <2>1 DEF NothingMissed, Cover
  <2> QED BY <1>2, <1>3, <1>4, <2>2
<1>9. CASE ~cancelled /\ PageIsOver /\ count < ChunkSize
  <2>1. paging /\ at = pageEnd /\ Pos = at /\ at \in Nat
    BY <1>9 DEF PageIsOver, Pos, TypesInv, PageInv
  <2>2. endThen <= at /\ \A k \in Delivered : k <= at
    BY <1>9, <2>1 DEF ShortPage
  <2>3. MaxSeen <= at
    BY <1>5, <2>1, <2>2
  <2> SUFFICES NothingMissed'
    BY <1>2, <1>3, <1>4
  <2> SUFFICES ASSUME NEW l \in from + 1 .. Higher(endThen, MaxSeen)
               PROVE  l \in Delivered \/ (l <= head /\ (trnFailed \/ l \notin listed))
    BY <1>1, <1>9 DEF NothingMissed, Higher
  <2>4. l \in Nat /\ from < l /\ l <= at
    BY <1>6, <2>1, <2>2, <2>3 DEF Higher
  <2>5. CASE l > head
    <3>1. l \in from + 1 .. Pos
      BY <1>6, <2>1, <2>4
    <3> QED BY <1>9, <2>5, <3>1 DEF LogRead
  <2>6. CASE l <= head /\ ~trnFailed /\ l \in listed
    BY <1>9, <2>4, <2>6 DEF ListDone
  <2>7. CASE l <= head /\ (trnFailed \/ l \notin listed)
    BY <2>7
  <2> QED BY <1>6, <2>4, <2>5, <2>6, <2>7
<1> QED BY <1>7, <1>8, <1>9

LEMMA NextPageReads ==
  ASSUME TypesInv, OrderInv, ReadInv, PageIsOver, paging' = FALSE,
         UNCHANGED <<sourceVars, passVars, stage, at, pageEnd, count, outVars, cancelled, trnFailed>>,
         \/ cursor' = pageEnd /\ file' = file
         \/ /\ stage = "trn" /\ LastInCall < lastFile /\ count < ChunkSize
            /\ file' = LastInCall + 1 /\ cursor' = Base
  PROVE  ReadInv'
<1> USE DEF ReadInv
<1>1. /\ UNCHANGED <<logEnd, head, backups, mode, from, lastFile, endThen, listed, wanted>>
      /\ Delivered' = Delivered /\ Pos' = Start'
  BY DEF sourceVars, passVars, outVars, Delivered, Pos
<1>2. /\ paging /\ at = pageEnd /\ Pos = at /\ at \in Nat /\ from \in Nat /\ head \in Nat
      /\ stage \in {"trn", "ldf"}
  BY DEF PageIsOver, Pos, OrderInv, BehindPage, TypesInv, PageInv, PassInv, SourceInv
<1>3. ListLeft' /\ ListDone' /\ ShortPage' /\ WantedListed'
  BY <1>1 DEF ListLeft, ListDone, ShortPage, WantedListed
<1>4. Covered' /\ NothingMissed'
  BY <1>1, <1>2 DEF Covered, Cover, NothingMissed
<1>5. CASE cursor' = pageEnd /\ file' = file
  <2>1. Start' = Higher(at, IF stage = "trn" THEN FirstOf(file) ELSE head)
    BY <1>1, <1>2, <1>5 DEF Start, FirstOf
  <2>2. ListRead'
    <3> SUFFICES ASSUME stage = "trn" PROVE ListRead'
      BY DEF ListRead
    <3>1. FirstOf(file) \in Nat /\ FirstOf(file) <= at
      BY <1>2, CallOnList DEF TypesInv, ListLeft
    <3>2. Start' = at
      BY <1>2, <2>1, <3>1 DEF Higher
    <3> QED BY <1>1, <1>2, <3>2 DEF ListRead
  <2>3. LogRead'
    <3> SUFFICES ASSUME stage = "ldf", ~cancelled, NEW l \in from + 1 .. Higher(at, head), l > head
                 PROVE  l \in Delivered
      BY <1>1, <2>1 DEF LogRead
    <3>1. l \in from + 1 .. Pos
      BY <1>2 DEF Higher
    <3> QED BY <3>1 DEF LogRead
  <2> QED BY <1>3, <1>4, <2>2, <2>3
<1>6. CASE stage = "trn" /\ LastInCall < lastFile /\ count < ChunkSize /\ file' = LastInCall + 1 /\ cursor' = Base
  <2>1. LastInCall \in Nat /\ 1 <= LastInCall /\ backups[LastInCall] \in Nat
    BY <1>6, CallOnList DEF TypesInv, PassInv
  <2>2. FirstOf(file)' = backups[LastInCall]
    BY <1>1, <1>6, <2>1 DEF FirstOf
  <2>3. Start' = Higher(Base, backups[LastInCall])
    BY <1>6, <2>2 DEF Start
  <2>4. backups[LastInCall] <= at
    BY <1>2, <1>6 DEF ShortPage
  <2>5. ListRead'
    <3> SUFFICES ASSUME NEW l \in listed, from < l, l <= Higher(Base, backups[LastInCall])
                 PROVE  l \in Delivered
      BY <1>1, <2>3 DEF ListRead
    <3>1. l \in Nat /\ Base \in {0, from}
      BY DEF TypesInv, PassInv, Base
    <3>2. l <= at
      BY <1>2, <2>1, <2>4, <3>1 DEF Higher
    <3> QED BY <1>2, <1>6, <3>2 DEF ListRead
  <2>6. LogRead'
    BY <1>6 DEF LogRead
  <2> QED BY <1>3, <1>4, <2>5, <2>6
<1> QED BY <1>5, <1>6

LEMMA FirstOfNat ==
  ASSUME SourceInv, NEW i \in Nat, 1 <= i, i <= Len(backups) + 1
  PROVE  FirstOf(i) \in Nat /\ (i = 1 \/ FirstOf(i) = backups[i - 1])
<1>1. i = 1 \/ i - 1 \in 1..Len(backups)
  BY DEF SourceInv
<1> QED BY <1>1 DEF SourceInv, FirstOf

(* A pass begins: its list is still to be read, and its part of the log.   *)
LEMMA BeginReads ==
  ASSUME TypesInv, OrderInv, ReadInv, Resume \/ History \/ FillGap
  PROVE  ReadInv'
<1> USE DEF ReadInv
<1>1. /\ UNCHANGED <<logEnd, head, backups, delivered>> /\ paging' = FALSE
      /\ stage' \in {"trn", "ldf"}
  <2>1. UNCHANGED <<sourceVars, outVars>> /\ paging' = FALSE
    BY DEF Resume, History, FillGap, Begin
  <2>2. stage' \in {"trn", "ldf"}
    BY DEF Resume, History, FillGap
  <2> QED BY <2>1, <2>2 DEF sourceVars, outVars
<1>2. Delivered' = {}
  <2>1. delivered' = <<>>
    BY <1>1 DEF Resume, History, FillGap, TypesInv, OutInv
  <2> QED BY <2>1 DEF Delivered
<1>3. ShortPage' /\ Covered' /\ NothingMissed'
  BY <1>1, <1>2 DEF ShortPage, Covered, NothingMissed
<1>4. Pos' = Higher(cursor', IF stage' = "trn" THEN FirstOf(file)' ELSE head)
  BY <1>1 DEF Pos, Start
<1>5. head \in Nat /\ logEnd \in Nat /\ head <= LastBackup /\ LastBackup \in Nat /\ Len(backups) \in Nat
  BY LastBackupBound DEF TypesInv, SourceInv
<1>6. CASE Resume
  <2>1. PICK m \in {"resume", "poll"}, lsn \in 0..logEnd : Begin(m, lsn, 1, 0) /\ cursor' = lsn
    BY <1>6 DEF Resume
  <2>2. stage' = "ldf" /\ wanted' = {} /\ from' = lsn /\ listed' = HeldBy(1, 0) /\ cursor' = lsn
    BY <1>6, <2>1 DEF Resume, Begin
  <2>3. listed' = {}
    BY <2>2 DEF HeldBy
  <2>4. ListLeft' /\ ListRead' /\ ListDone' /\ WantedListed'
    BY <2>2, <2>3 DEF ListLeft, ListRead, ListDone, WantedListed
  <2>5. LogRead'
    <3>1. \A l \in lsn + 1 .. Higher(lsn, head) : ~(l > head)
      BY <1>5, <2>1 DEF Higher
    <3> QED BY <1>1, <1>4, <2>2, <3>1 DEF LogRead
  <2> QED BY <1>3, <2>4, <2>5
<1>7. CASE History
  <2>1. PICK since \in 1..logEnd :
          /\ Begin("history", since - 1, HistoryFirst(since), HistoryLast(since))
          /\ wanted' = IF Len(backups) - CountBefore(since) <= MaxHistory
                       THEN {l \in 1..head : l >= since} ELSE {}
    BY <1>7 DEF History
  <2> DEFINE c == CountBefore(since)
             i == HistoryFirst(since)
             j == HistoryLast(since)
  <2>2. /\ stage' = "trn" /\ cursor' = 0 /\ backups # <<>> /\ from' = since - 1
        /\ file' = i /\ lastFile' = j /\ listed' = HeldBy(i, j)
    BY <1>7, <2>1 DEF History, Begin
  <2>3. since \in Nat /\ 1 <= since /\ c \in Nat /\ c <= Len(backups) /\ Len(backups) >= 1
    <3>1. since \in Nat /\ 1 <= since
      BY <1>5, <2>1
    <3>2. c \in Nat /\ c <= Len(backups)
      BY <3>1, CountBeforeType DEF TypesInv
    <3>3. Len(backups) >= 1
      BY <2>2 DEF TypesInv, SourceInv
    <3> QED BY <3>1, <3>2, <3>3
  <2>4. /\ i \in Nat /\ 1 <= i /\ i <= j /\ j \in 1..Len(backups)
        /\ i = 1 \/ i = c
        /\ Len(backups) - c <= MaxHistory => j = Len(backups)
    BY <1>5, <2>3, ReaderAssumption DEF HistoryFirst, HistoryLast, Higher, Lower
  <2>5. backups[j] \in Nat /\ backups[j] <= logEnd
    BY <2>4 DEF TypesInv, SourceInv
  <2>6. FirstOf(i) \in Nat /\ FirstOf(i) < since
    <3>1. CASE i = 1
      BY <2>3, <3>1 DEF FirstOf
    <3>2. CASE i # 1
      <4>1. i - 1 \in 1..Len(backups) /\ i - 1 <= c
        BY <1>5, <2>3, <2>4, <3>2
      <4>2. backups[i - 1] < since
        BY <2>3, <4>1, CountBeforeCounts DEF TypesInv
      <4>3. backups[i - 1] \in Nat
        BY <4>1 DEF TypesInv, SourceInv
      <4> QED BY <3>2, <4>2, <4>3 DEF FirstOf
    <3> QED BY <3>1, <3>2
  <2>7. \A l : l \in listed' <=> l \in 1..logEnd /\ FirstOf(i) < l /\ l <= backups[j]
    BY <2>2, <2>4 DEF HeldBy
  <2>8. ListLeft'
    <3>1. \A l \in since - 1 + 1 .. backups[j] : l \in listed'
      BY <1>5, <2>3, <2>5, <2>6, <2>7
    <3> QED BY <1>1, <2>2, <2>7, <3>1 DEF ListLeft
  <2>9. ListRead'
    <3>1. Pos' = Higher(0, FirstOf(i))
      BY <1>1, <1>4, <2>2 DEF FirstOf
    <3>2. \A l \in listed' : ~(l <= Pos')
      BY <1>5, <2>6, <2>7, <3>1 DEF Higher
    <3> QED BY <3>2 DEF ListRead
  <2>10. ListDone' /\ LogRead'
    BY <2>2 DEF ListDone, LogRead
  <2>11. WantedListed'
    <3> SUFFICES ASSUME NEW l \in wanted'
                 PROVE  l \in listed' /\ since - 1 < l
      BY <2>2 DEF WantedListed
    <3>1. Len(backups) - c <= MaxHistory /\ l \in 1..head /\ l >= since
      BY <2>1
    <3>2. backups[j] = LastBackup
      BY <2>2, <2>4, <3>1 DEF LastBackup
    <3>3. l \in 1..logEnd /\ FirstOf(i) < l /\ l <= backups[j]
      BY <1>5, <2>3, <2>5, <2>6, <3>1, <3>2
    <3> QED BY <2>3, <2>7, <3>1, <3>3
  <2> QED BY <1>3, <2>8, <2>9, <2>10, <2>11
<1>8. CASE FillGap
  <2>1. PICK old \in 0..Len(backups) :
          /\ Begin("gap", from, GapFirst(from, old), GapLast(from, old))
          /\ wanted' = IF old <= CountBefore(from) /\ Len(backups) - CountBefore(from) <= MaxFilesPerCall
                       THEN from + 1 .. head ELSE {}
          /\ stage' = IF GapFirst(from, old) <= Len(backups) THEN "trn" ELSE "ldf"
          /\ cursor' = IF GapFirst(from, old) <= Len(backups) THEN from ELSE 0
    BY <1>8 DEF FillGap
  <2> DEFINE c == CountBefore(from)
             i == GapFirst(from, old)
             j == GapLast(from, old)
  <2>2. /\ mode' = "gap" /\ from' = from /\ from < head
        /\ file' = i /\ lastFile' = j /\ listed' = HeldBy(i, j)
    BY <1>8, <2>1 DEF FillGap, Begin
  <2>3. from \in Nat /\ c \in Nat /\ c <= Len(backups)
    <3>1. from \in Nat
      BY DEF TypesInv, PassInv
    <3> QED BY <3>1, CountBeforeType DEF TypesInv
  <2>4. /\ i \in Nat /\ 1 <= i /\ i <= Len(backups) + 1 /\ j \in Nat /\ j <= Len(backups)
        /\ i <= Len(backups) => i <= j
        /\ old <= c /\ Len(backups) - c <= MaxFilesPerCall => i = c + 1 /\ j = Len(backups)
    BY <1>5, <2>1, <2>3, ReaderAssumption DEF GapFirst, GapLast, Higher, Lower
  <2>5. \A l : l \in listed' <=> i <= Len(backups) /\ l \in 1..logEnd /\ FirstOf(i) < l /\ l <= backups[j]
    <3>1. i <= j <=> i <= Len(backups)
      BY <1>5, <2>4
    <3> QED BY <2>2, <3>1 DEF HeldBy
  <2>6. FirstOf(i) \in Nat
    BY <2>4, FirstOfNat DEF TypesInv
  <2>7. ListLeft'
    BY <1>1, <2>2, <2>5 DEF ListLeft
  <2>8. ListRead'
    <3> SUFFICES ASSUME stage' = "trn", NEW l \in listed', from < l, l <= Pos'
                 PROVE  FALSE
      BY <2>2 DEF ListRead
    <3>1. Pos' = Higher(from, FirstOf(i))
      BY <1>1, <1>4, <2>1, <2>2 DEF FirstOf
    <3>2. l \in Int /\ FirstOf(i) < l
      BY <2>5
    <3> QED BY <2>3, <2>6, <3>1, <3>2 DEF Higher
  <2>9. ListDone'
    BY <1>1, <2>1, <2>5 DEF ListDone
  <2>10. LogRead'
    <3> SUFFICES ASSUME stage' = "ldf", NEW l \in from + 1 .. Pos', l > head
                 PROVE  FALSE
      BY <1>1, <2>2 DEF LogRead
    <3>1. Pos' = Higher(0, head)
      BY <1>4, <2>1
    <3> QED BY <1>5, <2>3, <3>1 DEF Higher
  <2>11. WantedListed'
    <3> SUFFICES ASSUME NEW l \in wanted'
                 PROVE  l \in listed' /\ from < l
      BY <2>2 DEF WantedListed
    <3>1. old <= c /\ Len(backups) - c <= MaxFilesPerCall /\ l \in from + 1 .. head
      BY <2>1
    <3>2. i = c + 1 /\ j = Len(backups)
      BY <2>4, <3>1
    <3>3. backups # <<>> /\ LastBackup = backups[Len(backups)] /\ Len(backups) \in 1..Len(backups)
      <4>1. backups # <<>>
        BY <1>5, <2>2, <2>3 DEF LastBackup
      <4> QED BY <4>1 DEF LastBackup, TypesInv, SourceInv
    <3>4. c < Len(backups)
      <4>1. Len(backups) <= c <=> backups[Len(backups)] < from
        BY <2>3, <3>3, CountBeforeCounts DEF TypesInv
      <4> QED BY <1>5, <2>2, <2>3, <3>3, <4>1
    <3>5. FirstOf(i) < l
      <4>1. CASE c = 0
        BY <2>3, <3>1, <3>2, <4>1 DEF FirstOf
      <4>2. CASE c # 0
        <5>1. c \in 1..Len(backups) /\ i # 1 /\ i - 1 = c
          BY <1>5, <2>3, <3>2, <4>2
        <5>2. backups[c] < from
          BY <2>3, <5>1, CountBeforeCounts DEF TypesInv
        <5>3. FirstOf(i) = backups[c]
          BY <5>1 DEF FirstOf
        <5> QED BY <2>3, <2>6, <3>1, <5>2, <5>3
      <4> QED BY <4>1, <4>2
    <3>6. l \in 1..logEnd /\ l <= backups[j]
      BY <1>5, <2>3, <3>1, <3>2, <3>3, LastBackupBound DEF TypesInv
    <3>7. i <= Len(backups)
      BY <1>5, <2>3, <3>2, <3>4
    <3>8. l \in listed'
      BY <2>5, <3>5, <3>6, <3>7
    <3>9. from < l
      BY <2>3, <3>1
    <3> QED BY <3>8, <3>9
  <2> QED BY <1>3, <2>7, <2>8, <2>9, <2>10, <2>11
<1> QED BY <1>6, <1>7, <1>8

(* A cancelled pass promises less.                                         *)
LEMMA CancelReads ==
  ASSUME TypesInv, OrderInv, ReadInv, Cancel \/ UNCHANGED vars
  PROVE  ReadInv'
<1> USE DEF ReadInv
<1>1. /\ UNCHANGED <<logEnd, head, backups, mode, stage, from, perCall, file, lastFile>>
      /\ UNCHANGED <<paging, cursor, at, pageEnd, count, delivered, trnFailed, endThen, listed, wanted>>
  BY DEF Cancel, vars, sourceVars, passVars, pageVars, outVars
<1>2. Delivered' = Delivered /\ MaxSeen' = MaxSeen /\ Pos' = Pos /\ LastInCall' = LastInCall
  BY <1>1 DEF Delivered, MaxSeen, Pos, Start, FirstOf, LastInCall
<1>3. cancelled' = cancelled \/ (cancelled' /\ stage \in {"trn", "ldf"})
  BY DEF Cancel, vars
<1>4. ListLeft' /\ ListRead' /\ ShortPage' /\ Covered' /\ WantedListed'
  BY <1>1, <1>2 DEF ListLeft, ListRead, ShortPage, Covered, Cover, WantedListed, FirstOf
<1>5. ListDone' /\ LogRead' /\ NothingMissed'
  BY <1>1, <1>2, <1>3 DEF ListDone, LogRead, NothingMissed
<1> QED BY <1>4, <1>5

LEMMA ReadInit == Init => ReadInv
<1> SUFFICES ASSUME Init PROVE ReadInv
  OBVIOUS
<1>1. stage = "idle" /\ ~paging /\ delivered = <<>> /\ wanted = {}
  BY DEF Init
<1>2. Delivered = {}
  BY <1>1 DEF Delivered
<1> QED BY <1>1, <1>2 DEF ReadInv, ListLeft, ListRead, ListDone, LogRead, ShortPage, Covered,
                          WantedListed, NothingMissed

LEMMA ReadNext == TypesInv /\ OrderInv /\ ReadInv /\ [Next]_vars => ReadInv'
<1> SUFFICES ASSUME TypesInv, OrderInv, ReadInv, [Next]_vars PROVE ReadInv'
  OBVIOUS
<1>1. CASE LogRecord \/ BackUpLog \/ Truncate
  BY <1>1, SourceReads
<1>2. CASE Resume \/ History \/ FillGap
  BY <1>2, BeginReads
<1>3. CASE QueryLdf \/ QueryTrn
  BY <1>3, QueryReads
<1>4. CASE HandleRecord
  BY <1>4, HandleReads
<1>5. CASE HandleCancelled
  BY <1>5, TurnReads, FinishReads DEF HandleCancelled
<1>6. CASE NextPage
  BY <1>6, NextPageReads DEF NextPage
<1>7. CASE EndRead
  <2>1. CASE /\ stage = "trn" /\ LastInCall < lastFile /\ file' = LastInCall + 1
             /\ cursor' = (IF mode = "gap" THEN from ELSE 0) /\ paging' = FALSE
             /\ UNCHANGED <<stage, at, pageEnd, count, turn>>
    BY <1>7, <2>1, NextPageReads DEF EndRead, Base, outVars
  <2>2. CASE stage = "trn" /\ LastInCall = lastFile /\ TurnToLdf /\ UNCHANGED file
    BY <1>7, <2>2, TurnReads DEF EndRead
  <2>3. CASE stage = "ldf" /\ Finish("done") /\ UNCHANGED file
    BY <1>7, <2>3, FinishReads DEF EndRead
  <2> QED BY <1>7, <2>1, <2>2, <2>3 DEF EndRead
<1>8. CASE ReadFails
  BY <1>8, TurnReads, FinishReads DEF ReadFails
<1>9. CASE Cancel \/ UNCHANGED vars
  BY <1>9, CancelReads
<1> QED BY <1>1, <1>2, <1>3, <1>4, <1>5, <1>6, <1>7, <1>8, <1>9 DEF Next, Read

(* When a pass ends without an error, whatever it was to read and its      *)
(* maxLSN has passed was handed over, but for what was truncated and is in *)
(* no backup that could be read.                                           *)
THEOREM NothingIsMissed == Spec => []NothingMissed
<1>1. ReadInv => NothingMissed
  BY DEF ReadInv
<1> QED BY <1>1, ReaderInit, ReaderNext, ReadInit, ReadNext, PTL DEF Spec

(* With --since, and after a stale checkpoint, all that was truncated but  *)
(* logged since is read from the backups, if the list has room for them.   *)
THEOREM ListedBackupsAreRead == Spec => []BackupsAreRead
<1>1. ReadInv => BackupsAreRead
  BY DEF ReadInv, ListDone, WantedListed, BackupsAreRead
<1> QED BY <1>1, ReaderInit, ReaderNext, ReadInit, ReadNext, PTL DEF Spec
=============================================================================
