---------------------------- MODULE QsoLogProofs ----------------------------
(***************************************************************************)
(* Theorems about QsoLog for every value of its constants: any number of   *)
(* contests, callsigns and bands, logs of any length, every subset of the  *)
(* faults unless a theorem names one.                                      *)
(*                                                                         *)
(* All of them rest on TypeOK, which is inductive: the rows and the        *)
(* journal keep their shape because the next own number is a positive      *)
(* number (NumberIsNew), and the undo slot keeps naming a row in the bin   *)
(* because nothing but the undo itself takes a row out of there.           *)
(***************************************************************************)
EXTENDS QsoLog, SequenceTheorems, WellFoundedInduction, TLAPS

-----------------------------------------------------------------------------
(* Numbers *)

\* A set of natural numbers that is not empty has a least element.
LEMMA LeastNumber ==
    ASSUME NEW S \in SUBSET Nat, S # {}
    PROVE  \E n \in S : \A m \in S : n <= m
<1>1. PICK n \in S : \A m \in S : <<m, n>> \notin OpToRel(<, Nat)
  BY WFMin, NatLessThanWellFounded, Zenon
<1>2. \A m \in S : ~ (m < n)
  BY <1>1, Zenon DEF OpToRel
<1> QED
  BY <1>2, SMT

\* The values of a finite sequence of natural numbers are bounded: otherwise
\* there were a shortest prefix without a bound.
LEMMA BoundExists ==
    ASSUME NEW n \in Nat, NEW f \in [1..n -> Nat]
    PROVE  \E b \in Nat : \A i \in 1..n : f[i] <= b
<1> DEFINE Bounded(k) == \E b \in Nat : \A i \in 1..k : f[i] <= b
<1> DEFINE Bad == {k \in 0..n : ~ Bounded(k)}
<1>1. SUFFICES ASSUME Bad # {} PROVE FALSE
  <2>1. n \in 0..n
    OBVIOUS
  <2> QED
    BY <2>1
<1>2. PICK k \in Bad : \A m \in Bad : k <= m
  <2>1. Bad \in SUBSET Nat
    OBVIOUS
  <2> HIDE DEF Bad
  <2> QED
    BY <1>1, <2>1, LeastNumber
<1>3. k # 0
  BY <1>2
<1>4. k - 1 \in 0..n /\ ~ (k <= k - 1)
  BY <1>2, <1>3
<1>5. PICK b \in Nat : \A i \in 1..(k-1) : f[i] <= b
  BY <1>2, <1>4
<1>6. f[k] \in Nat
  BY <1>2, <1>3
<1>7. CASE f[k] <= b
  <2>1. \A i \in 1..k : f[i] <= b
    BY <1>2, <1>5, <1>7
  <2> QED
    BY <1>2, <2>1
<1>8. CASE ~(f[k] <= b)
  <2>1. \A i \in 1..k : f[i] <= f[k]
    BY <1>2, <1>5, <1>6, <1>8
  <2> QED
    BY <1>2, <1>6, <2>1
<1> QED
  BY <1>7, <1>8

\* Largest() is what its name says on bounded sets: their least bound.
LEMMA LargestIsMaximum ==
    ASSUME NEW S \in SUBSET Nat, S # {}, NEW b \in Nat, \A s \in S : s <= b
    PROVE  Largest(S) \in S /\ \A m \in S : m <= Largest(S)
<1> DEFINE U == {u \in Nat : \A s \in S : s <= u}
<1>1. PICK u \in U : \A v \in U : u <= v
  <2>1. U \in SUBSET Nat /\ U # {}
    OBVIOUS
  <2> HIDE DEF U
  <2> QED
    BY <2>1, LeastNumber
<1>2. u \in S
  <2>1. SUFFICES ASSUME u \notin S PROVE FALSE
    OBVIOUS
  <2>2. \A s \in S : s \in Nat /\ s <= u /\ s # u
    BY <1>1, <2>1
  <2>3. u - 1 \in Nat
    <3>1. PICK s \in S : TRUE
      OBVIOUS
    <3>2. s \in Nat /\ s < u /\ u \in Nat
      BY <1>1, <2>2
    <3> QED
      BY <3>2
  <2>4. \A s \in S : s <= u - 1
    BY <1>1, <2>2
  <2>5. u <= u - 1
    BY <1>1, <2>3, <2>4
  <2> QED
    BY <1>1, <2>5
<1>3. \E n \in S : \A m \in S : m <= n
  BY <1>1, <1>2
<1> QED
  BY <1>3 DEF Largest

LEMMA RowsOf ==
    ASSUME NEW L \in Seq(Row)
    PROVE  /\ Len(L) \in Nat /\ DOMAIN L = 1..Len(L)
           /\ \A i \in 1..Len(L) : L[i] \in Row
OBVIOUS

LEMMA RowFields ==
    ASSUME NEW q \in Row
    PROVE  q.serial \in Nat \ {0} /\ q.time \in Times /\ q.log.contest \in Contests
BY DEF Row

\* nextSerialForContest() answers a positive number, larger than every number
\* of the running log in the sequence it was asked about.
LEMMA NumberIsNew ==
    ASSUME NEW L \in Seq(Row), NEW c, NEW b, NEW scope
    PROVE  /\ NextSerial(L, c, b, scope) \in Nat \ {0}
           /\ \A j \in LiveRows(L, c) :
                (scope = "contest" \/ L[j].band = b) => L[j].serial < NextSerial(L, c, b, scope)
<1> DEFINE S == SerialsOf(L, c, b, scope)
<1>1. Len(L) \in Nat /\ DOMAIN L = 1..Len(L) /\ \A i \in 1..Len(L) : L[i].serial \in Nat \ {0}
  BY RowsOf, RowFields
<1>2. S \in SUBSET Nat
  BY <1>1 DEF SerialsOf, LiveRows
<1>3. PICK bound \in Nat : \A s \in S : s <= bound
  <2> DEFINE f == [i \in 1..Len(L) |-> L[i].serial]
  <2>1. f \in [1..Len(L) -> Nat]
    BY <1>1
  <2>2. PICK bnd \in Nat : \A i \in 1..Len(L) : f[i] <= bnd
    <3> HIDE DEF f
    <3> QED
      BY <1>1, <2>1, BoundExists
  <2>3. \A s \in S : s <= bnd
    BY <1>1, <2>2 DEF SerialsOf, LiveRows
  <2> QED
    BY <2>3
<1>4. \A j \in LiveRows(L, c) : (scope = "contest" \/ L[j].band = b) => L[j].serial \in S
  BY DEF SerialsOf
<1>5. CASE S = {}
  BY <1>4, <1>5 DEF NextSerial
<1>6. CASE S # {}
  <2>1. Largest(S) \in S /\ \A m \in S : m <= Largest(S)
    <3> HIDE DEF S
    <3> QED
      BY <1>2, <1>3, <1>6, LargestIsMaximum
  <2>2. NextSerial(L, c, b, scope) = Largest(S) + 1
    BY <1>6 DEF NextSerial
  <2>3. Largest(S) \in Nat
    BY <1>2, <2>1
  <2>4. ASSUME NEW j \in LiveRows(L, c), scope = "contest" \/ L[j].band = b
        PROVE  L[j].serial < NextSerial(L, c, b, scope)
    <3>1. L[j].serial \in S
      BY <1>4, <2>4
    <3>2. L[j].serial \in Nat /\ L[j].serial <= Largest(S)
      BY <1>2, <2>1, <3>1
    <3> HIDE DEF S
    <3> QED
      BY <2>2, <2>3, <3>2
  <2> HIDE DEF S
  <2> QED
    BY <2>2, <2>3, <2>4
<1> QED
  BY <1>5, <1>6

\* The date an archive is named after is a date.
LEMMA LastDateType ==
    ASSUME qsos \in Seq(Row), NEW c, LiveRows(qsos, c) # {}
    PROVE  LastDate(c) \in Nat
<1> DEFINE S == {Day(qsos[i].time) : i \in LiveRows(qsos, c)}
<1>1. Len(qsos) \in Nat /\ DOMAIN qsos = 1..Len(qsos)
      /\ \A i \in 1..Len(qsos) : Day(qsos[i].time) \in Nat
  <2>1. \A i \in 1..Len(qsos) : qsos[i].time \in Nat
    BY RowsOf, RowFields, QsoLogAssumption DEF Times
  <2>2. \A t \in Nat : Day(t) \in Nat
    BY QsoLogAssumption DEF Day
  <2> QED
    BY <2>1, <2>2
<1>2. S \in SUBSET Nat /\ S # {}
  BY <1>1 DEF LiveRows
<1>3. PICK bound \in Nat : \A s \in S : s <= bound
  <2> DEFINE f == [i \in 1..Len(qsos) |-> Day(qsos[i].time)]
  <2>1. f \in [1..Len(qsos) -> Nat]
    BY <1>1
  <2>2. PICK bnd \in Nat : \A i \in 1..Len(qsos) : f[i] <= bnd
    <3> HIDE DEF f
    <3> QED
      BY <1>1, <2>1, BoundExists
  <2>3. \A s \in S : s <= bnd
    BY <1>1, <2>2 DEF LiveRows
  <2> QED
    BY <2>3
<1>4. Largest(S) \in S
  <2> HIDE DEF S
  <2> QED
    BY <1>2, <1>3, LargestIsMaximum
<1> QED
  BY <1>2, <1>4 DEF LastDate

-----------------------------------------------------------------------------
(* What the writes leave alone *)

\* Two rows that differ at most in the dupe flag.
SameQso(q, r) ==
    /\ q.callsign = r.callsign /\ q.band = r.band /\ q.mode = r.mode
    /\ q.time = r.time /\ q.serial = r.serial /\ q.log = r.log
    /\ q.invalid = r.invalid /\ q.source = r.source

\* Two rows with the same number in the same sequence of the same log.
SameNumber(q, r) == q.band = r.band /\ q.serial = r.serial /\ q.log = r.log

LEMMA FlipDupe ==
    ASSUME NEW q \in Row
    PROVE  [q EXCEPT !.dupe = ~@] \in Row /\ SameQso([q EXCEPT !.dupe = ~@], q)
BY DEF Row, SameQso

\* rescoreDupes() writes flags and nothing else.
LEMMA FlagsOnly ==
    ASSUME NEW L \in Seq(Row), NEW S
    PROVE  /\ WithFlags(L, S) \in Seq(Row)
           /\ DOMAIN WithFlags(L, S) = DOMAIN L
           /\ \A i \in DOMAIN L : SameQso(WithFlags(L, S)[i], L[i])
<1>1. DOMAIN L = 1..Len(L) /\ Len(L) \in Nat /\ \A i \in 1..Len(L) : L[i] \in Row
  OBVIOUS
<1>2. \A i \in 1..Len(L) : WithFlags(L, S)[i] \in Row /\ SameQso(WithFlags(L, S)[i], L[i])
  <2>1. TAKE i \in 1..Len(L)
  <2>2. CASE i \in S
    BY <1>1, <2>2, FlipDupe DEF WithFlags
  <2>3. CASE i \notin S
    BY <1>1, <2>3 DEF WithFlags, SameQso
  <2> QED
    BY <2>2, <2>3
<1>3. WithFlags(L, S) \in [1..Len(L) -> Row]
  BY <1>1, <1>2 DEF WithFlags
<1>4. WithFlags(L, S) \in Seq(Row)
  BY <1>1, <1>3, SeqDef
<1> QED
  BY <1>1, <1>2, <1>3, <1>4

\* The next own number depends on bands, numbers and logs alone.
LEMMA NumbersAgree ==
    ASSUME NEW K, NEW L, DOMAIN K = DOMAIN L, NEW c, NEW b,
           \A i \in DOMAIN L : SameNumber(K[i], L[i])
    PROVE  /\ LiveRows(K, c) = LiveRows(L, c)
           /\ OwnNumber(K, c, b) = OwnNumber(L, c, b)
<1>1. LiveRows(K, c) = LiveRows(L, c)
  BY DEF LiveRows, SameNumber
<1>2. SerialsOf(K, c, b, rules[c].serial) = SerialsOf(L, c, b, rules[c].serial)
  BY <1>1 DEF SerialsOf, LiveRows, SameNumber
<1> QED
  BY <1>1, <1>2 DEF OwnNumber, NextSerial

LEMMA OwnNumberType ==
    ASSUME NEW L \in Seq(Row), NEW c, NEW b
    PROVE  OwnNumber(L, c, b) \in Nat \ {0}
BY NumberIsNew DEF OwnNumber

\* refreshAfterLogChange() on a log just written.
LEMMA RefreshStep ==
    ASSUME NEW L \in Seq(Row), RefreshAfterLogChange(L),
           active' = active, band' = band, rules' = rules
    PROVE  /\ qsos' \in Seq(Row)
           /\ DOMAIN qsos' = DOMAIN L
           /\ \A i \in DOMAIN L : SameQso(qsos'[i], L[i])
           /\ table' = Shown(qsos', active)
           /\ preview' = OwnNumber(qsos', active, band)
<1>1. PICK S \in FlagWrites(L, active) :
         /\ qsos' = WithFlags(L, S)
         /\ table' = Shown(WithFlags(L, S), active)
         /\ preview' = OwnNumber(L, active, band)
  BY DEF RefreshAfterLogChange
<1>2. /\ qsos' \in Seq(Row) /\ DOMAIN qsos' = DOMAIN L
      /\ \A i \in DOMAIN L : SameQso(qsos'[i], L[i])
  BY <1>1, FlagsOnly
<1>3. OwnNumber(qsos', active, band) = OwnNumber(L, active, band)
  <2>1. \A i \in DOMAIN L : SameNumber(qsos'[i], L[i])
    BY <1>2 DEF SameQso, SameNumber
  <2> QED
    BY <1>2, <2>1, NumbersAgree
<1> QED
  BY <1>1, <1>2, <1>3

\* A correction of row i of the table: the row as given up to its flag, the
\* other rows up to theirs, the table patched to match.
LEMMA CorrectStep ==
    ASSUME TypeOK, NEW i \in DOMAIN table, NEW row \in Row, Correct(i, row)
    PROVE  /\ qsos' \in Seq(Row)
           /\ DOMAIN qsos' = DOMAIN qsos
           /\ SameQso(qsos'[i], row)
           /\ \A j \in DOMAIN qsos \ {i} : SameQso(qsos'[j], qsos[j])
           /\ DOMAIN table' = DOMAIN table
           /\ \A j \in DOMAIN table : table'[j] = qsos'[j] \/ (table'[j] = table[j] /\ qsos'[j] = qsos[j])
           /\ UNCHANGED <<journal, active, band, rules, preview, lastDeleted, announced>>
<1> DEFINE L == [qsos EXCEPT ![i] = row]
<1>1. PICK S \in FlagWrites(L, active) :
         /\ qsos' = WithFlags(L, S)
         /\ table' = Patched(WithFlags(L, S), i, S)
         /\ UNCHANGED <<journal, active, band, rules, preview, lastDeleted, announced>>
  BY DEF Correct
<1>2. i \in DOMAIN qsos /\ qsos \in Seq(Row)
  BY DEF TypeOK
<1>3. L \in Seq(Row) /\ DOMAIN L = DOMAIN qsos /\ L[i] = row
      /\ \A j \in DOMAIN qsos \ {i} : L[j] = qsos[j]
  BY <1>2, RowsOf, ExceptSeq
<1>4. /\ qsos' \in Seq(Row) /\ DOMAIN qsos' = DOMAIN L
      /\ \A j \in DOMAIN L : SameQso(qsos'[j], L[j])
  <2> HIDE DEF L
  <2> QED
    BY <1>1, <1>3, FlagsOnly
<1>5. DOMAIN table' = DOMAIN table
  BY <1>1 DEF Patched
<1>6. ASSUME NEW j \in DOMAIN table
      PROVE  table'[j] = qsos'[j] \/ (table'[j] = table[j] /\ qsos'[j] = qsos[j])
  <2>1. CASE j \in S \cup {i}
    BY <1>1, <2>1 DEF Patched
  <2>2. CASE j \notin S \cup {i}
    <3>1. table'[j] = table[j]
      BY <1>1, <2>2 DEF Patched
    <3>2. j \in DOMAIN L /\ L[j] = qsos[j]
      BY <1>3, <2>2 DEF TypeOK
    <3>3. qsos'[j] = L[j]
      <4> HIDE DEF L
      <4> QED
        BY <1>1, <2>2, <3>2 DEF WithFlags
    <3> QED
      BY <3>1, <3>2, <3>3
  <2> QED
    BY <2>1, <2>2
<1>7. SameQso(qsos'[i], row) /\ \A j \in DOMAIN qsos \ {i} : SameQso(qsos'[j], qsos[j])
  <2> HIDE DEF L
  <2> QED
    BY <1>2, <1>3, <1>4
<1> QED
  BY <1>1, <1>3, <1>4, <1>5, <1>6, <1>7

\* LogQso appends one row to the running log, with the number of the entry row.
LEMMA LogQsoStep ==
    ASSUME TypeOK, NEW x \in Calls, NEW m \in Modes, NEW t \in Times, LogQso(x, m, t)
    PROVE  /\ \E q \in Row :
                /\ qsos' = Append(qsos, q)
                /\ q.log = Live(active) /\ q.band = band /\ q.source = "manual" /\ q.mode = m
                /\ q.serial = OwnNumber(qsos, active, band)
           /\ qsos' \in Seq(Row)
           /\ table' = Shown(qsos', active)
           /\ preview' = OwnNumber(qsos', active, band)
<1>1. PICK d \in DupeAnswers(NewRow(x, m, t)) :
         /\ qsos' = Append(qsos, [NewRow(x, m, t) EXCEPT !.dupe = d])
         /\ table' = Shown(qsos', active)
         /\ preview' = OwnNumber(qsos', active, band)
  BY DEF LogQso
<1>2. d \in BOOLEAN
  BY <1>1 DEF DupeAnswers, IsDupe
<1> DEFINE q == [NewRow(x, m, t) EXCEPT !.dupe = d]
<1>3. OwnNumber(qsos, active, band) \in Nat \ {0}
  BY OwnNumberType DEF TypeOK
<1>4. q \in Row
  BY <1>2, <1>3 DEF TypeOK, NewRow, Row, Live, Place
<1>5. /\ q.log = Live(active) /\ q.band = band /\ q.source = "manual" /\ q.mode = m
      /\ q.serial = OwnNumber(qsos, active, band)
  BY DEF NewRow
<1>6. qsos' \in Seq(Row)
  BY <1>1, <1>4 DEF TypeOK
<1> QED
  BY <1>1, <1>4, <1>5, <1>6

\* The journal has as many lines as before or one more, of the shape of a line.
LEMMA WriteJournalType ==
    ASSUME TypeOK, NEW x \in Calls, NEW m \in Modes, NEW t \in Times, WriteJournal(NewRow(x, m, t))
    PROVE  journal' \in Seq(Line)
<1>1. OwnNumber(qsos, active, band) \in Nat \ {0}
  BY OwnNumberType DEF TypeOK
<1>2. JournalLine(NewRow(x, m, t)) \in Line
  BY <1>1 DEF TypeOK, NewRow, JournalLine, Line, Live, Place
<1>3. journal' = journal \/ journal' = Append(journal, JournalLine(NewRow(x, m, t)))
  BY DEF WriteJournal
<1>4. journal \in Seq(Line)
  BY DEF TypeOK
<1> QED
  BY <1>2, <1>3, <1>4

-----------------------------------------------------------------------------
(* TypeOK *)

\* Where the undo slot may point.
SlotOK == lastDeleted \in {NoQso} \cup {i \in DOMAIN qsos : qsos[i].log = Bin(qsos[i].log.contest)}

\* The slot stays good as long as no row leaves the bin.
LEMMA SlotStays ==
    ASSUME SlotOK, lastDeleted' = lastDeleted, DOMAIN qsos \subseteq DOMAIN qsos',
           \A j \in DOMAIN qsos : qsos[j].log.part = "bin" => qsos'[j].log = qsos[j].log
    PROVE  SlotOK'
BY DEF SlotOK, Bin, Place

LEMMA CorrectType ==
    ASSUME TypeOK, NEW i \in DOMAIN table, NEW row \in Row, row.log = qsos[i].log, Correct(i, row)
    PROVE  TypeOK'
<1>1. /\ qsos' \in Seq(Row) /\ DOMAIN qsos' = DOMAIN qsos /\ DOMAIN table' = DOMAIN table
      /\ \A j \in DOMAIN qsos : qsos'[j].log = qsos[j].log
      /\ UNCHANGED <<journal, active, band, rules, preview, lastDeleted, announced>>
  BY CorrectStep DEF SameQso
<1>2. SlotOK'
  BY <1>1, SlotStays DEF TypeOK, SlotOK
<1> QED
  BY <1>1, <1>2 DEF TypeOK, SlotOK

LEMMA EditCallsignType ==
    ASSUME TypeOK, NEW i \in DOMAIN table, NEW x \in Calls, EditCallsign(i, x)
    PROVE  TypeOK'
<1>1. qsos[i] \in Row
  BY RowsOf DEF TypeOK
<1>2. [qsos[i] EXCEPT !.callsign = x] \in Row
  BY <1>1 DEF Row
<1>3. [qsos[i] EXCEPT !.callsign = x].log = qsos[i].log
  BY <1>1 DEF Row
<1> QED
  BY <1>2, <1>3, CorrectType DEF EditCallsign

LEMMA EditTimeType ==
    ASSUME TypeOK, NEW i \in DOMAIN table, NEW t \in Times, EditTime(i, t)
    PROVE  TypeOK'
<1>1. qsos[i] \in Row
  BY RowsOf DEF TypeOK
<1>2. [qsos[i] EXCEPT !.time = t] \in Row
  BY <1>1 DEF Row
<1>3. [qsos[i] EXCEPT !.time = t].log = qsos[i].log
  BY <1>1 DEF Row
<1> QED
  BY <1>2, <1>3, CorrectType DEF EditTime

LEMMA ToggleInvalidType ==
    ASSUME TypeOK, NEW i \in DOMAIN table, ToggleInvalid(i)
    PROVE  TypeOK'
<1>1. qsos[i] \in Row
  BY RowsOf DEF TypeOK
<1>2. [qsos[i] EXCEPT !.invalid = ~@] \in Row
  BY <1>1 DEF Row
<1>3. [qsos[i] EXCEPT !.invalid = ~@].log = qsos[i].log
  BY <1>1 DEF Row
<1> QED
  BY <1>2, <1>3, CorrectType DEF ToggleInvalid

LEMMA LogQsoType ==
    ASSUME TypeOK, NEW x \in Calls, NEW m \in Modes, NEW t \in Times, LogQso(x, m, t)
    PROVE  TypeOK'
<1>1. PICK q \in Row : qsos' = Append(qsos, q)
  BY LogQsoStep
<1>2. /\ qsos' \in Seq(Row) /\ table' = Shown(qsos', active)
      /\ preview' = OwnNumber(qsos', active, band)
  BY LogQsoStep
<1>3. journal' \in Seq(Line) /\ UNCHANGED <<active, band, rules, lastDeleted, announced>>
  BY WriteJournalType DEF LogQso
<1>4. DOMAIN qsos \subseteq DOMAIN qsos' /\ \A j \in DOMAIN qsos : qsos'[j] = qsos[j]
  BY <1>1 DEF TypeOK
<1>5. SlotOK'
  BY <1>3, <1>4, SlotStays DEF TypeOK, SlotOK
<1>6. preview' \in Nat
  BY <1>2, OwnNumberType
<1>7. DOMAIN table' \subseteq DOMAIN qsos'
  BY <1>2 DEF Shown, LiveRows
<1> QED
  BY <1>2, <1>3, <1>4, <1>5, <1>6, <1>7 DEF TypeOK, SlotOK

\* refreshAfterLogChange() on a log that moved rows but no row out of the bin.
LEMMA RefreshType ==
    ASSUME TypeOK, NEW L \in Seq(Row), RefreshAfterLogChange(L), SlotOK',
           DOMAIN qsos \subseteq DOMAIN L, announced' \subseteq DOMAIN L,
           UNCHANGED <<journal, active, band, rules>>
    PROVE  TypeOK'
<1>1. /\ qsos' \in Seq(Row) /\ DOMAIN qsos' = DOMAIN L
      /\ table' = Shown(qsos', active) /\ preview' = OwnNumber(qsos', active, band)
  BY RefreshStep
<1>2. preview' \in Nat
  BY <1>1, OwnNumberType
<1>3. DOMAIN table' \subseteq DOMAIN qsos'
  BY <1>1 DEF Shown, LiveRows
<1> QED
  BY <1>1, <1>2, <1>3 DEF TypeOK, SlotOK

\* A row moved within its contest is a row.
LEMMA MoveRow ==
    ASSUME NEW q \in Row
    PROVE  /\ [q EXCEPT !.log = Bin(q.log.contest)] \in Row
           /\ [q EXCEPT !.log = FromBin(q.log)] \in Row
           /\ \A d \in Nat, n \in Nat : [q EXCEPT !.log = Archive(q.log.contest, d, n)] \in Row
BY DEF Row, Bin, Archive, FromBin, Live, Place

LEMMA DeleteQsoType ==
    ASSUME TypeOK, NEW i \in DOMAIN table, DeleteQso(i)
    PROVE  TypeOK'
<1> DEFINE L == [qsos EXCEPT ![i].log = Bin(qsos[i].log.contest)]
<1>1. i \in DOMAIN qsos /\ qsos \in Seq(Row) /\ qsos[i] \in Row
  BY RowsOf DEF TypeOK
<1>2. /\ L \in Seq(Row) /\ DOMAIN L = DOMAIN qsos
      /\ L[i] = [qsos[i] EXCEPT !.log = Bin(qsos[i].log.contest)]
  <2>1. L = [qsos EXCEPT ![i] = [qsos[i] EXCEPT !.log = Bin(qsos[i].log.contest)]]
    OBVIOUS
  <2>2. [qsos[i] EXCEPT !.log = Bin(qsos[i].log.contest)] \in Row
    BY <1>1, MoveRow
  <2> QED
    BY <1>1, <2>1, <2>2, RowsOf, ExceptSeq
<1>3. L[i].log = Bin(L[i].log.contest)
  BY <1>1, <1>2 DEF Bin, Place, Row
<1>4. DOMAIN qsos' = DOMAIN L /\ SameQso(qsos'[i], L[i])
  <2> HIDE DEF L
  <2>1. RefreshAfterLogChange(L)
    BY DEF DeleteQso, L
  <2> QED
    BY <1>1, <1>2, <2>1, RefreshStep DEF DeleteQso
<1>5. SlotOK'
  BY <1>1, <1>2, <1>3, <1>4 DEF DeleteQso, SlotOK, SameQso
<1>6. RefreshAfterLogChange(L) /\ UNCHANGED <<journal, active, band, rules, announced>>
  BY DEF DeleteQso
<1>7. announced' \subseteq DOMAIN L
  BY <1>2, <1>6 DEF TypeOK
<1> HIDE DEF L
<1> QED
  BY <1>2, <1>5, <1>6, <1>7, RefreshType

LEMMA UndoDeleteType ==
    ASSUME TypeOK, UndoDelete
    PROVE  TypeOK'
<1> DEFINE i == lastDeleted
<1> DEFINE L == [qsos EXCEPT ![i].log = FromBin(qsos[i].log)]
<1>1. i \in DOMAIN qsos /\ qsos \in Seq(Row) /\ qsos[i] \in Row
  BY RowsOf DEF TypeOK, UndoDelete
<1>2. L \in Seq(Row) /\ DOMAIN L = DOMAIN qsos
  <2>1. L = [qsos EXCEPT ![i] = [qsos[i] EXCEPT !.log = FromBin(qsos[i].log)]]
    OBVIOUS
  <2>2. [qsos[i] EXCEPT !.log = FromBin(qsos[i].log)] \in Row
    BY <1>1, MoveRow
  <2> QED
    BY <1>1, <2>1, <2>2, RowsOf, ExceptSeq
<1>3. RefreshAfterLogChange(L) /\ UNCHANGED <<journal, active, band, rules>>
  BY DEF UndoDelete
<1>4. announced' \subseteq DOMAIN L
  BY <1>1, <1>2 DEF TypeOK, UndoDelete
<1>5. SlotOK'
  BY DEF UndoDelete, SlotOK
<1> HIDE DEF L
<1> QED
  BY <1>2, <1>3, <1>4, <1>5, RefreshType

LEMMA ArchiveType ==
    ASSUME TypeOK, ArchiveActiveContest
    PROVE  TypeOK'
<1> DEFINE d == LastDate(active)
<1>1. PICK n \in 1..(Len(qsos) + 1) :
         /\ qsos' = [i \in DOMAIN qsos |-> IF i \in LiveRows(qsos, active)
                                           THEN [qsos[i] EXCEPT !.log = Archive(active, d, n)]
                                           ELSE qsos[i]]
         /\ table' = Shown(qsos', active)
         /\ preview' = OwnNumber(qsos', active, band)
  BY DEF ArchiveActiveContest
<1>2. LiveRows(qsos, active) # {} /\ UNCHANGED <<journal, active, band, rules, lastDeleted, announced>>
  BY DEF ArchiveActiveContest
<1>3. qsos \in Seq(Row) /\ n \in Nat /\ d \in Nat
  BY <1>2, LastDateType DEF TypeOK
<1> HIDE DEF d
<1>4. ASSUME NEW i \in DOMAIN qsos
      PROVE  qsos'[i] \in Row /\ (qsos[i].log.part = "bin" => qsos'[i].log = qsos[i].log)
  <2>1. qsos[i] \in Row
    BY <1>3, RowsOf
  <2>2. CASE i \in LiveRows(qsos, active)
    <3>1. qsos[i].log.contest = active /\ qsos[i].log.part # "bin"
      BY <2>2 DEF LiveRows, Live, Place
    <3>2. [qsos[i] EXCEPT !.log = Archive(active, d, n)] \in Row
      BY <1>3, <2>1, <3>1, MoveRow
    <3> QED
      BY <1>1, <2>2, <3>1, <3>2
  <2>3. CASE i \notin LiveRows(qsos, active)
    BY <1>1, <2>1, <2>3
  <2> QED
    BY <2>2, <2>3
<1>5. DOMAIN qsos' = DOMAIN qsos
  BY <1>1
<1>6. qsos' \in Seq(Row)
  <2>1. qsos' \in [1..Len(qsos) -> Row]
    BY <1>1, <1>3, <1>4, RowsOf
  <2> QED
    BY <1>3, <2>1, RowsOf, SeqDef
<1>7. SlotOK'
  BY <1>2, <1>4, <1>5, SlotStays DEF TypeOK, SlotOK
<1>8. preview' \in Nat
  BY <1>1, <1>6, OwnNumberType
<1>9. DOMAIN table' \subseteq DOMAIN qsos'
  BY <1>1 DEF Shown, LiveRows
<1> QED
  BY <1>2, <1>5, <1>6, <1>7, <1>8, <1>9 DEF TypeOK, SlotOK

\* An import appends rows that stand in the running log and are not by hand.
LEMMA RestoreStep ==
    ASSUME TypeOK, RestoreFromJournal
    PROVE  \E R \in Seq(Row) :
             /\ RefreshAfterLogChange(qsos \o R)
             /\ \A a \in DOMAIN R : R[a].source = "journal" /\ R[a].log = Live(active)
<1>0. PICK n \in 0..Cardinality(Missing) : \E pick \in [1..n -> Missing] :
         RefreshAfterLogChange(qsos \o [a \in 1..n |-> RowOfLine(journal[pick[a]])])
  BY DEF RestoreFromJournal
<1>1. PICK pick \in [1..n -> Missing] :
         RefreshAfterLogChange(qsos \o [a \in 1..n |-> RowOfLine(journal[pick[a]])])
  BY <1>0
<1> DEFINE R == [a \in 1..n |-> RowOfLine(journal[pick[a]])]
<1>2. n \in Nat
  OBVIOUS
<1>3. ASSUME NEW a \in 1..n
      PROVE  /\ RowOfLine(journal[pick[a]]) \in Row
             /\ RowOfLine(journal[pick[a]]).source = "journal"
             /\ RowOfLine(journal[pick[a]]).log = Live(active)
  <2>1. pick[a] \in DOMAIN journal
    BY DEF Missing
  <2>2. journal[pick[a]] \in Line
    BY <2>1 DEF TypeOK
  <2> QED
    BY <2>2 DEF TypeOK, Line, Row, RowOfLine, Live, Place
<1>4. R \in [1..n -> Row]
  BY <1>3
<1>5. R \in Seq(Row) /\ DOMAIN R = 1..n
  BY <1>2, <1>4, SeqDef
<1>6. \A a \in DOMAIN R : R[a].source = "journal" /\ R[a].log = Live(active)
  BY <1>3, <1>5
<1> QED
  BY <1>1, <1>5, <1>6

LEMMA RestoreType ==
    ASSUME TypeOK, RestoreFromJournal
    PROVE  TypeOK'
<1>1. PICK R \in Seq(Row) : RefreshAfterLogChange(qsos \o R)
  BY RestoreStep
<1> DEFINE L == qsos \o R
<1>2. qsos \in Seq(Row) /\ L \in Seq(Row) /\ DOMAIN qsos \subseteq DOMAIN L
      /\ \A j \in DOMAIN qsos : L[j] = qsos[j]
  <2>1. qsos \in Seq(Row)
    BY DEF TypeOK
  <2> QED
    BY <2>1, RowsOf, ConcatProperties
<1>3. UNCHANGED <<journal, active, band, rules, lastDeleted, announced>>
  BY DEF RestoreFromJournal
<1>4. RefreshAfterLogChange(L)
  BY <1>1
<1> HIDE DEF L
<1>5. DOMAIN qsos' = DOMAIN L /\ \A j \in DOMAIN qsos : qsos'[j].log = qsos[j].log
  <2>1. DOMAIN qsos' = DOMAIN L /\ \A j \in DOMAIN L : SameQso(qsos'[j], L[j])
    BY <1>2, <1>3, <1>4, RefreshStep
  <2> QED
    BY <1>2, <2>1 DEF SameQso
<1>6. SlotOK'
  BY <1>2, <1>3, <1>5, SlotStays DEF TypeOK, SlotOK
<1>7. announced' \subseteq DOMAIN L
  BY <1>2, <1>3 DEF TypeOK
<1> QED
  BY <1>2, <1>3, <1>4, <1>6, <1>7, RefreshType

\* applyActiveContestDefinition() leaves a band the contest has.
LEMMA BandForType ==
    ASSUME NEW c \in Contests, band \in Bands
    PROVE  /\ BandFor(c) \in Bands \cap BandsOf[c]
           /\ FirstBand[c] \in Bands \cap BandsOf[c]
BY QsoLogAssumption DEF BandFor

\* The handlers that change no row.
LEMMA RowsUntouchedType ==
    ASSUME TypeOK, qsos' = qsos, journal' \in Seq(Line), announced' = announced,
           active' \in Contests, band' \in Bands \cap BandsOf[active'], rules' \in [Contests -> Rules],
           DOMAIN table' \subseteq DOMAIN qsos, preview' \in Nat,
           lastDeleted' = lastDeleted \/ lastDeleted' = NoQso
    PROVE  TypeOK'
<1>1. SlotOK'
  BY DEF TypeOK, SlotOK
<1> QED
  BY <1>1 DEF TypeOK, SlotOK

LEMMA OtherStepsType ==
    ASSUME TypeOK,
           \/ \E x \in Calls, m \in Modes, t \in Times : LogQsoFails(x, m, t)
           \/ \E c \in Contests : SwitchContest(c)
           \/ \E c \in Contests, r \in RuleSets : EditRules(c, r)
           \/ \E c \in Contests : ResetRules(c)
           \/ \E b \in Bands : ChangeBand(b)
           \/ Restart
           \/ LoseDatabase
    PROVE  TypeOK'
<1>1. /\ qsos \in Seq(Row) /\ active \in Contests /\ journal \in Seq(Line)
      /\ band \in Bands \cap BandsOf[active]
      /\ rules \in [Contests -> Rules] /\ DOMAIN table \subseteq DOMAIN qsos /\ preview \in Nat
  BY DEF TypeOK
<1>2. \A c : DOMAIN Shown(qsos, c) \subseteq DOMAIN qsos
  BY DEF Shown, LiveRows
<1>3. \A c, b, s : NextSerial(qsos, c, b, s) \in Nat
  BY <1>1, NumberIsNew
<1>4. ASSUME NEW x \in Calls, NEW m \in Modes, NEW t \in Times, LogQsoFails(x, m, t) PROVE TypeOK'
  <2>1. journal' \in Seq(Line)
    BY <1>4, WriteJournalType DEF LogQsoFails
  <2> QED
    BY <1>1, <1>4, <2>1, RowsUntouchedType DEF LogQsoFails
<1>5. ASSUME NEW c \in Contests, SwitchContest(c) PROVE TypeOK'
  BY <1>1, <1>2, <1>3, <1>5, BandForType, RowsUntouchedType DEF SwitchContest, OwnNumber
<1>6. ASSUME NEW c \in Contests, NEW r \in RuleSets, EditRules(c, r) PROVE TypeOK'
  <2>1. rules' \in [Contests -> Rules]
    BY <1>1, <1>6, QsoLogAssumption DEF EditRules
  <2> QED
    BY <1>1, <1>3, <1>6, <2>1, BandForType, RowsUntouchedType DEF EditRules
<1>7. ASSUME NEW c \in Contests, ResetRules(c) PROVE TypeOK'
  <2>1. rules' \in [Contests -> Rules]
    BY <1>1, <1>7, QsoLogAssumption DEF ResetRules
  <2> QED
    BY <1>1, <1>3, <1>7, <2>1, RowsUntouchedType DEF ResetRules
<1>8. ASSUME NEW b \in Bands, ChangeBand(b) PROVE TypeOK'
  BY <1>1, <1>3, <1>8, RowsUntouchedType DEF ChangeBand, OwnNumber
<1>9. CASE Restart
  BY <1>1, <1>2, <1>3, <1>9, BandForType, RowsUntouchedType DEF Restart, OwnNumber
<1>10. CASE LoseDatabase
  BY <1>1, <1>10, BandForType, QsoLogAssumption DEF LoseDatabase, TypeOK
<1> QED
  BY <1>4, <1>5, <1>6, <1>7, <1>8, <1>9, <1>10

LEMMA TypeOKStep ==
    ASSUME TypeOK, [Next]_vars
    PROVE  TypeOK'
<1>1. ASSUME NEW x \in Calls, NEW m \in Modes, NEW t \in Times, LogQso(x, m, t) PROVE TypeOK'
  BY <1>1, LogQsoType
<1>2. ASSUME NEW i \in DOMAIN table, NEW x \in Calls, EditCallsign(i, x) PROVE TypeOK'
  BY <1>2, EditCallsignType
<1>3. ASSUME NEW i \in DOMAIN table, NEW t \in Times, EditTime(i, t) PROVE TypeOK'
  BY <1>3, EditTimeType
<1>4. ASSUME NEW i \in DOMAIN table, ToggleInvalid(i) PROVE TypeOK'
  BY <1>4, ToggleInvalidType
<1>5. ASSUME NEW i \in DOMAIN table, DeleteQso(i) PROVE TypeOK'
  BY <1>5, DeleteQsoType
<1>6. CASE UndoDelete
  BY <1>6, UndoDeleteType
<1>7. CASE ArchiveActiveContest
  BY <1>7, ArchiveType
<1>8. CASE RestoreFromJournal
  BY <1>8, RestoreType
<1>9. CASE UNCHANGED vars
  BY <1>9 DEF TypeOK, vars
<1> QED
  BY <1>1, <1>2, <1>3, <1>4, <1>5, <1>6, <1>7, <1>8, <1>9, OtherStepsType DEF Next

\* The state keeps its shape, and the undo slot names a row in the bin, so
\* Strg+Z can always do what it offers (MainWindow::undoLastDelete).
THEOREM TypeCorrect == Spec => []TypeOK
<1>1. Init => TypeOK
  BY QsoLogAssumption DEF Init, TypeOK, NoQso
<1>2. TypeOK /\ [Next]_vars => TypeOK'
  BY TypeOKStep
<1> QED
  BY <1>1, <1>2, PTL DEF Spec

-----------------------------------------------------------------------------
(* What is shown: the history table and the own number in the entry row *)

ShownOK == TableRowsAreCurrent /\ PreviewIsOwnNumber

\* A handler that reads the table and the number again shows what there is.
LEMMA ShownAnew ==
    ASSUME table' = Shown(qsos', active'), preview' = NextSerial(qsos', active', band', rules'[active'].serial)
    PROVE  ShownOK'
BY DEF ShownOK, TableRowsAreCurrent, PreviewIsOwnNumber, Shown, OwnNumber

\* A correction leaves the numbers alone and patches every row it changed.
LEMMA CorrectShown ==
    ASSUME TypeOK, ShownOK, NEW i \in DOMAIN table, NEW row \in Row, SameNumber(row, qsos[i]),
           Correct(i, row)
    PROVE  ShownOK'
<1>1. /\ DOMAIN qsos' = DOMAIN qsos
      /\ SameQso(qsos'[i], row)
      /\ \A j \in DOMAIN qsos \ {i} : SameQso(qsos'[j], qsos[j])
      /\ DOMAIN table' = DOMAIN table
      /\ \A j \in DOMAIN table : table'[j] = qsos'[j] \/ (table'[j] = table[j] /\ qsos'[j] = qsos[j])
      /\ UNCHANGED <<active, band, rules, preview>>
  BY CorrectStep
<1>2. \A j \in DOMAIN table : table'[j] = qsos'[j]
  BY <1>1 DEF ShownOK, TableRowsAreCurrent
<1>3. TableRowsAreCurrent'
  <2>1. table' = [j \in DOMAIN table' |-> table'[j]]
    <3>1. PICK S : table' = Patched(WithFlags([qsos EXCEPT ![i] = row], S), i, S)
      BY DEF Correct
    <3> QED
      BY <3>1 DEF Patched
  <2> QED
    BY <1>1, <1>2, <2>1 DEF TableRowsAreCurrent
<1>4. \A j \in DOMAIN qsos : SameNumber(qsos'[j], qsos[j])
  BY <1>1 DEF SameQso, SameNumber
<1>5. OwnNumber(qsos', active, band) = OwnNumber(qsos, active, band)
  BY <1>1, <1>4, NumbersAgree
<1>6. PreviewIsOwnNumber'
  BY <1>1, <1>5 DEF ShownOK, PreviewIsOwnNumber, OwnNumber
<1> QED
  BY <1>3, <1>6 DEF ShownOK

LEMMA EditsShown ==
    ASSUME TypeOK, ShownOK, NEW i \in DOMAIN table,
           \/ \E x \in Calls : EditCallsign(i, x)
           \/ \E t \in Times : EditTime(i, t)
           \/ ToggleInvalid(i)
    PROVE  ShownOK'
<1>1. qsos[i] \in Row
  BY RowsOf DEF TypeOK
<1>2. ASSUME NEW x \in Calls, EditCallsign(i, x) PROVE ShownOK'
  <2>1. [qsos[i] EXCEPT !.callsign = x] \in Row /\ SameNumber([qsos[i] EXCEPT !.callsign = x], qsos[i])
    BY <1>1 DEF Row, SameNumber
  <2> QED
    BY <1>2, <2>1, CorrectShown DEF EditCallsign
<1>3. ASSUME NEW t \in Times, EditTime(i, t) PROVE ShownOK'
  <2>1. [qsos[i] EXCEPT !.time = t] \in Row /\ SameNumber([qsos[i] EXCEPT !.time = t], qsos[i])
    BY <1>1 DEF Row, SameNumber
  <2> QED
    BY <1>3, <2>1, CorrectShown DEF EditTime
<1>4. CASE ToggleInvalid(i)
  <2>1. [qsos[i] EXCEPT !.invalid = ~@] \in Row /\ SameNumber([qsos[i] EXCEPT !.invalid = ~@], qsos[i])
    BY <1>1 DEF Row, SameNumber
  <2> QED
    BY <1>4, <2>1, CorrectShown DEF ToggleInvalid
<1> QED
  BY <1>2, <1>3, <1>4

LEMMA RefreshShown ==
    ASSUME NEW L \in Seq(Row), RefreshAfterLogChange(L), UNCHANGED <<active, band, rules>>
    PROVE  ShownOK'
<1>1. table' = Shown(qsos', active) /\ preview' = OwnNumber(qsos', active, band)
  BY RefreshStep
<1> QED
  BY <1>1, ShownAnew DEF OwnNumber

\* The logs the handlers hand to refreshAfterLogChange() are logs.
LEMMA DeletedLog ==
    ASSUME TypeOK, NEW i \in DOMAIN table
    PROVE  [qsos EXCEPT ![i].log = Bin(qsos[i].log.contest)] \in Seq(Row)
<1>1. i \in DOMAIN qsos /\ qsos \in Seq(Row) /\ qsos[i] \in Row
  BY RowsOf DEF TypeOK
<1>2. [qsos[i] EXCEPT !.log = Bin(qsos[i].log.contest)] \in Row
  BY <1>1, MoveRow
<1>3. [qsos EXCEPT ![i] = [qsos[i] EXCEPT !.log = Bin(qsos[i].log.contest)]] \in Seq(Row)
  BY <1>1, <1>2, RowsOf, ExceptSeq
<1> QED
  BY <1>3

LEMMA RecoveredLog ==
    ASSUME TypeOK, NEW i \in DOMAIN qsos
    PROVE  [qsos EXCEPT ![i].log = FromBin(qsos[i].log)] \in Seq(Row)
<1>1. qsos \in Seq(Row) /\ qsos[i] \in Row
  BY RowsOf DEF TypeOK
<1>2. [qsos[i] EXCEPT !.log = FromBin(qsos[i].log)] \in Row
  BY <1>1, MoveRow
<1>3. [qsos EXCEPT ![i] = [qsos[i] EXCEPT !.log = FromBin(qsos[i].log)]] \in Seq(Row)
  BY <1>1, <1>2, RowsOf, ExceptSeq
<1> QED
  BY <1>3

LEMMA ShownStep ==
    ASSUME TypeOK, ShownOK, [Next]_vars
    PROVE  ShownOK'
<1>1. ASSUME NEW x \in Calls, NEW m \in Modes, NEW t \in Times, LogQso(x, m, t) PROVE ShownOK'
  <2>1. table' = Shown(qsos', active) /\ preview' = OwnNumber(qsos', active, band)
    BY <1>1, LogQsoStep
  <2> QED
    BY <1>1, <2>1, ShownAnew DEF LogQso, OwnNumber
<1>2. ASSUME NEW x \in Calls, NEW m \in Modes, NEW t \in Times, LogQsoFails(x, m, t) PROVE ShownOK'
  BY <1>2 DEF LogQsoFails, ShownOK, TableRowsAreCurrent, PreviewIsOwnNumber, OwnNumber
<1>3. ASSUME NEW i \in DOMAIN table,
             \/ \E x \in Calls : EditCallsign(i, x)
             \/ \E t \in Times : EditTime(i, t)
             \/ ToggleInvalid(i)
      PROVE  ShownOK'
  BY <1>3, EditsShown
<1>4. ASSUME NEW i \in DOMAIN table, DeleteQso(i) PROVE ShownOK'
  BY <1>4, DeletedLog, RefreshShown DEF DeleteQso
<1>5. CASE UndoDelete
  <2>1. lastDeleted \in DOMAIN qsos
    BY <1>5 DEF UndoDelete, TypeOK
  <2> QED
    BY <1>5, <2>1, RecoveredLog, RefreshShown DEF UndoDelete
<1>6. CASE ArchiveActiveContest
  <2>1. table' = Shown(qsos', active) /\ preview' = OwnNumber(qsos', active, band)
    BY <1>6 DEF ArchiveActiveContest
  <2> QED
    BY <1>6, <2>1, ShownAnew DEF ArchiveActiveContest, OwnNumber
<1>7. CASE RestoreFromJournal
  <2>1. PICK R \in Seq(Row) : RefreshAfterLogChange(qsos \o R)
    BY <1>7, RestoreStep
  <2>2. qsos \o R \in Seq(Row)
    BY DEF TypeOK
  <2> QED
    BY <1>7, <2>1, <2>2, RefreshShown DEF RestoreFromJournal
<1>8. ASSUME NEW c \in Contests, SwitchContest(c) PROVE ShownOK'
  BY <1>8, ShownAnew DEF SwitchContest, OwnNumber
<1>9. ASSUME NEW c \in Contests, NEW r \in RuleSets, EditRules(c, r) PROVE ShownOK'
  <2>1. rules'[c].serial = r.serial
    BY <1>9 DEF EditRules, TypeOK
  <2> QED
    BY <1>9, <2>1 DEF EditRules, ShownOK, TableRowsAreCurrent, PreviewIsOwnNumber, OwnNumber
<1>10. ASSUME NEW c \in Contests, ResetRules(c) PROVE ShownOK'
  BY <1>10 DEF ResetRules, ShownOK, TableRowsAreCurrent, PreviewIsOwnNumber, OwnNumber
<1>11. ASSUME NEW b \in Bands, ChangeBand(b) PROVE ShownOK'
  BY <1>11 DEF ChangeBand, ShownOK, TableRowsAreCurrent, PreviewIsOwnNumber, OwnNumber
<1>12. CASE Restart
  BY <1>12, ShownAnew DEF Restart, OwnNumber
<1>13. CASE LoseDatabase
  <2>1. SerialsOf(<<>>, active', band', rules'[active'].serial) = {}
    BY DEF SerialsOf, LiveRows
  <2> QED
    BY <1>13, <2>1
    DEF LoseDatabase, ShownOK, TableRowsAreCurrent, PreviewIsOwnNumber, OwnNumber, NextSerial
<1>14. CASE UNCHANGED vars
  BY <1>14 DEF vars, ShownOK, TableRowsAreCurrent, PreviewIsOwnNumber, OwnNumber
<1> QED
  BY <1>1, <1>2, <1>3, <1>4, <1>5, <1>6, <1>7, <1>8, <1>9, <1>10, <1>11, <1>12, <1>13, <1>14 DEF Next

LEMMA ShownInit ==
    ASSUME Init
    PROVE  ShownOK
<1>1. SerialsOf(<<>>, active, band, rules[active].serial) = {}
  BY DEF SerialsOf, LiveRows
<1> QED
  BY <1>1 DEF Init, ShownOK, TableRowsAreCurrent, PreviewIsOwnNumber, OwnNumber, NextSerial

\* The history table never shows a row the database holds otherwise, whichever
\* of the handlers' writes fail (LogTableModel is patched by hand).
THEOREM TableStaysCurrent == Spec => []TableRowsAreCurrent
<1>1. TypeOK /\ ShownOK /\ [Next]_vars => ShownOK'
  BY ShownStep
<1>2. ShownOK => TableRowsAreCurrent
  BY DEF ShownOK
<1> QED
  BY <1>1, <1>2, ShownInit, TypeCorrect, PTL DEF Spec

\* The number the operator says is the number the log will give, after every
\* handler (refreshSentExchangePreview against nextSerialForContest).
THEOREM PreviewStaysOwnNumber == Spec => []PreviewIsOwnNumber
<1>1. TypeOK /\ ShownOK /\ [Next]_vars => ShownOK'
  BY ShownStep
<1>2. ShownOK => PreviewIsOwnNumber
  BY DEF ShownOK
<1> QED
  BY <1>1, <1>2, ShownInit, TypeCorrect, PTL DEF Spec

-----------------------------------------------------------------------------
(* How a step changes the rows that were there *)

\* No row goes; number, band, mode, source and contest of a row stay.
RowsKept ==
    /\ DOMAIN qsos \subseteq DOMAIN qsos'
    /\ \A i \in DOMAIN qsos :
         /\ qsos'[i].serial = qsos[i].serial
         /\ qsos'[i].band = qsos[i].band
         /\ qsos'[i].mode = qsos[i].mode
         /\ qsos'[i].source = qsos[i].source
         /\ qsos'[i].log.contest = qsos[i].log.contest

LogsKept == \A i \in DOMAIN qsos : qsos'[i].log = qsos[i].log

LEMMA EditsKeepRows ==
    ASSUME TypeOK, NEW i \in DOMAIN table,
           \/ \E x \in Calls : EditCallsign(i, x)
           \/ \E t \in Times : EditTime(i, t)
           \/ ToggleInvalid(i)
    PROVE  /\ RowsKept /\ LogsKept /\ DOMAIN qsos' = DOMAIN qsos /\ DOMAIN table' = DOMAIN table
           /\ UNCHANGED <<journal, active, rules, announced>>
<1>1. i \in DOMAIN qsos /\ qsos[i] \in Row
  BY RowsOf DEF TypeOK
<1>2. ASSUME NEW row \in Row, Correct(i, row), SameNumber(row, qsos[i]),
             row.mode = qsos[i].mode, row.source = qsos[i].source
      PROVE  /\ RowsKept /\ LogsKept /\ DOMAIN qsos' = DOMAIN qsos /\ DOMAIN table' = DOMAIN table
             /\ UNCHANGED <<journal, active, rules, announced>>
  <2>1. /\ DOMAIN qsos' = DOMAIN qsos
        /\ DOMAIN table' = DOMAIN table
        /\ SameQso(qsos'[i], row)
        /\ \A j \in DOMAIN qsos \ {i} : SameQso(qsos'[j], qsos[j])
        /\ UNCHANGED <<journal, active, rules, announced>>
    BY <1>2, CorrectStep
  <2> QED
    BY <1>1, <1>2, <2>1 DEF RowsKept, LogsKept, SameQso, SameNumber
<1>3. CASE \E x \in Calls : EditCallsign(i, x)
  <2>1. PICK x \in Calls : EditCallsign(i, x)
    BY <1>3
  <2> DEFINE row == [qsos[i] EXCEPT !.callsign = x]
  <2>2. row \in Row /\ SameNumber(row, qsos[i]) /\ row.mode = qsos[i].mode /\ row.source = qsos[i].source
    BY <1>1 DEF Row, SameNumber
  <2>3. Correct(i, row)
    BY <2>1 DEF EditCallsign
  <2> HIDE DEF row
  <2> QED
    BY <1>2, <2>2, <2>3
<1>4. CASE \E t \in Times : EditTime(i, t)
  <2>1. PICK t \in Times : EditTime(i, t)
    BY <1>4
  <2> DEFINE row == [qsos[i] EXCEPT !.time = t]
  <2>2. row \in Row /\ SameNumber(row, qsos[i]) /\ row.mode = qsos[i].mode /\ row.source = qsos[i].source
    BY <1>1 DEF Row, SameNumber
  <2>3. Correct(i, row)
    BY <2>1 DEF EditTime
  <2> HIDE DEF row
  <2> QED
    BY <1>2, <2>2, <2>3
<1>5. CASE ToggleInvalid(i)
  <2> DEFINE row == [qsos[i] EXCEPT !.invalid = ~@]
  <2>2. row \in Row /\ SameNumber(row, qsos[i]) /\ row.mode = qsos[i].mode /\ row.source = qsos[i].source
    BY <1>1 DEF Row, SameNumber
  <2>3. Correct(i, row)
    BY <1>5 DEF ToggleInvalid
  <2> HIDE DEF row
  <2> QED
    BY <1>2, <2>2, <2>3
<1> QED
  BY <1>3, <1>4, <1>5

\* One row changed in its log only, the others at most in their flags.
LEMMA OneRowMoved ==
    ASSUME DOMAIN qsos' = DOMAIN qsos, NEW i \in DOMAIN qsos, NEW place,
           qsos'[i].serial = qsos[i].serial, qsos'[i].band = qsos[i].band,
           qsos'[i].mode = qsos[i].mode, qsos'[i].source = qsos[i].source,
           qsos'[i].log = place, place.contest = qsos[i].log.contest,
           \A j \in DOMAIN qsos \ {i} : SameQso(qsos'[j], qsos[j])
    PROVE  RowsKept /\ \A j \in DOMAIN qsos \ {i} : qsos'[j].log = qsos[j].log
<1>1. \A j \in DOMAIN qsos \ {i} :
         /\ qsos'[j].serial = qsos[j].serial /\ qsos'[j].band = qsos[j].band
         /\ qsos'[j].mode = qsos[j].mode /\ qsos'[j].source = qsos[j].source
         /\ qsos'[j].log = qsos[j].log
  BY DEF SameQso
<1> QED
  BY <1>1 DEF RowsKept

\* Deleting moves one row into the bin of its contest.
LEMMA DeleteKeepsRows ==
    ASSUME TypeOK, NEW i \in DOMAIN table, DeleteQso(i)
    PROVE  /\ RowsKept /\ DOMAIN qsos' = DOMAIN qsos /\ i \in DOMAIN qsos
           /\ qsos'[i].log = Bin(qsos[i].log.contest)
           /\ \A j \in DOMAIN qsos \ {i} : qsos'[j].log = qsos[j].log
           /\ table' = Shown(qsos', active)
<1> DEFINE L == [qsos EXCEPT ![i].log = Bin(qsos[i].log.contest)]
<1>1. i \in DOMAIN qsos /\ qsos[i] \in Row
  BY RowsOf DEF TypeOK
<1>2. /\ DOMAIN L = DOMAIN qsos
      /\ L[i] = [qsos[i] EXCEPT !.log = Bin(qsos[i].log.contest)]
      /\ \A j \in DOMAIN qsos \ {i} : L[j] = qsos[j]
  BY <1>1
<1>3. /\ L[i].serial = qsos[i].serial /\ L[i].band = qsos[i].band /\ L[i].mode = qsos[i].mode
      /\ L[i].source = qsos[i].source /\ L[i].log = Bin(qsos[i].log.contest)
      /\ L[i].log.contest = qsos[i].log.contest
  BY <1>1, <1>2 DEF Row, Bin, Place
<1>4. L \in Seq(Row)
  BY DeletedLog
<1>5. RefreshAfterLogChange(L) /\ UNCHANGED <<active, band, rules>>
  BY DEF DeleteQso
<1> HIDE DEF L
<1>6. DOMAIN qsos' = DOMAIN L /\ (\A j \in DOMAIN L : SameQso(qsos'[j], L[j]))
      /\ table' = Shown(qsos', active)
  BY <1>4, <1>5, RefreshStep
<1>7. /\ qsos'[i].serial = qsos[i].serial /\ qsos'[i].band = qsos[i].band
      /\ qsos'[i].mode = qsos[i].mode /\ qsos'[i].source = qsos[i].source
      /\ qsos'[i].log = Bin(qsos[i].log.contest)
  BY <1>1, <1>2, <1>3, <1>6 DEF SameQso
<1>8. \A j \in DOMAIN qsos \ {i} : SameQso(qsos'[j], qsos[j])
  BY <1>2, <1>6
<1>9. Bin(qsos[i].log.contest).contest = qsos[i].log.contest
  BY DEF Bin, Place
<1> QED
  BY <1>1, <1>2, <1>6, <1>7, <1>8, <1>9, OneRowMoved

\* An undo takes the slot's row back into the running log of its contest.
LEMMA UndoKeepsRows ==
    ASSUME TypeOK, UndoDelete
    PROVE  LET i == lastDeleted
               L == [qsos EXCEPT ![i].log = FromBin(qsos[i].log)]
           IN  /\ RowsKept /\ DOMAIN qsos' = DOMAIN qsos /\ i \in DOMAIN qsos
               /\ qsos[i].log = Bin(qsos[i].log.contest)
               /\ qsos'[i].log = Live(qsos[i].log.contest)
               /\ \A j \in DOMAIN qsos \ {i} : qsos'[j].log = qsos[j].log
               /\ \A j \in DOMAIN qsos : SameQso(qsos'[j], L[j])
               /\ DOMAIN L = DOMAIN qsos
               /\ table' = Shown(qsos', active)
<1> DEFINE i == lastDeleted
<1> DEFINE L == [qsos EXCEPT ![i].log = FromBin(qsos[i].log)]
<1>1. i \in DOMAIN qsos /\ qsos[i] \in Row /\ qsos[i].log = Bin(qsos[i].log.contest)
  BY RowsOf DEF TypeOK, UndoDelete
<1>2. /\ DOMAIN L = DOMAIN qsos
      /\ L[i] = [qsos[i] EXCEPT !.log = FromBin(qsos[i].log)]
      /\ \A j \in DOMAIN qsos \ {i} : L[j] = qsos[j]
  BY <1>1
<1>3. /\ L[i].serial = qsos[i].serial /\ L[i].band = qsos[i].band /\ L[i].mode = qsos[i].mode
      /\ L[i].source = qsos[i].source /\ L[i].log = Live(qsos[i].log.contest)
      /\ L[i].log.contest = qsos[i].log.contest
  BY <1>1, <1>2 DEF Row, FromBin, Live, Place
<1>4. L \in Seq(Row)
  BY <1>1, RecoveredLog
<1>5. RefreshAfterLogChange(L) /\ UNCHANGED <<active, band, rules>>
  BY DEF UndoDelete
<1>6. DOMAIN qsos' = DOMAIN L /\ (\A j \in DOMAIN L : SameQso(qsos'[j], L[j]))
      /\ table' = Shown(qsos', active)
  <2> HIDE DEF L
  <2> QED
    BY <1>4, <1>5, RefreshStep
<1>7. RowsKept /\ qsos'[i].log = Live(qsos[i].log.contest)
      /\ \A j \in DOMAIN qsos \ {i} : qsos'[j].log = qsos[j].log
  <2> HIDE DEF L
  <2>1. /\ qsos'[i].serial = qsos[i].serial /\ qsos'[i].band = qsos[i].band
        /\ qsos'[i].mode = qsos[i].mode /\ qsos'[i].source = qsos[i].source
        /\ qsos'[i].log = Live(qsos[i].log.contest)
    BY <1>1, <1>2, <1>3, <1>6 DEF SameQso
  <2>2. \A j \in DOMAIN qsos \ {i} : SameQso(qsos'[j], qsos[j])
    BY <1>2, <1>6
  <2>3. Live(qsos[i].log.contest).contest = qsos[i].log.contest
    BY DEF Live, Place
  <2> QED
    BY <1>1, <1>2, <1>6, <2>1, <2>2, <2>3, OneRowMoved
<1> QED
  BY <1>1, <1>2, <1>6, <1>7

\* Closing the log moves the rows of the running log, all to one archive.
LEMMA ArchiveKeepsRows ==
    ASSUME TypeOK, ArchiveActiveContest
    PROVE  /\ RowsKept /\ DOMAIN qsos' = DOMAIN qsos /\ LiveRows(qsos, active) # {}
           /\ \E d \in Nat, n \in Nat :
                /\ ~Taken(active, d, n)
                /\ \A i \in DOMAIN qsos :
                     qsos'[i].log = IF i \in LiveRows(qsos, active) THEN Archive(active, d, n) ELSE qsos[i].log
<1> DEFINE d == LastDate(active)
<1>1. PICK n \in 1..(Len(qsos) + 1) :
         /\ IsFreeArchive(active, d, n)
         /\ qsos' = [i \in DOMAIN qsos |-> IF i \in LiveRows(qsos, active)
                                           THEN [qsos[i] EXCEPT !.log = Archive(active, d, n)]
                                           ELSE qsos[i]]
  BY DEF ArchiveActiveContest
<1>2. LiveRows(qsos, active) # {}
  BY DEF ArchiveActiveContest
<1>3. d \in Nat /\ n \in Nat
  BY <1>2, LastDateType DEF TypeOK
<1> HIDE DEF d
<1>4. ~Taken(active, d, n)
  BY <1>1 DEF IsFreeArchive
<1>5. ASSUME NEW i \in DOMAIN qsos
      PROVE  /\ qsos'[i].serial = qsos[i].serial /\ qsos'[i].band = qsos[i].band
             /\ qsos'[i].mode = qsos[i].mode /\ qsos'[i].source = qsos[i].source
             /\ qsos'[i].log.contest = qsos[i].log.contest
             /\ qsos'[i].log = IF i \in LiveRows(qsos, active) THEN Archive(active, d, n) ELSE qsos[i].log
  <2>1. qsos[i] \in Row
    BY RowsOf DEF TypeOK
  <2>2. CASE i \in LiveRows(qsos, active)
    <3>1. qsos[i].log.contest = active
      BY <2>2 DEF LiveRows, Live, Place
    <3>2. qsos'[i] = [qsos[i] EXCEPT !.log = Archive(active, d, n)]
      BY <1>1, <2>2
    <3> QED
      BY <2>1, <2>2, <3>1, <3>2 DEF Row, Archive, Place
  <2>3. CASE i \notin LiveRows(qsos, active)
    BY <1>1, <2>3
  <2> QED
    BY <2>2, <2>3
<1>6. DOMAIN qsos' = DOMAIN qsos
  BY <1>1
<1> QED
  BY <1>2, <1>3, <1>4, <1>5, <1>6 DEF RowsKept

\* An import leaves the rows before it alone and appends rows to the running log.
LEMMA RestoreKeepsRows ==
    ASSUME TypeOK, RestoreFromJournal
    PROVE  /\ RowsKept /\ LogsKept
           /\ \A i \in DOMAIN qsos' \ DOMAIN qsos :
                qsos'[i].source = "journal" /\ qsos'[i].log = Live(active)
           /\ table' = Shown(qsos', active)
           /\ Len(qsos') \in Nat /\ Len(qsos) <= Len(qsos')
<1>1. PICK R \in Seq(Row) :
         /\ RefreshAfterLogChange(qsos \o R)
         /\ \A a \in DOMAIN R : R[a].source = "journal" /\ R[a].log = Live(active)
  BY RestoreStep
<1> DEFINE L == qsos \o R
<1>2. /\ qsos \in Seq(Row) /\ L \in Seq(Row)
      /\ DOMAIN qsos = 1..Len(qsos) /\ DOMAIN L = 1..Len(L) /\ Len(L) = Len(qsos) + Len(R)
      /\ Len(qsos) \in Nat /\ Len(R) \in Nat /\ DOMAIN R = 1..Len(R)
      /\ \A i \in 1..Len(L) : L[i] = IF i <= Len(qsos) THEN qsos[i] ELSE R[i - Len(qsos)]
  <2>1. qsos \in Seq(Row)
    BY DEF TypeOK
  <2> QED
    BY <2>1, RowsOf, ConcatProperties
<1>3. RefreshAfterLogChange(L) /\ UNCHANGED <<active, band, rules>>
  BY <1>1 DEF RestoreFromJournal
<1> HIDE DEF L
<1>4. qsos' \in Seq(Row) /\ DOMAIN qsos' = DOMAIN L /\ (\A j \in DOMAIN L : SameQso(qsos'[j], L[j]))
      /\ table' = Shown(qsos', active)
  BY <1>2, <1>3, RefreshStep
<1>5. DOMAIN qsos \subseteq DOMAIN L /\ \A i \in DOMAIN qsos : L[i] = qsos[i]
  BY <1>2
<1>6. ASSUME NEW i \in DOMAIN L \ DOMAIN qsos
      PROVE  L[i].source = "journal" /\ L[i].log = Live(active)
  <2>1. i - Len(qsos) \in DOMAIN R /\ L[i] = R[i - Len(qsos)]
    BY <1>2
  <2> QED
    BY <1>1, <2>1
<1>7. RowsKept /\ LogsKept
  BY <1>4, <1>5 DEF RowsKept, LogsKept, SameQso
<1>8. DOMAIN qsos' = 1..Len(qsos') /\ Len(qsos') \in Nat
  BY <1>4, RowsOf
<1>9. Len(qsos') = Len(L)
  <2>1. Len(qsos') \in DOMAIN qsos' \/ Len(qsos') = 0
    BY <1>8
  <2>2. Len(L) \in DOMAIN L \/ Len(L) = 0
    BY <1>2
  <2> QED
    BY <1>2, <1>4, <1>8, <2>1, <2>2
<1> QED
  BY <1>2, <1>4, <1>6, <1>7, <1>8, <1>9 DEF SameQso

-----------------------------------------------------------------------------
(* Numbers given twice *)

\* Every contest numbers per band, and no rules on offer say otherwise.
PerBandNumbers ==
    /\ \A r \in RuleSets : r.serial = "band"
    /\ \A c \in Contests : ShippedRules[c].serial = "band"

NumberedPerBand == \A c \in Contests : rules[c].serial = "band"

NumbersInv == NumberedPerBand /\ SharedNumbersAreAnnounced

\* Two rows logged by hand under one number in one running log.
Share(i, j) ==
    /\ i # j
    /\ qsos[i].source = "manual" /\ qsos[j].source = "manual"
    /\ qsos[i].log = qsos[j].log
    /\ qsos[i].log = Live(qsos[i].log.contest)
    /\ qsos[i].band = qsos[j].band
    /\ qsos[i].serial = qsos[j].serial

LEMMA SharedPerBand ==
    ASSUME TypeOK, NumberedPerBand
    PROVE  SharedNumbersAreAnnounced <=>
             \A i, j \in DOMAIN qsos : Share(i, j) => {i, j} \cap announced # {}
<1>1. \A i \in DOMAIN qsos : rules[qsos[i].log.contest].serial = "band"
  BY RowsOf, RowFields DEF TypeOK, NumberedPerBand
<1> QED
  BY <1>1 DEF SharedNumbersAreAnnounced, Share

\* Rows that stay in their logs or leave the running ones share no number anew.
LEMMA NoNewShare ==
    ASSUME RowsKept, announced \subseteq announced', NEW i \in DOMAIN qsos, NEW j \in DOMAIN qsos,
           qsos'[i].log = qsos[i].log \/ qsos'[i].log.part # "live",
           qsos'[j].log = qsos[j].log \/ qsos'[j].log.part # "live",
           Share(i, j) => {i, j} \cap announced # {},
           Share(i, j)'
    PROVE  {i, j} \cap announced' # {}
<1>1. qsos'[i].log.part = "live" /\ qsos'[j].log.part = "live"
  BY DEF Share, Live, Place
<1>2. Share(i, j)
  BY <1>1 DEF Share, RowsKept
<1> QED
  BY <1>2

LEMMA LogQsoShares ==
    ASSUME TypeOK, NumbersInv, NumberedPerBand',
           NEW x \in Calls, NEW m \in Modes, NEW t \in Times, LogQso(x, m, t)
    PROVE  \A i, j \in DOMAIN qsos' : Share(i, j)' => {i, j} \cap announced' # {}
<1>1. PICK q \in Row :
         /\ qsos' = Append(qsos, q)
         /\ q.log = Live(active) /\ q.band = band
         /\ q.serial = OwnNumber(qsos, active, band)
  BY LogQsoStep
<1>0. PICK k : k = Len(qsos) + 1
  OBVIOUS
<1>2. /\ qsos \in Seq(Row) /\ Len(qsos) \in Nat /\ DOMAIN qsos = 1..Len(qsos)
      /\ DOMAIN qsos' = DOMAIN qsos \cup {k} /\ k \notin DOMAIN qsos /\ qsos'[k] = q
      /\ \A j \in DOMAIN qsos : qsos'[j] = qsos[j]
  BY <1>0, <1>1 DEF TypeOK
<1>3. ASSUME NEW j \in DOMAIN qsos PROVE ~Share(k, j)' /\ ~Share(j, k)'
  <2>1. SUFFICES ASSUME qsos[j].log = Live(active), qsos[j].band = band, qsos[j].serial = q.serial
                 PROVE  FALSE
    BY <1>1, <1>2 DEF Share
  <2>2. qsos[j].serial < OwnNumber(qsos, active, band)
    <3>1. j \in LiveRows(qsos, active)
      BY <2>1 DEF LiveRows
    <3> QED
      BY <1>2, <2>1, <3>1, NumberIsNew DEF OwnNumber
  <2>3. OwnNumber(qsos, active, band) \in Nat
    BY <1>2, OwnNumberType
  <2> QED
    BY <1>1, <2>1, <2>2, <2>3
<1>4. ~Share(k, k)'
  BY DEF Share
<1>5. ASSUME NEW i \in DOMAIN qsos, NEW j \in DOMAIN qsos, Share(i, j)'
      PROVE  {i, j} \cap announced' # {}
  <2>1. Share(i, j)
    BY <1>2, <1>5 DEF Share
  <2> QED
    BY <2>1, SharedPerBand DEF NumbersInv, LogQso
<1> QED
  BY <1>2, <1>3, <1>4, <1>5

LEMMA UndoShares ==
    ASSUME TypeOK, NumbersInv, UndoDelete
    PROVE  \A i, j \in DOMAIN qsos' : Share(i, j)' => {i, j} \cap announced' # {}
<1>0. PICK u : u = lastDeleted
  OBVIOUS
<1> DEFINE L == [qsos EXCEPT ![u].log = FromBin(qsos[u].log)]
<1>1. /\ RowsKept /\ DOMAIN qsos' = DOMAIN qsos /\ u \in DOMAIN qsos
      /\ \A j \in DOMAIN qsos \ {u} : qsos'[j].log = qsos[j].log
      /\ \A j \in DOMAIN qsos : SameQso(qsos'[j], L[j])
      /\ DOMAIN L = DOMAIN qsos
  BY <1>0, UndoKeepsRows
<1>2. announced' = IF Twins(L, u) # {} THEN announced \cup {u} ELSE announced
  BY <1>0 DEF UndoDelete
<1> HIDE DEF L
<1>3. ASSUME NEW j \in DOMAIN qsos, Share(u, j)' \/ Share(j, u)' PROVE u \in announced'
  <2>1. /\ j # u /\ L[j].log = L[u].log /\ L[u].log = Live(L[u].log.contest)
        /\ L[j].band = L[u].band /\ L[j].serial = L[u].serial
    <3>1. SameQso(qsos'[j], L[j]) /\ SameQso(qsos'[u], L[u])
      BY <1>1
    <3>2. /\ j # u /\ qsos'[j].log = qsos'[u].log /\ qsos'[u].log = Live(qsos'[u].log.contest)
          /\ qsos'[j].band = qsos'[u].band /\ qsos'[j].serial = qsos'[u].serial
      BY <1>3 DEF Share
    <3> QED
      BY <3>1, <3>2 DEF SameQso
  <2>2. j \in Twins(L, u)
    BY <1>1, <2>1 DEF Twins, LiveRows
  <2> QED
    BY <1>2, <2>2
<1>4. ASSUME NEW i \in DOMAIN qsos \ {u}, NEW j \in DOMAIN qsos \ {u}, Share(i, j)'
      PROVE  {i, j} \cap announced' # {}
  <2>1. Share(i, j) => {i, j} \cap announced # {}
    BY SharedPerBand DEF NumbersInv
  <2>2. announced \subseteq announced'
    BY <1>2
  <2> QED
    BY <1>1, <1>4, <2>1, <2>2, NoNewShare
<1> QED
  BY <1>1, <1>3, <1>4

\* The steps that give out no number and take nothing out of the bin.
LEMMA OtherShares ==
    ASSUME TypeOK, NumbersInv, RowsKept, announced' = announced,
           \A i \in DOMAIN qsos : qsos'[i].log = qsos[i].log \/ qsos'[i].log.part # "live",
           \A i \in DOMAIN qsos' \ DOMAIN qsos : qsos'[i].source = "journal"
    PROVE  \A i, j \in DOMAIN qsos' : Share(i, j)' => {i, j} \cap announced' # {}
<1>1. SUFFICES ASSUME NEW i \in DOMAIN qsos', NEW j \in DOMAIN qsos', Share(i, j)'
               PROVE  {i, j} \cap announced' # {}
  OBVIOUS
<1>2. i \in DOMAIN qsos /\ j \in DOMAIN qsos
  BY <1>1 DEF Share
<1>3. Share(i, j) => {i, j} \cap announced # {}
  BY <1>2, SharedPerBand DEF NumbersInv
<1> QED
  BY <1>1, <1>2, <1>3, NoNewShare

LEMMA RulesStep ==
    ASSUME PerBandNumbers, TypeOK, NumberedPerBand, [Next]_vars
    PROVE  NumberedPerBand'
<1>1. CASE rules' = rules
  BY <1>1 DEF NumberedPerBand
<1>2. ASSUME NEW c \in Contests, NEW r \in RuleSets, EditRules(c, r) PROVE NumberedPerBand'
  BY <1>2 DEF EditRules, NumberedPerBand, PerBandNumbers, TypeOK
<1>3. ASSUME NEW c \in Contests, ResetRules(c) PROVE NumberedPerBand'
  BY <1>3 DEF ResetRules, NumberedPerBand, PerBandNumbers, TypeOK
<1> QED
  BY <1>1, <1>2, <1>3
  DEF Next, vars, LogQso, LogQsoFails, EditCallsign, EditTime, ToggleInvalid, Correct, DeleteQso,
      UndoDelete, ArchiveActiveContest, RestoreFromJournal, SwitchContest, ChangeBand, Restart,
      LoseDatabase

LEMMA NumbersStep ==
    ASSUME PerBandNumbers, TypeOK, TypeOK', NumbersInv, [Next]_vars
    PROVE  NumbersInv'
<1> DEFINE Goal == \A i, j \in DOMAIN qsos' : Share(i, j)' => {i, j} \cap announced' # {}
<1>1. NumberedPerBand'
  BY RulesStep DEF NumbersInv
<1>2. Goal => NumbersInv'
  <2>1. \A i \in DOMAIN qsos' : rules'[qsos'[i].log.contest].serial = "band"
    BY <1>1, RowsOf, RowFields DEF TypeOK, NumberedPerBand
  <2> QED
    BY <1>1, <2>1 DEF NumbersInv, SharedNumbersAreAnnounced, Share
<1>3. CASE UNCHANGED <<qsos, announced>>
  <2>1. \A i, j \in DOMAIN qsos : Share(i, j) => {i, j} \cap announced # {}
    BY SharedPerBand DEF NumbersInv
  <2>2. Goal
    BY <1>3, <2>1 DEF Share
  <2> QED
    BY <1>2, <2>2
<1> HIDE DEF Goal
<1>4. ASSUME NEW x \in Calls, NEW m \in Modes, NEW t \in Times, LogQso(x, m, t) PROVE NumbersInv'
  BY <1>1, <1>2, <1>4, LogQsoShares DEF Goal
<1>5. ASSUME NEW i \in DOMAIN table,
             \/ \E x \in Calls : EditCallsign(i, x)
             \/ \E t \in Times : EditTime(i, t)
             \/ ToggleInvalid(i)
      PROVE  NumbersInv'
  <2>1. RowsKept /\ LogsKept /\ DOMAIN qsos' = DOMAIN qsos /\ announced' = announced
    BY <1>5, EditsKeepRows
  <2> QED
    BY <1>2, <2>1, OtherShares DEF Goal, LogsKept
<1>6. ASSUME NEW i \in DOMAIN table, DeleteQso(i) PROVE NumbersInv'
  <2>1. /\ RowsKept /\ DOMAIN qsos' = DOMAIN qsos /\ qsos'[i].log = Bin(qsos[i].log.contest)
        /\ \A j \in DOMAIN qsos \ {i} : qsos'[j].log = qsos[j].log
    BY <1>6, DeleteKeepsRows
  <2>2. qsos'[i].log.part # "live"
    BY <2>1 DEF Bin, Place
  <2>3. announced' = announced
    BY <1>6 DEF DeleteQso
  <2> QED
    BY <1>2, <2>1, <2>2, <2>3, OtherShares DEF Goal
<1>7. CASE UndoDelete
  BY <1>2, <1>7, UndoShares DEF Goal
<1>8. CASE ArchiveActiveContest
  <2>1. /\ RowsKept /\ DOMAIN qsos' = DOMAIN qsos
        /\ \A i \in DOMAIN qsos : qsos'[i].log = qsos[i].log \/ qsos'[i].log.part # "live"
    <3>1. PICK d \in Nat, n \in Nat : \A i \in DOMAIN qsos :
             qsos'[i].log = IF i \in LiveRows(qsos, active) THEN Archive(active, d, n) ELSE qsos[i].log
      BY <1>8, ArchiveKeepsRows
    <3>2. Archive(active, d, n).part # "live"
      BY DEF Archive, Place
    <3> QED
      BY <1>8, <3>1, <3>2, ArchiveKeepsRows
  <2>2. announced' = announced
    BY <1>8 DEF ArchiveActiveContest
  <2> QED
    BY <1>2, <2>1, <2>2, OtherShares DEF Goal
<1>9. CASE RestoreFromJournal
  <2>1. RowsKept /\ LogsKept /\ \A i \in DOMAIN qsos' \ DOMAIN qsos : qsos'[i].source = "journal"
    BY <1>9, RestoreKeepsRows
  <2>2. announced' = announced
    BY <1>9 DEF RestoreFromJournal
  <2> QED
    BY <1>2, <2>1, <2>2, OtherShares DEF Goal, LogsKept
<1>10. CASE LoseDatabase
  BY <1>2, <1>10 DEF LoseDatabase, Goal
<1> QED
  BY <1>3, <1>4, <1>5, <1>6, <1>7, <1>8, <1>9, <1>10
  DEF Next, vars, LogQsoFails, SwitchContest, EditRules, ResetRules, ChangeBand, Restart

\* Where numbers run per band -- as in all definitions whose serialScope is not
\* "contest" -- no own number stands twice in a running log without the undo that
\* put it there having said so (insertQso, undoLastDelete).
THEOREM NumbersAreSharedKnowingly ==
    ASSUME PerBandNumbers
    PROVE  Spec => []SharedNumbersAreAnnounced
<1>1. Init => NumbersInv
  BY QsoLogAssumption DEF Init, NumbersInv, NumberedPerBand, PerBandNumbers, SharedNumbersAreAnnounced
<1>2. TypeOK /\ TypeOK' /\ NumbersInv /\ [Next]_vars => NumbersInv'
  BY NumbersStep
<1>3. NumbersInv => SharedNumbersAreAnnounced
  BY DEF NumbersInv
<1> QED
  BY <1>1, <1>2, <1>3, TypeCorrect, PTL DEF Spec

-----------------------------------------------------------------------------
(* The journal covers the log *)

\* Row q, logged by hand, and its line e of the journal.
LineFor(e, q) ==
    /\ e.contest = q.log.contest
    /\ e.band = q.band /\ e.mode = q.mode
    /\ e.serial = q.serial

\* The rows that were there keep their lines; a row that is new and by hand has one.
LEMMA LinesStay ==
    ASSUME TypeOK, JournalCoversLog, RowsKept, DOMAIN journal \subseteq DOMAIN journal',
           \A k \in DOMAIN journal : journal'[k] = journal[k],
           \A i \in DOMAIN qsos' \ DOMAIN qsos : qsos'[i].source = "manual" =>
                \E k \in DOMAIN journal' : LineFor(journal'[k], qsos'[i])
    PROVE  JournalCoversLog'
<1>1. SUFFICES ASSUME NEW i \in DOMAIN qsos', qsos'[i].source = "manual"
               PROVE  \E k \in DOMAIN journal' : LineFor(journal'[k], qsos'[i])
  BY <1>1 DEF JournalCoversLog, LineFor
<1>2. CASE i \in DOMAIN qsos
  <2>1. qsos[i].source = "manual"
    BY <1>1, <1>2 DEF RowsKept
  <2>2. PICK k \in DOMAIN journal : LineFor(journal[k], qsos[i])
    BY <1>2, <2>1 DEF JournalCoversLog, LineFor
  <2>3. LineFor(journal'[k], qsos'[i])
    BY <1>2, <2>2 DEF LineFor, RowsKept
  <2> QED
    BY <2>3
<1>3. CASE i \notin DOMAIN qsos
  BY <1>1, <1>3
<1> QED
  BY <1>2, <1>3

LEMMA LogQsoJournal ==
    ASSUME "journal" \notin Faults, TypeOK, JournalCoversLog,
           NEW x \in Calls, NEW m \in Modes, NEW t \in Times, LogQso(x, m, t)
    PROVE  JournalCoversLog'
<1>1. PICK q \in Row :
         /\ qsos' = Append(qsos, q)
         /\ q.log = Live(active) /\ q.band = band /\ q.mode = m
         /\ q.serial = OwnNumber(qsos, active, band)
  BY LogQsoStep
<1> DEFINE e == JournalLine(NewRow(x, m, t))
<1>2. journal' = Append(journal, e)
  BY DEF LogQso, WriteJournal, Outcomes
<1>3. LineFor(e, q)
  BY <1>1 DEF LineFor, JournalLine, NewRow
<1> HIDE DEF e
<1>4. /\ DOMAIN journal' = DOMAIN journal \cup {Len(journal) + 1}
      /\ journal'[Len(journal) + 1] = e
      /\ \A k \in DOMAIN journal : journal'[k] = journal[k]
  BY <1>2 DEF TypeOK
<1>5. /\ DOMAIN qsos' = DOMAIN qsos \cup {Len(qsos) + 1} /\ qsos'[Len(qsos) + 1] = q
      /\ \A j \in DOMAIN qsos : qsos'[j] = qsos[j]
  BY <1>1 DEF TypeOK
<1>6. RowsKept
  BY <1>5 DEF RowsKept
<1>7. \A i \in DOMAIN qsos' \ DOMAIN qsos : \E k \in DOMAIN journal' : LineFor(journal'[k], qsos'[i])
  BY <1>3, <1>4, <1>5
<1> QED
  BY <1>4, <1>6, <1>7, LinesStay

LEMMA JournalStep ==
    ASSUME "journal" \notin Faults, TypeOK, JournalCoversLog, [Next]_vars
    PROVE  JournalCoversLog'
<1>1. ASSUME RowsKept, journal' = journal,
             \A i \in DOMAIN qsos' \ DOMAIN qsos : qsos'[i].source = "journal"
      PROVE  JournalCoversLog'
  <2>1. DOMAIN journal \subseteq DOMAIN journal' /\ \A k \in DOMAIN journal : journal'[k] = journal[k]
    BY <1>1
  <2> QED
    BY <1>1, <2>1, LinesStay
<1>2. CASE qsos' = qsos /\ journal' = journal
  BY <1>2 DEF JournalCoversLog
<1>3. ASSUME NEW x \in Calls, NEW m \in Modes, NEW t \in Times, LogQso(x, m, t) PROVE JournalCoversLog'
  BY <1>3, LogQsoJournal
<1>4. ASSUME NEW x \in Calls, NEW m \in Modes, NEW t \in Times, LogQsoFails(x, m, t)
      PROVE  JournalCoversLog'
  <2>1. journal' = Append(journal, JournalLine(NewRow(x, m, t))) /\ qsos' = qsos
    BY <1>4 DEF LogQsoFails, WriteJournal, Outcomes
  <2>2. /\ DOMAIN journal \subseteq DOMAIN journal'
        /\ \A k \in DOMAIN journal : journal'[k] = journal[k]
    BY <2>1 DEF TypeOK
  <2>3. RowsKept
    BY <2>1 DEF RowsKept
  <2> QED
    BY <2>1, <2>2, <2>3, LinesStay
<1>5. ASSUME NEW i \in DOMAIN table,
             \/ \E x \in Calls : EditCallsign(i, x)
             \/ \E t \in Times : EditTime(i, t)
             \/ ToggleInvalid(i)
      PROVE  JournalCoversLog'
  BY <1>1, <1>5, EditsKeepRows
<1>6. ASSUME NEW i \in DOMAIN table, DeleteQso(i) PROVE JournalCoversLog'
  BY <1>1, <1>6, DeleteKeepsRows DEF DeleteQso
<1>7. CASE UndoDelete
  <2>1. RowsKept /\ DOMAIN qsos' = DOMAIN qsos
    BY <1>7, UndoKeepsRows
  <2> QED
    BY <1>1, <1>7, <2>1 DEF UndoDelete
<1>8. CASE ArchiveActiveContest
  <2>1. RowsKept /\ DOMAIN qsos' = DOMAIN qsos
    BY <1>8, ArchiveKeepsRows
  <2> QED
    BY <1>1, <1>8, <2>1 DEF ArchiveActiveContest
<1>9. CASE RestoreFromJournal
  BY <1>1, <1>9, RestoreKeepsRows DEF RestoreFromJournal
<1>10. CASE LoseDatabase
  BY <1>10 DEF LoseDatabase, JournalCoversLog
<1> QED
  BY <1>2, <1>3, <1>4, <1>5, <1>6, <1>7, <1>8, <1>9, <1>10
  DEF Next, vars, SwitchContest, EditRules, ResetRules, ChangeBand, Restart

\* While the journal can be written, every QSO logged by hand has its line there,
\* with the contest, band, mode and number it has in the log (QsoJournal::schreibe
\* is called before insertQso); no correction takes that away.
THEOREM JournalKeepsCoveringTheLog ==
    ASSUME "journal" \notin Faults
    PROVE  Spec => []JournalCoversLog
<1>1. Init => JournalCoversLog
  BY DEF Init, JournalCoversLog
<1>2. TypeOK /\ JournalCoversLog /\ [Next]_vars => JournalCoversLog'
  BY JournalStep
<1> QED
  BY <1>1, <1>2, TypeCorrect, PTL DEF Spec

\* What the loop of the import puts into the log brings the key of every line that
\* had no row.
LEMMA ImportMakesRows ==
    ASSUME TypeOK, RestoreFromJournal, "insert" \notin Faults
    PROVE  \E R \in Seq(Row) :
             /\ RefreshAfterLogChange(qsos \o R)
             /\ \A k \in Missing : \E a \in DOMAIN R :
                   R[a].log = Live(active) /\ JournalKey(R[a]) = JournalKey(journal[k])
<1>1. PICK n \in 0..Cardinality(Missing) : \E pick \in [1..n -> Missing] :
         /\ IsImport(pick, n)
         /\ RefreshAfterLogChange(qsos \o [a \in 1..n |-> RowOfLine(journal[pick[a]])])
  BY DEF RestoreFromJournal
<1>2. PICK pick \in [1..n -> Missing] :
         /\ IsImport(pick, n)
         /\ RefreshAfterLogChange(qsos \o [a \in 1..n |-> RowOfLine(journal[pick[a]])])
  BY <1>1
<1> DEFINE R == [a \in 1..n |-> RowOfLine(journal[pick[a]])]
<1>3. n \in Nat
  OBVIOUS
<1>4. ASSUME NEW a \in 1..n
      PROVE  RowOfLine(journal[pick[a]]) \in Row
  <2>1. journal[pick[a]] \in Line
    BY DEF Missing, TypeOK
  <2> QED
    BY <2>1 DEF TypeOK, Line, Row, RowOfLine, Live, Place
<1>5. R \in Seq(Row) /\ DOMAIN R = 1..n
  <2>1. R \in [1..n -> Row]
    BY <1>4
  <2> QED
    BY <1>3, <2>1, SeqDef
<1>6. ASSUME NEW k \in Missing
      PROVE  \E a \in DOMAIN R :
                R[a].log = Live(active) /\ JournalKey(R[a]) = JournalKey(journal[k])
  <2>1. PICK a \in 1..n : JournalKey(journal[pick[a]]) = JournalKey(journal[k])
    BY <1>2 DEF IsImport
  <2>2. R[a].log = Live(active) /\ JournalKey(R[a]) = JournalKey(journal[pick[a]])
    BY DEF RowOfLine, JournalKey
  <2> QED
    BY <1>5, <2>1, <2>2
<1> QED
  BY <1>2, <1>5, <1>6

\* The key of every line of the journal stands in the running log after an import.
LEMMA ImportIsWhole ==
    ASSUME TypeOK, RestoreFromJournal, "insert" \notin Faults, NEW k \in DOMAIN journal
    PROVE  \E i \in DOMAIN qsos' :
              qsos'[i].log = Live(active) /\ JournalKey(qsos'[i]) = JournalKey(journal[k])
<1>1. PICK R \in Seq(Row) :
         /\ RefreshAfterLogChange(qsos \o R)
         /\ \A m \in Missing : \E a \in DOMAIN R :
               R[a].log = Live(active) /\ JournalKey(R[a]) = JournalKey(journal[m])
  BY ImportMakesRows
<1> DEFINE L == qsos \o R
<1>2. /\ qsos \in Seq(Row) /\ L \in Seq(Row) /\ DOMAIN L = 1..(Len(qsos) + Len(R))
      /\ DOMAIN qsos = 1..Len(qsos) /\ DOMAIN R = 1..Len(R) /\ Len(qsos) \in Nat /\ Len(R) \in Nat
      /\ \A i \in DOMAIN L : L[i] = IF i <= Len(qsos) THEN qsos[i] ELSE R[i - Len(qsos)]
  <2>1. qsos \in Seq(Row)
    BY DEF TypeOK
  <2> QED
    BY <2>1, RowsOf, ConcatProperties
<1>3. RefreshAfterLogChange(L) /\ UNCHANGED <<active, band, rules>>
  BY <1>1 DEF RestoreFromJournal
<1> HIDE DEF L
<1>4. \E i \in DOMAIN L : L[i].log = Live(active) /\ JournalKey(L[i]) = JournalKey(journal[k])
  <2>1. CASE k \in Missing
    <3>1. PICK a \in DOMAIN R :
             R[a].log = Live(active) /\ JournalKey(R[a]) = JournalKey(journal[k])
      BY <1>1, <2>1
    <3>2. Len(qsos) + a \in DOMAIN L /\ L[Len(qsos) + a] = R[a]
      BY <1>2
    <3> QED
      BY <3>1, <3>2
  <2>2. CASE k \notin Missing
    <3>1. PICK i \in LiveRows(qsos, active) : JournalKey(qsos[i]) = JournalKey(journal[k])
      BY <2>2 DEF Missing
    <3>2. i \in DOMAIN L /\ L[i] = qsos[i] /\ qsos[i].log = Live(active)
      BY <1>2 DEF LiveRows
    <3> QED
      BY <3>1, <3>2
  <2> QED
    BY <2>1, <2>2
<1>5. DOMAIN qsos' = DOMAIN L /\ \A i \in DOMAIN L : SameQso(qsos'[i], L[i])
  BY <1>2, <1>3, RefreshStep
<1> QED
  BY <1>4, <1>5 DEF SameQso, JournalKey

\* As long as its inserts succeed, an import brings back every line of the journal,
\* whatever was corrected, archived or lost with the database before it
\* (MainWindow::restoreFromJournal).
THEOREM ImportBringsAllBack ==
    ASSUME "insert" \notin Faults
    PROVE  Spec => ImportBringsBackEveryLine
<1> DEFINE Whole ==
        RestoreFromJournal =>
          \A k \in DOMAIN journal : \E i \in DOMAIN qsos' :
             /\ qsos'[i].log = Live(active)
             /\ <<qsos'[i].callsign, qsos'[i].band, Minute(qsos'[i].time)>>
                  = <<journal[k].callsign, journal[k].band, Minute(journal[k].time)>>
<1>1. TypeOK /\ [Next]_vars => [Whole]_vars
  BY ImportIsWhole DEF JournalKey
<1> QED
  BY <1>1, TypeCorrect, PTL DEF Spec, ImportBringsBackEveryLine

-----------------------------------------------------------------------------
(* The program keeps the logbook (Logbook.tla) *)

\* What the history table offers to delete stands in a running log: every handler
\* that moves rows reads the table again.
TableIsLive == \A i \in DOMAIN table : qsos[i].log.part = "live"

LEMMA ShownIsLive ==
    ASSUME NEW c, table' = Shown(qsos', c)
    PROVE  TableIsLive'
BY DEF TableIsLive, Shown, LiveRows, Live, Place

LEMMA TableIsLiveStep ==
    ASSUME TypeOK, TableIsLive, [Next]_vars
    PROVE  TableIsLive'
<1>1. CASE UNCHANGED <<qsos, table>>
  BY <1>1 DEF TableIsLive
<1>2. ASSUME NEW x \in Calls, NEW m \in Modes, NEW t \in Times, LogQso(x, m, t) PROVE TableIsLive'
  BY <1>2, LogQsoStep, ShownIsLive
<1>3. ASSUME NEW i \in DOMAIN table,
             \/ \E x \in Calls : EditCallsign(i, x)
             \/ \E t \in Times : EditTime(i, t)
             \/ ToggleInvalid(i)
      PROVE  TableIsLive'
  <2>1. LogsKept /\ DOMAIN table' = DOMAIN table
    BY <1>3, EditsKeepRows
  <2> QED
    BY <2>1 DEF TableIsLive, LogsKept, TypeOK
<1>4. ASSUME NEW i \in DOMAIN table, DeleteQso(i) PROVE TableIsLive'
  BY <1>4, DeleteKeepsRows, ShownIsLive
<1>5. CASE UndoDelete
  <2>1. table' = Shown(qsos', active)
    BY <1>5, UndoKeepsRows
  <2> QED
    BY <2>1, ShownIsLive
<1>6. CASE ArchiveActiveContest
  <2>1. table' = Shown(qsos', active)
    BY <1>6 DEF ArchiveActiveContest
  <2> QED
    BY <2>1, ShownIsLive
<1>7. CASE RestoreFromJournal
  BY <1>7, RestoreKeepsRows, ShownIsLive
<1>8. ASSUME NEW c \in Contests, SwitchContest(c) PROVE TableIsLive'
  <2>1. table' = Shown(qsos', c)
    BY <1>8 DEF SwitchContest
  <2> QED
    BY <2>1, ShownIsLive
<1>9. CASE Restart
  <2>1. table' = Shown(qsos', active)
    BY <1>9 DEF Restart
  <2> QED
    BY <2>1, ShownIsLive
<1>10. CASE LoseDatabase
  BY <1>10 DEF LoseDatabase, TableIsLive
<1> QED
  BY <1>1, <1>2, <1>3, <1>4, <1>5, <1>6, <1>7, <1>8, <1>9, <1>10
  DEF Next, vars, LogQsoFails, EditRules, ResetRules, ChangeBand

\* Where the rows stand: what Logbook calls place.
Places(K) == [i \in DOMAIN K |-> K[i].log]

LEMMA PlacesAreSeq ==
    ASSUME NEW K \in Seq(Row)
    PROVE  /\ Places(K) \in Seq({q.log : q \in Row})
           /\ DOMAIN Places(K) = DOMAIN K
           /\ Len(Places(K)) = Len(K)
<1>1. Len(K) \in Nat /\ DOMAIN K = 1..Len(K) /\ \A i \in 1..Len(K) : K[i].log \in {q.log : q \in Row}
  BY RowsOf
<1>2. Places(K) \in [1..Len(K) -> {q.log : q \in Row}]
  BY <1>1 DEF Places
<1>3. Places(K) \in Seq({q.log : q \in Row}) /\ DOMAIN Places(K) = 1..Len(K)
  BY <1>1, <1>2, SeqDef
<1>4. Len(Places(K)) = Len(K)
  BY <1>1, <1>3
<1> QED
  BY <1>1, <1>3, <1>4

\* A sequence continued by the same value.
LEMMA Continued ==
    ASSUME NEW P, NEW A \in Seq(P), NEW B \in Seq(P), NEW v, Len(A) < Len(B),
           \A i \in 1..Len(A) : B[i] = A[i],
           \A i \in 1..Len(B) : Len(A) < i => B[i] = v
    PROVE  B = A \o [k \in 1..(Len(B) - Len(A)) |-> v]
<1>1. PICK a \in Nat, b \in Nat, n \in Nat : a = Len(A) /\ b = Len(B) /\ n = b - a
  <2>1. Len(A) \in Nat /\ Len(B) \in Nat
    BY LenProperties
  <2>2. Len(B) - Len(A) \in Nat
    BY <2>1
  <2> QED
    BY <2>1, <2>2
<1>2. \A i \in 1..b : B[i] \in P
  BY <1>1, ElementOfSeq
<1>3. v \in P
  <2>1. b \in 1..b /\ a < b
    BY <1>1
  <2> QED
    BY <1>1, <1>2, <2>1
<1> DEFINE new == [k \in 1..n |-> v]
<1>4. new \in Seq(P) /\ Len(new) = n
  <2>1. new \in [1..n -> P]
    BY <1>3
  <2>2. new \in Seq(P)
    BY <1>1, <2>1, SeqDef
  <2> QED
    BY <2>1, <2>2, LenProperties
<1> HIDE DEF new
<1>5. /\ A \o new \in Seq(P)
      /\ Len(A \o new) = a + n
      /\ \A i \in 1..(a + n) : (A \o new)[i] = IF i <= a THEN A[i] ELSE new[i - a]
  <2>1. /\ A \o new \in Seq(P)
        /\ Len(A \o new) = Len(A) + Len(new)
        /\ \A i \in 1..(Len(A) + Len(new)) :
             (A \o new)[i] = IF i <= Len(A) THEN A[i] ELSE new[i - Len(A)]
    BY <1>4, ConcatProperties
  <2> QED
    BY <1>1, <1>4, <2>1
<1>6. ASSUME NEW i \in 1..b PROVE B[i] = (A \o new)[i]
  <2>1. i \in 1..(a + n)
    BY <1>1
  <2>2. CASE i <= a
    BY <1>1, <1>5, <2>1, <2>2
  <2>3. CASE ~(i <= a)
    <3>1. i - a \in 1..n /\ a < i
      BY <1>1, <2>3
    <3>2. B[i] = v /\ new[i - a] = v
      BY <1>1, <3>1 DEF new
    <3> QED
      BY <1>5, <2>1, <2>3, <3>2
  <2> QED
    BY <2>2, <2>3
<1>7. Len(A \o new) = Len(B)
  BY <1>1, <1>5
<1>8. B = A \o new
  BY <1>1, <1>5, <1>6, <1>7, SeqEqual
<1> QED
  BY <1>1, <1>8 DEF new

\* Rows appended to a running log are entered there.
LEMMA AppendEnters ==
    ASSUME NEW K \in Seq(Row), NEW L \in Seq(Row), Len(K) < Len(L), NEW c,
           \A i \in DOMAIN K : L[i].log = K[i].log,
           \A i \in DOMAIN L \ DOMAIN K : L[i].log = Live(c)
    PROVE  Places(L) = Places(K) \o [k \in 1..(Len(Places(L)) - Len(Places(K))) |-> Live(c)]
<1> DEFINE P == {q.log : q \in Row}
<1>1. /\ Len(K) \in Nat /\ Len(L) \in Nat /\ DOMAIN K = 1..Len(K) /\ DOMAIN L = 1..Len(L)
  BY RowsOf
<1>2. /\ Places(K) \in Seq(P) /\ Len(Places(K)) = Len(K)
      /\ Places(L) \in Seq(P) /\ Len(Places(L)) = Len(L)
  BY PlacesAreSeq
<1> HIDE DEF P
<1>3. \A i \in 1..Len(Places(K)) : Places(L)[i] = Places(K)[i]
  BY <1>1, <1>2 DEF Places
<1>4. \A i \in 1..Len(Places(L)) : Len(Places(K)) < i => Places(L)[i] = Live(c)
  BY <1>1, <1>2 DEF Places
<1>5. Len(Places(K)) < Len(Places(L))
  BY <1>2
<1>6. PICK A \in Seq(P), B \in Seq(P), v \in {Live(c)} : A = Places(K) /\ B = Places(L)
  BY <1>2
<1>7. B = A \o [k \in 1..(Len(B) - Len(A)) |-> v]
  BY <1>3, <1>4, <1>5, <1>6, Continued
<1> QED
  BY <1>6, <1>7

LEMMA EntersOrStutters ==
    ASSUME TypeOK, TypeOK', LogsKept, NEW c \in Contests, Len(qsos) <= Len(qsos'),
           \A i \in DOMAIN qsos' \ DOMAIN qsos : qsos'[i].log = Live(c)
    PROVE  Book!Enter(c) \/ Places(qsos') = Places(qsos)
<1>1. qsos \in Seq(Row) /\ qsos' \in Seq(Row)
  BY DEF TypeOK
<1>2. PICK K \in Seq(Row), L \in Seq(Row) : K = qsos /\ L = qsos'
  BY <1>1
<1>3. /\ Len(K) \in Nat /\ Len(L) \in Nat /\ DOMAIN K = 1..Len(K) /\ DOMAIN L = 1..Len(L)
      /\ Len(Places(K)) = Len(K) /\ Len(Places(L)) = Len(L)
  BY RowsOf, PlacesAreSeq
<1>4. CASE Len(K) < Len(L)
  <2>1. Places(L) = Places(K) \o [k \in 1..(Len(Places(L)) - Len(Places(K))) |-> Live(c)]
    BY <1>2, <1>4, AppendEnters DEF LogsKept
  <2>2. Len(Places(L)) - Len(Places(K)) > 0
    BY <1>3, <1>4
  <2> QED
    BY <1>2, <2>1, <2>2 DEF Book!Enter, Places, Live, Place, Book!Live, Book!Place
<1>5. CASE ~(Len(K) < Len(L))
  <2>0. Len(K) <= Len(L)
    BY ONLY <1>2, Len(qsos) <= Len(qsos')
  <2>1. Len(K) = Len(L)
    <3>1. PICK k \in Nat, l \in Nat : k = Len(K) /\ l = Len(L)
      BY <1>3
    <3>2. k <= l /\ ~(k < l)
      BY <1>5, <2>0, <3>1
    <3>3. k = l
      BY ONLY k \in Nat, l \in Nat, <3>2
    <3> QED
      BY <3>1, <3>3
  <2>2. DOMAIN qsos = DOMAIN qsos'
    BY <1>2, <1>3, <2>1
  <2> QED
    BY <2>2 DEF Places, LogsKept
<1> QED
  BY <1>4, <1>5

LEMMA BookStep ==
    ASSUME "database" \notin Faults, TypeOK, TypeOK', TableIsLive, [Next]_vars
    PROVE  [Book!Next]_(Places(qsos))
<1>1. ASSUME LogsKept, DOMAIN qsos' = DOMAIN qsos PROVE Places(qsos') = Places(qsos)
  BY <1>1 DEF LogsKept, Places
<1>2. CASE qsos' = qsos
  BY <1>2
<1>3. ASSUME NEW x \in Calls, NEW m \in Modes, NEW t \in Times, LogQso(x, m, t)
      PROVE  [Book!Next]_(Places(qsos))
  <2>1. PICK q \in Row : qsos' = Append(qsos, q) /\ q.log = Live(active)
    BY <1>3, LogQsoStep
  <2>2. /\ LogsKept /\ Len(qsos) <= Len(qsos')
        /\ \A i \in DOMAIN qsos' \ DOMAIN qsos : qsos'[i].log = Live(active)
    BY <2>1 DEF TypeOK, LogsKept
  <2>3. active \in Contests
    BY DEF TypeOK
  <2> QED
    BY <2>2, <2>3, EntersOrStutters DEF Book!Next
<1>4. ASSUME NEW i \in DOMAIN table,
             \/ \E x \in Calls : EditCallsign(i, x)
             \/ \E t \in Times : EditTime(i, t)
             \/ ToggleInvalid(i)
      PROVE  [Book!Next]_(Places(qsos))
  BY <1>1, <1>4, EditsKeepRows
<1>5. ASSUME NEW i \in DOMAIN table, DeleteQso(i) PROVE [Book!Next]_(Places(qsos))
  <2>1. /\ DOMAIN qsos' = DOMAIN qsos /\ i \in DOMAIN qsos
        /\ qsos'[i].log = Bin(qsos[i].log.contest)
        /\ \A j \in DOMAIN qsos \ {i} : qsos'[j].log = qsos[j].log
    BY <1>5, DeleteKeepsRows
  <2>2. qsos[i].log.part = "live"
    BY DEF TableIsLive
  <2>3. Book!Trash(i)
    BY <2>1, <2>2 DEF Book!Trash, Book!Bin, Book!Place, Bin, Place
  <2> QED
    BY <2>1, <2>3 DEF Book!Next
<1>6. CASE UndoDelete
  <2>0. PICK i : i = lastDeleted
    OBVIOUS
  <2>1. /\ DOMAIN qsos' = DOMAIN qsos /\ i \in DOMAIN qsos
        /\ qsos[i].log = Bin(qsos[i].log.contest)
        /\ qsos'[i].log = Live(qsos[i].log.contest)
        /\ \A j \in DOMAIN qsos \ {i} : qsos'[j].log = qsos[j].log
    BY <1>6, <2>0, UndoKeepsRows
  <2>2. qsos[i].log.part = "bin"
    BY <2>1 DEF Bin, Place
  <2>3. Book!Recover(i)
    BY <2>1, <2>2 DEF Book!Recover, Book!FromBin, Book!Live, Book!Place, Live, Place
  <2> QED
    BY <2>1, <2>3 DEF Book!Next
<1>7. CASE ArchiveActiveContest
  <2>1. DOMAIN qsos' = DOMAIN qsos /\ LiveRows(qsos, active) # {}
    BY <1>7, ArchiveKeepsRows
  <2>2. PICK d \in Nat, n \in Nat :
           /\ ~Taken(active, d, n)
           /\ \A i \in DOMAIN qsos :
                qsos'[i].log = IF i \in LiveRows(qsos, active) THEN Archive(active, d, n) ELSE qsos[i].log
    BY <1>7, ArchiveKeepsRows
  <2>3. PICK c \in Contests, a \in {Archive(active, d, n)} : c = active
    BY DEF TypeOK
  <2>4. a.contest = c /\ a.part = "archive" /\ \A i \in DOMAIN qsos : qsos[i].log # a
    BY <2>2, <2>3 DEF Archive, Place, Taken
  <2>5. LiveRows(qsos, active) = {i \in DOMAIN Places(qsos) : Places(qsos)[i] = Live(c)}
    BY <2>3 DEF LiveRows, Places
  <2>6. Places(qsos') = [i \in DOMAIN Places(qsos) |->
                           IF i \in LiveRows(qsos, active) THEN a ELSE Places(qsos)[i]]
    BY <2>1, <2>2, <2>3 DEF Places
  <2>7. a \in {Places(qsos')[i] : i \in LiveRows(qsos, active)}
    BY <2>1, <2>5, <2>6 DEF Places
  <2>8. Book!CloseLog(c)
    <3> DEFINE P == Places(qsos)
               Q == Places(qsos')
               moved == {i \in DOMAIN P : P[i] = Live(c)}
    <3>1. /\ a \in {Q[i] : i \in moved}
          /\ \A i \in DOMAIN P : P[i] # a
          /\ Q = [i \in DOMAIN P |-> IF i \in moved THEN a ELSE P[i]]
      BY <2>4, <2>5, <2>6, <2>7 DEF Places
    <3>2. Book!CloseLog(c) <=>
            \E b \in {Q[i] : i \in moved} :
               /\ b.contest = c
               /\ b.part = "archive"
               /\ \A i \in DOMAIN P : P[i] # b
               /\ Q = [i \in DOMAIN P |-> IF i \in moved THEN b ELSE P[i]]
      BY DEF Book!CloseLog, Places, Book!Live, Book!Place, Live, Place
    <3> HIDE DEF P, Q, moved
    <3> QED
      BY <2>4, <3>1, <3>2
  <2> QED
    BY <2>8 DEF Book!Next
<1>8. CASE RestoreFromJournal
  <2>1. /\ LogsKept /\ Len(qsos) <= Len(qsos')
        /\ \A i \in DOMAIN qsos' \ DOMAIN qsos : qsos'[i].log = Live(active)
    BY <1>8, RestoreKeepsRows
  <2>2. active \in Contests
    BY DEF TypeOK
  <2> QED
    BY <2>1, <2>2, EntersOrStutters DEF Book!Next
<1> QED
  BY <1>2, <1>3, <1>4, <1>5, <1>6, <1>7, <1>8
  DEF Next, vars, LogQsoFails, SwitchContest, EditRules, ResetRules, ChangeBand, Restart, LoseDatabase

\* As long as the database file itself is not lost, the program keeps the logbook:
\* whatever else fails, no QSO is deleted, the bin gives back into the log it took
\* from, and an archive stays as it was closed.
THEOREM LogbookIsKept ==
    ASSUME "database" \notin Faults
    PROVE  Spec => KeepsTheLogbook
<1>1. Init => Book!Init /\ TableIsLive
  BY DEF Init, Book!Init, TableIsLive
<1>2. TypeOK /\ TableIsLive /\ [Next]_vars => TableIsLive'
  BY TableIsLiveStep
<1>3. TypeOK /\ TypeOK' /\ TableIsLive /\ [Next]_vars => [Book!Next]_(Places(qsos))
  BY BookStep
<1>4. [Book!Next]_(Places(qsos)) => [Book!Next]_([i \in DOMAIN qsos |-> qsos[i].log])
  BY DEF Places
<1> QED
  BY <1>1, <1>2, <1>3, <1>4, TypeCorrect, PTL DEF Spec, KeepsTheLogbook, Book!Spec

-----------------------------------------------------------------------------
(***************************************************************************)
(* One QSO counts per station and key of the rules.                        *)
(*                                                                         *)
(* Two things make it hold.  Logging asks whether the key is there already *)
(* (DupeChecker), so that a new QSO counts exactly when no other has its   *)
(* key; and a rescore (DupeRescore) lets the first of each key count,      *)
(* which exists since time and id order the rows of a log strictly.        *)
(***************************************************************************)

\* What the theorem needs: no flag is left unwritten and no question about a dupe
\* unanswered, and no rules are edited while the log runs.
FlagsAreWritten == Faults \cap {"flag", "query"} = {} /\ RuleSets = {}

SameKey(q, r, c) == DupeKey(q, rules[c].dupe) = DupeKey(r, rules[c].dupe)

\* OneCountsPerStation for one log and one contest.
OneCounts(L, c) ==
    \A i \in Rated(L, c) : \E j \in Rated(L, c) :
        /\ SameKey(L[j], L[i], c) /\ ~L[j].dupe
        /\ \A k \in Rated(L, c) \ {j} : SameKey(L[k], L[i], c) => L[k].dupe

-----------------------------------------------------------------------------
(* The order of the rescore *)

LEMMA RatedRows ==
    ASSUME NEW L \in Seq(Row), NEW c
    PROVE  /\ Rated(L, c) \subseteq LiveRows(L, c) /\ LiveRows(L, c) \subseteq DOMAIN L
           /\ \A i \in DOMAIN L : i \in Nat /\ L[i] \in Row /\ L[i].time \in Nat
BY RowFields, QsoLogAssumption DEF Rated, LiveRows, Times

\* Of some rows of a log one stands before all others.
LEMMA SomeIsFirstRow ==
    ASSUME NEW L \in Seq(Row), NEW S \in SUBSET DOMAIN L, S # {}
    PROVE  \E j \in S : \A k \in S \ {j} : Before(L, j, k) /\ ~Before(L, k, j)
<1>1. \A i \in S : i \in Nat /\ L[i].time \in Nat
  BY RatedRows
<1> DEFINE times == {L[i].time : i \in S}
<1>2. PICK t \in times : \A u \in times : t <= u
  <2>1. times \in SUBSET Nat /\ times # {}
    BY <1>1
  <2> HIDE DEF times
  <2> QED
    BY <2>1, LeastNumber
<1> DEFINE earliest == {i \in S : L[i].time = t}
<1>3. PICK j \in earliest : \A k \in earliest : j <= k
  <2>1. earliest \in SUBSET Nat /\ earliest # {}
    BY <1>1
  <2> HIDE DEF earliest
  <2> QED
    BY <2>1, LeastNumber
<1>4. j \in S /\ L[j].time = t /\ t \in Nat
  BY <1>1
<1>5. ASSUME NEW k \in S \ {j}
      PROVE  Before(L, j, k) /\ ~Before(L, k, j)
  <2>1. t <= L[k].time /\ L[k].time \in Nat /\ k \in Nat /\ j \in Nat
    BY <1>1, <1>2
  <2>2. L[k].time = t => j <= k
    BY <1>3
  <2> QED
    BY <1>4, <2>1, <2>2 DEF Before
<1> QED
  BY <1>4, <1>5

\* A key reads callsign, band and mode only.
LEMMA KeyOfQso ==
    ASSUME TypeOK, NEW c \in Contests, NEW q \in Row, NEW r \in Row, SameQso(q, r)
    PROVE  DupeKey(q, rules[c].dupe) = DupeKey(r, rules[c].dupe)
<1>1. rules[c].dupe \subseteq {"callsign", "band", "mode"}
  BY DEF TypeOK, Rules, Fields
<1>2. \A f \in {"callsign", "band", "mode"} : q[f] = r[f]
  BY DEF SameQso
<1> QED
  BY <1>1, <1>2, Zenon DEF DupeKey, SameQso

\* recomputeDupeFlags(): of each key the first row counts, the others do not.
LEMMA RescoredCounts ==
    ASSUME TypeOK, NEW c \in Contests, NEW L \in Seq(Row)
    PROVE  OneCounts(WithFlags(L, FlagChanges(L, c)), c)
<1> DEFINE M == WithFlags(L, FlagChanges(L, c))
<1>1. M \in Seq(Row) /\ DOMAIN M = DOMAIN L /\ \A i \in DOMAIN L : SameQso(M[i], L[i])
  BY FlagsOnly
<1>2. \A i \in DOMAIN L : L[i] \in Row /\ M[i] \in Row
  BY <1>1, RatedRows
<1>3. ASSUME NEW i \in Rated(L, c)
      PROVE  M[i].dupe = IsRepeat(L, c, i)
  <2>1. i \in DOMAIN L /\ L[i] \in Row /\ L[i].dupe \in BOOLEAN
    BY RatedRows DEF Row
  <2>2. IsRepeat(L, c, i) \in BOOLEAN
    BY DEF IsRepeat
  <2>3. CASE i \in FlagChanges(L, c)
    <3>1. M[i] = [L[i] EXCEPT !.dupe = ~L[i].dupe] /\ L[i].dupe # IsRepeat(L, c, i)
      BY <2>1, <2>3 DEF WithFlags, FlagChanges
    <3>2. M[i].dupe = ~L[i].dupe
      BY <2>1, <3>1 DEF Row
    <3> QED
      BY <2>1, <2>2, <3>1, <3>2
  <2>4. CASE i \notin FlagChanges(L, c)
    BY <2>1, <2>4 DEF WithFlags, FlagChanges
  <2> QED
    BY <2>3, <2>4
<1> HIDE DEF M
<1>4. Rated(M, c) = Rated(L, c) /\ Rated(L, c) \subseteq DOMAIN L
  BY <1>1 DEF Rated, LiveRows, SameQso
<1>5. \A i, k \in DOMAIN L : SameKey(M[i], M[k], c) <=> SameKey(L[i], L[k], c)
  BY <1>1, <1>2, KeyOfQso DEF SameKey
<1>6. ASSUME NEW i \in Rated(L, c)
      PROVE  \E j \in Rated(L, c) :
                 /\ SameKey(L[j], L[i], c) /\ ~IsRepeat(L, c, j)
                 /\ \A k \in Rated(L, c) \ {j} : SameKey(L[k], L[i], c) => IsRepeat(L, c, k)
  <2> DEFINE S == {k \in Rated(L, c) : SameKey(L[k], L[i], c)}
  <2>1. S \subseteq DOMAIN L /\ i \in S
    BY <1>4 DEF SameKey
  <2>2. PICK j \in S : \A k \in S \ {j} : Before(L, j, k) /\ ~Before(L, k, j)
    <3> HIDE DEF S
    <3> QED
      BY <2>1, SomeIsFirstRow
  <2>3. ~Before(L, j, j)
    <3>1. j \in Nat /\ L[j].time \in Nat
      BY <2>1, RatedRows
    <3> QED
      BY <3>1 DEF Before
  <2>4. ~IsRepeat(L, c, j)
    BY <2>2, <2>3 DEF IsRepeat, SameKey
  <2>5. \A k \in S \ {j} : IsRepeat(L, c, k)
    BY <2>2 DEF IsRepeat, SameKey
  <2> QED
    BY <2>4, <2>5
<1>7. OneCounts(M, c)
  BY <1>3, <1>4, <1>5, <1>6 DEF OneCounts
<1> QED
  BY <1>7 DEF M

-----------------------------------------------------------------------------
(* The steps *)

\* A log whose rated rows stay as they are.
LEMMA UntouchedCounts ==
    ASSUME NEW L, NEW M, NEW c, OneCounts(L, c),
           Rated(M, c) = Rated(L, c), \A i \in Rated(L, c) : M[i] = L[i]
    PROVE  OneCounts(M, c)
BY DEF OneCounts

\* The rated rows of contest c are those they were.
Untouched(L, M, c) == Rated(M, c) = Rated(L, c) /\ \A i \in Rated(L, c) : M[i] = L[i]

LEMMA CountsInEach ==
    ASSUME rules' = rules, \A c \in Contests : OneCounts(qsos', c)
    PROVE  OneCountsPerStation'
BY DEF OneCountsPerStation, OneCounts, SameKey, DupeKey, Rated, LiveRows

\* A rescore touches the rows of the active contest only.
LEMMA RescoreElsewhere ==
    ASSUME NEW L \in Seq(Row), NEW c, NEW d, c # d
    PROVE  Untouched(L, WithFlags(L, FlagChanges(L, d)), c)
<1> DEFINE M == WithFlags(L, FlagChanges(L, d))
<1>1. M \in Seq(Row) /\ DOMAIN M = DOMAIN L /\ \A i \in DOMAIN L : SameQso(M[i], L[i])
  BY FlagsOnly
<1>2. \A i \in LiveRows(L, c) : i \notin FlagChanges(L, d)
  BY DEF LiveRows, FlagChanges, Rated, Live, Place
<1>3. \A i \in LiveRows(L, c) : M[i] = L[i]
  BY <1>2 DEF WithFlags, LiveRows
<1> HIDE DEF M
<1>4. Rated(M, c) = Rated(L, c) /\ Rated(L, c) \subseteq LiveRows(L, c)
  BY <1>1 DEF Rated, LiveRows, SameQso
<1>5. Untouched(L, M, c)
  BY <1>3, <1>4 DEF Untouched
<1> QED
  BY <1>5 DEF M

\* What a handler makes of the log when it rescores the log L it has written,
\* and L differs from the table in rows of the active contest only.
LEMMA RescoreStep ==
    ASSUME TypeOK, OneCountsPerStation, rules' = rules, NEW L \in Seq(Row),
           qsos' = WithFlags(L, FlagChanges(L, active)),
           \A c \in Contests \ {active} : Untouched(qsos, L, c)
    PROVE  OneCountsPerStation'
<1>1. active \in Contests
  BY DEF TypeOK
<1>2. \A c \in Contests : OneCounts(qsos, c)
  BY DEF OneCountsPerStation, OneCounts, SameKey
<1>3. ASSUME NEW c \in Contests
      PROVE  OneCounts(qsos', c)
  <2>1. CASE c = active
    BY <1>1, <2>1, RescoredCounts
  <2>2. CASE c # active
    <3>1. Untouched(qsos, L, c) /\ Untouched(L, qsos', c)
      BY <2>2, RescoreElsewhere
    <3>2. Untouched(qsos, qsos', c)
      BY <3>1 DEF Untouched
    <3> QED
      BY <1>2, <3>2, UntouchedCounts DEF Untouched
  <2> QED
    BY <2>1, <2>2
<1> QED
  BY <1>3, CountsInEach

\* One row of the active contest written anew; the others as they were.
LEMMA RowElsewhere ==
    ASSUME NEW L, NEW i \in DOMAIN qsos, DOMAIN L = DOMAIN qsos,
           \A k \in DOMAIN qsos \ {i} : L[k] = qsos[k],
           qsos[i].log.contest = active, L[i].log.contest = active
    PROVE  \A c \in Contests \ {active} : Untouched(qsos, L, c)
BY DEF Untouched, Rated, LiveRows, Live, Place

LEMMA AllFlagsWritten ==
    ASSUME FlagsAreWritten, NEW L, NEW c
    PROVE  FlagWrites(L, c) = {FlagChanges(L, c)}
BY DEF FlagsAreWritten, FlagWrites

\* What the history table shows belongs to the active contest, as long as no
\* rules are edited: the editor makes its contest the active one.
TableOfActive == \A i \in DOMAIN table : qsos[i].log = Live(active)

LEMMA ShownOfActive ==
    ASSUME table' = Shown(qsos', active')
    PROVE  TableOfActive'
BY DEF TableOfActive, Shown, LiveRows

LEMMA TableOfActiveStep ==
    ASSUME FlagsAreWritten, TypeOK, TableOfActive, [Next]_vars
    PROVE  TableOfActive'
<1>1. CASE UNCHANGED <<qsos, table, active>>
  BY <1>1 DEF TableOfActive
<1>2. ASSUME NEW x \in Calls, NEW m \in Modes, NEW t \in Times, LogQso(x, m, t) PROVE TableOfActive'
  BY <1>2, LogQsoStep, ShownOfActive DEF LogQso
<1>3. ASSUME NEW i \in DOMAIN table,
             \/ \E x \in Calls : EditCallsign(i, x)
             \/ \E t \in Times : EditTime(i, t)
             \/ ToggleInvalid(i)
      PROVE  TableOfActive'
  <2>1. LogsKept /\ DOMAIN table' = DOMAIN table
    BY <1>3, EditsKeepRows
  <2>2. active' = active
    BY <1>3 DEF EditCallsign, EditTime, ToggleInvalid, Correct
  <2> QED
    BY <2>1, <2>2 DEF TableOfActive, LogsKept, TypeOK
<1>4. ASSUME NEW i \in DOMAIN table, DeleteQso(i) PROVE TableOfActive'
  BY <1>4, ShownOfActive DEF DeleteQso, RefreshAfterLogChange
<1>5. CASE UndoDelete
  BY <1>5, ShownOfActive DEF UndoDelete, RefreshAfterLogChange
<1>6. CASE ArchiveActiveContest
  <2>1. table' = Shown(qsos', active) /\ active' = active
    BY <1>6 DEF ArchiveActiveContest
  <2> QED
    BY <2>1, ShownOfActive
<1>7. CASE RestoreFromJournal
  BY <1>7, ShownOfActive DEF RestoreFromJournal, RefreshAfterLogChange
<1>8. ASSUME NEW c \in Contests, SwitchContest(c) PROVE TableOfActive'
  BY <1>8, ShownOfActive DEF SwitchContest
<1>9. CASE Restart
  BY <1>9, ShownOfActive DEF Restart
<1>10. CASE LoseDatabase
  BY <1>10 DEF LoseDatabase, TableOfActive
<1> QED
  BY <1>1, <1>2, <1>3, <1>4, <1>5, <1>6, <1>7, <1>8, <1>9, <1>10
  DEF Next, vars, LogQsoFails, EditRules, ResetRules, ChangeBand, FlagsAreWritten

\* A correction: one row of the active contest, and the rescore.
LEMMA CorrectCounts ==
    ASSUME FlagsAreWritten, TypeOK, TableOfActive, OneCountsPerStation,
           NEW i \in DOMAIN table, NEW row \in Row, row.log = qsos[i].log, Correct(i, row)
    PROVE  OneCountsPerStation'
<1> DEFINE L == [qsos EXCEPT ![i] = row]
<1>1. qsos \in Seq(Row) /\ i \in DOMAIN qsos /\ qsos[i].log = Live(active)
  BY DEF TypeOK, TableOfActive
<1>2. L \in Seq(Row) /\ DOMAIN L = DOMAIN qsos /\ L[i] = row /\ \A k \in DOMAIN qsos \ {i} : L[k] = qsos[k]
  BY <1>1, RowsOf, ExceptSeq
<1>3. \E S \in FlagWrites(L, active) : qsos' = WithFlags(L, S) /\ rules' = rules
  BY DEF Correct
<1> HIDE DEF L
<1>4. qsos' = WithFlags(L, FlagChanges(L, active)) /\ rules' = rules
  BY <1>3, AllFlagsWritten
<1>5. qsos[i].log.contest = active /\ L[i].log.contest = active
  BY <1>1, <1>2 DEF Live, Place
<1> QED
  BY <1>1, <1>2, <1>4, <1>5, RowElsewhere, RescoreStep

LEMMA EditsCount ==
    ASSUME FlagsAreWritten, TypeOK, TableOfActive, OneCountsPerStation, NEW i \in DOMAIN table,
           \/ \E x \in Calls : EditCallsign(i, x)
           \/ \E t \in Times : EditTime(i, t)
           \/ ToggleInvalid(i)
    PROVE  OneCountsPerStation'
<1>1. qsos[i] \in Row
  BY RowsOf DEF TypeOK
<1>2. ASSUME NEW x \in Calls, EditCallsign(i, x) PROVE OneCountsPerStation'
  <2>1. [qsos[i] EXCEPT !.callsign = x] \in Row /\ [qsos[i] EXCEPT !.callsign = x].log = qsos[i].log
    BY <1>1 DEF Row
  <2> QED
    BY <1>2, <2>1, CorrectCounts DEF EditCallsign
<1>3. ASSUME NEW t \in Times, EditTime(i, t) PROVE OneCountsPerStation'
  <2>1. [qsos[i] EXCEPT !.time = t] \in Row /\ [qsos[i] EXCEPT !.time = t].log = qsos[i].log
    BY <1>1 DEF Row
  <2> QED
    BY <1>3, <2>1, CorrectCounts DEF EditTime
<1>4. CASE ToggleInvalid(i)
  <2>1. [qsos[i] EXCEPT !.invalid = ~@] \in Row /\ [qsos[i] EXCEPT !.invalid = ~@].log = qsos[i].log
    BY <1>1 DEF Row
  <2> QED
    BY <1>4, <2>1, CorrectCounts DEF ToggleInvalid
<1> QED
  BY <1>2, <1>3, <1>4

\* refreshAfterLogChange()
LEMMA RefreshCounts ==
    ASSUME FlagsAreWritten, TypeOK, OneCountsPerStation, rules' = rules,
           NEW L \in Seq(Row), RefreshAfterLogChange(L),
           \A c \in Contests \ {active} : Untouched(qsos, L, c)
    PROVE  OneCountsPerStation'
<1>1. qsos' = WithFlags(L, FlagChanges(L, active))
  BY AllFlagsWritten DEF RefreshAfterLogChange
<1> QED
  BY <1>1, RescoreStep

LEMMA DeleteCounts ==
    ASSUME FlagsAreWritten, TypeOK, TableOfActive, OneCountsPerStation,
           NEW i \in DOMAIN table, DeleteQso(i)
    PROVE  OneCountsPerStation'
<1> DEFINE L == [qsos EXCEPT ![i].log = Bin(qsos[i].log.contest)]
<1>1. i \in DOMAIN qsos /\ qsos[i] \in Row /\ qsos[i].log.contest = active
  BY RowsOf DEF TypeOK, TableOfActive, Live, Place
<1>2. L \in Seq(Row) /\ RefreshAfterLogChange(L) /\ rules' = rules
  BY DeletedLog DEF DeleteQso
<1>3. /\ DOMAIN L = DOMAIN qsos /\ L[i].log = Bin(qsos[i].log.contest)
      /\ \A k \in DOMAIN qsos \ {i} : L[k] = qsos[k]
  BY <1>1 DEF Row
<1> HIDE DEF L
<1>4. L[i].log.contest = active
  BY <1>1, <1>3 DEF Bin, Place
<1> QED
  BY <1>1, <1>2, <1>3, <1>4, RowElsewhere, RefreshCounts

\* The undo rescores the active contest: that of the row, if it is taken back at
\* home.
LEMMA UndoCounts ==
    ASSUME FlagsAreWritten, TypeOK, OneCountsPerStation, UndoDelete,
           qsos[lastDeleted].log.contest = active
    PROVE  OneCountsPerStation'
<1> DEFINE i == lastDeleted
<1> DEFINE L == [qsos EXCEPT ![i].log = FromBin(qsos[i].log)]
<1>1. i \in DOMAIN qsos /\ qsos[i] \in Row
  BY RowsOf DEF TypeOK, UndoDelete
<1>2. L \in Seq(Row) /\ RefreshAfterLogChange(L) /\ rules' = rules
  BY <1>1, RecoveredLog DEF UndoDelete
<1>3. /\ DOMAIN L = DOMAIN qsos /\ L[i].log = FromBin(qsos[i].log)
      /\ \A k \in DOMAIN qsos \ {i} : L[k] = qsos[k]
  BY <1>1 DEF Row
<1> HIDE DEF L
<1>4. L[i].log.contest = active
  BY <1>3 DEF FromBin, Live, Place
<1> QED
  BY <1>1, <1>2, <1>3, <1>4, RowElsewhere, RefreshCounts

LEMMA ImportCounts ==
    ASSUME FlagsAreWritten, TypeOK, OneCountsPerStation, RestoreFromJournal
    PROVE  OneCountsPerStation'
<1>1. PICK R \in Seq(Row) : /\ RefreshAfterLogChange(qsos \o R)
                            /\ \A a \in DOMAIN R : R[a].log = Live(active)
  BY RestoreStep
<1> DEFINE L == qsos \o R
<1>2. /\ L \in Seq(Row) /\ DOMAIN qsos \subseteq DOMAIN L
      /\ \A k \in DOMAIN qsos : L[k] = qsos[k]
      /\ \A k \in DOMAIN L \ DOMAIN qsos : L[k].log = Live(active)
  <2>1. qsos \in Seq(Row) /\ Len(qsos) \in Nat /\ Len(R) \in Nat
    BY RowsOf DEF TypeOK
  <2>2. /\ L \in Seq(Row) /\ DOMAIN qsos \subseteq DOMAIN L /\ DOMAIN L = 1..(Len(qsos) + Len(R))
        /\ \A k \in DOMAIN qsos : L[k] = qsos[k]
    BY <2>1, RowsOf, ConcatProperties
  <2>3. ASSUME NEW k \in DOMAIN L \ DOMAIN qsos
        PROVE  L[k].log = Live(active)
    <3>1. k \in 1..(Len(qsos) + Len(R)) /\ ~(k <= Len(qsos))
      BY <2>1, <2>2, RowsOf
    <3>2. k - Len(qsos) \in DOMAIN R /\ L[k] = R[k - Len(qsos)]
      BY <2>1, <3>1, RowsOf, ConcatProperties
    <3> QED
      BY <1>1, <3>2
  <2> QED
    BY <2>2, <2>3
<1>3. RefreshAfterLogChange(L) /\ rules' = rules
  BY <1>1 DEF RestoreFromJournal
<1> HIDE DEF L
<1>4. \A c \in Contests \ {active} : Untouched(qsos, L, c)
  BY <1>2 DEF Untouched, Rated, LiveRows, Live, Place
<1> QED
  BY <1>2, <1>3, <1>4, RefreshCounts

\* Closing the log leaves no row in it.
LEMMA ArchiveCounts ==
    ASSUME TypeOK, OneCountsPerStation, ArchiveActiveContest
    PROVE  OneCountsPerStation'
<1>1. /\ DOMAIN qsos' = DOMAIN qsos /\ rules' = rules
      /\ \A i \in DOMAIN qsos \ LiveRows(qsos, active) : qsos'[i] = qsos[i]
  BY DEF ArchiveActiveContest
<1>2. \A i \in LiveRows(qsos, active) : qsos'[i].log.part # "live"
  <2>1. PICK d \in Nat, n \in Nat :
            \A i \in DOMAIN qsos :
                qsos'[i].log = IF i \in LiveRows(qsos, active) THEN Archive(active, d, n) ELSE qsos[i].log
    BY ArchiveKeepsRows
  <2>2. LiveRows(qsos, active) \subseteq DOMAIN qsos
    BY DEF LiveRows
  <2> QED
    BY <2>1, <2>2 DEF Archive, Place
<1>3. \A c \in Contests : OneCounts(qsos, c)
  BY DEF OneCountsPerStation, OneCounts, SameKey
<1>4. ASSUME NEW c \in Contests
      PROVE  OneCounts(qsos', c)
  <2>1. CASE c = active
    <3>1. Rated(qsos', c) = {}
      BY <1>1, <1>2, <2>1 DEF Rated, LiveRows, Live, Place
    <3> QED
      BY <3>1 DEF OneCounts
  <2>2. CASE c # active
    <3>1. Untouched(qsos, qsos', c)
      BY <1>1, <1>2, <2>2 DEF Untouched, Rated, LiveRows, Live, Place
    <3> QED
      BY <1>3, <3>1, UntouchedCounts DEF Untouched
  <2> QED
    BY <2>1, <2>2
<1> QED
  BY <1>1, <1>4, CountsInEach

\* handleLogRequested(): a new row counts exactly when no rated row has its key.
LEMMA LogQsoCounts ==
    ASSUME FlagsAreWritten, TypeOK, OneCountsPerStation,
           NEW x \in Calls, NEW m \in Modes, NEW t \in Times, LogQso(x, m, t)
    PROVE  OneCountsPerStation'
<1> DEFINE row == NewRow(x, m, t)
<1> DEFINE d == IsDupe(qsos, active, row)
<1> DEFINE q == [row EXCEPT !.dupe = d]
<1> DEFINE n == Len(qsos) + 1
<1>1. qsos \in Seq(Row) /\ active \in Contests /\ n \in Nat /\ DOMAIN qsos = 1..Len(qsos) /\ n \notin DOMAIN qsos
  BY RowsOf DEF TypeOK
<1>2. DupeAnswers(row) = {d}
  BY DEF DupeAnswers, FlagsAreWritten
<1>3. qsos' = Append(qsos, q) /\ rules' = rules
  BY <1>2 DEF LogQso
<1>4. d \in BOOLEAN
  BY DEF IsDupe
<1>5. /\ q.dupe = d /\ q.log = Live(active) /\ ~q.invalid
      /\ q.callsign = row.callsign /\ q.band = row.band /\ q.mode = row.mode
  BY DEF NewRow
<1>6. DupeKey(q, rules[active].dupe) = DupeKey(row, rules[active].dupe)
  <2>1. rules[active].dupe \subseteq {"callsign", "band", "mode"}
    BY <1>1 DEF TypeOK, Rules, Fields
  <2>2. \A f \in {"callsign", "band", "mode"} : q[f] = row[f]
    BY <1>5
  <2> HIDE DEF row, d, q
  <2> QED
    BY <1>5, <2>1, <2>2, Zenon DEF DupeKey
<1>7. d <=> \E i \in Rated(qsos, active) : DupeKey(qsos[i], rules[active].dupe) = DupeKey(q, rules[active].dupe)
  BY <1>6 DEF IsDupe
<1> HIDE DEF row, d, q
<1>8. /\ DOMAIN qsos' = DOMAIN qsos \cup {n} /\ qsos'[n] = q
      /\ \A i \in DOMAIN qsos : qsos'[i] = qsos[i]
  BY <1>1, <1>3, AppendProperties
<1> HIDE DEF n
<1>9. Rated(qsos', active) = Rated(qsos, active) \cup {n}
      /\ \A c \in Contests \ {active} : Untouched(qsos, qsos', c)
  BY <1>1, <1>5, <1>8 DEF Rated, LiveRows, Untouched, Live, Place
<1>10. \A c \in Contests : OneCounts(qsos, c)
  BY DEF OneCountsPerStation, OneCounts, SameKey
<1>11. OneCounts(qsos', active)
  <2>1. n \notin Rated(qsos, active) /\ Rated(qsos, active) \subseteq DOMAIN qsos
    BY <1>1 DEF Rated, LiveRows
  <2>2. \A i \in Rated(qsos, active) : qsos'[i] = qsos[i]
    BY <1>8, <2>1
  <2>3. ASSUME NEW i \in Rated(qsos, active)
        PROVE  \E j \in Rated(qsos', active) :
                   /\ SameKey(qsos'[j], qsos[i], active) /\ ~qsos'[j].dupe
                   /\ \A k \in Rated(qsos', active) \ {j} : SameKey(qsos'[k], qsos[i], active) => qsos'[k].dupe
    <3>1. PICK j \in Rated(qsos, active) :
              /\ SameKey(qsos[j], qsos[i], active) /\ ~qsos[j].dupe
              /\ \A k \in Rated(qsos, active) \ {j} : SameKey(qsos[k], qsos[i], active) => qsos[k].dupe
      BY <1>1, <1>10 DEF OneCounts
    <3>2. SameKey(q, qsos[i], active) => q.dupe
      BY <1>5, <1>7 DEF SameKey
    <3> QED
      BY <1>8, <1>9, <2>1, <2>2, <3>1, <3>2
  <2>4. \E j \in Rated(qsos', active) :
            /\ SameKey(qsos'[j], q, active) /\ ~qsos'[j].dupe
            /\ \A k \in Rated(qsos', active) \ {j} : SameKey(qsos'[k], q, active) => qsos'[k].dupe
    <3>1. CASE d
      <4>1. PICK i \in Rated(qsos, active) : SameKey(qsos[i], q, active)
        BY <1>7, <3>1 DEF SameKey
      <4> QED
        BY <2>3, <4>1 DEF SameKey
    <3>2. CASE ~d
      <4>1. \A k \in Rated(qsos, active) : ~SameKey(qsos[k], q, active)
        BY <1>7, <3>2 DEF SameKey
      <4>2. SameKey(q, q, active) /\ ~q.dupe
        BY <1>5, <3>2 DEF SameKey
      <4> QED
        BY <1>8, <1>9, <2>1, <2>2, <4>1, <4>2
    <3> QED
      BY <3>1, <3>2
  <2> QED
    BY <1>8, <1>9, <2>2, <2>3, <2>4 DEF OneCounts
<1>12. \A c \in Contests : OneCounts(qsos', c)
  BY <1>9, <1>10, <1>11, UntouchedCounts DEF Untouched
<1> QED
  BY <1>3, <1>12, CountsInEach

-----------------------------------------------------------------------------
(* The theorem *)

UndoneAtHome == UndoDelete => qsos[lastDeleted].log.contest = active

CountInv == TypeOK /\ rules = ShippedRules /\ TableOfActive /\ OneCountsPerStation

\* The handlers that leave rows and rules as they are.
LEMMA SameLogCounts ==
    ASSUME OneCountsPerStation, qsos' = qsos, rules' = rules
    PROVE  OneCountsPerStation'
BY DEF OneCountsPerStation, DupeKey, Rated, LiveRows

LEMMA CountStep ==
    ASSUME FlagsAreWritten, CountInv, [Next /\ UndoneAtHome]_vars
    PROVE  CountInv'
<1> USE DEF CountInv
<1>0. [Next]_vars
  OBVIOUS
<1>1. TypeOK' /\ TableOfActive'
  BY <1>0, TypeOKStep, TableOfActiveStep
<1>2. rules' = ShippedRules
  <2>1. CASE rules' = rules
    BY <2>1
  <2>2. ASSUME NEW c \in Contests, ResetRules(c)
        PROVE  rules' = rules
    BY <2>2 DEF ResetRules, TypeOK
  <2>3. rules' = rules \/ \E c \in Contests : ResetRules(c)
    BY DEF Next, FlagsAreWritten, vars, LogQso, LogQsoFails, EditCallsign, EditTime, ToggleInvalid, Correct,
           DeleteQso, UndoDelete, ArchiveActiveContest, RestoreFromJournal, SwitchContest, ChangeBand,
           Restart, LoseDatabase
  <2> QED
    BY <2>1, <2>2, <2>3
<1>3. rules' = rules
  BY <1>2
<1>4. OneCountsPerStation'
  <2>1. ASSUME NEW x \in Calls, NEW m \in Modes, NEW t \in Times, LogQso(x, m, t)
        PROVE  OneCountsPerStation'
    BY <2>1, LogQsoCounts
  <2>2. ASSUME NEW i \in DOMAIN table,
               \/ \E x \in Calls : EditCallsign(i, x)
               \/ \E t \in Times : EditTime(i, t)
               \/ ToggleInvalid(i)
        PROVE  OneCountsPerStation'
    BY <2>2, EditsCount
  <2>3. ASSUME NEW i \in DOMAIN table, DeleteQso(i)
        PROVE  OneCountsPerStation'
    BY <2>3, DeleteCounts
  <2>4. CASE UndoDelete
    <3>1. qsos[lastDeleted].log.contest = active \/ UNCHANGED vars
      BY <2>4 DEF UndoneAtHome
    <3>2. CASE UNCHANGED vars
      BY <3>2, SameLogCounts DEF vars
    <3> QED
      BY <2>4, <3>1, <3>2, UndoCounts
  <2>5. CASE ArchiveActiveContest
    BY <2>5, ArchiveCounts
  <2>6. CASE RestoreFromJournal
    BY <2>6, ImportCounts
  <2>7. CASE LoseDatabase
    BY <2>7 DEF LoseDatabase, OneCountsPerStation, Rated, LiveRows
  <2>8. CASE qsos' = qsos
    BY <1>3, <2>8, SameLogCounts
  <2>9. qsos' = qsos \/ (Next /\ qsos' # qsos)
    BY DEF vars
  <2> QED
    BY <2>1, <2>2, <2>3, <2>4, <2>5, <2>6, <2>7, <2>8, <2>9
       DEF Next, LogQsoFails, SwitchContest, EditRules, ResetRules, ChangeBand, Restart
<1> QED
  BY <1>1, <1>2, <1>4

\* In every running log each station counts exactly once per key of the rules,
\* through logging, corrections, deletions, imports and archives, as long as a
\* deleted QSO is taken back while its own contest is active (DupeChecker,
\* DupeRescore, MainWindow::undoLastDelete).
THEOREM OneCountsForGood ==
    ASSUME FlagsAreWritten
    PROVE  Spec /\ [][UndoneAtHome]_vars => []OneCountsPerStation
<1>1. Init => CountInv
  <2>1. Init => TypeOK
    BY QsoLogAssumption DEF Init, TypeOK, NoQso
  <2> QED
    BY <2>1 DEF Init, CountInv, TableOfActive, OneCountsPerStation, Rated, LiveRows
<1>2. CountInv /\ [Next /\ UndoneAtHome]_vars => CountInv'
  BY CountStep
<1>3. [Next]_vars /\ [UndoneAtHome]_vars => [Next /\ UndoneAtHome]_vars
  OBVIOUS
<1>4. CountInv => OneCountsPerStation
  BY DEF CountInv
<1> QED
  BY <1>1, <1>2, <1>3, <1>4, PTL DEF Spec
=============================================================================
