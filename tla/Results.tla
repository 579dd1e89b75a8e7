------------------------------ MODULE Results ------------------------------
(***************************************************************************)
(* What the program makes of the log: data/ContestScoring,                 *)
(* data/ContestStatistics, data/MultiplierTracker, the readings of         *)
(* ui/RateMeterWidget, the files of data/EdiExporter and                   *)
(* data/CabrilloExporter and the message of core/OnlineScoreboard.  They   *)
(* read the same rows and must not contradict each other.                  *)
(***************************************************************************)
EXTENDS Integers, Sequences, FiniteSets, FiniteSetsExt, SequencesExt

CONSTANTS
    ResBands,      \* sequence: the bands of the contest's definition, in order
    ResStations,   \* who can be worked, see ResultsAssumption
    ResTimes,      \* when, in units of ten minutes
    ResScoring,    \* the definition's rule: "distance_km" or "qso_count"
    ResMaxQsos     \* bound: rows of the log

\* square: the first four characters of the locator, "" without one; six: all
\* six were given; km: the whole kilometres to it; serial: a number came with it.
ResultsAssumption ==
    /\ ResBands \in Seq(STRING) /\ ResMaxQsos \in Nat /\ ResTimes \subseteq Nat
    /\ ResScoring \in {"distance_km", "qso_count"}
    /\ \A s \in ResStations :
          /\ DOMAIN s = {"call", "square", "six", "km", "serial", "band"}
          /\ s.km \in Nat /\ s.six \in BOOLEAN /\ s.serial \in BOOLEAN
          /\ (s.six => s.square # "")
ASSUME ResultsAssumption

VARIABLE resLog    \* the rows by id: a station, its time, is_invalid

-----------------------------------------------------------------------------
(* The rows as the readers get them *)

ResIds == DOMAIN resLog

\* Who is read first: the log by its ids, the files by time.
ByTime(i, j) == \/ resLog[i].time < resLog[j].time
                \/ resLog[i].time = resLog[j].time /\ i < j
InOrder(rows, before(_, _)) ==
    [n \in 1..Cardinality(rows) |-> CHOOSE i \in rows : Cardinality({j \in rows : before(j, i)}) = n - 1]
InTimeOrder(rows) == InOrder(rows, ByTime)
ById(rows) == InOrder(rows, <)

\* As DupeRescore leaves the flags: the earliest row of one call on one band counts.
IsDupeRow(i) ==
    \E j \in ResIds : /\ ByTime(j, i) /\ ~resLog[i].invalid /\ ~resLog[j].invalid
                      /\ resLog[j].call = resLog[i].call /\ resLog[j].band = resLog[i].band

ValidRows == {i \in ResIds : ~resLog[i].invalid}
Counting == {i \in ValidRows : ~IsDupeRow(i)}
OnBand(rows, b) == {i \in rows : resLog[i].band = b}

QsoDistanceKm(i) == IF resLog[i].six THEN resLog[i].km ELSE -1

QsoDistancePoints(i) ==
    IF resLog[i].serial /\ QsoDistanceKm(i) >= 0 THEN QsoDistanceKm(i) + 1 ELSE 0

QsoPoints(i) ==
    IF i \notin Counting THEN 0
    ELSE IF ResScoring = "distance_km" THEN QsoDistancePoints(i) ELSE 1
Points == [i \in ResIds |-> QsoPoints(i)]

-----------------------------------------------------------------------------
(* computeContestScore over some rows, read in their order *)

\* The first of the farthest ones whose distance is known.
Odx(order) ==
    LET km(n) == QsoDistanceKm(order[n])
        known == {n \in DOMAIN order : order[n] \in Counting /\ km(n) >= 0}
        farthest == {n \in known : \A m \in known : km(m) <= km(n)}
    IN  IF known = {} THEN 0 ELSE order[Min(farthest)]

ScoreOf(order) ==
    LET rows == ToSet(order) IN
    [qsos    |-> Cardinality(rows \cap Counting),
     dupes   |-> Cardinality((rows \cap ValidRows) \ Counting),
     points  |-> SumFunctionOnSet(Points, rows),
     squares |-> Cardinality({resLog[i].square : i \in rows \cap Counting} \ {""}),
     odx     |-> Odx(order)]

\* Each band once, where it appears first: in the definition, else in the log.
ScoredBands ==
    LET log == ById(ValidRows)
        all == ResBands \o [n \in DOMAIN log |-> resLog[log[n]].band]
        first == ById({n \in DOMAIN all : \A m \in 1..(n - 1) : all[m] # all[n]})
    IN  [n \in DOMAIN first |-> all[first[n]]]

BandScores == [n \in DOMAIN ScoredBands |-> ScoreOf(ById(OnBand(ResIds, ScoredBands[n])))]

ContestScore == ScoreOf(ById(ResIds))

-----------------------------------------------------------------------------
(* computeContestStatistics *)

Hour == 6

HourRows_DupesToo ==
    LET hours == {resLog[i].time \div Hour : i \in ValidRows}
        row(h) == LET in == {i \in ValidRows : resLog[i].time \div Hour = h}
                  IN  [hour |-> h, qsos |-> Cardinality(in), points |-> SumFunctionOnSet(Points, in)]
    IN  [n \in 1..Cardinality(hours) |-> row(InOrder(hours, <)[n])]

\* Every hour from the first to the last of a log of up to 48 hours, else only
\* those with a QSO.
HourRows ==
    LET hours == {resLog[i].time \div Hour : i \in Counting}
        listed == IF hours = {} THEN {}
                  ELSE IF Max(hours) - Min(hours) <= 48 THEN Min(hours)..Max(hours) ELSE hours
        row(h) == LET in == {i \in Counting : resLog[i].time \div Hour = h}
                  IN  [hour |-> h, qsos |-> Cardinality(in), points |-> SumFunctionOnSet(Points, in)]
    IN  [n \in 1..Cardinality(listed) |-> row(InOrder(listed, <)[n])]

\* The first of equally busy ones.
BestHour ==
    LET rows == HourRows
        busiest == {n \in DOMAIN rows : \A m \in DOMAIN rows : rows[m].qsos <= rows[n].qsos}
    IN  IF rows = <<>> THEN [hour |-> 0, qsos |-> 0, points |-> 0] ELSE rows[Min(busiest)]

\* Furthest first, then earliest.
LongestList(maxLongest) ==
    LET rows == {i \in Counting : QsoDistancePoints(i) > 0}
        before(i, j) == \/ QsoDistancePoints(i) > QsoDistancePoints(j)
                        \/ QsoDistancePoints(i) = QsoDistancePoints(j) /\ ByTime(i, j)
        all == InOrder(rows, before)
    IN  SubSeq(all, 1, Min({maxLongest, Len(all)}))

\* A gap of half an hour or more is a break.
AirTime ==
    LET order == InTimeOrder(Counting)
        gap == [n \in 1..(Len(order) - 1) |-> resLog[order[n + 1]].time - resLog[order[n]].time]
        breaks == {n \in DOMAIN gap : gap[n] >= 3}
    IN  [on |-> SumFunctionOnSet(gap, DOMAIN gap \ breaks), off |-> SumFunctionOnSet(gap, breaks),
         breaks |-> Cardinality(breaks)]

\* StatisticsWindow::refresh: with one QSO there is no time on the air yet.
StatisticsShown ==
    [qsos |-> ContestScore.qsos, points |-> ContestScore.points, best |-> BestHour.qsos,
     onAir |-> IF ContestScore.qsos > 1 THEN AirTime.on ELSE -1,
     offAir |-> IF ContestScore.qsos > 1 THEN AirTime.off ELSE -1,
     bands |-> BandScores, hours |-> HourRows, longest |-> LongestList(10)]

-----------------------------------------------------------------------------
(* MultiplierTracker, by the large square, and the window of it *)

WorkedMultipliers_Scoring(b) ==
    {resLog[i].square : i \in {j \in OnBand(ValidRows, b) : QsoPoints(j) > 0}} \ {""}

\* A worked one counts as soon as its row is valid, a dupe too.
WorkedMultipliers(b) == {resLog[i].square : i \in OnBand(ValidRows, b)} \ {""}

TotalMultipliers == UNION {WorkedMultipliers(b) : b \in ToSet(ScoredBands)}

IsNeededMultiplier(b, square) == square # "" /\ square \notin WorkedMultipliers(b)

\* MultiplierWindow: one row per band of the definition and key, worked or not.
MultiplierRows ==
    LET keys == UNION {WorkedMultipliers(b) : b \in ToSet(ResBands)}
    IN  [p \in ToSet(ResBands) \X keys |-> p[2] \in WorkedMultipliers(p[1])]

-----------------------------------------------------------------------------
(* The files *)

\* bandsWithQsos: those of the definition, then the others.
EdiBands ==
    LET seen == {resLog[i].band : i \in ValidRows}
    IN  SelectSeq(ScoredBands, LAMBDA b : b \in seen)

EdiLine_NewByRow(rows, i) ==
    LET before == {j \in rows : ByTime(j, i)} IN
    [row |-> i, points |-> QsoPoints(i), dupe |-> IsDupeRow(i),
     new |-> /\ ~IsDupeRow(i) /\ resLog[i].square # ""
             /\ resLog[i].square \notin {resLog[j].square : j \in before}]

\* One line of a band file: its points, N for a new square, D for a dupe.
EdiLine(rows, i) ==
    LET before == {j \in rows : ByTime(j, i) /\ ~IsDupeRow(j)} IN
    [row |-> i, points |-> QsoPoints(i), dupe |-> IsDupeRow(i),
     new |-> /\ ~IsDupeRow(i) /\ resLog[i].square # ""
             /\ resLog[i].square \notin {resLog[j].square : j \in before}]

\* exportBand: the claimed numbers of the head and the lines they stand over.
EdiFile(b) ==
    LET rows == OnBand(ValidRows, b)
        order == InTimeOrder(rows)
    IN  [claimed |-> ScoreOf(order), records |-> Len(order),
         lines |-> [n \in DOMAIN order |-> EdiLine(rows, order[n])]]

\* exportContest: every valid row by time, dupes too; the category's band.
CabrilloFile ==
    LET bands == {resLog[i].band : i \in ValidRows} IN
    [band |-> IF Cardinality(bands) = 1 THEN CHOOSE b \in bands : TRUE ELSE "ALL",
     lines |-> InTimeOrder(ValidRows)]

\* OnlineScoreboard::buildXml: numbers per band and their total.
ScoreMessage ==
    [qsos |-> [n \in DOMAIN ScoredBands |-> Cardinality(OnBand(Counting, ScoredBands[n]))],
     points |-> [n \in DOMAIN ScoredBands |-> BandScores[n].points],
     totalQsos |-> ContestScore.qsos, totalPoints |-> ContestScore.points]

-----------------------------------------------------------------------------
(* The readings of the rate panel, at some minute *)

\* Dupes are contacts and rate; an invalid row is out for every purpose.
RateBreakdown(now) ==
    LET ago(i) == Max({0, now - resLog[i].time})
        upTo(old) == {i \in ValidRows : ago(i) <= old}
        hours == {resLog[i].time \div Hour : i \in ValidRows}
        busy(h) == Cardinality({i \in ValidRows : resLog[i].time \div Hour = h})
    IN  [total |-> Cardinality(ValidRows), last10 |-> Cardinality(upTo(1)),
         previous10 |-> Cardinality(upTo(2) \ upTo(1)), lastHour |-> Cardinality(upTo(Hour)),
         spark |-> [n \in 1..36 |-> Cardinality({i \in ValidRows : ago(i) = 36 - n})],
         best |-> Max({0} \cup {busy(h) : h \in hours}),
         byBand |-> [b \in {resLog[i].band : i \in ValidRows} |-> Cardinality(OnBand(ValidRows, b))]]

\* refresh(): the breakdown, the score when a distance can be known, the
\* multipliers over all bands.
RatePanel(now, gridSet) ==
    [breakdown |-> RateBreakdown(now),
     known |-> gridSet \/ ResScoring # "distance_km",
     points |-> IF gridSet \/ ResScoring # "distance_km" THEN ContestScore.points ELSE 0,
     multipliers |-> Cardinality(TotalMultipliers)]

-----------------------------------------------------------------------------
(* The log grows, and rows are struck out and taken back. *)

ResInit == resLog = <<>>

ResLogged(s, t) ==
    /\ Len(resLog) < ResMaxQsos
    /\ resLog' = Append(resLog, [call |-> s.call, square |-> s.square, six |-> s.six, km |-> s.km, serial |-> s.serial,
                                 band |-> s.band, time |-> t, invalid |-> FALSE])

ResMarkedInvalid(i) ==
    /\ resLog[i].invalid \/ ValidRows = ResIds   \* bound: one struck out at a time
    /\ resLog' = [resLog EXCEPT ![i].invalid = ~@]

ResNext ==
    \/ \E s \in ResStations, t \in ResTimes : ResLogged(s, t)
    \/ \E i \in ResIds : ResMarkedInvalid(i)

-----------------------------------------------------------------------------
(* Properties *)

\* Type invariant.
ResTypeOK ==
    /\ Len(resLog) <= ResMaxQsos
    /\ \A i \in ResIds :
          /\ resLog[i].time \in ResTimes /\ resLog[i].invalid \in BOOLEAN
          /\ \E s \in ResStations : \A f \in DOMAIN s : resLog[i][f] = s[f]

\* The head of an EDI file claims what a robot counts in its lines: the QSOs
\* that are not dupes, the sum of the points, one square per N, and as ODX a
\* distance no other line beats (EdiExporter::exportBand).
ClaimsMatchLines ==
    \A b \in ToSet(EdiBands) :
        LET file == EdiFile(b)
            lines == DOMAIN file.lines
            counted == {n \in lines : ~file.lines[n].dupe}
        IN  /\ file.records = Cardinality(OnBand(ValidRows, b))
            /\ file.claimed.qsos = Cardinality(counted)
            /\ file.claimed.points = SumFunction([n \in lines |-> file.lines[n].points])
            /\ file.claimed.squares = Cardinality({n \in lines : file.lines[n].new})
            /\ \A n \in lines : file.lines[n].dupe => file.lines[n].points = 0
            /\ file.claimed.odx # 0 =>
                  \A n \in counted : QsoDistanceKm(file.lines[n].row) <= QsoDistanceKm(file.claimed.odx)

\* One log has one result, wherever it is read: the panel, the statistics with
\* their hours and their time on the air, the scoreboard's message, the files
\* per band and the Cabrillo file agree ("the score on screen is the score in
\* the file, by construction", data/ContestScoring.h).
OneResult ==
    LET bands == DOMAIN ScoredBands
        rows == HourRows
        order == InTimeOrder(Counting)
    IN  /\ ContestScore.points = SumFunction([n \in bands |-> BandScores[n].points])
        /\ ContestScore.qsos = SumFunction([n \in bands |-> BandScores[n].qsos])
        /\ ContestScore.qsos + ContestScore.dupes = RateBreakdown(0).total
        /\ Len(CabrilloFile.lines) = RateBreakdown(0).total
        /\ ScoreMessage.totalQsos = SumFunction(ScoreMessage.qsos)
        /\ \A n \in bands :
              LET file == EdiFile(ScoredBands[n]).claimed IN
              /\ file.points = ScoreMessage.points[n] /\ file.qsos = ScoreMessage.qsos[n]
              /\ file.squares = BandScores[n].squares
        /\ ContestScore.points = SumFunction([n \in DOMAIN rows |-> rows[n].points])
        /\ ContestScore.qsos = SumFunction([n \in DOMAIN rows |-> rows[n].qsos])
        /\ RatePanel(0, TRUE).points = ContestScore.points
        /\ \A n \in DOMAIN rows : rows[n].qsos <= BestHour.qsos
        /\ \A n \in DOMAIN LongestList(2), i \in Counting \ ToSet(LongestList(2)) :
              QsoDistancePoints(i) <= QsoDistancePoints(LongestList(2)[n])
        /\ \A b \in ToSet(ResBands), k \in TotalMultipliers :
              <<b, k>> \in DOMAIN MultiplierRows => MultiplierRows[<<b, k>>] = ~IsNeededMultiplier(b, k)
        /\ Len(order) > 1 => StatisticsShown.onAir + StatisticsShown.offAir
                                = resLog[Last(order)].time - resLog[order[1]].time

\* What the bandmap, the chat and the window call a needed multiplier is worth
\* one: a station worked last, no dupe, whose square is needed raises the squares
\* claimed for the band (MultiplierTracker and ContestScoring count apart).
NeededStepIsNew ==
    \A b \in ToSet(ResBands), i \in 1..ResMaxQsos :
       LET squares == ScoreOf(ById(OnBand(ResIds, b))).squares
           new == /\ Len(resLog) < i /\ i <= Len(resLog')
                  /\ ~IsDupeRow(i)' /\ resLog'[i].band = b
                  /\ \A j \in ResIds : resLog[j].time <= resLog'[i].time
       IN  new /\ IsNeededMultiplier(b, resLog'[i].square) => squares' = squares + 1
NeededMeansNew == [][NeededStepIsNew]_resLog
=============================================================================
