------------------------------ MODULE LogCheck ------------------------------
(***************************************************************************)
(* Before the log is sent in: data/LogCheck and the question asked before  *)
(* an export.  The contest exchanges a number and a locator.               *)
(***************************************************************************)
EXTENDS Integers, Sequences, FiniteSets, FiniteSetsExt

CONSTANTS
    ChkStations,   \* as ResStations, with flaws: the tests of its own row it fails
    ChkSerials,    \* the numbers a row may have been sent with
    ChkMaxRows     \* bound: rows of the log

\* What a row's own data may have wrong.
Flaws == {"own_call", "beacon", "callsign_odd", "distance_implausible", "rst_missing", "rst_odd",
          "mode_not_allowed", "freq_band_mismatch", "outside_window", "bad_time"}

LogCheckAssumption ==
    /\ ChkSerials \subseteq Nat /\ ChkMaxRows \in Nat
    /\ \A s \in ChkStations :
          /\ DOMAIN s = {"call", "square", "six", "km", "serial", "band", "flaws"}
          /\ s.km \in Nat /\ s.six \in BOOLEAN /\ s.serial \in BOOLEAN /\ s.flaws \subseteq Flaws
ASSUME LogCheckAssumption

VARIABLE chkLog   \* the rows in the order of their times; sent: 0 is no number

\* What the rows are worth.
Worth == INSTANCE Results WITH resLog <- chkLog, ResBands <- <<"144">>, ResStations <- ChkStations,
                               ResTimes <- 1..ChkMaxRows, ResScoring <- "distance_km", ResMaxQsos <- ChkMaxRows

ChkActive == {i \in DOMAIN chkLog : ~chkLog[i].invalid}

Dupe(i) == Worth!IsDupeRow(i)

Issue(level, code, i) == [level |-> level, code |-> code, row |-> i]

-----------------------------------------------------------------------------
(* The tests of a row by itself *)

FlawErrors == {"own_call", "beacon", "mode_not_allowed", "outside_window", "bad_time"}

RowIssues_AnyLocator(i) ==
    {Issue("error", f, i) : f \in chkLog[i].flaws \cap FlawErrors}
        \cup (IF ~Dupe(i) /\ chkLog[i].square = "" THEN {Issue("error", "no_locator", i)} ELSE {})
        \cup (IF ~Dupe(i) /\ ~chkLog[i].serial THEN {Issue("error", "serial_rcvd_missing", i)} ELSE {})

\* A dupe is not held to the exchange.
RowIssues(i) ==
    LET row == chkLog[i]
        error(code) == {Issue("error", code, i)}
        flaws == {f \in row.flaws : f \in {"rst_missing", "rst_odd", "distance_implausible"} => ~Dupe(i)}
    IN  {Issue(IF f \in FlawErrors THEN "error" ELSE "warning", f, i) : f \in flaws}
        \cup (IF ~Dupe(i) /\ row.square = "" THEN error("no_locator") ELSE {})
        \cup (IF ~Dupe(i) /\ row.square # "" /\ ~row.six THEN error("bad_locator") ELSE {})
        \cup (IF ~Dupe(i) /\ ~row.serial THEN error("serial_rcvd_missing") ELSE {})

\* One call with several locators: the most frequent is presumed, the earliest of
\* equals; every other row is warned about.
LocatorIssues ==
    LET rows(c) == {i \in ChkActive : chkLog[i].call = c /\ chkLog[i].six /\ ~Dupe(i)}
        with(c, q) == Cardinality({i \in rows(c) : chkLog[i].square = q})
        better(c, i, j) == \/ with(c, chkLog[i].square) > with(c, chkLog[j].square)
                           \/ with(c, chkLog[i].square) = with(c, chkLog[j].square) /\ i <= j
        presumed(c) == CHOOSE i \in rows(c) : \A j \in rows(c) : better(c, i, j)
    IN  UNION {{Issue("warning", "locator_inconsistent", i) :
                    i \in {k \in rows(c) : chkLog[k].square # chkLog[presumed(c)].square}}
               : c \in {chkLog[i].call : i \in {k \in ChkActive : rows(chkLog[k].call) # {}}}}

-----------------------------------------------------------------------------
(* The numbers sent: there, unique, ascending in time, without gaps *)

\* Per band, as the definition's serialScope has it.
SentOn(b) == {i \in ChkActive : chkLog[i].band = b /\ chkLog[i].sent > 0}

SecondUse(b) == {i \in SentOn(b) : \E j \in SentOn(b) : j < i /\ chkLog[j].sent = chkLog[i].sent}

\* A row's number is its place in time.
SentSequence(b) == {i \in SentOn(b) \ SecondUse(b) : "bad_time" \notin chkLog[i].flaws}

\* runFrom: the longest ascending run that starts at each row.
RunFrom(rows) ==
    LET longest[i \in rows] ==
            Max({1} \cup {longest[j] + 1 : j \in {k \in rows : k > i /\ chkLog[k].sent > chkLog[i].sent}})
    IN  longest

InRun_SoFarHighest(rows) ==
    {i \in rows : \A k \in rows : k < i => chkLog[k].sent < chkLog[i].sent}

\* One pass: a row is taken whose run is as long as still needed.
Take(run, acc, i) ==
    IF i \in DOMAIN run /\ run[i] = acc.need /\ chkLog[i].sent > acc.last
    THEN [need |-> acc.need - 1, last |-> chkLog[i].sent, taken |-> acc.taken \cup {i}]
    ELSE acc

InRun(rows) ==
    LET run == RunFrom(rows)
        all == [need |-> Max({0} \cup {run[i] : i \in rows}), last |-> 0, taken |-> {}]
        pass[n \in 0..Len(chkLog)] == IF n = 0 THEN all ELSE Take(run, pass[n - 1], n)
    IN  pass[Len(chkLog)].taken

OutOfOrder(b) == SentSequence(b) \ InRun(SentSequence(b))

\* A number a struck-out row has used explains a gap.
SentGaps(b) ==
    LET used == {chkLog[i].sent : i \in SentOn(b)}
        struck == {chkLog[i].sent : i \in {k \in DOMAIN chkLog : chkLog[k].invalid /\ chkLog[k].band = b}}
    IN  (1..Max({0} \cup used)) \ (used \cup struck)

SerialIssues(b) ==
    {Issue("error", "serial_sent_missing", i) : i \in {k \in ChkActive : chkLog[k].band = b /\ chkLog[k].sent = 0}}
    \cup {Issue("error", "serial_sent_duplicate", i) : i \in SecondUse(b)}
    \cup {Issue("warning", "serial_sent_order", i) : i \in OutOfOrder(b)}
    \cup (IF SentGaps(b) = {} THEN {} ELSE {Issue("hint", "serial_sent_gap", 0)})

-----------------------------------------------------------------------------
(* The result, and who asks for it *)

CheckLog ==
    (UNION {RowIssues(i) : i \in ChkActive}) \cup LocatorIssues
    \cup (UNION {SerialIssues(b) : b \in {chkLog[i].band : i \in ChkActive}})
    \cup (IF \E i \in ChkActive : Dupe(i) THEN {Issue("hint", "dupes", 0)} ELSE {})
    \cup (IF ChkActive # DOMAIN chkLog THEN {Issue("hint", "invalid", 0)} ELSE {})
    \cup (IF ChkActive = {} THEN {Issue("hint", "empty", 0)} ELSE {})

Errors == {x \in CheckLog : x.level = "error"}

\* The window and both export dialogs.
Submittable == Errors = {}

\* confirmExportDespiteLogErrors() and exportNow(): asked when there are errors.
ExportGoesAhead(answer) == Submittable \/ answer = "trotzdem"

-----------------------------------------------------------------------------
ChkInit == chkLog = <<>>

ChkLogged(s, sent) ==
    /\ Len(chkLog) < ChkMaxRows
    /\ chkLog' = Append(chkLog, [call |-> s.call, square |-> s.square, six |-> s.six, km |-> s.km, serial |-> s.serial,
                                 band |-> s.band, flaws |-> s.flaws, sent |-> sent, time |-> Len(chkLog) + 1,
                                 invalid |-> FALSE])

ChkStruckOut(i) ==
    /\ i \in ChkActive /\ ChkActive = DOMAIN chkLog   \* bound: one
    /\ chkLog' = [chkLog EXCEPT ![i].invalid = TRUE]

ChkNext ==
    \/ \E s \in ChkStations, sent \in ChkSerials : ChkLogged(s, sent)
    \/ \E i \in DOMAIN chkLog : ChkStruckOut(i)

-----------------------------------------------------------------------------
(* Properties *)

\* What can be reported: of a row, of a number sent, of the log.
Codes == Flaws \cup {"no_locator", "bad_locator", "serial_rcvd_missing", "locator_inconsistent",
                     "serial_sent_missing", "serial_sent_duplicate", "serial_sent_order", "serial_sent_gap",
                     "dupes", "invalid", "empty"}

\* Type invariant: the rows are rows, and what is reported has a known code.
ChkTypeOK ==
    /\ Len(chkLog) <= ChkMaxRows
    /\ \A i \in DOMAIN chkLog : chkLog[i].sent \in ChkSerials /\ chkLog[i].invalid \in BOOLEAN
    /\ CheckLog \subseteq [level : {"error", "warning", "hint"}, code : Codes, row : 0..ChkMaxRows]

\* A log the check calls ready to be sent holds no contact that would count
\* nothing: with the own locator complete, every row that is no dupe scores
\* (LogCheck and ContestScoring decide apart what an incomplete contact is).
NoSilentZero ==
    \A i \in ChkActive \ {x.row : x \in Errors} : Dupe(i) \/ Worth!QsoPoints(i) > 0

Ascends(rows) == \A i, j \in rows : i < j => chkLog[i].sent < chkLog[j].sent

\* A mistyped time or number is blamed once: the rows reported as out of order
\* are as few as can be, and without them the numbers ascend ("not every QSO
\* that happens to follow it", data/LogCheck.cpp).
OrderBlamesFewest ==
    \A b \in {chkLog[i].band : i \in ChkActive} :
        LET kept == SentSequence(b) \ OutOfOrder(b)
        IN  /\ Ascends(kept)
            /\ \A rows \in SUBSET SentSequence(b) : Ascends(rows) => Cardinality(rows) <= Cardinality(kept)
=============================================================================
