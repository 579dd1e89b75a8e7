----------------------------- MODULE MCDeskLog -----------------------------
(***************************************************************************)
(* What stands around the log, in small instances for TLC: the entry row,   *)
(* the log panel, scores and files, the check of the log, the calendar of   *)
(* the contests, the skeds and the chat feeds.  The parts share no state,   *)
(* so that their interleavings would say nothing about any of them: a       *)
(* behaviour is one of a single part, chosen at the start, and the others   *)
(* lie asleep, their variables at a value that means nothing.               *)
(***************************************************************************)
EXTENDS EntryRow, LogTable, Results, LogCheck, ContestCalendar, Skeds, ChatFeed

CONSTANT Parts   \* the parts that are looked at
VARIABLE part    \* the part of this behaviour
deskVars == <<part, erVars, ltVars, resLog, chkLog, calVars, skVars, feedVars>>

-----------------------------------------------------------------------------
(* Values for the constants *)

\* The callbook knows one of two stations; no earlier contest knows either.
NothingEarlier == [c \in ErCalls |-> NoLocator]
OneInCallbook == [c \in ErCalls |-> IF c = "OE5A" THEN SixOf(c) ELSE NoLocator]

\* Contests with a locator, with a zone, with a free text, and with a single band.
Fields(seq, several) == [fields |-> seq, bands |-> several]
FourContests == {Fields(<<"rst", "int", "grid6">>, TRUE), Fields(<<"rst", "cqzone">>, TRUE),
                  Fields(<<"rst", "text">>, TRUE), Fields(<<"rst", "int", "grid6">>, FALSE)}

Stn(call, square, six, km, serial, band) ==
    [call |-> call, square |-> square, six |-> six, km |-> km, serial |-> serial, band |-> band]
\* The same station twice, two in one square, one without a number, one with
\* four characters of locator and on a band the contest has not.
FiveStations == {Stn("near", "JN67", TRUE, 0, TRUE, "144"), Stn("far", "JO31", TRUE, 500, TRUE, "144"),
                 Stn("far", "JO30", TRUE, 530, TRUE, "144"), Stn("mute", "JO30", TRUE, 540, FALSE, "144"),
                 Stn("four", "JO31", FALSE, 0, TRUE, "1296")}
BandsInOrder == <<"144", "432">>

Flawed(s, flaws) == [flaws |-> flaws] @@ s
FlawedStations == {Flawed(Stn("near", "JN67", TRUE, 0, TRUE, "144"), {}),
                   Flawed(Stn("far", "JO31", FALSE, 500, TRUE, "144"), {"rst_odd"}),
                   Flawed(Stn("far", "JO30", TRUE, 530, FALSE, "144"), {}),
                   Flawed(Stn("near", "JN68", TRUE, 50, TRUE, "432"), {"bad_time"})}

Rule(month, weekend, day, minute, hours, never, except) ==
    [month |-> month, weekend |-> weekend, day |-> day, minute |-> minute, hours |-> hours,
     neverOn |-> never, exceptions |-> except]
\* The last weekend of a month, one from its Friday on, one never on New Year's
\* Day, one with an exception, and an ordinary one.
FiveRules == {Rule(10, -1, "sat", 0, 48, {}, {}), Rule(1, -1, "fri", 1320, 48, {}, {}),
              Rule(1, 1, "fri", 1080, 30, {<<1, 1>>}, {}), Rule(2, -1, "fri", 1320, 48, {}, {<<2026, 2, 27>>}),
              Rule(11, 1, "sat", 840, 24, {}, {})}
TwoYears == 2026..2027

Spot(call, band, square, near, beacon) ==
    [call |-> call, band |-> band, square |-> square, near |-> near, beacon |-> beacon]
ThreeSpots == {Spot("OK1A", "144", "JO70", {"home", "hill"}, FALSE), Spot("DL2B", "", "JN58", {"hill"}, FALSE),
               Spot("OE5X", "432", "JN78", {"home", "hill"}, TRUE)}

-----------------------------------------------------------------------------
Asleep == 0

EntryInit ==
    IF part = "entry" THEN ErInit
    ELSE /\ erCall = Asleep /\ erGrid = Asleep /\ erGridAuto = Asleep /\ erNumber = Asleep /\ erRst = Asleep
         /\ erRstAuto = Asleep /\ erBand = Asleep /\ erMode = Asleep /\ erPill = Asleep /\ erTimer = Asleep
         /\ erArmed = Asleep /\ erLog = Asleep /\ erTable = Asleep /\ erAsked = Asleep /\ erKey = Asleep
         /\ erAccount = Asleep /\ erSettings = Asleep
TableInit ==
    IF part = "table" THEN LtInit
    ELSE /\ ltContest = Asleep /\ ltSaved = Asleep /\ ltTable = Asleep /\ ltLog = Asleep /\ ltFocus = Asleep
         /\ ltDraft = Asleep /\ ltEdits = Asleep
CalendarInit ==
    IF part = "calendar" THEN CalInit
    ELSE calRule = Asleep /\ calEnd = Asleep /\ calNow = Asleep /\ calShown = Asleep /\ calLog = Asleep
SkedsInit ==
    IF part = "skeds" THEN SkedInit
    ELSE /\ skTable = Asleep /\ skList = Asleep /\ skAlarmed = Asleep /\ skContest = Asleep /\ skLog = Asleep
         /\ skNow = Asleep /\ skSettled = Asleep /\ skFaults = Asleep

DeskInit ==
    /\ part \in Parts
    /\ EntryInit /\ TableInit /\ ResInit /\ ChkInit /\ CalendarInit /\ SkedsInit
    /\ IF part = "feed" THEN FeedInit ELSE fd = Asleep

DeskNext ==
    \/ part = "entry" /\ ErNext /\ UNCHANGED <<part, ltVars, resLog, chkLog, calVars, skVars, feedVars>>
    \/ part = "table" /\ LtNext /\ UNCHANGED <<part, erVars, resLog, chkLog, calVars, skVars, feedVars>>
    \/ part = "results" /\ ResNext /\ UNCHANGED <<part, erVars, ltVars, chkLog, calVars, skVars, feedVars>>
    \/ part = "check" /\ ChkNext /\ UNCHANGED <<part, erVars, ltVars, resLog, calVars, skVars, feedVars>>
    \/ part = "calendar" /\ CalNext /\ UNCHANGED <<part, erVars, ltVars, resLog, chkLog, skVars, feedVars>>
    \/ part = "skeds" /\ SkedNext /\ UNCHANGED <<part, erVars, ltVars, resLog, chkLog, calVars, feedVars>>
    \/ part = "feed" /\ FeedNext /\ UNCHANGED <<part, erVars, ltVars, resLog, chkLog, calVars, skVars>>

DeskSpec == DeskInit /\ [][DeskNext]_deskVars

-----------------------------------------------------------------------------
(* The properties of the parts, each looked at in the behaviours of its part. *)

\* Type invariant: those of the parts.
DeskTypeOK ==
    /\ part \in Parts
    /\ part = "entry" => ErTypeOK
    /\ part = "table" => LtTypeOK
    /\ part = "results" => ResTypeOK
    /\ part = "check" => ChkTypeOK
    /\ part = "calendar" => CalTypeOK
    /\ part = "skeds" => SkedTypeOK
    /\ part = "feed" => FeedTypeOK

\* DUPE in the entry row is the log's answer, and no column, cell or editor of
\* the panel tells of another row, see EntryRow (UnifiedLogWidget::setDupeState)
\* and LogTable (UnifiedLogWidget::applyDistanceColumnsVisibility).
RowsAreTrue == (part = "entry" => DupePillIsTrue) /\ (part = "table" => LogPanelIsTrue)
\* A locator, at the moment it is filled in, is one known of the callsign in the row,
\* see EntryRow (MainWindow::applyResolvedGrid).
RowIsFilledForTheCall == [][part = "entry" => FilledForTheCall]_deskVars
\* An untouched cell costs nothing, see LogTable
\* (MainWindow::handleHistoryExchangeEditRequested).
LeavingACellKeepsTheRow == [][part = "table" => UntouchedRow]_deskVars
\* The EDI file claims what its lines add up to, and panels and files of one log
\* say the same, see Results (EdiExporter::exportBand, scoreContest).
LogHasOneResult == part = "results" => ClaimsMatchLines /\ OneResult
\* A multiplier called needed counts when worked, see Results (MultiplierTracker).
NeededCountsWhenWorked == [][part = "results" => NeededStepIsNew]_deskVars
\* Nothing scores zero unreported, and no more numbers are blamed than need be,
\* see LogCheck (checkLog).
LogCheckIsRight == part = "check" => NoSilentZero /\ OrderBlamesFewest
\* The contest that is on, see ContestCalendar (effectiveWindow).
CalendarKnowsTheContest == part = "calendar" => RunningContestIsKnown
\* Skeds and feeds follow the log and the clock, see Skeds (SkedList) and
\* ChatFeed (ChatFeedModel).
ChatPanelsAreCurrent == (part = "skeds" => SkedListIsCurrent) /\ (part = "feed" => FeedFollowsTheLog)
=============================================================================
