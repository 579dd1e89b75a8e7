--------------------------- MODULE ContestCalendar ---------------------------
(***************************************************************************)
(* When a contest runs: data/ContestSchedule works the window out for any  *)
(* year, and the clock of the header, the contest picker, the note at      *)
(* logging time, the log check and the EDI header each ask it in their own *)
(* way.  A day is a number, 0 is 1 January 2000, a Saturday; a time is a   *)
(* number of minutes.                                                      *)
(***************************************************************************)
EXTENDS Integers, FiniteSets, FiniteSetsExt

CONSTANTS
    CalRules,   \* the schedules looked at, see Schedules
    CalYears,   \* bound: the years the clock goes through
    CalTest,    \* minutes before a contest at which the dry run is logged
    CalMaxQsos  \* bound: QSOs in the log

CalendarAssumption ==
    /\ CalYears \subseteq 2000..2099 /\ CalYears # {} /\ CalMaxQsos \in Nat /\ CalTest \in Nat
    /\ \A r \in CalRules :
          /\ r.month \in 1..12 /\ r.weekend \in Int /\ r.day \in {"fri", "sat", "sun"}
          /\ r.minute \in 0..1439 /\ r.hours \in Int
          /\ \A x \in r.exceptions : x[1] \in Int /\ x[2] \in 1..12 /\ x[3] \in 1..31
ASSUME CalendarAssumption

VARIABLES
    calRule,   \* the schedule of the active contest
    calEnd,    \* ContestSettings::contestEndUtc, NoEnd when empty
    calNow,    \* minutes since the start of 2000
    calShown,  \* the window the header's clock was given
    calLog     \* the log: [at, noted], noted: a note said it lies outside

calVars == <<calRule, calEnd, calNow, calShown, calLog>>

-----------------------------------------------------------------------------
(* The calendar (QDate) *)

IsLeap(year) == year % 4 = 0

MonthLength(year, month) ==
    CASE month = 2 -> IF IsLeap(year) THEN 29 ELSE 28
      [] month \in {4, 6, 9, 11} -> 30
      [] month \in {1, 3, 5, 7, 8, 10, 12} -> 31

YearStart(year) == 365 * (year - 2000) + (year - 2000 + 3) \div 4
DaysBefore == <<0, 31, 59, 90, 120, 151, 181, 212, 243, 273, 304, 334>>
Date(year, month, day) ==
    YearStart(year) + DaysBefore[month] + (IF month > 2 /\ IsLeap(year) THEN 1 ELSE 0) + day - 1
YearOf(minute) == CHOOSE y \in 1999..2101 : minute \div 1440 \in YearStart(y)..(YearStart(y + 1) - 1)

\* 1 is Monday, as in Qt.
DayOfWeek(day) == ((day + 5) % 7) + 1
IsSaturday(day) == DayOfWeek(day) = 6

-----------------------------------------------------------------------------
(* ContestSchedule *)

NoWindow == [start |-> 0, end |-> 0]
WindowIsValid(w) == w.start < w.end
InWindow(w, t) == WindowIsValid(w) /\ t \in w.start..w.end

\* Far stands for numeric_limits<qint64>::max().
Far == 2147483647
DistanceTo(w, t) ==
    IF ~WindowIsValid(w) THEN Far
    ELSE IF t < w.start THEN w.start - t ELSE IF t > w.end THEN t - w.end ELSE 0

RuleIsValid(r) ==
    /\ r.month \in 1..12 /\ r.weekend \in (-5..-1) \cup 1..5
    /\ r.day \in {"fri", "sat", "sun"} /\ r.hours \in 1..168

WindowFrom(r, day) == [start |-> 1440 * day + r.minute, end |-> 1440 * day + r.minute + 60 * r.hours]

\* The nth Saturday, counted from the first of the month or back from its last Sunday.
FromTheStart(year, r) ==
    LET first == Date(year, r.month, 1)
    IN first + ((6 - DayOfWeek(first) + 7) % 7) + 7 * (r.weekend - 1)

FromTheEnd_LastSaturday(year, r) ==
    LET last == Date(year, r.month, MonthLength(year, r.month))
    IN last - ((DayOfWeek(last) - 6 + 7) % 7) - 7 * (-r.weekend - 1)
FromTheEnd(year, r) ==
    LET last == Date(year, r.month, MonthLength(year, r.month))
    IN last - ((DayOfWeek(last) - 7 + 7) % 7) - 1 - 7 * (-r.weekend - 1)

\* A forbidden date moves the start a week on; no rule of the program forbids
\* a date twice.
NotOn(year, r, day) ==
    IF r.neverOn # {} /\ \E d \in r.neverOn : day = Date(year, d[1], d[2]) THEN day + 7 ELSE day

WindowIn(r, year) ==
    IF ~RuleIsValid(r) THEN NoWindow
    ELSE LET saturday == IF r.weekend >= 1 THEN FromTheStart(year, r) ELSE FromTheEnd(year, r)
             day == CASE r.day = "sat" -> saturday [] r.day = "sun" -> saturday + 1 [] r.day = "fri" -> saturday - 1
             moved == {x \in r.exceptions : x[1] = year}
         IN IF r.weekend < 0 /\ saturday < Date(year, r.month, 1) THEN NoWindow
            ELSE IF moved # {} THEN WindowFrom(r, Date(year, (CHOOSE x \in moved : TRUE)[2], (CHOOSE x \in moved : TRUE)[3]))
            ELSE WindowFrom(r, NotOn(year, r, day))

\* The first of equally near ones.
WindowNearest(r, t) ==
    IF ~RuleIsValid(r) THEN NoWindow
    ELSE LET y == YearOf(t)
             near == Min({DistanceTo(WindowIn(r, c), t) : c \in (y - 1)..(y + 1)})
         IN IF near = Far THEN NoWindow
            ELSE WindowIn(r, Min({c \in (y - 1)..(y + 1) : DistanceTo(WindowIn(r, c), t) = near}))

WindowUpcoming(r, t) ==
    LET ahead == {y \in YearOf(t)..(YearOf(t) + 1) : WindowIsValid(WindowIn(r, y)) /\ t <= WindowIn(r, y).end}
    IN IF ~RuleIsValid(r) \/ ahead = {} THEN NoWindow ELSE WindowIn(r, Min(ahead))

\* The operator's end of the contest wins over the schedule.
NoEnd == -1
EffectiveWindow(r, end, t) ==
    IF end = NoEnd THEN WindowNearest(r, t)
    ELSE [start |-> end - 60 * (IF RuleIsValid(r) THEN r.hours ELSE 24), end |-> end]

-----------------------------------------------------------------------------
(* Who asks it *)

\* MainWindow::applyClockSettings(): the clock counts to the next occurrence.
ClockWindow(r, end, t) == IF end = NoEnd THEN WindowUpcoming(r, t) ELSE EffectiveWindow(r, end, t)

\* formatCountdown(), as what it says.
Countdown(w, t) ==
    IF ~WindowIsValid(w) THEN "unknown"
    ELSE IF t < w.start THEN "start in" ELSE IF t > w.end THEN "over" ELSE "left"

\* The picker: a running contest comes first, then the one that starts soonest.
PickerRank(r, t) ==
    LET w == WindowUpcoming(r, t)
    IN IF ~RuleIsValid(r) \/ ~WindowIsValid(w) THEN Far ELSE IF InWindow(w, t) THEN -1 ELSE w.start - t
PickerFirst(rules, t) == {r \in rules : \A s \in rules : PickerRank(r, t) <= PickerRank(s, t)}

\* logCheckContextFor() and EdiExporter::exportBand(): the window nearest to the
\* first QSO of the log.
CheckWindow(r, end, log, t) ==
    EffectiveWindow(r, end, IF log = {} THEN t ELSE Min({q.at : q \in log}))

-----------------------------------------------------------------------------
(* Time passes to the next edge of a contest; QSOs are logged; the end is set  *)

\* What the rules of the contest say, found by looking at every day of the month.
FullWeekends(year, month) ==
    {d \in Date(year, month, 1)..Date(year, month, MonthLength(year, month)) :
        IsSaturday(d) /\ d < Date(year, month, MonthLength(year, month))}
NthFullWeekend(year, r) ==
    LET all == FullWeekends(year, r.month)
    IN IF r.weekend > 0 THEN {d \in all : Cardinality({e \in all : e <= d}) = r.weekend}
                        ELSE {d \in all : Cardinality({e \in all : e >= d}) = -r.weekend}
StatedStart(year, r) ==
    IF \E x \in r.exceptions : x[1] = year
    THEN {Date(x[1], x[2], x[3]) : x \in {x \in r.exceptions : x[1] = year}}
    ELSE LET days == {CASE r.day = "sat" -> d [] r.day = "sun" -> d + 1 [] r.day = "fri" -> d - 1 : d \in NthFullWeekend(year, r)}
         IN {IF \E n \in r.neverOn : d = Date(year, n[1], n[2]) THEN d + 7 ELSE d : d \in days}
StatedWindows(r) == {WindowFrom(r, d) : d \in UNION {StatedStart(y, r) : y \in CalYears}}

\* What the windows rely on.  That a rule is complete and has one date for a
\* year is checked where it is read (fromJson); the rest is so of contests: a date
\* set for a year lies in the rule's month or the one before or after, and in a
\* month that has the weekend the rule counts from; no contest runs into the next
\* year (windowUpcoming() would miss what is left of it); the dry run is at most a
\* quarter ahead.
OrdinaryContests ==
    /\ CalTest <= 1440 * 90
    /\ \A r \in CalRules :
          /\ RuleIsValid(r)
          /\ \A x, z \in r.exceptions : x[1] = z[1] => x = z
          /\ \A x \in r.exceptions :
                /\ Date(x[1], x[2], x[3]) - Date(x[1], r.month, 1) \in -31..61
                /\ r.weekend < 0 /\ x[1] \in CalYears => NthFullWeekend(x[1], r) # {}
          /\ \A y \in CalYears : \A d \in StatedStart(y, r) : WindowFrom(r, d).end < 1440 * YearStart(y + 1)
ASSUME OrdinaryContests

Edges(r) == UNION {{w.start - CalTest, w.start, w.start + 90, w.end, w.end + 1} : w \in StatedWindows(r)}

CalInit ==
    /\ calRule \in CalRules /\ calEnd = NoEnd /\ calLog = {}
    /\ calNow = 1440 * Date(Min(CalYears), 1, 1)
    /\ calShown = ClockWindow(calRule, calEnd, calNow)

TimePasses ==
    /\ \E t \in Edges(calRule) : t > calNow /\ calNow' = Min({e \in Edges(calRule) : e > calNow})
    /\ UNCHANGED <<calRule, calEnd, calShown, calLog>>

\* At the start, after the settings dialog and after another contest was picked.
ApplyClockSettings ==
    /\ calShown' = ClockWindow(calRule, calEnd, calNow)
    /\ UNCHANGED <<calRule, calEnd, calNow, calLog>>

\* A note, not a refusal.
CalLogged ==
    /\ Cardinality(calLog) < CalMaxQsos
    /\ LET w == EffectiveWindow(calRule, calEnd, calNow)
       IN calLog' = calLog \cup {[at |-> calNow, noted |-> WindowIsValid(w) /\ ~InWindow(w, calNow)]}
    /\ UNCHANGED <<calRule, calEnd, calNow, calShown>>

\* The settings dialog: the end of a contest typed in, or the field cleared.
SetContestEnd ==
    /\ calEnd' \in {NoEnd} \cup {w.end : w \in {v \in StatedWindows(calRule) : calNow \in (v.start - CalTest)..v.end}}
    /\ calEnd' # calEnd
    /\ calShown' = ClockWindow(calRule, calEnd', calNow)
    /\ UNCHANGED <<calRule, calNow, calLog>>

\* A new log begins: the old one goes to the archive.
CalNewLog == calLog # {} /\ calLog' = {} /\ UNCHANGED <<calRule, calEnd, calNow, calShown>>

CalNext == TimePasses \/ ApplyClockSettings \/ CalLogged \/ SetContestEnd \/ CalNewLog
CalSpec == CalInit /\ [][CalNext]_calVars

-----------------------------------------------------------------------------
(* Properties *)

\* Type invariant.
CalTypeOK ==
    /\ calRule \in CalRules /\ calEnd \in Int /\ calNow \in Nat
    /\ DOMAIN calShown = {"start", "end"} /\ \A q \in calLog : q.at <= calNow

\* While a contest runs by its rules (the nth full weekend, an exception, a date
\* it is never on), the header says so after the next look at the settings, the
\* picker has it first, and a QSO gets no note; and a QSO of the contest lies in
\* the period the log check and the EDI file go by, as long as the log begins no
\* earlier than the dry run and no end was typed in for another year.
RunningContestIsKnown ==
    \A w \in StatedWindows(calRule) :
        /\ calNow \in w.start..w.end /\ calEnd = NoEnd =>
              /\ Countdown(ClockWindow(calRule, calEnd, calNow), calNow) = "left"
              /\ calRule \in PickerFirst(CalRules, calNow)
        /\ \A q \in calLog : q.at \in w.start..w.end /\ calEnd \in {NoEnd, w.end} =>
              /\ (\A p \in calLog : p.at >= w.start - CalTest) => InWindow(CheckWindow(calRule, calEnd, calLog, calNow), q.at)
=============================================================================
