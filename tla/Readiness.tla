------------------------------ MODULE Readiness ------------------------------
(***************************************************************************)
(* The readiness window before the start: data/ReadinessCheck, the main    *)
(* window that collects its facts, and core/ClockCheck, which compares the *)
(* PC's clock with the Date of a web server.  Time is in minutes.          *)
(***************************************************************************)
EXTENDS Integers

CONSTANTS
    ClockUrls,     \* how many servers are asked in turn
    ClockErrors,   \* minutes the PC's clock may be ahead of the true time
    RdyHorizon     \* bound: how long a wait is counted

ReadinessAssumption ==
    ClockUrls \in Nat \ {0} /\ ClockErrors \subseteq Int /\ 0 \in ClockErrors /\ RdyHorizon \in Nat
ASSUME ReadinessAssumption

VARIABLES
    rdyOpen,     \* the window is shown
    rdyShown,    \* what its verdict was made from, see Facts
    station,     \* what checkReadiness() looks at besides the clock, see SetUp
    rdyOnline,   \* there is a network
    clockAhead,  \* minutes the PC's clock is ahead
    clockAsked,  \* m_next: servers asked in the running check; 0 is not running
    clockResult, \* of the last finished check: [asked, reached, off], off in minutes
    clockAge,    \* PC minutes since that check finished, by the PC's clock
    clockSince   \* true minutes since a check began or the window was opened

rdyVars == <<rdyOpen, rdyShown, station, rdyOnline, clockAhead, clockAsked, clockResult, clockAge, clockSince>>

-----------------------------------------------------------------------------
(* checkReadiness(): one item for each thing looked at.  A fact the operator   *)
(* does not change in this model is a field of station all the same.           *)

Never == [asked |-> FALSE, reached |-> FALSE, off |-> 0]
Unreachable == [asked |-> TRUE, reached |-> FALSE, off |-> 0]
TimeIs(off) == [asked |-> TRUE, reached |-> TRUE, off |-> off]

\* The station as it is set up: nothing wrong but the heights and the links
\* nobody configured.
SetUp == [call |-> TRUE, grid |-> 6, exact |-> "off", height |-> 0, radius |-> 0,
          contest |-> TRUE, window |-> "before", qsos |-> 0,
          microwave |-> FALSE, transverter |-> "none",
          cat |-> "off", rotors |-> <<"off", "off">>, chat |-> "off", cluster |-> "off",
          folder |-> TRUE, copies |-> FALSE, mirror |-> "none",
          terrain |-> TRUE, locators |-> FALSE, countries |-> FALSE, countryMatters |-> FALSE]

Item(code, level) == [code |-> code, level |-> level]

GridLevel(s) ==
    IF s.grid # 6 THEN "error"
    ELSE IF s.exact \in {"empty", "elsewhere"} THEN "warning" ELSE "ok"

ClockLevel(result) ==
    IF ~result.asked \/ ~result.reached THEN "hint"
    ELSE IF result.off = 0 THEN "ok" ELSE IF result.off \in {-1, 1} THEN "warning" ELSE "error"

StationItems(s, clock) ==
    {Item("own_call", IF s.call THEN "ok" ELSE "error"), Item("own_grid", GridLevel(s)),
     Item("own_elevation", IF s.height <= 0 THEN "hint" ELSE "ok"),
     Item("clock", ClockLevel(clock)),
     Item("radius", IF s.radius > 0 /\ s.radius < 500 THEN "hint" ELSE "ok")}

ContestItems(s) ==
    (IF ~s.contest THEN {Item("contest", "error")}
     ELSE {Item("contest", "ok"),
           Item("window", CASE s.window = "none" -> "hint" [] s.window = "over" -> "warning"
                            [] s.window \in {"before", "running"} -> "ok"),
           Item("log", IF s.qsos > 0 /\ s.window = "before" THEN "warning" ELSE "ok")})
    \cup (CASE s.transverter = "active" -> {Item("transverter", "ok")}
            [] s.transverter = "configured" -> {Item("transverter", "hint")}
            [] s.transverter = "none" ->
                  IF s.contest /\ s.microwave THEN {Item("transverter", "hint")} ELSE {})

LinkLevel(link) == CASE link = "off" -> "hint" [] link = "connected" -> "ok"
                     [] link = "disconnected" -> "warning" [] link = "failed" -> "error"

LinkItems(s) ==
    {Item("cat", LinkLevel(s.cat)), Item("rotor1", LinkLevel(s.rotors[1])),
     Item("rotor2", LinkLevel(s.rotors[2])), Item("on4kst", LinkLevel(s.chat)),
     Item("cluster", LinkLevel(s.cluster))}

DataItems(s) ==
    {Item("backup", IF ~s.folder THEN "error" ELSE IF s.copies THEN "ok" ELSE "hint"),
     Item("mirror", CASE s.mirror = "none" -> "hint" [] s.mirror = "writable" -> "ok"
                      [] s.mirror = "gone" -> "warning"),
     Item("terrain", IF s.terrain THEN "ok" ELSE "warning"),
     Item("locators", IF s.locators THEN "ok" ELSE "hint")}
    \cup (IF s.countryMatters THEN {Item("countries", IF s.countries THEN "ok" ELSE "warning")} ELSE {})

RdyItems(facts) ==
    UNION {StationItems(facts.station, facts.clock), ContestItems(facts.station),
           LinkItems(facts.station), DataItems(facts.station)}

Ready(facts) == \A item \in RdyItems(facts) : item.level # "error"

-----------------------------------------------------------------------------
(* refreshReadiness(): a check older than a minute is repeated, and the       *)
(* window shows the facts of now with the clock's last result.                *)

StartsCheck(result, age) == clockAsked = 0 /\ (~result.asked \/ age >= 1)

Refreshed(result, age) ==
    /\ rdyShown' = [station |-> station', clock |-> result]
    /\ IF StartsCheck(result, age) THEN clockAsked' = 1 /\ clockSince' = 0
       ELSE UNCHANGED <<clockAsked, clockSince>>

\* What the operator, the rotor's daemon or a stick may change.
StationChoices ==
    {SetUp, [SetUp EXCEPT !.grid = 4], [SetUp EXCEPT !.rotors[1] = "failed"], [SetUp EXCEPT !.mirror = "gone"]}

RdyInit ==
    /\ rdyOpen = FALSE /\ rdyOnline \in BOOLEAN /\ station \in StationChoices
    /\ rdyShown = [station |-> station, clock |-> Never]
    /\ clockAhead \in ClockErrors /\ clockAsked = 0 /\ clockResult = Never
    /\ clockAge = 0 /\ clockSince = 0

OpenWindow ==
    /\ ~rdyOpen /\ rdyOpen' = TRUE
    /\ UNCHANGED <<station, rdyOnline, clockAhead, clockResult, clockAge>>
    /\ IF StartsCheck(clockResult, clockAge)
       THEN clockAsked' = 1 /\ clockSince' = 0
       ELSE clockAsked' = clockAsked /\ clockSince' = 0
    /\ rdyShown' = [station |-> station, clock |-> clockResult]

CloseReadiness ==
    /\ rdyOpen /\ rdyOpen' = FALSE
    /\ UNCHANGED <<rdyShown, station, rdyOnline, clockAhead, clockAsked, clockResult, clockAge, clockSince>>

\* The window's own timer.
RefreshTimer ==
    /\ rdyOpen /\ UNCHANGED <<rdyOpen, station, rdyOnline, clockAhead, clockResult, clockAge>>
    /\ Refreshed(clockResult, clockAge)

\* finished() refreshes the window; the check itself is over before that.
CheckFinished(result) ==
    /\ clockResult' = result /\ clockAge' = 0 /\ clockAsked' = 0
    /\ rdyShown' = [station |-> station, clock |-> result]
    /\ UNCHANGED <<rdyOpen, station, rdyOnline, clockAhead, clockSince>>

ServerAnswers == clockAsked > 0 /\ rdyOnline /\ CheckFinished(TimeIs(clockAhead))

NoServer_StaysRunning ==
    /\ clockAsked > 0
    /\ clockAsked' = IF clockAsked < ClockUrls THEN clockAsked + 1 ELSE clockAsked
    /\ UNCHANGED <<rdyOpen, rdyShown, station, rdyOnline, clockAhead, clockResult, clockAge, clockSince>>

\* No answer with a Date within six seconds: the next server, or none was there.
NoServer ==
    /\ clockAsked > 0
    /\ IF clockAsked < ClockUrls
       THEN /\ clockAsked' = clockAsked + 1
            /\ UNCHANGED <<rdyOpen, rdyShown, station, rdyOnline, clockAhead, clockResult, clockAge, clockSince>>
       ELSE CheckFinished(Unreachable)

\* Refreshes and checks take less than a minute.
RdyMinute ==
    /\ clockAsked = 0 /\ clockSince < RdyHorizon /\ clockAge < RdyHorizon
    /\ rdyOpen => ~StartsCheck(clockResult, clockAge)
    /\ clockAge' = clockAge + 1 /\ clockSince' = clockSince + 1
    /\ UNCHANGED <<rdyOpen, rdyShown, station, rdyOnline, clockAhead, clockAsked, clockResult>>

\* The operator, or the system's time service, sets the PC's clock.
ClockSet(ahead) ==
    /\ ahead # clockAhead /\ clockAhead' = ahead
    /\ clockAge' = clockAge + (ahead - clockAhead)
    /\ clockAge' \in (-RdyHorizon)..RdyHorizon
    /\ UNCHANGED <<rdyOpen, rdyShown, station, rdyOnline, clockAsked, clockResult, clockSince>>

NetworkChanges ==
    /\ rdyOnline' = ~rdyOnline
    /\ UNCHANGED <<rdyOpen, rdyShown, station, clockAhead, clockAsked, clockResult, clockAge, clockSince>>

StationChanges(s) ==
    /\ s # station /\ station' = s
    /\ UNCHANGED <<rdyOpen, rdyShown, rdyOnline, clockAhead, clockAsked, clockResult, clockAge, clockSince>>

RdyNext ==
    \/ OpenWindow \/ CloseReadiness \/ RefreshTimer \/ ServerAnswers \/ NoServer \/ RdyMinute \/ NetworkChanges
    \/ \E a \in ClockErrors : ClockSet(a)
    \/ \E s \in StationChoices : StationChanges(s)

\* A request ends by its answer or its transfer timeout; the timer runs while
\* the window is open.
RdyFairness == WF_rdyVars(ServerAnswers \/ NoServer) /\ WF_rdyVars(RefreshTimer)

RdySpec == RdyInit /\ [][RdyNext]_rdyVars
RdyFairSpec == RdySpec /\ RdyFairness

-----------------------------------------------------------------------------
(* Properties *)

\* Type invariant.
RdyTypeOK ==
    /\ rdyOpen \in BOOLEAN /\ rdyOnline \in BOOLEAN /\ {station, rdyShown.station} \subseteq StationChoices
    /\ clockAhead \in ClockErrors /\ clockAsked \in 0..ClockUrls
    /\ clockAge \in (-RdyHorizon)..RdyHorizon /\ clockSince \in 0..RdyHorizon

\* However many servers stay silent, a window left open comes to know the clock,
\* or that it cannot: no check runs for ever (ClockCheck::start() does nothing
\* while one runs).
ClockGetsChecked == rdyOpen ~> (rdyShown.clock.asked \/ ~rdyOpen)

\* "The clock, asked anew once a minute while the window is open"
\* (ui/MainWindow.cpp:6564).
ClockAskedEveryMinute == rdyOpen => clockSince <= 1
=============================================================================
