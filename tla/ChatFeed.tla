------------------------------ MODULE ChatFeed ------------------------------
(***************************************************************************)
(* What comes in from ON4KST and the cluster: models/ChatFeedModel (one for *)
(* each source), the merged list of ui/ChatPanelWidget, the stations on the *)
(* map and the assistant's suggestion (ui/SuggestionPanel), with the        *)
(* handlers of the main window that keep them up with the log.  The lines   *)
(* themselves come from ChatLink and SpotLink. Times and the recency and     *)
(* propagation bonuses of the score are left out: a line is worked (0),     *)
(* open (1) or open and a new multiplier (2).                               *)
(***************************************************************************)
EXTENDS Naturals, FiniteSets, Sequences

CONSTANTS
    FdSpots,        \* what can arrive: [call, band ("" without one), square, near, beacon]
    FdContests,     \* contests, the first of them active at the start
    FdBands,        \* bands a contest can have
    FdSites,        \* own locators
    FdMaxLines,     \* kMaxEntries, 1500 in the code
    FdMaxArrivals,  \* bound: lines that arrive
    FdMaxHandled    \* bound: what the operator does to the log and the settings

FeedAssumption == /\ FdSites # {} /\ FdMaxLines \in Nat \ {0} /\ FdMaxArrivals \in Nat /\ FdMaxHandled \in Nat
                  /\ \A s \in FdSpots : s.near \subseteq FdSites
ASSUME FeedAssumption

Feeds == {"kst", "cluster"}
Heard == {s.call : s \in FdSpots}
SquareOf(call) == (CHOOSE s \in FdSpots : s.call = call).square
NoSpot == [call |-> "", band |-> "", square |-> "", near |-> {}, beacon |-> FALSE]

VARIABLE fd       \* the feeds and what is drawn from them, see FeedInit
feedVars == <<fd>>

-----------------------------------------------------------------------------
(* Worked, scored, visible *)

\* computeWorked(): on its own band, or on every band of the contest for a line without.
FeedWorked(d, spot) ==
    LET on(b) == \E q \in d.log[d.contest] : q.call = spot.call /\ q.band = b
    IN IF spot.band # "" THEN on(spot.band)
       ELSE IF d.bands = {} THEN \E b \in FdBands : on(b)
       ELSE \A b \in d.bands : on(b)

\* computeScore(): the squares are those the multiplier tracker last counted.
Score(d, spot, worked) ==
    IF worked THEN 0
    ELSE IF spot.band # "" /\ spot.square # "" /\ <<spot.band, spot.square>> \notin d.counted THEN 2 ELSE 1

Line(d, spot, geo) ==
    LET worked == FeedWorked(d, spot)
    IN [spot |-> spot, geo |-> geo, worked |-> worked, score |-> Score(d, spot, worked), at |-> d.arrived]

OnContestBand(d, spot) == spot.band = "" \/ d.bands = {} \/ spot.band \in d.bands

\* sichtbareZeilen(): the survivors of the hard exclusion, in a pile-up the best 30 % of them.
VisibleRows(d, f) ==
    LET lines == d.lines[f]
        survivors == {i \in DOMAIN lines : /\ lines[i].geo /\ ~lines[i].worked
                                           /\ OnContestBand(d, lines[i].spot)}
        keep == IF Cardinality(survivors) = 0 THEN 0 ELSE (3 * Cardinality(survivors) + 9) \div 10
        better(i) == {j \in survivors : lines[j].score > lines[i].score}
    IN IF d.raw THEN DOMAIN lines
       ELSE IF d.busy THEN {i \in survivors : Cardinality(better(i)) < keep}
       ELSE survivors

-----------------------------------------------------------------------------
(* Chat panel, suggestion, map *)

\* MergedChatModel::rebuild(): the visible lines, or all of them.
PanelRows(d) ==
    UNION {{[feed |-> f, line |-> d.lines[f][i]] : i \in IF d.all THEN DOMAIN d.lines[f] ELSE d.shown[f]} : f \in Feeds}

\* What NextTargetSuggester may choose from, also when the raw feed is shown.
Callable(d) ==
    {r \in UNION {{[feed |-> f, row |-> i] : i \in d.shown[f]} : f \in Feeds} :
        LET l == d.lines[r.feed][r.row] IN ~l.worked /\ l.geo /\ ~l.spot.beacon}

\* suggest(): the first of the best, ON4KST before the cluster.
NextTarget(d) ==
    LET line(r) == d.lines[r.feed][r.row]
        ahead(r, s) == \/ line(r).score > line(s).score
                       \/ /\ line(r).score = line(s).score
                          /\ (r.feed = "kst" /\ s.feed # "kst") \/ (r.feed = s.feed /\ r.row <= s.row)
    IN IF Callable(d) = {} THEN NoSpot
       ELSE line(CHOOSE r \in Callable(d) : \A s \in Callable(d) : ahead(r, s)).spot

\* refreshSuggestionPanel(): never while a callsign stands in the entry row.
Suggest(d) == IF d.typed # "" THEN d ELSE [d EXCEPT !.suggestion = NextTarget(d)]

\* refreshMapWidget(): the log's stations, and what is visible and not among them.
MapStations(d) ==
    LET worked == {q.call : q \in d.log[d.contest]}
        spotted == {d.lines[r.feed][r.row].spot.call :
                       r \in {s \in UNION {{[feed |-> f, row |-> i] : i \in d.shown[f]} : f \in Feeds} :
                                ~d.lines[s.feed][s.row].worked}}
    IN [worked |-> worked, spotted |-> spotted \ worked]
DrawMap(d) == [d EXCEPT !.map = MapStations(d)]

\* rebuildVisibleRows(): modelReset() only when other rows are visible than before.
RebuildRows(d, f) ==
    IF VisibleRows(d, f) = d.shown[f] THEN [d EXCEPT !.panel = PanelRows(d)]
    ELSE LET e == [d EXCEPT !.shown[f] = VisibleRows(d, f)]
         IN Suggest(DrawMap([e EXCEPT !.panel = PanelRows(e)]))

\* refreshWorkedAndScores()
Reworked(d, f) ==
    RebuildRows([d EXCEPT !.lines[f] = [i \in DOMAIN @ |-> [Line(d, @[i].spot, @[i].geo) EXCEPT !.at = d.lines[f][i].at]]], f)

Counted(d) == [d EXCEPT !.counted = {<<q.band, SquareOf(q.call)>> : q \in d.log[d.contest]}]

\* Mutant: only the tracker counts again after a QSO.
RefreshFeeds_OnlyCounts(d) == Counted(d)

\* refreshMultiplierAndFeedScores(), and what the handlers call after it.
RefreshFeeds(d) == Reworked(Reworked(Counted(d), "kst"), "cluster")
AfterLogChange(d) == Suggest(DrawMap(RefreshFeeds(d)))

-----------------------------------------------------------------------------
(* Steps *)

\* addCandidate(): the place is judged once, when the line arrives.
Arrive(f, spot) ==
    /\ fd.arrived < FdMaxArrivals
    /\ LET d == [fd EXCEPT !.arrived = @ + 1]
           lines == Append(d.lines[f], Line(d, spot, d.site \in spot.near))
           kept == IF Len(lines) > FdMaxLines THEN Tail(lines) ELSE lines
       IN fd' = RebuildRows([d EXCEPT !.lines[f] = kept], f)

\* setCallsign(), by the keyboard, a click on a line or "Ziel uebernehmen".
PutCallsign(call) == fd' = [fd EXCEPT !.typed = call]

\* handleLogRequested(): the row is emptied last, with resetForNextEntry().
LogFeedQso(band) ==
    /\ fd.typed # "" /\ fd.handled < FdMaxHandled
    /\ LET logged == [fd EXCEPT !.log[fd.contest] = @ \cup {[call |-> fd.typed, band |-> band]}, !.handled = @ + 1]
       IN fd' = [AfterLogChange(logged) EXCEPT !.typed = ""]

\* A QSO struck, deleted or given another callsign.
CorrectFeedQso(q, p) ==
    /\ fd.handled < FdMaxHandled /\ q \in fd.log[fd.contest]
    /\ fd' = AfterLogChange([fd EXCEPT !.log[fd.contest] = (@ \ {q}) \cup p, !.handled = @ + 1])

\* setSettings() with applyNetworkSettings(), and the calls of openContestPicker() and openSettingsDialog().
ApplyFeedSettings(contest, site) ==
    /\ fd.handled < FdMaxHandled
    /\ LET d == [fd EXCEPT !.contest = contest, !.site = site, !.handled = @ + 1]
           marked == Counted(Reworked(Reworked(d, "kst"), "cluster"))
           e == [marked EXCEPT !.bands = d.rules[contest]]
       IN fd' = Suggest(DrawMap(IF e.bands = d.bands THEN e ELSE Reworked(Reworked(e, "kst"), "cluster")))

\* reloadContestDefinitions(): the tracker counts again; the feeds are not told.
EditFeedRules(contest, bands) ==
    /\ fd.handled < FdMaxHandled
    /\ LET d == [fd EXCEPT !.rules[contest] = bands, !.handled = @ + 1]
       IN fd' = Counted(d)

\* setCurrentRatePerTenMinutes(): rebuilt only when the pace changes.
PaceChanges == fd' = RebuildRows(RebuildRows([fd EXCEPT !.busy = ~@], "kst"), "cluster")
ToggleRawFeed == fd' = RebuildRows(RebuildRows([fd EXCEPT !.raw = ~@], "kst"), "cluster")
ToggleShowAll == LET d == [fd EXCEPT !.all = ~@] IN fd' = [d EXCEPT !.panel = PanelRows(d)]

FeedInit ==
    /\ FdContests # {}
    /\ fd = [contest |-> CHOOSE c \in FdContests : TRUE, rules |-> [c \in FdContests |-> FdBands], site |-> CHOOSE s \in FdSites : TRUE,
             bands |-> FdBands, log |-> [c \in FdContests |-> {}], counted |-> {},
             lines |-> [f \in Feeds |-> <<>>], shown |-> [f \in Feeds |-> {}], panel |-> {},
             map |-> [worked |-> {}, spotted |-> {}], suggestion |-> NoSpot, typed |-> "",
             raw |-> FALSE, all |-> FALSE, busy |-> FALSE, arrived |-> 0, handled |-> 0]

FeedNext ==
    \/ \E f \in Feeds, s \in FdSpots : Arrive(f, s)
    \/ \E call \in Heard \cup {""} : PutCallsign(call)
    \/ \E b \in fd.rules[fd.contest] : LogFeedQso(b)
    \/ \E q \in fd.log[fd.contest] : \E p \in {{}} \cup {{[q EXCEPT !.call = c]} : c \in Heard} : CorrectFeedQso(q, p)
    \/ \E c \in FdContests, s \in FdSites : ApplyFeedSettings(c, s)
    \/ \E c \in FdContests, bands \in (SUBSET FdBands) \ {{}} : EditFeedRules(c, bands)
    \/ PaceChanges
    \/ ToggleRawFeed
    \/ ToggleShowAll

FeedSpec == FeedInit /\ [][FeedNext]_feedVars

-----------------------------------------------------------------------------
FeedTypeOK ==
    /\ fd.contest \in FdContests /\ fd.site \in FdSites
    /\ fd.bands \subseteq FdBands /\ fd.typed \in Heard \cup {""}
    /\ fd.suggestion \in FdSpots \cup {NoSpot}
    /\ \A f \in Feeds : /\ Len(fd.lines[f]) <= FdMaxLines
                        /\ fd.shown[f] \subseteq DOMAIN fd.lines[f]

\* Whatever is logged, taken out, corrected or switched: each line is marked worked exactly when
\* the log says so on its bands, an open station in reach is never hidden when there is time, a
\* worked one never shown unless asked for, the chat panel has just these lines and the map just
\* the stations of the log (ChatFeedModel.h, "silently goes stale", and MainWindow.cpp:4183).
FeedFollowsTheLog ==
    /\ \A f \in Feeds : \A i \in DOMAIN fd.lines[f] :
          LET l == fd.lines[f][i]
          IN /\ l.worked = FeedWorked(fd, l.spot)
             /\ ~fd.raw /\ l.worked => i \notin fd.shown[f]
             /\ l.geo /\ ~l.worked /\ OnContestBand(fd, l.spot) /\ ~fd.busy => i \in fd.shown[f]
    /\ fd.panel = PanelRows(fd)
    /\ fd.map.worked = {q.call : q \in fd.log[fd.contest]}

\* With an empty entry row the assistant does not send the operator after a station that is in
\* the log already (MainWindow.h:300, "a fresh QSO log" among the points it is called from).
SuggestionIsOpen ==
    fd.typed = "" /\ fd.suggestion # NoSpot => ~FeedWorked(fd, fd.suggestion)

=============================================================================
