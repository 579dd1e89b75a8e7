-------------------------------- MODULE Skeds --------------------------------
(***************************************************************************)
(* Skeds: core/SkedList's rules, the skeds table of data/ContestDatabase,   *)
(* ui/SkedPanel and the handlers of the main window.  One unit of the  *)
(* clock stands for 2 min of the code; the log is the set of stations       *)
(* worked on a band.                                                        *)
(***************************************************************************)
EXTENDS Integers, Sequences, FiniteSets, SequencesExt

CONSTANTS
    SkContests,     \* contests, each with its own skeds
    SkCalls,        \* stations
    SkBands,        \* bands
    SkLeads,        \* how many units ahead a sked is made
    SkHorizon,      \* bound: last moment of the clock
    SkMaxMade,      \* bound: skeds made
    SkMaxFaults     \* bound: failing writes

DueBefore == 1      \* kDueBeforeSecs, kAlarmBeforeSecs: 2 min
MissedAfter == 5    \* kMissedAfterSecs: 10 min

SkedAssumption == /\ SkHorizon \in Nat /\ SkMaxMade \in Nat /\ SkMaxFaults \in Nat
                  /\ SkLeads \subseteq 0..SkHorizon
ASSUME SkedAssumption

VARIABLES
    skTable,      \* the table: rows by id, NoSked for a deleted one
    skList,       \* m_skeds, what the panel shows
    skAlarmed,    \* m_skedAlarmed, ids announced since the start
    skContest,    \* the active contest
    skLog,        \* what is in the log: <<contest, call, band>>
    skNow,        \* the clock
    skSettled,    \* the list was just refreshed (history)
    skFaults

skVars == <<skTable, skList, skAlarmed, skContest, skLog, skNow, skSettled, skFaults>>

NoSked == [state |-> "gone"]
SkedStates == {"suggested", "open", "done", "missed"}

-----------------------------------------------------------------------------
(* SkedRules *)

IsOverdue(sked, now) == sked.state = "open" /\ now > sked.time + MissedAfter
IsLive(sked, now) == sked.state = "open" /\ now <= sked.time + MissedAfter
EarlierSked(a, b) == a.time < b.time \/ (a.time = b.time /\ a.id < b.id)
NextOpen(list, now) ==
    {s \in ToSet(list) : IsLive(s, now) /\ \A t \in ToSet(list) : IsLive(t, now) => s = t \/ EarlierSked(s, t)}

-----------------------------------------------------------------------------
(* The table and the list *)

\* skedsForContest(): ordered by the agreed minute, then by id.
ReadSkeds(table, contest) ==
    LET rows == {j \in DOMAIN table : table[j] # NoSked /\ table[j].contest = contest}
        earlier(i) == {j \in rows : EarlierSked(table[j], table[i])}
    IN  [n \in 1..Cardinality(rows) |-> table[CHOOSE i \in rows : Cardinality(earlier(i)) = n - 1]]

\* Mutant: only the clock closes a sked.
Judge_ClockOnly(sked, log, now) == IF IsOverdue(sked, now) THEN [sked EXCEPT !.state = "missed"] ELSE sked

\* refreshSkeds() on one sked: the log closes it, or the clock does.
Judge(sked, log, now) ==
    IF sked.state # "open" THEN sked
    ELSE IF <<skContest', sked.call, sked.band>> \in log THEN [sked EXCEPT !.state = "done"]
    ELSE IF IsOverdue(sked, now) THEN [sked EXCEPT !.state = "missed"] ELSE sked

\* What updateSkedState() writes; a failing one leaves the row as it was.
Written(table, list, fails) ==
    [i \in DOMAIN table |->
        IF fails \/ \A s \in ToSet(list) : s.id # i THEN table[i]
        ELSE [table[i] EXCEPT !.state = (CHOOSE s \in ToSet(list) : s.id = i).state]]

\* refreshSkeds(): judged, the next one announced when it is due.
RefreshSkeds(table, list, fails) ==
    LET judged == [i \in DOMAIN list |-> Judge(list[i], skLog', skNow')]
        due == {s \in NextOpen(judged, skNow') : skNow' >= s.time - DueBefore}
    IN /\ skList' = judged
       /\ skTable' = Written(table, judged, fails)
       /\ skAlarmed' = skAlarmed \cup {s.id : s \in due}
       /\ skFaults' = skFaults + (IF fails THEN 1 ELSE 0)
       /\ skSettled' = TRUE

\* reloadSkeds()
ReloadSkeds(table, fails) == RefreshSkeds(table, ReadSkeds(table, skContest'), fails)
MayFail == {FALSE} \cup (IF skFaults < SkMaxFaults THEN {TRUE} ELSE {})

MadeSked(call, band, time, state) ==
    [id |-> Len(skTable) + 1, contest |-> skContest, call |-> call, band |-> band, time |-> time, state |-> state]

-----------------------------------------------------------------------------
(* Steps *)

\* addSkedFromEntry(); insertSked() may fail, and then nothing is reloaded.
AddSkedFromEntry(call, band, lead) ==
    /\ Len(skTable) < SkMaxMade
    /\ UNCHANGED <<skContest, skLog, skNow>>
    /\ \E f \in MayFail : ReloadSkeds(Append(skTable, MadeSked(call, band, skNow + lead, "open")), f)

\* A chat line that names us and a frequency; one that is there already is not taken again.
ChatProposesSked(call, band, lead) ==
    /\ Len(skTable) < SkMaxMade
    /\ ~\E s \in ToSet(skList) : /\ s.call = call /\ s.band = band /\ s.state \in {"open", "suggested"}
                                 /\ s.time = skNow + lead
    /\ UNCHANGED <<skContest, skLog, skNow>>
    /\ \E f \in MayFail : ReloadSkeds(Append(skTable, MadeSked(call, band, skNow + lead, "suggested")), f)

\* handleRowClicked() on a suggestion; updateSkedState() may fail.
AcceptSuggestion(i) ==
    /\ skList[i].state = "suggested"
    /\ UNCHANGED <<skContest, skLog, skNow>>
    /\ \E f \in MayFail :
          ReloadSkeds(IF f THEN skTable ELSE [skTable EXCEPT ![skList[i].id].state = "open"], f)

DeleteSked(i) ==
    /\ UNCHANGED <<skContest, skLog, skNow>>
    /\ ReloadSkeds([skTable EXCEPT ![skList[i].id] = NoSked], FALSE)

\* skedTimer: every 15 s.
SkedTimer ==
    /\ UNCHANGED <<skContest, skLog, skNow>>
    /\ \E f \in MayFail : RefreshSkeds(skTable, skList, f)

\* handleLogRequested() ends in refreshSkeds().
LogSkedQso(call, band) ==
    /\ skLog' = skLog \cup {<<skContest, call, band>>}
    /\ UNCHANGED <<skContest, skNow>>
    /\ \E f \in MayFail : RefreshSkeds(skTable, skList, f)

\* refreshAfterLogChange() leaves the skeds alone.
RemoveSkedQso(q) ==
    /\ q[1] = skContest
    /\ skLog' = skLog \ {q}
    /\ skSettled' = FALSE
    /\ UNCHANGED <<skTable, skList, skAlarmed, skContest, skNow, skFaults>>

\* applyActiveContestDefinition() ends in reloadSkeds().
SwitchSkedContest(contest) ==
    /\ contest # skContest
    /\ skContest' = contest
    /\ UNCHANGED <<skLog, skNow>>
    /\ \E f \in MayFail : ReloadSkeds(skTable, f)

RestartSkeds ==
    /\ UNCHANGED <<skContest, skLog, skNow>>
    /\ LET list == ReadSkeds(skTable, skContest)
           judged == [i \in DOMAIN list |-> Judge(list[i], skLog, skNow)]
       IN /\ skList' = judged
          /\ skTable' = Written(skTable, judged, FALSE)
          /\ skAlarmed' = {s.id : s \in {t \in NextOpen(judged, skNow) : skNow >= t.time - DueBefore}}
    /\ skSettled' = TRUE
    /\ UNCHANGED skFaults

SkedClockTicks ==
    /\ skNow < SkHorizon
    /\ skNow' = skNow + 1 /\ skSettled' = FALSE
    /\ UNCHANGED <<skTable, skList, skAlarmed, skContest, skLog, skFaults>>

SkedInit ==
    /\ skTable = <<>> /\ skList = <<>> /\ skAlarmed = {} /\ skLog = {} /\ skNow = 0
    /\ skContest \in SkContests /\ skSettled = TRUE /\ skFaults = 0

SkedNext ==
    \/ \E c \in SkCalls, b \in SkBands, l \in SkLeads : AddSkedFromEntry(c, b, l) \/ ChatProposesSked(c, b, l)
    \/ \E i \in DOMAIN skList : AcceptSuggestion(i) \/ DeleteSked(i)
    \/ SkedTimer
    \/ \E c \in SkCalls, b \in SkBands : LogSkedQso(c, b)
    \/ \E q \in skLog : RemoveSkedQso(q)
    \/ \E c \in SkContests : SwitchSkedContest(c)
    \/ RestartSkeds
    \/ SkedClockTicks

SkedSpec == SkedInit /\ [][SkedNext]_skVars

-----------------------------------------------------------------------------
SkedTypeOK ==
    /\ skContest \in SkContests /\ skNow \in 0..SkHorizon
    /\ \A i \in DOMAIN skTable : skTable[i] # NoSked => skTable[i].id = i /\ skTable[i].state \in SkedStates
    /\ \A s \in ToSet(skList) : skTable[s.id] # NoSked
    /\ skAlarmed \subseteq DOMAIN skTable

\* Between the list on the screen and the table in the database, over a switch of the contest, a
\* restart and failing writes: the same skeds of the active contest in the order of their minutes,
\* none of them open when the log or the clock has closed it, and where a failed write parts the two
\* it is the list that is ahead ("so a restart mid-contest loses none", SkedList.h:17).
SkedListIsCurrent ==
    /\ [i \in DOMAIN skList |-> skList[i].id] = [i \in DOMAIN ReadSkeds(skTable, skContest) |-> ReadSkeds(skTable, skContest)[i].id]
    /\ skSettled => \A s \in ToSet(skList) :
          /\ s.state = "open" => <<skContest, s.call, s.band>> \notin skLog /\ ~IsOverdue(s, skNow)
    /\ \A s \in ToSet(skList) :
          /\ s.state # skTable[s.id].state => skTable[s.id].state = "open" /\ s.state \in {"done", "missed"} /\ skFaults > 0

\* "One alarm per sked, two minutes ahead" (MainWindow.cpp:6102): no open sked's minute is over
\* before it was announced, skeds close to each other included.
EverySkedIsAnnounced ==
    skSettled => \A s \in ToSet(skList) : s.state = "open" /\ skNow > s.time => s.id \in skAlarmed
=============================================================================
