----------------------------- MODULE OnlineBoard -----------------------------
(***************************************************************************)
(* The public scoreboard: core/OnlineScoreboard with its callers in the    *)
(* main window, minute by minute, during one contest.                      *)
(*                                                                         *)
(* A message tells all of m_records, and m_records is the whole log as it  *)
(* was read last.  So the log is modelled by whether it has a QSO that no  *)
(* message has told, and whether m_records has all of those; QSOs may go   *)
(* on for ever.                                                            *)
(***************************************************************************)
EXTENDS Naturals

CONSTANTS
    BoardIntervals,   \* minutes between two posts, as the operator can choose them
    BoardHorizon      \* bound: how long a wait is counted

OnlineBoardAssumption == BoardIntervals \subseteq Nat \ {0} /\ BoardHorizon \in Nat
ASSUME OnlineBoardAssumption

VARIABLES
    boardOn,     \* the interval in the settings; 0 is switched off
    boardTimer,  \* minutes until m_timer fires; 0 is stopped
    boardNews,   \* QSOs no message has told: "none"; "held", all of them in
                 \* m_records; "missed", one of them not in it
    boardCalm,   \* minutes since the last QSO or dialog (history)
    boardSince   \* minutes since the last message, or since it was switched on (history)

boardVars == <<boardOn, boardTimer, boardNews, boardCalm, boardSince>>

BoardInit == boardOn = 0 /\ boardTimer = 0 /\ boardNews = "none" /\ boardCalm = 0 /\ boardSince = 0

\* setConfig(): the timer is stopped and starts over.
SetConfig(on) == boardTimer' = on

\* setRecords(), with the log as it is in the database
Held(news) == IF news = "none" THEN "none" ELSE "held"

\* refreshScoreboard(): switched off, the log is not read.
RefreshScoreboard(on, news) ==
    /\ SetConfig(on)
    /\ boardNews' = IF on = 0 THEN news ELSE Held(news)

\* Mutant of BoardQsoLogged: the board is refreshed before the QSO is saved.
BoardQsoLogged_RefreshedFirst ==
    /\ SetConfig(boardOn) /\ boardNews' = "missed" /\ boardCalm' = 0
    /\ UNCHANGED <<boardOn, boardSince>>

\* A QSO is logged: handleLogRequested() saves it and refreshes the board.
BoardQsoLogged ==
    /\ RefreshScoreboard(boardOn, "missed") /\ boardCalm' = 0
    /\ UNCHANGED <<boardOn, boardSince>>

\* openScoreboardDialog(), and a settings dialog with what it calls
BoardDialogSaved(on) ==
    /\ boardOn' = on /\ boardSince' = 0 /\ boardCalm' = 0
    /\ RefreshScoreboard(on, boardNews)

\* postScoreNow(): refreshes first, and sends.
BoardPostNow ==
    /\ boardOn > 0
    /\ SetConfig(boardOn) /\ boardNews' = "none" /\ boardSince' = 0
    /\ UNCHANGED <<boardOn, boardCalm>>

\* A wait, for the properties.
LongerWait(minutes) == IF minutes < BoardHorizon THEN minutes + 1 ELSE minutes

\* A minute goes by; the timer fires, posts what m_records holds and runs on.
BoardMinute ==
    /\ boardOn > 0 /\ boardCalm' = LongerWait(boardCalm)
    /\ IF boardTimer = 1
       THEN /\ boardTimer' = boardOn /\ boardSince' = 0
            /\ boardNews' = IF boardNews = "held" THEN "none" ELSE boardNews
       ELSE /\ boardTimer' = boardTimer - 1 /\ boardSince' = LongerWait(boardSince)
            /\ UNCHANGED boardNews
    /\ UNCHANGED boardOn

BoardNext ==
    \/ BoardQsoLogged \/ BoardPostNow \/ BoardMinute
    \/ \E on \in BoardIntervals \cup {0} : BoardDialogSaved(on)

BoardSpec == BoardInit /\ [][BoardNext]_boardVars

-----------------------------------------------------------------------------
(* Properties *)

\* Type invariant.
BoardTypeOK ==
    /\ boardOn \in BoardIntervals \cup {0} /\ boardTimer \in 0..boardOn
    /\ boardNews \in {"none", "held", "missed"}
    /\ boardCalm \in 0..BoardHorizon /\ boardSince \in 0..BoardHorizon

\* "every few minutes one HTTP POST" (core/OnlineScoreboard.h:18): switched on,
\* no wait for a message is longer than the interval.  Not kept: each QSO
\* restarts the timer, and in a busy hour no message is sent at all.
PostsEveryInterval == boardOn > 0 => boardSince <= boardOn

ThereIsALull == boardOn = 0 \/ boardCalm >= boardOn
AllIsTold == boardOn = 0 \/ boardNews = "none"

\* What is kept of it: a lull as long as the interval, between two QSOs or after
\* the last, is enough for every QSO before it to be told, however often the
\* timer was restarted, switched off, set anew or overtaken by a message sent by
\* hand.  (A corrected or deleted row is not told of: refreshAfterLogChange()
\* does not refresh the board.)
ALullTellsEveryQso == ThereIsALull => AllIsTold

\* Somebody restarts the wait.
BoardIsBusy == BoardQsoLogged \/ \E on \in BoardIntervals \cup {0} : BoardDialogSaved(on)

\* QSOs may go on for ever: all of them are told again and again if there is a
\* lull again and again.  And once there are no more, and the dialogs are left
\* alone, the last one is told.
BoardTellsEveryQso ==
    /\ []<>ThereIsALull => []<>AllIsTold
    /\ <>[][~BoardIsBusy]_boardVars => <>[]AllIsTold
=============================================================================
