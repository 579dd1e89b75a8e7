------------------------------ MODULE ChatLink ------------------------------
(***************************************************************************)
(* The line to the ON4KST chat: core/On4kstClient with its socket and its  *)
(* two timers, and what ui/MainWindow and app/AppController ask of it (the *)
(* room menu, "Jetzt neu verbinden", the room that follows the band, every *)
(* save of the settings).  A room is a field of the login, so to change it *)
(* is to hang up and dial again.                                           *)
(*                                                                         *)
(* The client is one record, and each of its functions an operator from    *)
(* record to record: handlers call one another, and a handler is one step. *)
(* Times are in units of 8 ms, which divides every delay of the code: an   *)
(* int of 32 bits is then a number modulo 2^29.                            *)
(***************************************************************************)
EXTENDS Integers, Sequences

CONSTANTS
    Rooms,       \* the rooms of the menu
    Bands,       \* the bands of the contest
    RoomOf,      \* on4kstRoomValueForBand(): the room of a band, 0 if none is known
    DefaultRoom, \* kChatIdVhfUhf
    MaxAttempts, \* bound: failed attempts in a row (above 30: unbounded)
    MaxClicks    \* bound: what the operator does

ASSUME ChatLinkAssumption ==
    /\ Rooms \subseteq Nat \ {0} /\ DefaultRoom \in Rooms
    /\ RoomOf \in [Bands -> Rooms \cup {0}]
    /\ MaxAttempts \in Nat \ {0} /\ MaxClicks \in Nat

VARIABLES
    chat,   \* the client, see Clients
    band,   \* m_currentBand
    wish,   \* history: the room last picked by hand, 0 once the band counts again
    clicks  \* how much the operator did, see MaxClicks

vars == <<chat, band, wish, clicks>>

Clients ==
    [line : {"idle", "dialing", "up", "closing"}, \* the state of m_socket ...
     hangUp : BOOLEAN,       \* ... which closes once it is through (pendingClose)
     connected : BOOLEAN, loggedIn : BOOLEAN,
     intentional : BOOLEAN,  \* m_intentionalDisconnect
     attempts : 0..30,       \* m_reconnectAttempts; the code caps it at 30 when it reads it
     rejected : BOOLEAN,     \* m_loginRejected
     retry : BOOLEAN,        \* m_reconnectTimer is active
     deadline : BOOLEAN,     \* m_connectTimer is active
     host : BOOLEAN,         \* m_host and m_callsign are set
     chatId : Rooms, pending : Rooms \cup {0},
     queued : Seq(Rooms),    \* calls of singleShot(0) that wait for their turn
     room : Rooms \cup {0}]  \* at the server: the room of the LOGINC it got, 0 if none

-----------------------------------------------------------------------------
(* The delay before the next attempt *)

InitialDelay  == 5000 \div 8
MaxDelay      == 60000 \div 8
RejectedDelay == 60000 \div 8
RejectedMax   == 600000 \div 8
IntRange      == 2^29

\* start * (1 << n) in an int that wraps round
Shifted(start) ==
    LET bits[n \in 0..30] == IF n = 0 THEN start ELSE (2 * bits[n-1]) % IntRange
    IN  [n \in 0..30 |-> IF bits[n] >= IntRange \div 2 THEN bits[n] - IntRange ELSE bits[n]]

Delays(start, cap) == [n \in 0..30 |-> IF Shifted(start)[n] < cap THEN Shifted(start)[n] ELSE cap]

UsualDelays    == Delays(InitialDelay, MaxDelay)
RejectedDelays == Delays(RejectedDelay, RejectedMax)

Delay(c) == IF c.rejected THEN RejectedDelays[c.attempts] ELSE UsualDelays[c.attempts]

-----------------------------------------------------------------------------
(* The client *)

\* Mutant of Dialled: dials the room that waits, not the one it is given.
Dialled_Waiting(c, r) ==
    IF c.connected THEN c
    ELSE [c EXCEPT !.host = TRUE, !.chatId = c.pending, !.loggedIn = FALSE,
                   !.intentional = FALSE, !.deadline = TRUE,
                   !.line = IF c.line = "idle" THEN "dialing" ELSE @,
                   !.hangUp = @ /\ c.line # "idle"]

\* connectAndLogin().  A socket that is not idle refuses to dial; all the rest
\* is done to it.
Dialled(c, r) ==
    IF c.connected THEN c
    ELSE [c EXCEPT !.host = TRUE, !.chatId = r, !.loggedIn = FALSE,
                   !.intentional = FALSE, !.deadline = TRUE,
                   !.line = IF c.line = "idle" THEN "dialing" ELSE @,
                   !.hangUp = @ /\ c.line # "idle"]

\* disconnectFromServer().  "/QUIT" is still to be written, so the line closes
\* later; one that is being dialled closes once it is through.
HungUp(c) ==
    [c EXCEPT !.intentional = TRUE, !.retry = FALSE, !.deadline = FALSE,
              !.line = IF @ = "up" THEN "closing" ELSE @,
              !.hangUp = @ \/ c.line = "dialing"]

\* scheduleReconnect().  A timer does not start on a negative delay.
Scheduled(c) ==
    IF c.intentional \/ c.retry THEN c
    ELSE [c EXCEPT !.retry = Delay(c) >= 0, !.attempts = IF @ < 30 THEN @ + 1 ELSE @]

\* startPendingRoomLogin()
PendingLogin(c) ==
    IF c.pending = 0 THEN c
    ELSE [c EXCEPT !.queued = Append(@, c.pending), !.pending = 0,
                   !.connected = FALSE, !.loggedIn = FALSE]

\* Mutant of Lost: a line that drops is not dialled again.
Lost_NoRetry(c) ==
    LET d == [c EXCEPT !.line = "idle", !.room = 0, !.connected = FALSE, !.loggedIn = FALSE]
    IN  IF d.pending # 0 THEN PendingLogin(d) ELSE d

\* onDisconnected()
Lost(c) ==
    LET d == [c EXCEPT !.line = "idle", !.room = 0, !.connected = FALSE, !.loggedIn = FALSE]
    IN  IF d.pending # 0 THEN PendingLogin(d) ELSE Scheduled(d)

\* QAbstractSocket::abort(): only a line that was up reports its end.
Aborted(c) ==
    IF c.line \in {"up", "closing"} THEN Lost(c)
    ELSE [c EXCEPT !.line = "idle", !.hangUp = FALSE]

\* reconnectNow()
ReconnectedNow(c) ==
    LET d == [c EXCEPT !.retry = FALSE, !.attempts = 0, !.rejected = FALSE,
                       !.pending = c.chatId, !.intentional = FALSE]
    IN  IF ~c.host THEN c
        ELSE IF c.connected \/ c.line # "idle" THEN [HungUp(d) EXCEPT !.intentional = FALSE]
        ELSE PendingLogin(d)

\* Mutant of Switched: the new room is noted before the line is down.
Switched_AtOnce(c, r) ==
    LET apart == ~c.connected /\ c.line = "idle"
    IN  IF r = 0 THEN c
        ELSE IF apart THEN ReconnectedNow([c EXCEPT !.chatId = r])
        ELSE IF r = c.chatId THEN c
        ELSE HungUp([c EXCEPT !.pending = r, !.chatId = r])

\* Mutant of Switched: the line is hung up for a room that nobody noted.
Switched_NotNoted(c, r) ==
    LET apart == ~c.connected /\ c.line = "idle"
    IN  IF r = 0 THEN c
        ELSE IF apart THEN ReconnectedNow([c EXCEPT !.chatId = r])
        ELSE IF r = c.chatId THEN c
        ELSE HungUp(c)

\* switchRoom()
Switched(c, r) ==
    LET apart == ~c.connected /\ c.line = "idle"
    IN  IF r = 0 THEN c
        ELSE IF apart THEN ReconnectedNow([c EXCEPT !.chatId = r])
        ELSE IF r = c.chatId THEN c
        ELSE HungUp([c EXCEPT !.pending = r])

\* syncOn4kstRoomForCurrentBand()
Synced(c, b) ==
    IF c.loggedIn /\ RoomOf[b] \notin {0, c.chatId} THEN Switched(c, RoomOf[b]) ELSE c

-----------------------------------------------------------------------------
(* The operator and the rig *)

Click == clicks < MaxClicks /\ clicks' = clicks + 1

\* applyNetworkSettings() with an account: at the start of the program and on
\* every save of the settings, whatever was changed.
SaveSettings ==
    /\ Click /\ ~chat.connected
    /\ chat' = Dialled(chat, DefaultRoom)
    /\ UNCHANGED <<band, wish>>

PickRoom(r) ==
    /\ Click
    /\ chat' = Switched(chat, r) /\ wish' = r
    /\ band' = band

ReconnectNow ==
    /\ Click
    /\ chat' = ReconnectedNow(chat)
    /\ UNCHANGED <<band, wish>>

\* A frequency of the rig, a band chosen, or "dem Band folgen" (same band).
FollowBand(b) ==
    /\ Click
    /\ band' = b /\ chat' = Synced(chat, b) /\ wish' = 0

-----------------------------------------------------------------------------
(* The socket, the server, the timers *)

Untouched == UNCHANGED <<band, wish, clicks>>

MayFail == chat.attempts < MaxAttempts

\* onConnected(): LOGINC goes out with the room as it is now.  A line that was
\* hung up while dialling closes right after.
LineUp ==
    /\ chat.line = "dialing"
    /\ chat' = [chat EXCEPT !.line = IF chat.hangUp THEN "closing" ELSE "up", !.hangUp = FALSE,
                            !.deadline = FALSE, !.connected = TRUE, !.attempts = 0,
                            !.room = chat.chatId]
    /\ Untouched

\* onSocketError() of an attempt; m_connectTimer runs on.
DialFails ==
    /\ chat.line = "dialing" /\ MayFail
    /\ chat' = Scheduled([chat EXCEPT !.line = "idle", !.hangUp = FALSE])
    /\ Untouched

LineDrops ==
    /\ chat.line = "up"
    /\ chat' = Lost(chat)
    /\ Untouched

LineClosed ==
    /\ chat.line = "closing"
    /\ chat' = Lost(chat)
    /\ Untouched

\* Mutant of LoginAccepted: the band is looked at only when it changes.
LoginAccepted_NoSync ==
    /\ chat.line = "up" /\ ~chat.loggedIn
    /\ chat' = [chat EXCEPT !.loggedIn = TRUE, !.attempts = 0, !.rejected = FALSE]
    /\ Untouched

\* LOGSTAT|100|: logged in, and the window looks at the band at once.
LoginAccepted ==
    /\ chat.line = "up" /\ ~chat.loggedIn
    /\ chat' = Synced([chat EXCEPT !.loggedIn = TRUE, !.attempts = 0, !.rejected = FALSE], band)
    /\ Untouched

\* Any other LOGSTAT: nothing is left to write, so the line is down at once.
LoginRejected ==
    /\ chat.line = "up" /\ ~chat.loggedIn
    /\ chat' = Lost([chat EXCEPT !.rejected = TRUE])
    /\ Untouched

ConnectTimeout ==
    /\ chat.deadline /\ MayFail
    /\ LET c == [chat EXCEPT !.deadline = FALSE]
       IN  chat' = IF ~c.connected /\ c.line # "up" THEN Scheduled(Aborted(c)) ELSE c
    /\ Untouched

RetryTimeout ==
    /\ chat.retry
    /\ LET c == [chat EXCEPT !.retry = FALSE]
       IN  chat' = IF c.intentional THEN c ELSE Dialled(c, c.chatId)
    /\ Untouched

\* The part of startPendingRoomLogin() that waits for the next turn.
PendingTurn ==
    /\ chat.queued # <<>>
    /\ LET c == [chat EXCEPT !.queued = Tail(@)]
           d == [Aborted(c) EXCEPT !.connected = FALSE, !.loggedIn = FALSE]
       IN  chat' = Dialled(d, Head(chat.queued))
    /\ Untouched

-----------------------------------------------------------------------------
Init ==
    /\ chat = [line |-> "idle", hangUp |-> FALSE, connected |-> FALSE, loggedIn |-> FALSE,
               intentional |-> FALSE, attempts |-> 0, rejected |-> FALSE, retry |-> FALSE,
               deadline |-> FALSE, host |-> FALSE, chatId |-> DefaultRoom, pending |-> 0,
               queued |-> <<>>, room |-> 0]
    /\ band \in Bands /\ wish = 0 /\ clicks = 0

Next ==
    \/ SaveSettings \/ ReconnectNow
    \/ \E r \in Rooms : PickRoom(r)
    \/ \E b \in Bands : FollowBand(b)
    \/ LineUp \/ DialFails \/ LineDrops \/ LineClosed
    \/ LoginAccepted \/ LoginRejected
    \/ ConnectTimeout \/ RetryTimeout \/ PendingTurn

Spec == Init /\ [][Next]_vars

\* Timers go off, a queued call gets its turn, a closing line closes; the
\* network and the server let an attempt through again and again.
FairSpec ==
    /\ Spec
    /\ WF_vars(ConnectTimeout) /\ WF_vars(RetryTimeout) /\ WF_vars(PendingTurn)
    /\ WF_vars(LineClosed)
    /\ SF_vars(LineUp) /\ SF_vars(LoginAccepted)

-----------------------------------------------------------------------------
(* Properties *)

TypeOK == chat \in Clients /\ band \in Bands /\ wish \in Rooms \cup {0} /\ clicks \in 0..MaxClicks

\* What the client believes is so: m_connected is the state of the line, only a
\* line that is up is logged in, and currentChatId(), which the menu ticks and
\* the band is compared with, is the room the server has.
BeliefIsTrue ==
    /\ chat.connected <=> chat.line \in {"up", "closing"}
    /\ chat.loggedIn => chat.connected
    /\ chat.connected => chat.room = chat.chatId

\* A client that has been given a server is never left with nothing to come: no
\* line, no timer, no queued call.  (The flag of an intended end apart, below.)
NeverForgotten ==
    chat.host /\ chat.line = "idle" /\ ~chat.intentional
        => chat.retry \/ chat.deadline \/ chat.queued # <<>>

\* In this program nobody hangs up for good: the flag that stops all dialling is
\* set only while a room waits to be entered.
IntentionHasAReason ==
    chat.intentional => chat.pending # 0 \/ chat.queued # <<>>

InBandRoom == chat.loggedIn /\ RoomOf[band] \in {0, chat.room}

\* Whatever drops, fails or is refused, and however it crosses with clicks and
\* timers: the chat comes back, in the room of the band.  (But for the line that
\* failed after it had been told to hang up, see README.)
ComesBack ==
    \/ []<>InBandRoom
    \/ <>[](chat.line = "idle" /\ chat.intentional)
    \/ []~chat.host

\* "Hier laesst er sich von Hand setzen: wer auf 144 arbeitet, aber im
\* Mikrowellenraum mitlesen will, kann das" (MainWindow.cpp:3420): a login in the
\* room picked by hand is not hung up at once.
PickedRoomStays ==
    [][LoginAccepted /\ wish = chat.room => chat'.line = "up"]_vars
=============================================================================
