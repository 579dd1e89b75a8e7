--------------------------- MODULE ChatLinkProofs ---------------------------
(***************************************************************************)
(* What holds of ChatLink for every set of rooms and bands and without any *)
(* bound on the failed attempts: the types, that the client's picture of   *)
(* the line is true, and that dialling is stopped only for a room that     *)
(* waits.  The handlers are compositions of the client's functions, so     *)
(* there is one lemma per function; the steps put them together.           *)
(***************************************************************************)
EXTENDS ChatLink, TLAPS

\* The invariant, of a client: its types and its picture of the line ...
Clean(c) ==
    /\ c \in Clients
    /\ c.connected <=> c.line \in {"up", "closing"}
    /\ c.loggedIn => c.connected
    /\ c.connected => c.room = c.chatId

\* ... and the reason for an end that was intended.  The call that takes the last
\* room from the queue lacks it until it dials, so the two are kept apart.
Reasoned(c) == c.intentional => c.pending # 0 \/ c.queued # <<>>

Sound(c) == Clean(c) /\ Reasoned(c)

IInv == Sound(chat) /\ band \in Bands /\ wish \in Rooms \cup {0} /\ clicks \in 0..MaxClicks

-----------------------------------------------------------------------------
(* The functions of the client *)

\* connectAndLogin() on a line that is not up: whatever the intention was, it is
\* over.
LEMMA DialledSound ==
    ASSUME NEW c, Clean(c), NEW r \in Rooms, Reasoned(c) \/ ~c.connected
    PROVE  Sound(Dialled(c, r))
BY DEF Sound, Clean, Reasoned, Clients, Dialled

\* scheduleReconnect() touches its timer and its counter only.
LEMMA ScheduledSound ==
    ASSUME NEW c, Clean(c)
    PROVE  Clean(Scheduled(c)) /\ (Reasoned(c) => Reasoned(Scheduled(c)))
<1>1. ASSUME NEW x \in BOOLEAN, NEW y \in 0..30
      PROVE  LET d == [c EXCEPT !.retry = x, !.attempts = y]
             IN  Clean(d) /\ (Reasoned(c) => Reasoned(d))
  BY DEF Clean, Reasoned, Clients
<1>2. (Delay(c) >= 0) \in BOOLEAN
  OBVIOUS
<1>3. c.attempts \in 0..30
  BY DEF Clean, Clients
<1>4. (IF c.attempts < 30 THEN c.attempts + 1 ELSE c.attempts) \in 0..30
  BY <1>3
<1> QED
  BY <1>1, <1>2, <1>4 DEF Scheduled

\* startPendingRoomLogin() on a line that is down: the room that waited waits in
\* the queue now.
LEMMA PendingLoginSound ==
    ASSUME NEW c, Clean(c), ~c.connected
    PROVE  Clean(PendingLogin(c)) /\ (Reasoned(c) => Reasoned(PendingLogin(c)))
<1>1. CASE c.pending = 0
  BY <1>1 DEF PendingLogin
<1>2. CASE c.pending # 0
  <2>1. c.pending \in Rooms /\ c.queued \in Seq(Rooms)
    BY <1>2 DEF Clean, Clients
  <2>2. Append(c.queued, c.pending) \in Seq(Rooms) /\ Append(c.queued, c.pending) # <<>>
    BY <2>1
  <2> QED
    BY <1>2, <2>2 DEF PendingLogin, Clean, Reasoned, Clients
<1> QED
  BY <1>1, <1>2

\* onDisconnected() makes the picture true again whatever it was.
LEMMA LostSound ==
    ASSUME NEW c, Clean(c)
    PROVE  Clean(Lost(c)) /\ (Reasoned(c) => Reasoned(Lost(c)))
<1> DEFINE d == [c EXCEPT !.line = "idle", !.room = 0, !.connected = FALSE, !.loggedIn = FALSE]
<1>1. Clean(d) /\ ~d.connected /\ (Reasoned(c) => Reasoned(d))
  BY DEF Clean, Reasoned, Clients
<1>2. /\ Clean(PendingLogin(d)) /\ (Reasoned(d) => Reasoned(PendingLogin(d)))
      /\ Clean(Scheduled(d)) /\ (Reasoned(d) => Reasoned(Scheduled(d)))
  BY <1>1, PendingLoginSound, ScheduledSound
<1> QED
  BY <1>1, <1>2 DEF Lost

\* abort() on any line.
LEMMA AbortedSound ==
    ASSUME NEW c, Clean(c)
    PROVE  Clean(Aborted(c)) /\ (Reasoned(c) => Reasoned(Aborted(c)))
<1>1. CASE c.line \in {"up", "closing"}
  BY <1>1, LostSound DEF Aborted
<1>2. CASE c.line \notin {"up", "closing"}
  BY <1>2 DEF Aborted, Clean, Reasoned, Clients
<1> QED
  BY <1>1, <1>2

\* disconnectFromServer() needs a room that waits, for it stops all dialling.
LEMMA HungUpSound ==
    ASSUME NEW c, Sound(c), c.pending # 0
    PROVE  Sound(HungUp(c))
BY DEF Sound, Clean, Reasoned, Clients, HungUp

\* reconnectNow() notes the room it has, so it may hang up.
LEMMA ReconnectedNowSound ==
    ASSUME NEW c, Sound(c), ChatLinkAssumption
    PROVE  Sound(ReconnectedNow(c))
<1> DEFINE d == [c EXCEPT !.retry = FALSE, !.attempts = 0, !.rejected = FALSE,
                          !.pending = c.chatId, !.intentional = FALSE]
<1>1. c.chatId # 0
  BY DEF Sound, Clean, Reasoned, Clients, ChatLinkAssumption
<1>2. ASSUME NEW n \in 0..30
      PROVE  LET e == [c EXCEPT !.retry = FALSE, !.attempts = n, !.rejected = FALSE,
                                !.pending = c.chatId, !.intentional = FALSE]
             IN  Sound(e) /\ e.pending # 0 /\ e.connected = c.connected
  BY <1>1 DEF Sound, Clean, Reasoned, Clients
<1>8. Sound(d) /\ d.pending # 0 /\ d.connected = c.connected
  BY <1>2, 0 \in 0..30
<1>3. Sound(HungUp(d))
  BY <1>8, HungUpSound
<1>4. Sound([HungUp(d) EXCEPT !.intentional = FALSE])
  BY <1>3 DEF Sound, Clean, Reasoned, Clients
<1>5. CASE ~c.host
  BY <1>5 DEF ReconnectedNow
<1>6. CASE c.host /\ (c.connected \/ c.line # "idle")
  BY <1>4, <1>6 DEF ReconnectedNow
<1>7. CASE c.host /\ ~(c.connected \/ c.line # "idle")
  <2>1. Sound(PendingLogin(d))
    BY <1>8, <1>7, PendingLoginSound DEF Sound
  <2> QED
    BY <1>7, <2>1 DEF ReconnectedNow
<1> QED
  BY <1>5, <1>6, <1>7

\* switchRoom() to a room of the menu.
LEMMA SwitchedSound ==
    ASSUME NEW c, Sound(c), NEW r \in Rooms, ChatLinkAssumption
    PROVE  Sound(Switched(c, r))
<1>1. CASE ~c.connected /\ c.line = "idle"
  <2>1. Sound([c EXCEPT !.chatId = r])
    BY <1>1 DEF Sound, Clean, Reasoned, Clients
  <2> QED
    BY <1>1, <2>1, ReconnectedNowSound DEF Switched
<1>2. CASE ~(~c.connected /\ c.line = "idle") /\ r = c.chatId
  BY <1>2 DEF Switched
<1>3. CASE ~(~c.connected /\ c.line = "idle") /\ r # c.chatId
  <2>1. r # 0
    BY DEF ChatLinkAssumption
  <2>2. Sound([c EXCEPT !.pending = r]) /\ [c EXCEPT !.pending = r].pending # 0
    BY <2>1 DEF Sound, Clean, Reasoned, Clients
  <2>3. Sound(HungUp([c EXCEPT !.pending = r]))
    BY <2>2, HungUpSound
  <2> QED
    BY <1>3, <2>3 DEF Switched
<1> QED
  BY <1>1, <1>2, <1>3

\* syncOn4kstRoomForCurrentBand(): a band without a room changes nothing.
LEMMA SyncedSound ==
    ASSUME NEW c, Sound(c), NEW b \in Bands, ChatLinkAssumption
    PROVE  Sound(Synced(c, b))
<1>1. RoomOf[b] \notin {0, c.chatId} => RoomOf[b] \in Rooms
  BY DEF ChatLinkAssumption
<1> QED
  BY <1>1, SwitchedSound DEF Synced

-----------------------------------------------------------------------------
(* The steps *)

\* The program starts sound.
LEMMA InitSound ==
    ASSUME Init, ChatLinkAssumption
    PROVE  IInv
BY DEF Init, IInv, Sound, Clean, Reasoned, Clients, ChatLinkAssumption

\* Every step of the operator, the socket, the server or a timer keeps IInv.
LEMMA StepSound ==
    ASSUME IInv, [Next]_vars, ChatLinkAssumption
    PROVE  IInv'
<1> USE DEF IInv
<1>1. CASE SaveSettings
  <2>1. DefaultRoom \in Rooms
    BY DEF ChatLinkAssumption
  <2>2. Sound(Dialled(chat, DefaultRoom))
    BY <2>1, DialledSound DEF Sound
  <2> QED
    BY <1>1, <2>2 DEF SaveSettings, Click, ChatLinkAssumption
<1>2. CASE ReconnectNow
  <2>1. Sound(ReconnectedNow(chat))
    BY ReconnectedNowSound
  <2> QED
    BY <1>2, <2>1 DEF ReconnectNow, Click, ChatLinkAssumption
<1>3. ASSUME NEW r \in Rooms, PickRoom(r)
      PROVE  IInv'
  <2>1. Sound(Switched(chat, r))
    BY SwitchedSound
  <2> QED
    BY <1>3, <2>1 DEF PickRoom, Click, ChatLinkAssumption
<1>4. ASSUME NEW b \in Bands, FollowBand(b)
      PROVE  IInv'
  <2>1. Sound(Synced(chat, b))
    BY SyncedSound
  <2> QED
    BY <1>4, <2>1 DEF FollowBand, Click, ChatLinkAssumption
<1>5. CASE LineUp
  <2>1. chat.chatId \in Rooms /\ chat.line = "dialing"
    BY <1>5 DEF LineUp, Sound, Clean, Reasoned, Clients
  <2>2. ASSUME NEW n \in 0..30, NEW l \in {"up", "closing"}
        PROVE  Sound([chat EXCEPT !.line = l, !.hangUp = FALSE, !.deadline = FALSE,
                                  !.connected = TRUE, !.attempts = n, !.room = chat.chatId])
    BY <2>1 DEF Sound, Clean, Reasoned, Clients
  <2>3. Sound(chat')
    BY <1>5, <2>2, 0 \in 0..30 DEF LineUp
  <2> QED
    BY <1>5, <2>3 DEF LineUp, Untouched
<1>6. CASE DialFails
  <2>1. Sound([chat EXCEPT !.line = "idle", !.hangUp = FALSE])
    BY <1>6 DEF DialFails, Sound, Clean, Reasoned, Clients
  <2> QED
    BY <1>6, <2>1, ScheduledSound DEF DialFails, Untouched, Sound
<1>7. CASE LineDrops
  BY <1>7, LostSound DEF LineDrops, Untouched, Sound
<1>8. CASE LineClosed
  BY <1>8, LostSound DEF LineClosed, Untouched, Sound
<1>9. CASE LoginAccepted
  <2>1. ASSUME NEW n \in 0..30
        PROVE  Sound([chat EXCEPT !.loggedIn = TRUE, !.attempts = n, !.rejected = FALSE])
    BY <1>9 DEF LoginAccepted, Sound, Clean, Reasoned, Clients
  <2>2. Sound([chat EXCEPT !.loggedIn = TRUE, !.attempts = 0, !.rejected = FALSE])
    BY <2>1, 0 \in 0..30
  <2> QED
    BY <1>9, <2>2, SyncedSound DEF LoginAccepted, Untouched
<1>10. CASE LoginRejected
  <2>1. Sound([chat EXCEPT !.rejected = TRUE])
    BY DEF Sound, Clean, Reasoned, Clients
  <2> QED
    BY <1>10, <2>1, LostSound DEF LoginRejected, Untouched, Sound
<1>11. CASE ConnectTimeout
  <2> DEFINE c == [chat EXCEPT !.deadline = FALSE]
  <2>1. Sound(c)
    BY DEF Sound, Clean, Reasoned, Clients
  <2>2. Sound(Scheduled(Aborted(c)))
    BY <2>1, AbortedSound, ScheduledSound DEF Sound
  <2> QED
    BY <1>11, <2>1, <2>2 DEF ConnectTimeout, Untouched
<1>12. CASE RetryTimeout
  <2> DEFINE c == [chat EXCEPT !.retry = FALSE]
  <2>1. Sound(c) /\ c.chatId \in Rooms
    BY DEF Sound, Clean, Reasoned, Clients
  <2>2. Sound(Dialled(c, c.chatId))
    BY <2>1, DialledSound DEF Sound
  <2> QED
    BY <1>12, <2>1, <2>2 DEF RetryTimeout, Untouched
<1>13. CASE PendingTurn
  <2> DEFINE c == [chat EXCEPT !.queued = Tail(@)]
             d == [Aborted(c) EXCEPT !.connected = FALSE, !.loggedIn = FALSE]
  <2>1. chat.queued \in Seq(Rooms) /\ chat.queued # <<>>
    BY <1>13 DEF PendingTurn, Sound, Clean, Clients
  <2>2. Head(chat.queued) \in Rooms /\ Tail(chat.queued) \in Seq(Rooms)
    BY <2>1
  <2>3. Clean(c)
    BY <2>2 DEF Sound, Clean, Clients
  <2>4. Clean(Aborted(c))
    BY <2>3, AbortedSound
  <2>5. Clean(d) /\ ~d.connected
    <3>1. ASSUME NEW e, Clean(e), e.line \notin {"up", "closing"}
          PROVE  LET f == [e EXCEPT !.connected = FALSE, !.loggedIn = FALSE]
                 IN  Clean(f) /\ ~f.connected
      BY <3>1 DEF Clean, Clients
    <3>2. Aborted(c).line \notin {"up", "closing"}
      BY <2>3 DEF Aborted, Lost, PendingLogin, Scheduled, Clean, Clients
    <3> QED
      BY <2>4, <3>1, <3>2
  <2>6. Sound(Dialled(d, Head(chat.queued)))
    BY <2>2, <2>5, DialledSound
  <2> QED
    BY <1>13, <2>6 DEF PendingTurn, Untouched
<1>14. CASE UNCHANGED vars
  BY <1>14 DEF vars
<1> QED
  BY <1>1, <1>2, <1>3, <1>4, <1>5, <1>6, <1>7, <1>8, <1>9, <1>10, <1>11, <1>12, <1>13, <1>14
     DEF Next

-----------------------------------------------------------------------------
(* Never forgotten, as long as no delay has overflowed *)

\* What the overflow breaks: that the timer starts at all.  TLC finds it true up
\* to MaxAttempts = 16 and false from 17 on.
DelaysStart ==
    \A n \in 0..30 : n < MaxAttempts => UsualDelays[n] >= 0 /\ RejectedDelays[n] >= 0

\* The invariant, of a client: NeverForgotten, and that a line that is up has
\* forgotten its failed attempts, for a drop counts on from them.
Kept(c) ==
    /\ c.host /\ c.line = "idle" /\ ~c.intentional => c.retry \/ c.deadline \/ c.queued # <<>>
    /\ c.line \in {"up", "closing"} => c.attempts = 0

\* scheduleReconnect() leaves a timer running unless the end was intended.
LEMMA ScheduledRuns ==
    ASSUME NEW c, Clean(c), DelaysStart, c.attempts < MaxAttempts
    PROVE  /\ Scheduled(c).intentional \/ Scheduled(c).retry
           /\ Scheduled(c).line = c.line
<1>1. c.attempts \in 0..30
  BY DEF Clean, Clients
<1>2. Delay(c) >= 0
  BY <1>1 DEF DelaysStart, Delay
<1> QED
  BY <1>2 DEF Scheduled, Clean, Clients

\* A line that goes down is followed by a queued call or by a timer.
LEMMA LostKept ==
    ASSUME NEW c, Clean(c), DelaysStart, c.attempts < MaxAttempts
    PROVE  Kept(Lost(c))
<1> DEFINE d == [c EXCEPT !.line = "idle", !.room = 0, !.connected = FALSE, !.loggedIn = FALSE]
<1>1. Clean(d) /\ d.attempts = c.attempts /\ d.line = "idle"
  BY DEF Clean, Clients
<1>2. CASE d.pending # 0
  <2>1. d.pending \in Rooms /\ d.queued \in Seq(Rooms)
    BY <1>1, <1>2 DEF Clean, Clients
  <2>2. Append(d.queued, d.pending) # <<>>
    BY <2>1
  <2>3. PendingLogin(d).queued # <<>> /\ PendingLogin(d).line = "idle"
    BY <1>1, <1>2, <2>2 DEF PendingLogin, Clean, Clients
  <2> QED
    BY <1>2, <2>3 DEF Lost, Kept
<1>3. CASE d.pending = 0
  <2>1. (Scheduled(d).intentional \/ Scheduled(d).retry) /\ Scheduled(d).line = "idle"
    BY <1>1, ScheduledRuns
  <2> QED
    BY <1>3, <2>1 DEF Lost, Kept
<1> QED
  BY <1>2, <1>3

\* connectAndLogin() on a line that is not up leaves it dialling.
LEMMA DialledKept ==
    ASSUME NEW c, Clean(c), ~c.connected, NEW r \in Rooms
    PROVE  Kept(Dialled(c, r))
<1>1. c.line \in {"idle", "dialing"}
  BY DEF Clean, Clients
<1>2. Dialled(c, r).line = "dialing"
  BY <1>1 DEF Dialled, Clean, Clients
<1> QED
  BY <1>2 DEF Kept

\* disconnectFromServer() of a line that is not idle leaves it so.
LEMMA HungUpKept ==
    ASSUME NEW c, Clean(c), c.line # "idle", c.line \in {"up", "closing"} => c.attempts = 0
    PROVE  /\ Kept(HungUp(c))
           /\ Kept([HungUp(c) EXCEPT !.intentional = FALSE])
<1>1. c.line \in {"dialing", "up", "closing"}
  BY DEF Clean, Clients
<1>2. /\ HungUp(c).line = IF c.line = "up" THEN "closing" ELSE c.line
      /\ HungUp(c).attempts = c.attempts
  BY DEF HungUp, Clean, Clients
<1>3. /\ [HungUp(c) EXCEPT !.intentional = FALSE].line = HungUp(c).line
      /\ [HungUp(c) EXCEPT !.intentional = FALSE].attempts = HungUp(c).attempts
  BY DEF HungUp, Clean, Clients
<1> QED
  BY <1>1, <1>2, <1>3 DEF Kept

\* reconnectNow(), from any state.
LEMMA ReconnectedNowKept ==
    ASSUME NEW c, Sound(c), Kept(c), ChatLinkAssumption
    PROVE  Kept(ReconnectedNow(c))
<1> DEFINE d == [c EXCEPT !.retry = FALSE, !.attempts = 0, !.rejected = FALSE,
                          !.pending = c.chatId, !.intentional = FALSE]
<1>1. c.chatId \in Rooms /\ c.chatId # 0
  BY DEF Sound, Clean, Clients, ChatLinkAssumption
<1>2. ASSUME NEW n \in 0..30
      PROVE  LET e == [c EXCEPT !.retry = FALSE, !.attempts = n, !.rejected = FALSE,
                                !.pending = c.chatId, !.intentional = FALSE]
             IN  /\ Clean(e) /\ e.line = c.line /\ e.attempts = n
                 /\ e.pending = c.chatId /\ e.queued = c.queued
  BY <1>1 DEF Sound, Clean, Clients
<1>3. /\ Clean(d) /\ d.line = c.line /\ d.attempts = 0
      /\ d.pending = c.chatId /\ d.queued = c.queued
  BY <1>2, 0 \in 0..30
<1>4. CASE ~c.host
  BY <1>4 DEF ReconnectedNow
<1>5. CASE c.host /\ (c.connected \/ c.line # "idle")
  <2>1. c.line # "idle"
    BY <1>5 DEF Sound, Clean, Clients
  <2>2. Kept([HungUp(d) EXCEPT !.intentional = FALSE])
    BY <1>3, <2>1, HungUpKept
  <2> QED
    BY <1>5, <2>2 DEF ReconnectedNow
<1>6. CASE c.host /\ ~(c.connected \/ c.line # "idle")
  <2>1. c.queued \in Seq(Rooms)
    BY DEF Sound, Clean, Clients
  <2>2. Append(d.queued, d.pending) # <<>>
    BY <1>1, <1>3, <2>1
  <2>3. PendingLogin(d).queued # <<>> /\ PendingLogin(d).line = "idle"
    BY <1>1, <1>3, <1>6, <2>2 DEF PendingLogin, Clean, Clients
  <2> QED
    BY <1>6, <2>3 DEF ReconnectedNow, Kept
<1> QED
  BY <1>4, <1>5, <1>6

\* switchRoom(), from any state.
LEMMA SwitchedKept ==
    ASSUME NEW c, Sound(c), Kept(c), NEW r \in Rooms, ChatLinkAssumption
    PROVE  Kept(Switched(c, r))
<1>1. CASE ~c.connected /\ c.line = "idle"
  <2>1. Sound([c EXCEPT !.chatId = r]) /\ Kept([c EXCEPT !.chatId = r])
    BY <1>1 DEF Sound, Clean, Reasoned, Clients, Kept
  <2> QED
    BY <1>1, <2>1, ReconnectedNowKept DEF Switched
<1>2. CASE ~(~c.connected /\ c.line = "idle") /\ r = c.chatId
  BY <1>2 DEF Switched
<1>3. CASE ~(~c.connected /\ c.line = "idle") /\ r # c.chatId
  <2>1. c.line # "idle"
    BY <1>3 DEF Sound, Clean, Clients
  <2>2. /\ Clean([c EXCEPT !.pending = r])
        /\ [c EXCEPT !.pending = r].line = c.line
        /\ [c EXCEPT !.pending = r].attempts = c.attempts
    BY DEF Sound, Clean, Clients
  <2>3. Kept(HungUp([c EXCEPT !.pending = r]))
    BY <2>1, <2>2, HungUpKept DEF Kept
  <2> QED
    BY <1>3, <2>3 DEF Switched
<1> QED
  BY <1>1, <1>2, <1>3

\* syncOn4kstRoomForCurrentBand(), from any state.
LEMMA SyncedKept ==
    ASSUME NEW c, Sound(c), Kept(c), NEW b \in Bands, ChatLinkAssumption
    PROVE  Kept(Synced(c, b))
<1>1. RoomOf[b] \notin {0, c.chatId} => RoomOf[b] \in Rooms
  BY DEF ChatLinkAssumption
<1> QED
  BY <1>1, SwitchedKept DEF Synced

\* No step forgets the client.
LEMMA StepKept ==
    ASSUME IInv, Kept(chat), [Next]_vars, ChatLinkAssumption, DelaysStart
    PROVE  Kept(chat')
<1> USE DEF IInv
<1>1. CASE SaveSettings
  BY <1>1, DialledKept DEF SaveSettings, Sound, ChatLinkAssumption
<1>2. CASE ReconnectNow
  BY <1>2, ReconnectedNowKept DEF ReconnectNow
<1>3. ASSUME NEW r \in Rooms, PickRoom(r)
      PROVE  Kept(chat')
  BY <1>3, SwitchedKept DEF PickRoom
<1>4. ASSUME NEW b \in Bands, FollowBand(b)
      PROVE  Kept(chat')
  BY <1>4, SyncedKept DEF FollowBand
<1>5. CASE LineUp
  <2>1. chat'.line # "idle" /\ chat'.attempts = 0
    BY <1>5 DEF LineUp, Sound, Clean, Clients
  <2> QED
    BY <2>1 DEF Kept
<1>6. CASE DialFails
  <2> DEFINE c == [chat EXCEPT !.line = "idle", !.hangUp = FALSE]
  <2>1. Clean(c) /\ c.attempts = chat.attempts /\ c.line = "idle"
    BY <1>6 DEF DialFails, Sound, Clean, Clients
  <2>2. (Scheduled(c).intentional \/ Scheduled(c).retry) /\ Scheduled(c).line = "idle"
    BY <1>6, <2>1, ScheduledRuns DEF DialFails, MayFail
  <2> QED
    BY <1>6, <2>2 DEF DialFails, Kept
<1>7. CASE LineDrops
  <2>1. chat.attempts < MaxAttempts
    BY <1>7 DEF LineDrops, Kept, ChatLinkAssumption
  <2> QED
    BY <1>7, <2>1, LostKept DEF LineDrops, Sound
<1>8. CASE LineClosed
  <2>1. chat.attempts < MaxAttempts
    BY <1>8 DEF LineClosed, Kept, ChatLinkAssumption
  <2> QED
    BY <1>8, <2>1, LostKept DEF LineClosed, Sound
<1>9. CASE LoginAccepted
  <2>1. ASSUME NEW n \in 0..30, n = 0
        PROVE  LET c == [chat EXCEPT !.loggedIn = TRUE, !.attempts = n, !.rejected = FALSE]
               IN  Sound(c) /\ Kept(c)
    BY <1>9, <2>1 DEF LoginAccepted, Sound, Clean, Reasoned, Clients, Kept
  <2> DEFINE d == [chat EXCEPT !.loggedIn = TRUE, !.attempts = 0, !.rejected = FALSE]
  <2>2. Sound(d) /\ Kept(d)
    BY <2>1, 0 \in 0..30
  <2> QED
    BY <1>9, <2>2, SyncedKept DEF LoginAccepted
<1>10. CASE LoginRejected
  <2> DEFINE c == [chat EXCEPT !.rejected = TRUE]
  <2>1. Clean(c) /\ c.attempts = chat.attempts
    BY DEF Sound, Clean, Clients
  <2>2. chat.attempts < MaxAttempts
    BY <1>10 DEF LoginRejected, Kept, ChatLinkAssumption
  <2> QED
    BY <1>10, <2>1, <2>2, LostKept DEF LoginRejected
<1>11. CASE ConnectTimeout
  <2> DEFINE c == [chat EXCEPT !.deadline = FALSE]
  <2>1. /\ Clean(c) /\ c.line = chat.line /\ c.attempts = chat.attempts
        /\ c.connected = chat.connected
    BY DEF Sound, Clean, Clients
  <2>2. CASE ~c.connected /\ c.line # "up"
    <3>1. c.line \notin {"up", "closing"}
      BY <2>1, <2>2 DEF Clean
    <3>2. Clean(Aborted(c)) /\ Aborted(c).attempts = c.attempts /\ Aborted(c).line = "idle"
      BY <2>1, <3>1, AbortedSound DEF Aborted, Clean, Clients
    <3>3. LET d == Scheduled(Aborted(c)) IN (d.intentional \/ d.retry) /\ d.line = "idle"
      BY <1>11, <2>1, <3>2, ScheduledRuns DEF ConnectTimeout, MayFail
    <3> QED
      BY <1>11, <2>2, <3>3 DEF ConnectTimeout, Kept
  <2>3. CASE ~(~c.connected /\ c.line # "up")
    <3>1. chat' = c
      BY <1>11, <2>3 DEF ConnectTimeout
    <3>2. c.line \in {"up", "closing"}
      BY <2>1, <2>3 DEF Clean
    <3> QED
      BY <2>1, <3>1, <3>2 DEF Kept
  <2> QED
    BY <2>2, <2>3
<1>12. CASE RetryTimeout
  <2> DEFINE c == [chat EXCEPT !.retry = FALSE]
  <2>1. /\ Clean(c) /\ c.line = chat.line /\ c.attempts = chat.attempts
        /\ c.chatId \in Rooms /\ c.connected = chat.connected
    BY DEF Sound, Clean, Clients
  <2>2. CASE c.intentional
    BY <1>12, <2>1, <2>2 DEF RetryTimeout, Kept
  <2>3. CASE ~c.intentional /\ c.connected
    <3>1. chat' = c
      BY <1>12, <2>3 DEF RetryTimeout, Dialled
    <3>2. c.line \in {"up", "closing"}
      BY <2>1, <2>3 DEF Clean
    <3> QED
      BY <2>1, <3>1, <3>2 DEF Kept
  <2>4. CASE ~c.intentional /\ ~c.connected
    BY <1>12, <2>1, <2>4, DialledKept DEF RetryTimeout
  <2> QED
    BY <2>2, <2>3, <2>4
<1>13. CASE PendingTurn
  <2> DEFINE c == [chat EXCEPT !.queued = Tail(@)]
             d == [Aborted(c) EXCEPT !.connected = FALSE, !.loggedIn = FALSE]
  <2>1. chat.queued \in Seq(Rooms) /\ chat.queued # <<>>
    BY <1>13 DEF PendingTurn, Sound, Clean, Clients
  <2>2. Head(chat.queued) \in Rooms /\ Tail(chat.queued) \in Seq(Rooms)
    BY <2>1
  <2>3. Clean(c)
    BY <2>2 DEF Sound, Clean, Clients
  <2>4. Clean(Aborted(c))
    BY <2>3, AbortedSound
  <2>7. Aborted(c).line \notin {"up", "closing"}
    BY <2>3 DEF Aborted, Lost, PendingLogin, Scheduled, Clean, Clients
  <2>5. ASSUME NEW e, Clean(e), e.line \notin {"up", "closing"}
        PROVE  LET f == [e EXCEPT !.connected = FALSE, !.loggedIn = FALSE]
               IN  Clean(f) /\ ~f.connected
    BY <2>5 DEF Clean, Clients
  <2>6. Clean(d) /\ ~d.connected
    BY <2>4, <2>5, <2>7
  <2> QED
    BY <1>13, <2>2, <2>6, DialledKept DEF PendingTurn
<1>14. CASE UNCHANGED vars
  BY <1>14 DEF vars
<1> QED
  BY <1>1, <1>2, <1>3, <1>4, <1>5, <1>6, <1>7, <1>8, <1>9, <1>10, <1>11, <1>12, <1>13, <1>14
     DEF Next

-----------------------------------------------------------------------------
(* The theorems *)

\* IInv is an invariant.
LEMMA Invariance == Spec => []IInv
<1>1. Init => IInv
  BY InitSound, ChatLinkAssumption
<1>2. IInv /\ [Next]_vars => IInv'
  BY StepSound, ChatLinkAssumption
<1> QED
  BY <1>1, <1>2, PTL DEF Spec

\* Types: the client stays one, with a room of the menu, and rooms only, in wait.
THEOREM TypeCorrect == Spec => []TypeOK
<1>1. IInv => TypeOK
  BY DEF IInv, Sound, Clean, TypeOK
<1> QED
  BY <1>1, Invariance, PTL

\* What isConnected(), isLoggedIn() and currentChatId() say is so, whatever
\* handlers, clicks, timers and queued calls come in whatever order.
THEOREM BeliefStaysTrue == Spec => []BeliefIsTrue
<1>1. IInv => BeliefIsTrue
  BY DEF IInv, Sound, Clean, BeliefIsTrue
<1> QED
  BY <1>1, Invariance, PTL

\* disconnectFromServer() is called for a change of room only, and the room is
\* noted before: m_intentionalDisconnect never stands without one that waits.
THEOREM IntentionKeepsItsReason == Spec => []IntentionHasAReason
<1>1. IInv => IntentionHasAReason
  BY DEF IInv, Sound, Reasoned, IntentionHasAReason
<1> QED
  BY <1>1, Invariance, PTL

\* The retry of On4kstClient is complete but for its arithmetic: if every delay it
\* computes starts its timer, it is never left with nothing to come.
THEOREM OnlyTheDelayForgets ==
    ASSUME DelaysStart
    PROVE  Spec => []NeverForgotten
<1>1. Init => Kept(chat)
  BY DEF Init, Kept
<1>2. IInv /\ Kept(chat) /\ [Next]_vars => Kept(chat)'
  BY StepKept, ChatLinkAssumption, DelaysStart
<1>3. Kept(chat) => NeverForgotten
  BY DEF Kept, NeverForgotten
<1> QED
  BY <1>1, <1>2, <1>3, Invariance, PTL DEF Spec
=============================================================================
