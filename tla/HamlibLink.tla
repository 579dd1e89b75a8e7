----------------------------- MODULE HamlibLink -----------------------------
(***************************************************************************)
(* The lines to the radio and to a rotor: core/RigctldClient and           *)
(* core/RotctldClient, which are one design twice, and the daemons that    *)
(* app/AppController starts behind them (core/RigctldProcess,              *)
(* core/RotctldProcess) when nobody else's answers.                        *)
(*                                                                         *)
(* A slot is one record: the client, its socket with what is under way on  *)
(* it, and the daemon.  Each function of the code is an operator from slot *)
(* to slot, since every change of state calls the supervision at once.  An *)
(* answer is a sequence of lines, and a line is named for what it says.    *)
(***************************************************************************)
EXTENDS Integers, Sequences

CONSTANTS
    RigKinds,      \* what is at the other end: "rig", "rotor"
    Launches,   \* what a daemon can be started with: model, device, baud, port
    TailApart,  \* whether a line too many may arrive apart from its answer
    RigMaxClicks,  \* bound: settings saved and commands given
    RigMaxFaults   \* bound: what the network, the servers and the daemons do wrong

ASSUME HamlibAssumption ==
    /\ RigKinds \subseteq {"rig", "rotor"} /\ Launches \subseteq Nat \ {0}
    /\ TailApart \in BOOLEAN /\ RigMaxClicks \in Nat /\ RigMaxFaults \in Nat

VARIABLES
    what,   \* rig or rotor, never changes
    slot,   \* settings, client, socket, daemon: see Slots
    rigWorld,  \* who listens where, what can be started
    misread,\* history: a value was taken from lines that do not answer its query
    hungUp, \* history: the client was told to disconnect, and not to connect since
    rigClicks, rigFaults

rigVars == <<what, slot, rigWorld, misread, hungUp, rigClicks, rigFaults>>

RigHosts == {"none", "local", "away"}

RigSettings == [enabled : BOOLEAN, host : RigHosts, launch : {0} \cup Launches]

Queries == {"f", "m", "t", "p"}
Lines   == {"f", "m1", "m2", "t", "p1", "p2", "ok", "rprt", "tail"}

Slots ==
    [conf : RigSettings,                             \* m_settings, as far as this slot goes
     line : {"idle", "dialing", "up"},            \* the state of m_socket
     state : {"off", "dialing", "on", "error"},   \* m_state
     host : RigHosts,                                \* m_host, m_port
     peer : RigHosts,                                \* whom m_socket was told to dial
     queue : Seq(Queries \cup {"set"}), awaiting : Queries \cup {"set", "none"},
     buffer : Seq(Lines),
     poll : BOOLEAN, retry : BOOLEAN, deadline : BOOLEAN,  \* timers that run
     asked : Seq(Queries \cup {"set"}), coming : Seq(Lines), \* on the wire
     daemon : {0} \cup Launches,                  \* the process, and m_rigctldLaunch
     cooling : BOOLEAN]                           \* m_rigctldFailedAt is less than 30 s ago

-----------------------------------------------------------------------------
(* The daemon *)

\* rigctldLaunchFor(), rotctldLaunchFor()
Wanted(s) == IF s.conf.enabled /\ s.conf.host = "local" THEN s.conf.launch ELSE 0

\* start(): the binary is found and comes up, or the cool-down begins.
Started(s) ==
    IF rigWorld.startable THEN [s EXCEPT !.daemon = Wanted(s)] ELSE [s EXCEPT !.cooling = TRUE]

\* stopRigctld(), stopRotctld(): waits for the exit, which is no failure.
Stopped(s) == [s EXCEPT !.daemon = 0]

\* Mutant of Supervised: what runs is left running.
Supervised_Lazy(s, mayStart) ==
    IF s.daemon # 0 \/ Wanted(s) = 0 \/ ~mayStart \/ s.cooling THEN s ELSE Started(s)

\* Mutant of Supervised: a daemon is started only if the retry timer runs
\* already, which the handlers start last.
Supervised_Once(s, mayStart) ==
    LET d == IF s.daemon = Wanted(s) THEN s ELSE Stopped(s)
    IN  IF d.daemon = Wanted(d) \/ ~mayStart \/ d.cooling \/ ~s.retry THEN d ELSE Started(d)

\* superviseRigctld(), superviseRotctld()
Supervised(s, mayStart) ==
    LET d == IF s.daemon = Wanted(s) THEN s ELSE Stopped(s)
    IN  IF d.daemon = Wanted(d) \/ ~mayStart \/ d.cooling THEN d ELSE Started(d)

\* setState(), and what AppController does on stateChanged()
InState(s, new) ==
    IF s.state = new THEN s ELSE Supervised([s EXCEPT !.state = new], new = "off")

-----------------------------------------------------------------------------
(* The client *)

\* Mutant of Pumped: what is left in the buffer stays there.
Pumped_KeepsBuffer(s) ==
    IF s.awaiting # "none" \/ s.queue = <<>> \/ s.line # "up" THEN s
    ELSE [s EXCEPT !.awaiting = Head(s.queue), !.queue = Tail(s.queue),
                   !.asked = Append(@, Head(s.queue)), !.deadline = TRUE]

\* pump()
Pumped(s) ==
    IF s.awaiting # "none" \/ s.queue = <<>> \/ s.line # "up" THEN s
    ELSE [s EXCEPT !.buffer = <<>>, !.awaiting = Head(s.queue), !.queue = Tail(s.queue),
                   !.asked = Append(@, Head(s.queue)), !.deadline = TRUE]

\* What one round of polling asks.
Round == IF what = "rig" THEN <<"f", "m", "t">> ELSE <<"p">>

\* send()
Sent(s, commands) == Pumped([s EXCEPT !.queue = @ \o commands])

RigRetried(s) == [s EXCEPT !.retry = @ \/ s.host # "none"]

\* The line is down: disconnected(), and errorOccurred() on an idle socket.
\* m_queue and m_awaiting stay as they are until the next connected().
RigClosed(s) ==
    RigRetried(InState([s EXCEPT !.line = "idle", !.asked = <<>>, !.coming = <<>>,
                              !.poll = FALSE, !.deadline = FALSE], "off"))

\* QAbstractSocket::abort(): only a line that was up reports its end.
RigAborted(s) == IF s.line = "up" THEN RigClosed(s) ELSE [s EXCEPT !.line = "idle"]

\* connectToRig(), connectToRotor()
RigDialled(s) ==
    IF s.host = "none" \/ s.line # "idle" THEN s
    ELSE InState([s EXCEPT !.retry = FALSE, !.line = "dialing", !.peer = s.host], "dialing")

\* disconnectFromRig(), disconnectFromRotor(): the retry timer is stopped first,
\* and abort() comes back through disconnected().
RigHungUp(s) ==
    InState(RigAborted([s EXCEPT !.retry = FALSE, !.poll = FALSE, !.deadline = FALSE,
                              !.queue = <<>>, !.awaiting = "none"]), "off")

-----------------------------------------------------------------------------
(* Answers *)

AnswerOf == [q \in Queries |->
    CASE q = "f" -> <<"f">> [] q = "m" -> <<"m1", "m2">>
      [] q = "t" -> <<"t">> [] q = "p" -> <<"p1", "p2">>]

Wants(q) == IF q \in {"m", "p"} THEN 2 ELSE 1

Numbers == {"f", "m2", "t", "p1", "p2", "tail"}

\* parseFrequency(), parseMode(), parsePtt(), parsePosition(): whether these
\* lines are taken for the answer to q.  (A tail may be any number.)
Parses(q, reply) ==
    CASE q = "f" -> reply[1] \in Numbers
      [] q = "m" -> reply[2] \in Numbers
      [] q = "t" -> reply[1] \in {"t", "tail"}
      [] q = "p" -> reply[1] \in Numbers /\ reply[2] \in Numbers

\* Mutant of Reported: the radio's client does as the rotor's.
Reported_Alike(s, line) ==
    IF line = "rprt" THEN InState(s, "error")
    ELSE IF s.state = "error" THEN InState(s, "on") ELSE s

\* The report on a command: only the rotor's client has an Error.
Reported(s, line) ==
    IF what = "rig" THEN s
    ELSE IF line = "rprt" THEN InState(s, "error")
    ELSE IF s.state = "error" THEN InState(s, "on") ELSE s

\* onReadyRead(), one turn of its loop; there is never a second.
Answered(s) ==
    LET q == s.awaiting
        d == [s EXCEPT !.buffer = SubSeq(@, Wants(q) + 1, Len(@)),
                       !.awaiting = "none", !.deadline = FALSE]
    IN  IF q = "none" \/ Len(s.buffer) < Wants(q) THEN s
        ELSE IF q = "set" THEN Reported(d, s.buffer[1]) ELSE d

Misread(s) ==
    /\ s.awaiting \in Queries /\ Len(s.buffer) >= Wants(s.awaiting)
    /\ LET reply == SubSeq(s.buffer, 1, Wants(s.awaiting))
       IN  Parses(s.awaiting, reply) /\ reply # AnswerOf[s.awaiting]

-----------------------------------------------------------------------------
(* The operator *)

RigClick == rigClicks < RigMaxClicks /\ rigClicks' = rigClicks + 1

\* applyNetworkSettings(), for one slot.  The radio is never switched off; a
\* rotor that is keeps the host it had.
Saved(s, new) ==
    LET d == Supervised([s EXCEPT !.conf = new, !.host = IF new.enabled THEN new.host ELSE @],
                        FALSE)
    IN  CASE new.enabled /\ new.host # "none" /\ s.state # "on" -> RigDialled(d)
          [] ~new.enabled /\ s.state = "on" -> RigHungUp(d)
          [] OTHER -> d

SaveSettings(new) ==
    /\ RigClick
    /\ what = "rig" => new.enabled
    /\ slot' = Saved(slot, new)
    /\ hungUp' = IF new.enabled THEN FALSE ELSE hungUp \/ slot.state = "on"
    /\ UNCHANGED <<what, rigWorld, misread, rigFaults>>

\* setFrequency(), setMode(), setPtt(), sendMorse(), setAzimuth() ...
RigCommand ==
    /\ RigClick
    /\ slot.state = "on"
    /\ slot' = Sent(slot, <<"set">>)
    /\ UNCHANGED <<what, rigWorld, misread, hungUp, rigFaults>>

-----------------------------------------------------------------------------
(* The socket and the timers *)

RigUntouched == UNCHANGED <<what, rigWorld, misread, hungUp, rigClicks>>

RigFault == rigFaults < RigMaxFaults /\ rigFaults' = rigFaults + 1

Listening == slot.peer \in rigWorld.servers \/ (slot.peer = "local" /\ slot.daemon # 0)

\* connected()
RigLineUp ==
    /\ slot.line = "dialing" /\ Listening
    /\ slot' = Sent(InState([slot EXCEPT !.line = "up", !.buffer = <<>>, !.queue = <<>>,
                                         !.awaiting = "none", !.poll = TRUE], "on"), Round)
    /\ rigFaults' = rigFaults /\ RigUntouched

\* errorOccurred() of an attempt
RigDialFails ==
    /\ slot.line = "dialing"
    /\ IF Listening THEN RigFault ELSE rigFaults' = rigFaults
    /\ slot' = RigClosed(slot)
    /\ RigUntouched

\* disconnected()
RigLineDrops ==
    /\ slot.line = "up"
    /\ IF Listening THEN RigFault ELSE rigFaults' = rigFaults
    /\ slot' = RigClosed(slot)
    /\ RigUntouched

PollTimeout ==
    /\ slot.poll /\ slot.awaiting = "none" /\ slot.queue = <<>>
    /\ slot' = Sent(slot, Round)
    /\ rigFaults' = rigFaults /\ RigUntouched

RigRetryTimeout ==
    /\ slot.retry
    /\ LET s == [slot EXCEPT !.retry = FALSE]
       IN  slot' = IF s.state = "off" THEN RigDialled(s) ELSE s
    /\ rigFaults' = rigFaults /\ RigUntouched

\* An answer still comes: the watchdog would have waited long enough for it.
AnswerIsComing ==
    slot.coming # <<>> \/ (slot.asked # <<>> /\ Listening /\ ~rigWorld.frozen)

\* Mutant of ReplyTimeout: the connection is cut, and that is all.
ReplyTimeout_NoRetry ==
    /\ slot.deadline
    /\ IF AnswerIsComing THEN RigFault ELSE rigFaults' = rigFaults
    /\ slot' = IF slot.awaiting = "none" THEN [slot EXCEPT !.deadline = FALSE]
               ELSE [slot EXCEPT !.line = "idle", !.asked = <<>>, !.coming = <<>>,
                                 !.poll = FALSE, !.deadline = FALSE, !.state = "off",
                                 !.queue = <<>>, !.buffer = <<>>, !.awaiting = "none"]
    /\ RigUntouched

\* The watchdog m_deadline
ReplyTimeout ==
    /\ slot.deadline
    /\ IF AnswerIsComing THEN RigFault ELSE rigFaults' = rigFaults
    /\ LET s == RigAborted([slot EXCEPT !.deadline = FALSE])
           d == [s EXCEPT !.poll = FALSE, !.queue = <<>>, !.buffer = <<>>, !.awaiting = "none"]
       IN  slot' = IF slot.awaiting = "none" THEN [slot EXCEPT !.deadline = FALSE]
                   ELSE RigRetried(InState(d, "off"))
    /\ RigUntouched

\* readyRead() with the first n lines of what is on its way.
Read(n) ==
    /\ n \in 1..Len(slot.coming)
    /\ ~TailApart => (n < Len(slot.coming) => slot.coming[n+1] # "tail")
    /\ LET s == [slot EXCEPT !.buffer = @ \o SubSeq(slot.coming, 1, n),
                             !.coming = SubSeq(@, n + 1, Len(@))]
       IN  /\ slot' = Pumped(Answered(s))
           /\ misread' = (misread \/ Misread(s))
    /\ UNCHANGED <<what, rigWorld, hungUp, rigClicks, rigFaults>>

-----------------------------------------------------------------------------
(* The servers *)

\* The answers a server gives: a report that may refuse, the lines asked for, an
\* error in their place, or one line more than this client knows.
Answer(reply) ==
    /\ slot.asked # <<>> /\ Listening /\ ~rigWorld.frozen
    /\ LET q == Head(slot.asked)
       IN  \/ reply = (IF q = "set" THEN <<"ok">> ELSE AnswerOf[q]) /\ rigFaults' = rigFaults
           \/ reply = <<"rprt">> /\ RigFault
           \/ q # "set" /\ reply = Append(AnswerOf[q], "tail") /\ RigFault
    /\ slot' = [slot EXCEPT !.asked = Tail(@), !.coming = @ \o reply]
    /\ RigUntouched

Replies == {AnswerOf[q] : q \in Queries} \cup {Append(AnswerOf[q], "tail") : q \in Queries}
           \cup {<<"ok">>, <<"rprt">>}

\* The operator's own server comes and goes; a server answers nothing for a
\* while; the binary or the serial port is there or not.
WorldChanges ==
    /\ RigFault
    /\ \/ \E h \in {"local", "away"} : rigWorld' = [rigWorld EXCEPT !.servers =
              IF h \in @ THEN @ \ {h} ELSE @ \cup {h}]
       \/ rigWorld' = [rigWorld EXCEPT !.frozen = ~@]
       \/ rigWorld' = [rigWorld EXCEPT !.startable = ~@]
    /\ UNCHANGED <<what, slot, misread, hungUp, rigClicks>>

\* exited(), when it was not this program that stopped it
DaemonDies ==
    /\ slot.daemon # 0 /\ RigFault
    /\ slot' = [slot EXCEPT !.daemon = 0, !.cooling = TRUE]
    /\ RigUntouched

CooledDown ==
    /\ slot.cooling
    /\ slot' = [slot EXCEPT !.cooling = FALSE]
    /\ rigFaults' = rigFaults /\ RigUntouched

-----------------------------------------------------------------------------
RigInit ==
    /\ what \in RigKinds
    /\ slot = [conf |-> [enabled |-> FALSE, host |-> "none", launch |-> 0],
               line |-> "idle", state |-> "off", host |-> "none", peer |-> "none",
               queue |-> <<>>, awaiting |-> "none", buffer |-> <<>>,
               poll |-> FALSE, retry |-> FALSE, deadline |-> FALSE,
               asked |-> <<>>, coming |-> <<>>, daemon |-> 0, cooling |-> FALSE]
    /\ rigWorld \in [servers : SUBSET {"local", "away"}, frozen : {FALSE}, startable : BOOLEAN]
    /\ misread = FALSE /\ hungUp = FALSE /\ rigClicks = 0 /\ rigFaults = 0

RigNext ==
    \/ \E new \in RigSettings : SaveSettings(new)
    \/ RigCommand
    \/ RigLineUp \/ RigDialFails \/ RigLineDrops
    \/ PollTimeout \/ RigRetryTimeout \/ ReplyTimeout
    \/ \E n \in 1..3 : Read(n)
    \/ \E reply \in Replies : Answer(reply)
    \/ WorldChanges \/ DaemonDies \/ CooledDown

RigSpec == RigInit /\ [][RigNext]_rigVars

\* Timers go off, an attempt ends one way or the other, what was sent arrives.
RigFairSpec ==
    /\ RigSpec
    /\ WF_rigVars(RigLineUp \/ RigDialFails)
    /\ WF_rigVars(PollTimeout) /\ WF_rigVars(RigRetryTimeout) /\ WF_rigVars(ReplyTimeout)
    /\ WF_rigVars(\E n \in 1..3 : Read(n))
    /\ WF_rigVars(\E reply \in Replies : Answer(reply))
    /\ WF_rigVars(CooledDown)

-----------------------------------------------------------------------------
(* Properties *)

RigTypeOK ==
    /\ what \in RigKinds /\ slot \in Slots
    /\ what = "rig" => slot.state # "error" /\ ~hungUp
    /\ rigWorld \in [servers : SUBSET {"local", "away"}, frozen : BOOLEAN, startable : BOOLEAN]
    /\ misread \in BOOLEAN /\ hungUp \in BOOLEAN
    /\ rigClicks \in 0..RigMaxClicks /\ rigFaults \in 0..RigMaxFaults

\* "a rigctld that freezes while its TCP side stays open leaves m_awaiting set
\* forever" (RigctldClient.cpp:48): whoever waits for an answer is watched, a
\* line that is up is polled, the state shown is that of the socket, and a line
\* that is down is dialled again.  The last is not asked of a rotor that is
\* switched off, told to hang up or not: "a disabled slot is never dialed"
\* (AppController.cpp:520), see HungUpStaysDown.
NeverSilentlyDead ==
    /\ slot.state = "off" <=> slot.line = "idle"
    /\ slot.state = "dialing" <=> slot.line = "dialing"
    /\ slot.poll <=> slot.line = "up"
    /\ slot.deadline <=> slot.line = "up" /\ slot.awaiting # "none"
    /\ slot.queue # <<>> /\ slot.line = "up" => slot.awaiting # "none"
    /\ slot.conf.enabled /\ slot.line = "idle" /\ slot.host # "none" => slot.retry

\* Answers carry no name: no frequency, mode or bearing is ever read from the
\* lines of another answer, whatever was cut, refused, queued or too long.
AnswersBelong == ~misread

\* A daemon of ours runs with the settings as they are now, or not at all.
DaemonFitsSettings == slot.daemon \in {0, Wanted(slot)}

Usable ==
    /\ slot.host # "none" /\ slot.conf.enabled /\ ~rigWorld.frozen
    /\ slot.host \in rigWorld.servers \/ (slot.host = "local" /\ Wanted(slot) # 0 /\ rigWorld.startable)

\* "should come back on its own" (RigctldClient.cpp:84): as long as there is a
\* server, or one can be started, rounds of queries go on being answered.
RigComesBack == []<>(~Usable \/ (slot.line = "up" /\ slot.awaiting = "none"))

\* "stop retrying too, otherwise "disconnect" reconnects a few seconds later and
\* looks like the button does nothing" (RotctldClient.cpp:150).
HungUpStaysDown == hungUp => slot.line # "dialing"
=============================================================================
