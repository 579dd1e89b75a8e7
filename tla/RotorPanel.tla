----------------------------- MODULE RotorPanel -----------------------------
(***************************************************************************)
(* The compasses of the rotor panel and the headings the map shows: a dial  *)
(* for each enabled slot (ui/RotorWidget), made and thrown away by          *)
(* MainWindow::applyRotorSlot(), which wires it to the slot's rotctld       *)
(* client and to the map.  The link itself is HamlibLink.  A circle of      *)
(* RpCircle directions stands for 360 degrees.                              *)
(***************************************************************************)
EXTENDS Integers, Sequences

CONSTANTS
    RpCircle,     \* directions of the circle, an even number
    RpLabels,     \* names a slot can be given
    RpMaxSteps    \* bound: what the operator does

Slots == 1..2
Directions == 0..(RpCircle - 1)
Unaimed == -1

RotorAssumption ==
    RpCircle \in Nat /\ RpCircle > 2 /\ RpCircle % 2 = 0 /\ RpLabels # {} /\ RpMaxSteps \in Nat
ASSUME RotorAssumption

VARIABLES
    rpSettings,   \* what is stored for each slot: enabled, label, second antenna
    rpDial,       \* the dial of each slot, NoDial without one
    rpOnMap,      \* what the map shows for each slot
    rpRotor,      \* the client of each slot: up, its last heading, where it was sent
    rpAsk,        \* the direction last asked for on each slot (history)
    rpSteps       \* steps of the operator

rpVars == <<rpSettings, rpDial, rpOnMap, rpRotor, rpAsk, rpSteps>>

-----------------------------------------------------------------------------
(* Directions *)

Wrap(d) == d % RpCircle
\* The signed difference on the short way, in stepSimulatedTurn() and plan().
Travel(from, to) == ((to - from + RpCircle + RpCircle \div 2) % RpCircle) - RpCircle \div 2
SecondOffset == RpCircle \div 4
StepTowards(from, to) ==
    IF Travel(from, to) = 0 THEN from ELSE Wrap(from + (IF Travel(from, to) > 0 THEN 1 ELSE -1))

-----------------------------------------------------------------------------
(* A dial.  wiredName and wiredNumber are what applyRotorSlot()'s lambdas      *)
(* captured when they were connected.                                          *)

NoDial == [label |-> "none"]
HasDial(s) == rpDial[s] # NoDial

NewDial(s, settings, number) ==
    [label |-> settings[s].label, wiredName |-> settings[s].label, wiredNumber |-> number,
     az |-> rpRotor[s].az, target |-> Unaimed, connected |-> rpRotor[s].up, simulated |-> FALSE,
     turning |-> FALSE, second |-> settings[s].second]

\* Mutant of Connected: the simulated turn goes on beside the real one.
Connected_TurnsOn(dial, up) == [dial EXCEPT !.connected = up, !.simulated = @ /\ ~up]

\* setConnected(): a real link ends the simulated turn.
Connected(dial, up) ==
    IF up THEN [dial EXCEPT !.connected = TRUE, !.simulated = FALSE, !.turning = FALSE]
          ELSE [dial EXCEPT !.connected = FALSE]

\* commitManualTarget(): the target at once, and a turn of its own without a link.
Aimed(dial, d) ==
    [dial EXCEPT !.target = d, !.simulated = @ \/ ~dial.connected, !.turning = @ \/ ~dial.connected]

\* The cell "Aktuell": a number only if something is known.
Readout(s) ==
    LET d == rpDial[s]
        antennas == IF d.second THEN <<d.az, Wrap(d.az + SecondOffset)>> ELSE <<d.az>>
    IN IF d.connected \/ d.simulated THEN antennas ELSE <<>>

\* pushRotorHeadingToMap(): with a panel or without, and whether the link is up.
Heading(panel, az, name, up, second) ==
    [shown |-> panel, az |-> az, label |-> name, live |-> panel /\ up, second |-> second]
Moved(s, az) == [rpOnMap EXCEPT ![s] = Heading(TRUE, az, rpDial[s].wiredName, rpRotor[s].up, @.second)]

-----------------------------------------------------------------------------
(* applyRotorWidgetSettings() *)

\* Slot 2 goes behind slot 1 if slot 1 has a dial, else to the front.
WiredNumber(s, settings) == IF s = 2 /\ settings[1].enabled THEN 2 ELSE 1
DialFor(s, settings) ==
    IF ~settings[s].enabled THEN NoDial
    ELSE IF HasDial(s) THEN [rpDial[s] EXCEPT !.label = settings[s].label, !.second = settings[s].second]
    ELSE NewDial(s, settings, WiredNumber(s, settings))
HeadingFor(s, settings, dial) ==
    LET second == settings[s].second IN
    IF dial # NoDial THEN Heading(TRUE, dial.az, settings[s].label, rpRotor[s].up, second)
    ELSE IF HasDial(s) THEN Heading(FALSE, rpRotor[s].az, settings[s].label, rpRotor[s].up, second)
    ELSE [rpOnMap[s] EXCEPT !.second = second]

Applied(settings) ==
    /\ rpSettings' = settings
    /\ rpDial' = [s \in Slots |-> DialFor(s, settings)]
    /\ rpOnMap' = [s \in Slots |-> HeadingFor(s, settings, DialFor(s, settings))]
    /\ rpAsk' = [s \in Slots |-> IF HasDial(s) /\ settings[s].enabled THEN rpAsk[s] ELSE Unaimed]
    /\ UNCHANGED rpRotor

-----------------------------------------------------------------------------
(* Steps *)

RpOperator == rpSteps < RpMaxSteps /\ rpSteps' = rpSteps + 1

\* The panel's gear or the settings dialog.
EnableSlot(s, on) ==
    RpOperator /\ rpSettings[s].enabled # on /\ Applied([rpSettings EXCEPT ![s].enabled = on])
RenameSlot(s, name) ==
    RpOperator /\ rpSettings[s].label # name /\ Applied([rpSettings EXCEPT ![s].label = name])
SecondAntenna(s) ==
    RpOperator /\ HasDial(s) /\ Applied([rpSettings EXCEPT ![s].second = ~@])

\* A turn asked for: the rotor is sent there if its link is up.
SentTo(asked, d) ==
    rpRotor' = [s \in Slots |-> IF s \in asked /\ rpRotor[s].up THEN [rpRotor[s] EXCEPT !.goal = d] ELSE rpRotor[s]]
AimDials(asked, d) ==
    /\ rpDial' = [s \in Slots |-> IF s \in asked THEN Aimed(rpDial[s], d) ELSE rpDial[s]]
    /\ SentTo(asked, d)
    /\ UNCHANGED <<rpSettings, rpOnMap>>

DialClicked(s, d) ==
    RpOperator /\ HasDial(s) /\ AimDials({s}, d) /\ rpAsk' = [rpAsk EXCEPT ![s] = d]

\* A disc of the map: every dial wired with that number takes it.
WiredAs(n) == {s \in Slots : HasDial(s) /\ rpDial[s].wiredNumber = n}
MapDiscClicked(n, d) ==
    RpOperator /\ rpOnMap[n].shown /\ AimDials(WiredAs(n), d) /\ rpAsk' = [rpAsk EXCEPT ![n] = d]

\* commandRotorForCandidate(): a station, only with the link up.
StationClicked(s, d) ==
    /\ RpOperator /\ rpRotor[s].up /\ SentTo({s}, d)
    /\ rpDial' = IF HasDial(s) THEN [rpDial EXCEPT ![s].target = d] ELSE rpDial
    /\ rpAsk' = [rpAsk EXCEPT ![s] = d]
    /\ UNCHANGED <<rpSettings, rpOnMap>>

\* The timer of the turn without a rotor; it stops where it got to.
TurnStep(s) ==
    /\ HasDial(s) /\ rpDial[s].turning
    /\ LET az == StepTowards(rpDial[s].az, rpDial[s].target)
       IN /\ rpDial' = [rpDial EXCEPT ![s].az = az, ![s].turning = az # rpDial[s].target]
          /\ rpOnMap' = Moved(s, az)
    /\ UNCHANGED <<rpSettings, rpRotor, rpAsk, rpSteps>>

\* A position answer, with the rotor on its way.
RotorTells(s) ==
    /\ rpRotor[s].up
    /\ LET az == StepTowards(rpRotor[s].az, rpRotor[s].goal)
       IN /\ rpRotor' = [rpRotor EXCEPT ![s].az = az]
          /\ rpDial' = IF HasDial(s) THEN [rpDial EXCEPT ![s].az = az] ELSE rpDial
          /\ rpOnMap' = IF HasDial(s) THEN Moved(s, az) ELSE rpOnMap
    /\ UNCHANGED <<rpSettings, rpAsk, rpSteps>>

\* stateChanged(): the dial first; the map gets the dial's heading, because the
\* client without a link knows none.
LinkHeading_OfTheClient(s) == rpRotor[s].az
LinkHeading(s) == rpDial[s].az
LinkChanges(s) ==
    /\ RpOperator
    /\ rpRotor' = [rpRotor EXCEPT ![s].up = ~@, ![s].goal = rpRotor[s].az]
    /\ IF HasDial(s)
       THEN /\ rpDial' = [rpDial EXCEPT ![s] = Connected(@, rpRotor'[s].up)]
            /\ rpOnMap' = [rpOnMap EXCEPT ![s] = Heading(TRUE, LinkHeading(s), rpDial[s].wiredName, rpRotor'[s].up, @.second)]
       ELSE UNCHANGED <<rpDial, rpOnMap>>
    /\ UNCHANGED <<rpSettings, rpAsk>>

RpInit ==
    /\ rpSettings \in [Slots -> [enabled : {FALSE}, label : {CHOOSE l \in RpLabels : TRUE}, second : {FALSE}]]
    /\ rpDial = [s \in Slots |-> NoDial]
    /\ rpOnMap = [s \in Slots |-> Heading(FALSE, 0, rpSettings[s].label, FALSE, FALSE)]
    /\ rpRotor = [s \in Slots |-> [up |-> FALSE, az |-> 0, goal |-> 0]]
    /\ rpAsk = [s \in Slots |-> Unaimed]
    /\ rpSteps = 0

RpNext ==
    \E s \in Slots :
        \/ \E on \in BOOLEAN : EnableSlot(s, on)
        \/ \E name \in RpLabels : RenameSlot(s, name)
        \/ \E d \in Directions : DialClicked(s, d) \/ MapDiscClicked(s, d) \/ StationClicked(s, d)
        \/ SecondAntenna(s) \/ TurnStep(s) \/ RotorTells(s) \/ LinkChanges(s)

RpSpec == RpInit /\ [][RpNext]_rpVars

-----------------------------------------------------------------------------
(* Properties *)

\* Type invariant.
RpTypeOK ==
    /\ rpSteps \in 0..RpMaxSteps
    /\ \A s \in Slots :
         /\ rpRotor[s] \in [up : BOOLEAN, az : Directions, goal : Directions]
         /\ HasDial(s) => /\ rpDial[s].az \in Directions /\ rpDial[s].target \in Directions \cup {Unaimed}
                          /\ rpDial[s].turning => rpDial[s].simulated

\* "zeiger sollte sich parallel auch in der karte drehen" (ui/MainWindow.cpp:2846):
\* the map shows the dials' headings and their antennas whatever drove the
\* needle, marks a measured one only while the link is up, and no dial turns on
\* its own against the rotor's readings.
MapFollowsDial ==
    \A s \in Slots :
        /\ rpOnMap[s].shown = HasDial(s)
        /\ HasDial(s) =>
             /\ rpOnMap[s].az = rpDial[s].az /\ rpOnMap[s].live = rpRotor[s].up
             /\ Readout(s) # <<>> => rpOnMap[s].second = (Len(Readout(s)) = 2)
             /\ rpRotor[s].up => ~rpDial[s].turning /\ rpDial[s].connected

\* "die rotorsteuerung sollte auch in KARTE/Verbindungen funktionieren!"
\* (ui/MainWindow.cpp:2865): the direction asked for on a slot, in its dial, on
\* its disc of the map or with a station, is the target its dial shows.
TargetIsTheSlotsOwn ==
    \A s \in Slots : HasDial(s) => rpDial[s].target = rpAsk[s]
=============================================================================
