---------------------------- MODULE WindowProofs ----------------------------
(***************************************************************************)
(* Proofs about the window, for every value of the constants: the headings *)
(* on the map are those of the dials, whatever drives them; the map keeps  *)
(* what was chosen and hands out the stations in the beam one after the    *)
(* other; and a panel stands where it was put as far as the canvas lets    *)
(* it.  At the end the station as a whole.                                 *)
(***************************************************************************)
EXTENDS InstrumentProofs

-----------------------------------------------------------------------------
(* The rotor dials *)

RpSlots == [enabled : BOOLEAN, label : RpLabels, second : BOOLEAN]
RpDials == [label : RpLabels, wiredName : RpLabels, wiredNumber : Slots, az : Directions,
            target : Directions \cup {Unaimed}, connected : BOOLEAN, simulated : BOOLEAN, turning : BOOLEAN,
            second : BOOLEAN]
RpHeadings == [shown : BOOLEAN, az : Directions, label : RpLabels, live : BOOLEAN, second : BOOLEAN]
RpRotors == [up : BOOLEAN, az : Directions, goal : Directions]

\* A dial turns by itself only without a link, and it knows whether there is one.
DialOK(dial, rotor) ==
    /\ dial \in RpDials /\ dial.connected = rotor.up
    /\ dial.turning => dial.simulated /\ ~rotor.up
\* The map shows what the dial shows.
Shows(heading, dial, rotor) ==
    heading.shown /\ heading.az = dial.az /\ heading.live = rotor.up /\ heading.second = dial.second
\* A slot with a dial, and one without.
SlotOK(dial, heading, rotor) ==
    /\ heading \in RpHeadings /\ rotor \in RpRotors
    /\ \/ dial = NoDial /\ ~heading.shown
       \/ DialOK(dial, rotor) /\ Shows(heading, dial, rotor)

RpInv ==
    /\ rpSettings \in [Slots -> RpSlots] /\ rpSteps \in 0..RpMaxSteps
    /\ DOMAIN rpDial = Slots /\ DOMAIN rpOnMap = Slots /\ DOMAIN rpRotor = Slots
    /\ rpDial = [s \in Slots |-> rpDial[s]] /\ rpOnMap = [s \in Slots |-> rpOnMap[s]]
    /\ rpRotor = [s \in Slots |-> rpRotor[s]] /\ rpAsk \in [Slots -> Directions \cup {Unaimed}]
    /\ \A s \in Slots : SlotOK(rpDial[s], rpOnMap[s], rpRotor[s])

-----------------------------------------------------------------------------
(* Dials and headings *)

\* A dial is not the absence of one.
LEMMA DialIsSome ==
    ASSUME NEW dial \in RpDials
    PROVE  dial # NoDial
<1>1. "az" \in DOMAIN dial
  BY DEF RpDials
<1>2. "az" \notin DOMAIN NoDial
  BY DEF NoDial
<1> QED BY <1>1, <1>2

\* The directions, and a step towards one of them.
LEMMA StepIsDirection ==
    ASSUME RotorAssumption, NEW from \in Directions, NEW to
    PROVE  StepTowards(from, to) \in Directions /\ 0 \in Directions
<1>1. RpCircle \in Nat /\ RpCircle > 2
  BY DEF RotorAssumption
<1>2. \A d \in Int : Wrap(d) \in Directions
  BY <1>1 DEF Wrap, Directions
<1>3. from + 1 \in Int /\ from + (-1) \in Int
  BY <1>1 DEF Directions
<1>4. StepTowards(from, to) \in {from, Wrap(from + 1), Wrap(from + (-1))}
  BY DEF StepTowards
<1> QED BY <1>1, <1>2, <1>3, <1>4 DEF Directions

\* What pushRotorHeadingToMap() makes.
LEMMA HeadingIs ==
    ASSUME NEW panel \in BOOLEAN, NEW az \in Directions, NEW name \in RpLabels, NEW live \in BOOLEAN, NEW second \in BOOLEAN,
           NEW h, h = [shown |-> panel, az |-> az, label |-> name, live |-> live, second |-> second]
    PROVE  h \in RpHeadings /\ h.shown = panel /\ h.az = az /\ h.second = second /\ h.live = live
BY DEF RpHeadings

\* A slot's parts have their types.
LEMMA SlotTypes ==
    ASSUME RpInv, NEW s \in Slots
    PROVE  /\ rpSettings[s] \in RpSlots /\ rpOnMap[s] \in RpHeadings /\ rpRotor[s] \in RpRotors
           /\ SlotOK(rpDial[s], rpOnMap[s], rpRotor[s])
           /\ HasDial(s) => DialOK(rpDial[s], rpRotor[s]) /\ Shows(rpOnMap[s], rpDial[s], rpRotor[s]) /\ rpDial[s] \in RpDials
           /\ ~HasDial(s) => ~rpOnMap[s].shown
<1>1. SlotOK(rpDial[s], rpOnMap[s], rpRotor[s]) /\ rpSettings[s] \in RpSlots
  BY DEF RpInv
<1> QED BY <1>1, DialIsSome DEF SlotOK, HasDial, DialOK

\* A direction asked for: the target, and a turn of the dial's own without a link.
LEMMA AimingKeeps ==
    ASSUME NEW dial, NEW rotor \in RpRotors, DialOK(dial, rotor), NEW d \in Directions
    PROVE  DialOK(Aimed(dial, d), rotor) /\ Aimed(dial, d).az = dial.az /\ Aimed(dial, d).second = dial.second
<1> DEFINE simulated == dial.simulated \/ ~dial.connected
           turning == dial.turning \/ ~dial.connected
           new == [dial EXCEPT !.target = d, !.simulated = simulated, !.turning = turning]
<1>1. dial \in RpDials /\ dial.simulated \in BOOLEAN /\ dial.turning \in BOOLEAN /\ dial.connected \in BOOLEAN
  BY DEF DialOK, RpDials
<1>2. simulated \in BOOLEAN /\ turning \in BOOLEAN
  OBVIOUS
<1>3. turning => simulated /\ ~rotor.up
  BY <1>1 DEF DialOK
<1>4. Aimed(dial, d) = new
  BY DEF Aimed
<1> HIDE DEF simulated, turning
<1>5. /\ new \in RpDials /\ new.az = dial.az /\ new.second = dial.second /\ new.connected = dial.connected
      /\ new.turning = turning /\ new.simulated = simulated
  BY <1>1, <1>2 DEF RpDials
<1> QED BY <1>3, <1>4, <1>5 DEF DialOK

\* The link comes or goes.
LEMMA ConnectingKeeps ==
    ASSUME NEW dial, NEW rotor \in RpRotors, DialOK(dial, rotor), NEW new \in RpRotors, new.up = ~rotor.up
    PROVE  /\ DialOK(Connected(dial, new.up), new)
           /\ Connected(dial, new.up).az = dial.az /\ Connected(dial, new.up).second = dial.second
<1>1. dial \in RpDials /\ rotor.up \in BOOLEAN /\ new.up \in BOOLEAN
  BY DEF DialOK, RpRotors
<1>2. CASE new.up
  <2> DEFINE d == [dial EXCEPT !.connected = TRUE, !.simulated = FALSE, !.turning = FALSE]
  <2>1. Connected(dial, new.up) = d
    BY <1>2 DEF Connected
  <2>2. d \in RpDials /\ d.az = dial.az /\ d.second = dial.second /\ d.connected = TRUE /\ d.turning = FALSE
    BY <1>1 DEF RpDials
  <2> QED BY <2>1, <2>2, <1>1, <1>2 DEF DialOK
<1>3. CASE ~new.up
  <2> DEFINE d == [dial EXCEPT !.connected = FALSE]
  <2>1. Connected(dial, new.up) = d
    BY <1>3 DEF Connected
  <2>2. /\ d \in RpDials /\ d.az = dial.az /\ d.second = dial.second /\ d.connected = FALSE /\ d.turning = dial.turning
        /\ d.simulated = dial.simulated
    BY <1>1 DEF RpDials
  <2>3. ~dial.turning
    BY <1>3 DEF DialOK
  <2> QED BY <2>1, <2>2, <2>3, <1>1, <1>3 DEF DialOK
<1> QED BY <1>2, <1>3

\* A dial whose needle moves, and a heading that follows it.
LEMMA MovingKeeps ==
    ASSUME NEW dial, NEW rotor \in RpRotors, NEW heading \in RpHeadings, DialOK(dial, rotor),
           Shows(heading, dial, rotor), NEW az \in Directions
    PROVE  LET new == [dial EXCEPT !.az = az]
               seen == Heading(TRUE, az, dial.wiredName, rotor.up, heading.second)
           IN  DialOK(new, rotor) /\ seen \in RpHeadings /\ Shows(seen, new, rotor)
<1> DEFINE new == [dial EXCEPT !.az = az]
           seen == Heading(TRUE, az, dial.wiredName, rotor.up, heading.second)
<1>1. dial \in RpDials /\ dial.wiredName \in RpLabels /\ rotor.up \in BOOLEAN /\ heading.second \in BOOLEAN
  BY DEF DialOK, RpDials, RpRotors, RpHeadings
<1>2. /\ new \in RpDials /\ new.az = az /\ new.second = dial.second /\ new.connected = dial.connected
      /\ new.turning = dial.turning /\ new.simulated = dial.simulated
  BY <1>1 DEF RpDials
<1>3. seen \in RpHeadings /\ seen.shown /\ seen.az = az /\ seen.second = heading.second /\ seen.live = rotor.up
  <2> DEFINE yes == TRUE
             live == yes /\ rotor.up
  <2>1. seen = [shown |-> yes, az |-> az, label |-> dial.wiredName, live |-> live, second |-> heading.second]
    BY DEF Heading
  <2>2. yes \in BOOLEAN /\ live \in BOOLEAN
    OBVIOUS
  <2>3. live = rotor.up
    BY <1>1
  <2> HIDE DEF seen, yes, live
  <2>4. seen \in RpHeadings /\ seen.shown = yes /\ seen.az = az /\ seen.second = heading.second /\ seen.live = live
    BY <2>1, <2>2, <1>1, HeadingIs
  <2> QED BY <2>3, <2>4, Zenon DEF yes
<1> HIDE DEF new, seen
<1>4. DialOK(new, rotor)
  BY <1>2 DEF DialOK
<1>5. Shows(seen, new, rotor)
  BY <1>2, <1>3 DEF Shows
<1> QED BY <1>3, <1>4, <1>5 DEF new, seen

-----------------------------------------------------------------------------
(* The steps *)

\* applyRotorWidgetSettings(): dials come, go and are renamed, and the map with them.
LEMMA ApplyingSettingsKeeps ==
    ASSUME RotorAssumption, RpInv, NEW settings \in [Slots -> RpSlots], Applied(settings), rpSteps' \in 0..RpMaxSteps
    PROVE  RpInv'
<1>1. /\ rpSettings' = settings /\ rpDial' = [s \in Slots |-> DialFor(s, settings)]
      /\ rpOnMap' = [s \in Slots |-> HeadingFor(s, settings, DialFor(s, settings))]
      /\ rpAsk' = [s \in Slots |-> IF HasDial(s) /\ settings[s].enabled THEN rpAsk[s] ELSE Unaimed]
      /\ rpRotor' = rpRotor
  BY DEF Applied
<1>2. ASSUME NEW s \in Slots
      PROVE  SlotOK(DialFor(s, settings), HeadingFor(s, settings, DialFor(s, settings)), rpRotor[s])
  <2> DEFINE dial == DialFor(s, settings)
             seen == HeadingFor(s, settings, dial)
  <2>1. /\ settings[s].enabled \in BOOLEAN /\ settings[s].label \in RpLabels /\ settings[s].second \in BOOLEAN
    BY DEF RpSlots
  <2>2. rpRotor[s] \in RpRotors /\ rpRotor[s].up \in BOOLEAN /\ rpRotor[s].az \in Directions /\ rpOnMap[s] \in RpHeadings
    BY SlotTypes DEF RpRotors
  <2>3. CASE settings[s].enabled
    <3>1. DialOK(dial, rpRotor[s]) /\ dial.second = settings[s].second
      <4>1. CASE HasDial(s)
        <5> DEFINE was == rpDial[s]
                   q == [was EXCEPT !.label = settings[s].label]
                   new == [q EXCEPT !.second = settings[s].second]
        <5>1. DialOK(was, rpRotor[s])
          BY <4>1, SlotTypes
        <5>2. dial = [was EXCEPT !.label = settings[s].label, !.second = settings[s].second]
          BY <2>3, <4>1 DEF DialFor
        <5>3. dial = new
          BY <5>2
        <5> HIDE DEF was, dial
        <5>4. /\ new \in RpDials /\ new.second = settings[s].second /\ new.connected = was.connected
              /\ new.turning = was.turning /\ new.simulated = was.simulated
          BY <5>1, <2>1 DEF DialOK, RpDials
        <5> QED BY <5>1, <5>3, <5>4 DEF DialOK
      <4>2. CASE ~HasDial(s)
        <5> DEFINE number == WiredNumber(s, settings)
                   new == NewDial(s, settings, number)
        <5>1. dial = new
          BY <2>3, <4>2 DEF DialFor
        <5>2. number \in Slots
          BY DEF WiredNumber, Slots
        <5>3. Unaimed \in Directions \cup {Unaimed}
          OBVIOUS
        <5> HIDE DEF dial, number
        <5>4. new \in RpDials /\ new.second = settings[s].second /\ new.connected = rpRotor[s].up /\ new.turning = FALSE
          BY <2>1, <2>2, <5>2, <5>3 DEF NewDial, RpDials
        <5> QED BY <5>1, <5>4 DEF DialOK
      <4> QED BY <4>1, <4>2
    <3>2. dial \in RpDials /\ dial # NoDial /\ dial.az \in Directions
      BY <3>1, DialIsSome DEF DialOK, RpDials
    <3> DEFINE yes == TRUE
               live == yes /\ rpRotor[s].up
    <3>3. seen = [shown |-> yes, az |-> dial.az, label |-> settings[s].label, live |-> live,
                  second |-> settings[s].second]
      BY <3>2 DEF HeadingFor, Heading
    <3>6. yes \in BOOLEAN /\ live \in BOOLEAN
      OBVIOUS
    <3>7. live = rpRotor[s].up
      BY <2>2
    <3> HIDE DEF dial, seen, yes, live
    <3>8. /\ seen \in RpHeadings /\ seen.shown = yes /\ seen.az = dial.az /\ seen.second = settings[s].second
          /\ seen.live = live
      BY <2>1, <2>2, <3>2, <3>3, <3>6, HeadingIs
    <3>4. /\ seen \in RpHeadings /\ seen.shown /\ seen.az = dial.az /\ seen.second = settings[s].second
          /\ seen.live = rpRotor[s].up
      BY <3>7, <3>8, Zenon DEF yes
    <3>5. SlotOK(dial, seen, rpRotor[s])
      BY <2>2, <3>1, <3>4 DEF SlotOK, Shows
    <3> QED BY <3>5 DEF dial, seen
  <2>4. CASE ~settings[s].enabled
    <3>1. dial = NoDial
      BY <2>4 DEF DialFor
    <3>2. seen \in RpHeadings /\ ~seen.shown
      <4>1. CASE HasDial(s)
        <5> DEFINE no == FALSE
                   live == no /\ rpRotor[s].up
        <5>1. seen = [shown |-> no, az |-> rpRotor[s].az, label |-> settings[s].label, live |-> live,
                      second |-> settings[s].second]
          BY <3>1, <4>1 DEF HeadingFor, Heading
        <5>2. no \in BOOLEAN /\ live \in BOOLEAN
          OBVIOUS
        <5> HIDE DEF seen, no, live
        <5>3. seen \in RpHeadings /\ seen.shown = no
          BY <2>1, <2>2, <5>1, <5>2, HeadingIs
        <5> QED BY <5>3, Zenon DEF no
      <4>2. CASE ~HasDial(s)
        <5>1. seen = [rpOnMap[s] EXCEPT !.second = settings[s].second]
          BY <3>1, <4>2 DEF HeadingFor
        <5>2. ~rpOnMap[s].shown
          BY <4>2, SlotTypes
        <5> HIDE DEF seen
        <5> QED BY <2>1, <2>2, <5>1, <5>2 DEF RpHeadings
      <4> QED BY <4>1, <4>2
    <3> HIDE DEF dial, seen
    <3>3. SlotOK(dial, seen, rpRotor[s])
      BY <2>2, <3>1, <3>2 DEF SlotOK
    <3> QED BY <3>3 DEF dial, seen
  <2> QED BY <2>1, <2>3, <2>4
<1>3. rpAsk' \in [Slots -> Directions \cup {Unaimed}]
  BY <1>1 DEF RpInv
<1>4. \A s \in Slots : SlotOK(rpDial'[s], rpOnMap'[s], rpRotor'[s])
  BY <1>1, <1>2
<1>5. /\ DOMAIN rpDial' = Slots /\ DOMAIN rpOnMap' = Slots
      /\ rpDial' = [s \in Slots |-> rpDial'[s]] /\ rpOnMap' = [s \in Slots |-> rpOnMap'[s]]
  BY <1>1
<1> QED BY <1>1, <1>3, <1>4, <1>5 DEF RpInv

\* Slots and rotors after a step that changes one slot.
LEMMA OtherSlotsStay ==
    ASSUME RpInv, NEW dials, NEW headings, NEW rotors,
           DOMAIN dials = Slots, DOMAIN headings = Slots, DOMAIN rotors = Slots,
           dials = [s \in Slots |-> dials[s]], headings = [s \in Slots |-> headings[s]], rotors = [s \in Slots |-> rotors[s]],
           \A s \in Slots : \/ SlotOK(dials[s], headings[s], rotors[s])
                            \/ dials[s] = rpDial[s] /\ headings[s] = rpOnMap[s] /\ rotors[s] = rpRotor[s],
           rpDial' = dials, rpOnMap' = headings, rpRotor' = rotors, rpSettings' = rpSettings,
           rpSteps' \in 0..RpMaxSteps, rpAsk' \in [Slots -> Directions \cup {Unaimed}]
    PROVE  RpInv'
<1>1. \A s \in Slots : SlotOK(dials[s], headings[s], rotors[s])
  BY DEF RpInv
<1> QED BY <1>1 DEF RpInv

\* A rotor that is sent somewhere.
LEMMA SendingKeeps ==
    ASSUME RpInv, NEW asked \in SUBSET Slots, NEW d \in Directions, NEW s \in Slots,
           NEW rotors, rotors = [t \in Slots |-> IF t \in asked /\ rpRotor[t].up
                                                 THEN [rpRotor[t] EXCEPT !.goal = d] ELSE rpRotor[t]]
    PROVE  rotors[s] \in RpRotors /\ rotors[s].up = rpRotor[s].up
<1>1. rpRotor[s] \in RpRotors
  BY SlotTypes
<1> QED BY <1>1 DEF RpRotors

\* A direction asked for at dials and rotors.
LEMMA AimingDialsKeeps ==
    ASSUME RotorAssumption, RpInv, NEW asked \in SUBSET Slots, \A s \in asked : HasDial(s), NEW d \in Directions,
           AimDials(asked, d), rpSteps' \in 0..RpMaxSteps, rpAsk' \in [Slots -> Directions \cup {Unaimed}]
    PROVE  RpInv'
<1> DEFINE dials == [s \in Slots |-> IF s \in asked THEN Aimed(rpDial[s], d) ELSE rpDial[s]]
           rotors == [t \in Slots |-> IF t \in asked /\ rpRotor[t].up THEN [rpRotor[t] EXCEPT !.goal = d] ELSE rpRotor[t]]
<1>1. rpDial' = dials /\ rpRotor' = rotors /\ UNCHANGED <<rpSettings, rpOnMap>>
  BY DEF AimDials, SentTo
<1>2. ASSUME NEW s \in Slots PROVE SlotOK(dials[s], rpOnMap[s], rotors[s])
  <2>1. rotors[s] \in RpRotors /\ rotors[s].up = rpRotor[s].up
    BY SendingKeeps
  <2>2. /\ rpOnMap[s] \in RpHeadings /\ SlotOK(rpDial[s], rpOnMap[s], rpRotor[s]) /\ rpRotor[s] \in RpRotors
        /\ (HasDial(s) => DialOK(rpDial[s], rpRotor[s]) /\ Shows(rpOnMap[s], rpDial[s], rpRotor[s]))
    BY SlotTypes
  <2>3. CASE s \in asked
    <3>1. dials[s] = Aimed(rpDial[s], d)
      BY <2>3
    <3>2. DialOK(Aimed(rpDial[s], d), rpRotor[s]) /\ Aimed(rpDial[s], d).az = rpDial[s].az
          /\ Aimed(rpDial[s], d).second = rpDial[s].second
      BY <2>2, <2>3, AimingKeeps
    <3> HIDE DEF dials, rotors
    <3> QED BY <2>1, <2>2, <2>3, <3>1, <3>2 DEF SlotOK, DialOK, Shows
  <2>4. CASE s \notin asked
    <3>1. dials[s] = rpDial[s]
      BY <2>4
    <3> HIDE DEF dials, rotors
    <3> QED BY <2>1, <2>2, <3>1 DEF SlotOK, DialOK, Shows
  <2> QED BY <2>3, <2>4
<1>3. DOMAIN dials = Slots /\ DOMAIN rotors = Slots /\ dials = [s \in Slots |-> dials[s]]
      /\ rotors = [s \in Slots |-> rotors[s]]
  OBVIOUS
<1> HIDE DEF dials, rotors
<1>4. DOMAIN rpOnMap = Slots /\ rpOnMap = [s \in Slots |-> rpOnMap[s]]
  BY DEF RpInv
<1> QED BY <1>1, <1>2, <1>3, <1>4, OtherSlotsStay

\* A counter of the operator's steps.
LEMMA OperatorCounts ==
    ASSUME RotorAssumption, RpInv, RpOperator
    PROVE  rpSteps' \in 0..RpMaxSteps
<1>1. RpMaxSteps \in Nat /\ rpSteps \in 0..RpMaxSteps /\ rpSteps < RpMaxSteps /\ rpSteps' = rpSteps + 1
  BY DEF RotorAssumption, RpInv, RpOperator
<1> QED BY <1>1

\* The direction asked for on one slot.
LEMMA AskedOnSlot ==
    ASSUME RpInv, NEW s \in Slots, NEW d \in Directions, rpAsk' = [rpAsk EXCEPT ![s] = d]
    PROVE  rpAsk' \in [Slots -> Directions \cup {Unaimed}]
BY DEF RpInv

\* The gear and the settings dialog.
LEMMA SlotSettingsKeep ==
    ASSUME RotorAssumption, RpInv, NEW s \in Slots,
           (\E on \in BOOLEAN : EnableSlot(s, on)) \/ (\E name \in RpLabels : RenameSlot(s, name)) \/ SecondAntenna(s)
    PROVE  RpInv'
<1>1. rpSettings \in [Slots -> RpSlots] /\ rpSettings[s] \in RpSlots
  BY DEF RpInv
<1>2. CASE \E on \in BOOLEAN : EnableSlot(s, on)
  <2>1. PICK on \in BOOLEAN : EnableSlot(s, on)
    BY <1>2
  <2> DEFINE new == [rpSettings EXCEPT ![s].enabled = on]
  <2>2. new \in [Slots -> RpSlots]
    BY <1>1 DEF RpSlots
  <2>3. RpOperator /\ Applied(new)
    BY <2>1 DEF EnableSlot
  <2> HIDE DEF new
  <2> QED BY <2>2, <2>3, OperatorCounts, ApplyingSettingsKeeps
<1>3. CASE \E name \in RpLabels : RenameSlot(s, name)
  <2>1. PICK name \in RpLabels : RenameSlot(s, name)
    BY <1>3
  <2> DEFINE new == [rpSettings EXCEPT ![s].label = name]
  <2>2. new \in [Slots -> RpSlots]
    BY <1>1 DEF RpSlots
  <2>3. RpOperator /\ Applied(new)
    BY <2>1 DEF RenameSlot
  <2> HIDE DEF new
  <2> QED BY <2>2, <2>3, OperatorCounts, ApplyingSettingsKeeps
<1>4. CASE SecondAntenna(s)
  <2> DEFINE b == ~rpSettings[s].second
             new == [rpSettings EXCEPT ![s].second = b]
  <2>1. b \in BOOLEAN
    OBVIOUS
  <2>2. RpOperator /\ Applied(new)
    BY <1>4 DEF SecondAntenna
  <2> HIDE DEF b
  <2>3. new \in [Slots -> RpSlots]
    BY <1>1, <2>1 DEF RpSlots
  <2> HIDE DEF new
  <2> QED BY <2>2, <2>3, OperatorCounts, ApplyingSettingsKeeps
<1> QED BY <1>2, <1>3, <1>4

\* Turns that are asked for.
LEMMA ClicksKeep ==
    ASSUME RotorAssumption, RpInv, NEW s \in Slots, NEW d \in Directions,
           DialClicked(s, d) \/ MapDiscClicked(s, d) \/ StationClicked(s, d)
    PROVE  RpInv'
<1>1. CASE DialClicked(s, d)
  <2>1. RpOperator /\ HasDial(s) /\ AimDials({s}, d) /\ rpAsk' = [rpAsk EXCEPT ![s] = d]
    BY <1>1 DEF DialClicked
  <2>2. {s} \in SUBSET Slots /\ \A t \in {s} : HasDial(t)
    BY <2>1
  <2> QED BY <2>1, <2>2, OperatorCounts, AskedOnSlot, AimingDialsKeeps
<1>2. CASE MapDiscClicked(s, d)
  <2>1. RpOperator /\ AimDials(WiredAs(s), d) /\ rpAsk' = [rpAsk EXCEPT ![s] = d]
    BY <1>2 DEF MapDiscClicked
  <2>2. WiredAs(s) \in SUBSET Slots /\ \A t \in WiredAs(s) : HasDial(t)
    BY DEF WiredAs
  <2> QED BY <2>1, <2>2, OperatorCounts, AskedOnSlot, AimingDialsKeeps
<1>3. CASE StationClicked(s, d)
  <2> DEFINE dials == IF HasDial(s) THEN [rpDial EXCEPT ![s].target = d] ELSE rpDial
             rotors == [t \in Slots |-> IF t \in {s} /\ rpRotor[t].up THEN [rpRotor[t] EXCEPT !.goal = d] ELSE rpRotor[t]]
  <2>1. /\ RpOperator /\ rpDial' = dials /\ rpRotor' = rotors /\ rpAsk' = [rpAsk EXCEPT ![s] = d]
        /\ UNCHANGED <<rpSettings, rpOnMap>>
    BY <1>3 DEF StationClicked, SentTo
  <2>2. rpDial = [t \in Slots |-> rpDial[t]] /\ rpOnMap = [t \in Slots |-> rpOnMap[t]] /\ DOMAIN rpDial = Slots /\ DOMAIN rpOnMap = Slots
    BY DEF RpInv
  <2>3. /\ DOMAIN dials = Slots /\ dials = [t \in Slots |-> dials[t]]
        /\ \A t \in Slots : dials[t] = rpDial[t] \/ (t = s /\ HasDial(s) /\ dials[t] = [rpDial[t] EXCEPT !.target = d])
    BY <2>2
  <2>4. DOMAIN rotors = Slots /\ rotors = [t \in Slots |-> rotors[t]]
    OBVIOUS
  <2>5. ASSUME NEW t \in Slots PROVE SlotOK(dials[t], rpOnMap[t], rotors[t])
    <3>1. rotors[t] \in RpRotors /\ rotors[t].up = rpRotor[t].up
      BY SendingKeeps
    <3>2. /\ rpOnMap[t] \in RpHeadings /\ SlotOK(rpDial[t], rpOnMap[t], rpRotor[t]) /\ rpRotor[t] \in RpRotors
          /\ (HasDial(t) => DialOK(rpDial[t], rpRotor[t]) /\ Shows(rpOnMap[t], rpDial[t], rpRotor[t]))
      BY SlotTypes
    <3> HIDE DEF dials, rotors
    <3>3. CASE dials[t] = rpDial[t]
      BY <3>1, <3>2, <3>3 DEF SlotOK, DialOK, Shows
    <3>4. CASE t = s /\ HasDial(s) /\ dials[t] = [rpDial[t] EXCEPT !.target = d]
      <4> DEFINE was == rpDial[t]
                 new == [was EXCEPT !.target = d]
      <4>1. DialOK(was, rpRotor[t]) /\ Shows(rpOnMap[t], was, rpRotor[t]) /\ dials[t] = new
        BY <3>2, <3>4
      <4> HIDE DEF was
      <4>2. /\ new \in RpDials /\ new.az = was.az /\ new.second = was.second /\ new.connected = was.connected
            /\ new.turning = was.turning /\ new.simulated = was.simulated
        BY <4>1 DEF DialOK, RpDials
      <4> HIDE DEF new
      <4> QED BY <3>1, <3>2, <4>1, <4>2 DEF SlotOK, DialOK, Shows
    <3> QED BY <2>3, <3>3, <3>4
  <2> HIDE DEF dials, rotors
  <2> QED BY <2>1, <2>2, <2>3, <2>4, <2>5, OperatorCounts, AskedOnSlot, OtherSlotsStay
<1> QED BY <1>1, <1>2, <1>3

\* A needle moves: of itself, or with its rotor.
LEMMA NeedlesKeep ==
    ASSUME RotorAssumption, RpInv, NEW s \in Slots, TurnStep(s) \/ RotorTells(s)
    PROVE  RpInv'
<1>1. /\ rpDial = [t \in Slots |-> rpDial[t]] /\ rpOnMap = [t \in Slots |-> rpOnMap[t]]
      /\ rpRotor = [t \in Slots |-> rpRotor[t]]
      /\ DOMAIN rpDial = Slots /\ DOMAIN rpOnMap = Slots /\ DOMAIN rpRotor = Slots
      /\ rpSteps \in 0..RpMaxSteps /\ rpAsk \in [Slots -> Directions \cup {Unaimed}]
  BY DEF RpInv
<1>2. /\ rpOnMap[s] \in RpHeadings /\ rpRotor[s] \in RpRotors
      /\ (HasDial(s) => DialOK(rpDial[s], rpRotor[s]) /\ Shows(rpOnMap[s], rpDial[s], rpRotor[s]) /\ rpDial[s] \in RpDials)
      /\ (~HasDial(s) => ~rpOnMap[s].shown) /\ SlotOK(rpDial[s], rpOnMap[s], rpRotor[s])
  BY SlotTypes
<1>3. CASE TurnStep(s)
  <2> DEFINE az == StepTowards(rpDial[s].az, rpDial[s].target)
             turning == az # rpDial[s].target
             moved == [rpDial[s] EXCEPT !.az = az]
             dial == [moved EXCEPT !.turning = turning]
             dials == [rpDial EXCEPT ![s] = dial]
             heading == Heading(TRUE, az, rpDial[s].wiredName, rpRotor[s].up, rpOnMap[s].second)
             headings == [rpOnMap EXCEPT ![s] = heading]
  <2>1. HasDial(s) /\ rpDial[s].turning /\ rpDial' = [rpDial EXCEPT ![s].az = az, ![s].turning = az # rpDial[s].target]
        /\ rpOnMap' = Moved(s, az) /\ UNCHANGED <<rpSettings, rpRotor, rpAsk, rpSteps>>
    BY <1>3 DEF TurnStep
  <2>2. az \in Directions
    <3>1. rpDial[s].az \in Directions
      BY <1>2, <2>1 DEF RpDials
    <3> QED BY <3>1, StepIsDirection
  <2>3. turning \in BOOLEAN
    OBVIOUS
  <2>4. rpDial' = dials
    <3> HIDE DEF az
    <3>1. [rpDial EXCEPT ![s].az = az, ![s].turning = az # rpDial[s].target] = [[rpDial EXCEPT ![s].az = az] EXCEPT ![s].turning = turning]
      BY <1>1
    <3>2. [rpDial EXCEPT ![s].az = az] = [rpDial EXCEPT ![s] = moved]
      OBVIOUS
    <3> HIDE DEF turning, moved
    <3> QED BY <2>1, <3>1, <3>2, <1>1
  <2>5. rpOnMap' = headings
    <3> HIDE DEF az
    <3> QED BY <2>1 DEF Moved
  <2> HIDE DEF az, turning
  <2>6. DialOK(moved, rpRotor[s]) /\ heading \in RpHeadings /\ Shows(heading, moved, rpRotor[s]) /\ moved.turning
    <3>1. DialOK(moved, rpRotor[s]) /\ heading \in RpHeadings /\ Shows(heading, moved, rpRotor[s])
      BY <1>2, <2>1, <2>2, MovingKeeps
    <3>2. moved.turning = rpDial[s].turning
      BY <1>2, <2>1, <2>2 DEF RpDials
    <3> QED BY <3>1, <3>2, <2>1
  <2> HIDE DEF moved, heading
  <2>7. DialOK(dial, rpRotor[s]) /\ Shows(heading, dial, rpRotor[s])
    <3>1. moved \in RpDials
      BY <2>6 DEF DialOK
    <3>2. /\ dial \in RpDials /\ dial.az = moved.az /\ dial.second = moved.second /\ dial.connected = moved.connected
          /\ dial.simulated = moved.simulated
      BY <3>1, <2>3 DEF RpDials
    <3> HIDE DEF dial
    <3> QED BY <2>6, <3>2 DEF DialOK, Shows
  <2> HIDE DEF dial
  <2>8. SlotOK(dial, heading, rpRotor[s])
    BY <1>2, <2>6, <2>7 DEF SlotOK
  <2>9. /\ DOMAIN dials = Slots /\ DOMAIN headings = Slots /\ dials = [t \in Slots |-> dials[t]]
        /\ headings = [t \in Slots |-> headings[t]]
        /\ \A t \in Slots : \/ SlotOK(dials[t], headings[t], rpRotor[t])
                            \/ dials[t] = rpDial[t] /\ headings[t] = rpOnMap[t] /\ rpRotor[t] = rpRotor[t]
    BY <1>1, <2>8
  <2> HIDE DEF dials, headings
  <2>10. rpSteps' \in 0..RpMaxSteps /\ rpAsk' \in [Slots -> Directions \cup {Unaimed}] /\ rpRotor' = rpRotor /\ rpSettings' = rpSettings
    BY <1>1, <2>1
  <2> QED BY <1>1, <2>4, <2>5, <2>9, <2>10, OtherSlotsStay
<1>4. CASE RotorTells(s)
  <2> DEFINE az == StepTowards(rpRotor[s].az, rpRotor[s].goal)
             rotor == [rpRotor[s] EXCEPT !.az = az]
             rotors == [rpRotor EXCEPT ![s] = rotor]
  <2>1. /\ rpRotor[s].up /\ rpRotor' = [rpRotor EXCEPT ![s].az = az]
        /\ rpDial' = (IF HasDial(s) THEN [rpDial EXCEPT ![s].az = az] ELSE rpDial)
        /\ rpOnMap' = (IF HasDial(s) THEN Moved(s, az) ELSE rpOnMap) /\ UNCHANGED <<rpSettings, rpAsk, rpSteps>>
    BY <1>4 DEF RotorTells
  <2>2. az \in Directions
    <3>1. rpRotor[s].az \in Directions
      BY <1>2 DEF RpRotors
    <3> QED BY <3>1, StepIsDirection
  <2> HIDE DEF az
  <2>3. rpRotor' = rotors
    BY <2>1
  <2>4. rotor \in RpRotors /\ rotor.up = rpRotor[s].up
    BY <1>2, <2>2 DEF RpRotors
  <2> HIDE DEF rotor
  <2>5. DOMAIN rotors = Slots /\ rotors = [t \in Slots |-> rotors[t]] /\ rotors[s] = rotor
        /\ \A t \in Slots \ {s} : rotors[t] = rpRotor[t]
    BY <1>1
  <2> HIDE DEF rotors
  <2>6. CASE HasDial(s)
    <3> DEFINE dial == [rpDial[s] EXCEPT !.az = az]
               dials == [rpDial EXCEPT ![s] = dial]
               heading == Heading(TRUE, az, rpDial[s].wiredName, rpRotor[s].up, rpOnMap[s].second)
               headings == [rpOnMap EXCEPT ![s] = heading]
    <3>1. rpDial' = dials /\ rpOnMap' = headings
      BY <2>1, <2>6 DEF Moved
    <3>2. DialOK(dial, rpRotor[s]) /\ heading \in RpHeadings /\ Shows(heading, dial, rpRotor[s])
      BY <1>2, <2>2, <2>6, MovingKeeps
    <3> HIDE DEF dial, heading
    <3>3. SlotOK(dial, heading, rotor)
      BY <2>4, <3>2 DEF SlotOK, DialOK, Shows
    <3>4. /\ DOMAIN dials = Slots /\ DOMAIN headings = Slots /\ dials = [t \in Slots |-> dials[t]]
          /\ headings = [t \in Slots |-> headings[t]]
          /\ \A t \in Slots : \/ SlotOK(dials[t], headings[t], rotors[t])
                              \/ dials[t] = rpDial[t] /\ headings[t] = rpOnMap[t] /\ rotors[t] = rpRotor[t]
      BY <1>1, <2>5, <3>3
    <3> HIDE DEF dials, headings
    <3>5. rpSteps' \in 0..RpMaxSteps /\ rpAsk' \in [Slots -> Directions \cup {Unaimed}] /\ rpSettings' = rpSettings
      BY <1>1, <2>1
    <3> QED BY <2>3, <2>5, <3>1, <3>4, <3>5, OtherSlotsStay
  <2>7. CASE ~HasDial(s)
    <3>1. rpDial' = rpDial /\ rpOnMap' = rpOnMap
      BY <2>1, <2>7
    <3>2. SlotOK(rpDial[s], rpOnMap[s], rotor)
      BY <1>2, <2>4, <2>7 DEF SlotOK, HasDial
    <3>3. \A t \in Slots : \/ SlotOK(rpDial[t], rpOnMap[t], rotors[t])
                           \/ rpDial[t] = rpDial[t] /\ rpOnMap[t] = rpOnMap[t] /\ rotors[t] = rpRotor[t]
      BY <2>5, <3>2
    <3>4. rpSteps' \in 0..RpMaxSteps /\ rpAsk' \in [Slots -> Directions \cup {Unaimed}] /\ rpSettings' = rpSettings
      BY <1>1, <2>1
    <3> QED BY <1>1, <2>3, <2>5, <3>1, <3>3, <3>4, OtherSlotsStay
  <2> QED BY <2>6, <2>7
<1> QED BY <1>3, <1>4

\* The link of a slot comes or goes.
LEMMA LinksKeep ==
    ASSUME RotorAssumption, RpInv, NEW s \in Slots, LinkChanges(s)
    PROVE  RpInv'
<1>1. /\ rpDial = [t \in Slots |-> rpDial[t]] /\ rpOnMap = [t \in Slots |-> rpOnMap[t]]
      /\ rpRotor = [t \in Slots |-> rpRotor[t]]
      /\ DOMAIN rpDial = Slots /\ DOMAIN rpOnMap = Slots /\ DOMAIN rpRotor = Slots
      /\ rpAsk \in [Slots -> Directions \cup {Unaimed}]
  BY DEF RpInv
<1>2. /\ rpOnMap[s] \in RpHeadings /\ rpRotor[s] \in RpRotors
      /\ (HasDial(s) => DialOK(rpDial[s], rpRotor[s]) /\ Shows(rpOnMap[s], rpDial[s], rpRotor[s]) /\ rpDial[s] \in RpDials)
      /\ (~HasDial(s) => ~rpOnMap[s].shown) /\ SlotOK(rpDial[s], rpOnMap[s], rpRotor[s])
  BY SlotTypes
<1> DEFINE up == ~rpRotor[s].up
           half == [rpRotor[s] EXCEPT !.up = up]
           rotor == [half EXCEPT !.goal = rpRotor[s].az]
           rotors == [rpRotor EXCEPT ![s] = rotor]
<1>3. up \in BOOLEAN
  OBVIOUS
<1>4. /\ RpOperator /\ rpRotor' = [rpRotor EXCEPT ![s].up = ~@, ![s].goal = rpRotor[s].az] /\ UNCHANGED <<rpSettings, rpAsk>>
  BY DEF LinkChanges
<1>5. rpRotor' = rotors
  <2>1. [rpRotor EXCEPT ![s].up = ~@, ![s].goal = rpRotor[s].az] = [[rpRotor EXCEPT ![s].up = ~@] EXCEPT ![s].goal = rpRotor[s].az]
    BY <1>1
  <2>2. [rpRotor EXCEPT ![s].up = ~@] = [rpRotor EXCEPT ![s] = half]
    OBVIOUS
  <2> HIDE DEF half
  <2> QED BY <1>4, <2>1, <2>2, <1>1
<1> HIDE DEF up
<1>6. rotor \in RpRotors /\ rotor.up = up
  <2>1. half \in RpRotors /\ half.up = up /\ half.az = rpRotor[s].az /\ rpRotor[s].az \in Directions
    BY <1>2, <1>3 DEF RpRotors
  <2> HIDE DEF half
  <2> QED BY <2>1 DEF RpRotors
<1> HIDE DEF rotor
<1>7. DOMAIN rotors = Slots /\ rotors = [t \in Slots |-> rotors[t]] /\ rotors[s] = rotor
      /\ \A t \in Slots \ {s} : rotors[t] = rpRotor[t]
  BY <1>1
<1>8. rpRotor'[s] = rotor
  BY <1>5, <1>7
<1> HIDE DEF rotors
<1>9. rpSteps' \in 0..RpMaxSteps /\ rpAsk' \in [Slots -> Directions \cup {Unaimed}] /\ rpSettings' = rpSettings
  BY <1>1, <1>4, OperatorCounts
<1>10. CASE HasDial(s)
  <2> DEFINE dial == Connected(rpDial[s], rotor.up)
             dials == [rpDial EXCEPT ![s] = dial]
             heading == Heading(TRUE, rpDial[s].az, rpDial[s].wiredName, rotor.up, rpOnMap[s].second)
             headings == [rpOnMap EXCEPT ![s] = heading]
  <2>1. rpDial' = dials /\ rpOnMap' = headings
    BY <1>8, <1>10 DEF LinkChanges, LinkHeading
  <2>2. DialOK(dial, rotor) /\ dial.az = rpDial[s].az /\ dial.second = rpDial[s].second
    BY <1>2, <1>6, <1>10, ConnectingKeeps DEF up
  <2>3. heading \in RpHeadings /\ heading.shown /\ heading.az = rpDial[s].az /\ heading.second = rpOnMap[s].second /\ heading.live = rotor.up
    <3>1. rpDial[s].az \in Directions /\ rpDial[s].wiredName \in RpLabels /\ rotor.up \in BOOLEAN /\ rpOnMap[s].second \in BOOLEAN
      BY <1>2, <1>6, <1>10 DEF RpDials, RpRotors, RpHeadings
    <3> DEFINE yes == TRUE
               live == yes /\ rotor.up
    <3>2. heading = [shown |-> yes, az |-> rpDial[s].az, label |-> rpDial[s].wiredName, live |-> live,
                     second |-> rpOnMap[s].second]
      BY DEF Heading
    <3>3. yes \in BOOLEAN /\ live \in BOOLEAN
      OBVIOUS
    <3>4. live = rotor.up
      BY <3>1
    <3> HIDE DEF heading, yes, live
    <3>5. /\ heading \in RpHeadings /\ heading.shown = yes /\ heading.az = rpDial[s].az
          /\ heading.second = rpOnMap[s].second /\ heading.live = live
      BY <3>1, <3>2, <3>3, HeadingIs
    <3> QED BY <3>4, <3>5, Zenon DEF yes
  <2> HIDE DEF dial, heading
  <2>4. SlotOK(dial, heading, rotor)
    BY <1>2, <1>6, <1>10, <2>2, <2>3 DEF SlotOK, Shows
  <2>5. /\ DOMAIN dials = Slots /\ DOMAIN headings = Slots /\ dials = [t \in Slots |-> dials[t]]
        /\ headings = [t \in Slots |-> headings[t]]
        /\ \A t \in Slots : \/ SlotOK(dials[t], headings[t], rotors[t])
                            \/ dials[t] = rpDial[t] /\ headings[t] = rpOnMap[t] /\ rotors[t] = rpRotor[t]
    BY <1>1, <1>7, <2>4
  <2> HIDE DEF dials, headings
  <2> QED BY <1>5, <1>7, <1>9, <2>1, <2>5, OtherSlotsStay
<1>11. CASE ~HasDial(s)
  <2>1. rpDial' = rpDial /\ rpOnMap' = rpOnMap
    BY <1>11 DEF LinkChanges
  <2>2. SlotOK(rpDial[s], rpOnMap[s], rotor)
    BY <1>2, <1>6, <1>11 DEF SlotOK, HasDial
  <2>3. \A t \in Slots : \/ SlotOK(rpDial[t], rpOnMap[t], rotors[t])
                         \/ rpDial[t] = rpDial[t] /\ rpOnMap[t] = rpOnMap[t] /\ rotors[t] = rpRotor[t]
    BY <1>7, <2>2
  <2> QED BY <1>1, <1>5, <1>7, <1>9, <2>1, <2>3, OtherSlotsStay
<1> QED BY <1>10, <1>11

\* Every step of the rotor panel keeps the invariant.
LEMMA RpInvariant ==
    ASSUME RotorAssumption, RpInv, RpNext
    PROVE  RpInv'
<1>1. PICK s \in Slots :
        \/ \E on \in BOOLEAN : EnableSlot(s, on)
        \/ \E name \in RpLabels : RenameSlot(s, name)
        \/ \E d \in Directions : DialClicked(s, d) \/ MapDiscClicked(s, d) \/ StationClicked(s, d)
        \/ SecondAntenna(s) \/ TurnStep(s) \/ RotorTells(s) \/ LinkChanges(s)
  BY DEF RpNext
<1>2. CASE (\E on \in BOOLEAN : EnableSlot(s, on)) \/ (\E name \in RpLabels : RenameSlot(s, name)) \/ SecondAntenna(s)
  BY <1>2, SlotSettingsKeep
<1>3. CASE \E d \in Directions : DialClicked(s, d) \/ MapDiscClicked(s, d) \/ StationClicked(s, d)
  BY <1>3, ClicksKeep
<1>4. CASE TurnStep(s) \/ RotorTells(s)
  BY <1>4, NeedlesKeep
<1>5. CASE LinkChanges(s)
  BY <1>5, LinksKeep
<1> QED BY <1>1, <1>2, <1>3, <1>4, <1>5

\* The start without dials establishes it.
LEMMA RpStarts ==
    ASSUME RotorAssumption, RpInit
    PROVE  RpInv
<1> DEFINE name == CHOOSE l \in RpLabels : TRUE
<1>1. name \in RpLabels
  BY DEF RotorAssumption
<1> HIDE DEF name
<1>2. rpSettings \in [Slots -> [enabled : {FALSE}, label : {name}, second : {FALSE}]]
  BY DEF RpInit, name
<1>3. rpSettings \in [Slots -> RpSlots]
  BY <1>1, <1>2 DEF RpSlots
<1>4. 0 \in Directions /\ 0 \in 0..RpMaxSteps
  BY DEF Directions, RotorAssumption
<1>5. ASSUME NEW s \in Slots PROVE SlotOK(rpDial[s], rpOnMap[s], rpRotor[s])
  <2>1. rpRotor[s] \in RpRotors
    BY <1>4 DEF RpInit, RpRotors
  <2>2. rpSettings[s].label \in RpLabels
    BY <1>3 DEF RpSlots
  <2> DEFINE no == FALSE
             live == no /\ FALSE
             heading == rpOnMap[s]
  <2>3. heading = [shown |-> no, az |-> 0, label |-> rpSettings[s].label, live |-> live, second |-> no]
    BY DEF RpInit, Heading
  <2>6. no \in BOOLEAN /\ live \in BOOLEAN
    OBVIOUS
  <2> HIDE DEF no, live, heading
  <2>7. heading \in RpHeadings /\ heading.shown = no
    BY <1>4, <2>2, <2>3, <2>6, HeadingIs
  <2>4. rpOnMap[s] \in RpHeadings /\ ~rpOnMap[s].shown
    BY <2>7, Zenon DEF no, heading
  <2>5. rpDial[s] = NoDial
    BY DEF RpInit
  <2> QED BY <2>1, <2>4, <2>5 DEF SlotOK
<1>6. rpAsk \in [Slots -> Directions \cup {Unaimed}] /\ rpSteps = 0
  BY DEF RpInit
<1> QED BY <1>3, <1>4, <1>5, <1>6 DEF RpInv, RpInit

\* It has the types and the property in it.
LEMMA RpShows ==
    ASSUME RpInv
    PROVE  MapFollowsDial /\ RpTypeOK
<1>1. ASSUME NEW s \in Slots
      PROVE  /\ rpOnMap[s].shown = HasDial(s)
             /\ HasDial(s) =>
                  /\ rpOnMap[s].az = rpDial[s].az /\ rpOnMap[s].live = rpRotor[s].up
                  /\ Readout(s) # <<>> => rpOnMap[s].second = (Len(Readout(s)) = 2)
                  /\ rpRotor[s].up => ~rpDial[s].turning /\ rpDial[s].connected
  <2>1. rpOnMap[s].shown \in BOOLEAN /\ HasDial(s) \in BOOLEAN
    BY SlotTypes DEF RpHeadings, HasDial
  <2>2. rpOnMap[s].shown = HasDial(s)
    BY <2>1, SlotTypes DEF Shows
  <2>3. ASSUME HasDial(s), Readout(s) # <<>>
        PROVE  rpOnMap[s].second = (Len(Readout(s)) = 2)
    <3>1. rpOnMap[s].second = rpDial[s].second /\ rpDial[s].second \in BOOLEAN
      BY <2>3, SlotTypes DEF Shows, RpDials
    <3>2. CASE rpDial[s].second
      <4>1. Readout(s) = <<rpDial[s].az, Wrap(rpDial[s].az + SecondOffset)>>
        BY <2>3, <3>2 DEF Readout
      <4> QED BY <4>1, <3>1, <3>2
    <3>3. CASE ~rpDial[s].second
      <4>1. Readout(s) = <<rpDial[s].az>>
        BY <2>3, <3>3 DEF Readout
      <4> QED BY <4>1, <3>1, <3>3
    <3> QED BY <3>1, <3>2, <3>3
  <2>4. HasDial(s) => /\ rpOnMap[s].az = rpDial[s].az /\ rpOnMap[s].live = rpRotor[s].up
                      /\ rpRotor[s].up => ~rpDial[s].turning /\ rpDial[s].connected
    BY SlotTypes DEF Shows, DialOK
  <2> QED BY <2>2, <2>3, <2>4
<1>2. MapFollowsDial
  BY <1>1 DEF MapFollowsDial
<1>3. ASSUME NEW s \in Slots
      PROVE  /\ rpRotor[s] \in [up : BOOLEAN, az : Directions, goal : Directions]
             /\ HasDial(s) => /\ rpDial[s].az \in Directions /\ rpDial[s].target \in Directions \cup {Unaimed}
                              /\ rpDial[s].turning => rpDial[s].simulated
  BY SlotTypes DEF RpRotors, RpDials, DialOK
<1>4. RpTypeOK
  BY <1>3 DEF RpTypeOK, RpInv
<1> QED BY <1>2, <1>4

-----------------------------------------------------------------------------
(* The map: counting round a list *)

\* A larger factor makes the product larger by the other factor at least.
LEMMA NextMultiple ==
    ASSUME NEW n \in Nat, NEW q \in Nat, NEW p \in Nat, q < p
    PROVE  n * p >= n * q + n
<1> DEFINE d == p - q - 1
<1>1. d \in Nat /\ p = q + d + 1
  OBVIOUS
<1>2. n * d \in Nat
  <2> HIDE DEF d
  <2> QED BY <1>1
<1> HIDE DEF d
<1>3. n * (q + d + 1) = n * q + n * d + n
  BY <1>1
<1>4. n * q \in Nat
  OBVIOUS
<1> QED BY <1>1, <1>2, <1>3, <1>4

\* What is left after counting in whole rounds.
LEMMA RemainderIs ==
    ASSUME NEW n \in Nat \ {0}, NEW q \in Nat, NEW r \in 0..(n - 1), NEW x, x = n * q + r
    PROVE  x % n = r
<1> DEFINE p == x \div n
           s == x % n
<1>1. x = n * p + s /\ s \in 0..(n - 1) /\ p \in Nat
  OBVIOUS
<1> HIDE DEF p, s
<1> DEFINE a == n * p
           b == n * q
<1>2. a \in Nat /\ b \in Nat /\ a + s = b + r
  BY <1>1
<1>3. (q < p => a >= b + n) /\ (p < q => b >= a + n)
  BY <1>1, NextMultiple
<1>4. p = q
  <2> HIDE DEF a, b
  <2> QED BY <1>1, <1>2, <1>3
<1>5. a = b
  BY <1>4
<1> HIDE DEF a, b
<1> QED BY <1>1, <1>2, <1>5 DEF s

\* Counting on round a list of n.
LEMMA RoundTheList ==
    ASSUME NEW n \in Nat \ {0}, NEW c \in Nat
    PROVE  /\ c % n \in 0..(n - 1)
           /\ (c + 1) % n = (IF (c % n) + 1 = n THEN 0 ELSE (c % n) + 1)
<1> DEFINE q == c \div n
           r == c % n
<1>1. c = n * q + r /\ r \in 0..(n - 1) /\ q \in Nat
  OBVIOUS
<1>2. CASE r + 1 = n
  <2>1. c + 1 = n * (q + 1) + 0 /\ q + 1 \in Nat /\ 0 \in 0..(n - 1)
    BY <1>1, <1>2
  <2>2. (c + 1) % n = 0
    <3> DEFINE x == c + 1
               p == q + 1
    <3>1. x = n * p + 0 /\ p \in Nat /\ 0 \in 0..(n - 1)
      BY <2>1
    <3> HIDE DEF x, p
    <3>2. x % n = 0
      BY <3>1, RemainderIs
    <3> QED BY <3>2 DEF x
  <2> QED BY <1>1, <1>2, <2>2
<1>3. CASE r + 1 # n
  <2>1. c + 1 = n * q + (r + 1) /\ r + 1 \in 0..(n - 1)
    BY <1>1, <1>3
  <2>2. (c + 1) % n = r + 1
    <3> HIDE DEF q, r
    <3> QED BY <1>1, <2>1, RemainderIs
  <2> QED BY <1>1, <1>3, <2>2
<1> QED BY <1>2, <1>3

\* A place in a list that is counted round.
LEMMA WithinTheList ==
    ASSUME NEW n \in Nat, NEW c \in 0..(n - 1)
    PROVE  c % n = c
OBVIOUS

-----------------------------------------------------------------------------
(* The map: the list of open stations *)

\* Some list of a finite set of stations has the farthest first: a station's
\* place is the number of stations that are no nearer.
LEMMA SortedExists ==
    ASSUME MapAssumption, NEW S \in SUBSET MvCalls
    PROVE  \E list \in [1..Cardinality(S) -> S] : FarthestFirst(list)
<1> DEFINE n == Cardinality(S)
           NoNearer(c) == {d \in S : MvKm[d] >= MvKm[c]}
           Place == [c \in S |-> Cardinality(NoNearer(c))]
           At0(c) == Place[c]
<1>1. IsFiniteSet(S) /\ n \in Nat
  BY FS_Subset, FS_CardinalityType DEF MapAssumption
<1>2. \A c \in S : MvKm[c] \in Nat
  BY DEF MapAssumption
<1>3. ASSUME NEW c \in S
      PROVE  /\ Cardinality(NoNearer(c)) \in 1..n
             /\ IsFiniteSet(NoNearer(c))
  <2>1. NoNearer(c) \subseteq S /\ c \in NoNearer(c)
    BY <1>2
  <2>2. IsFiniteSet(NoNearer(c)) /\ Cardinality(NoNearer(c)) <= n /\ Cardinality(NoNearer(c)) \in Nat
    BY <1>1, <2>1, FS_Subset, FS_CardinalityType
  <2>3. Cardinality(NoNearer(c)) # 0
    BY <2>1, <2>2, FS_EmptySet
  <2> QED BY <2>2, <2>3, <1>1
<1>4. ASSUME NEW c \in S, NEW d \in S, MvKm[c] > MvKm[d]
      PROVE  Cardinality(NoNearer(c)) < Cardinality(NoNearer(d))
  <2>1. NoNearer(c) \subseteq NoNearer(d) /\ d \in NoNearer(d) /\ d \notin NoNearer(c)
    BY <1>2, <1>4
  <2>2. NoNearer(c) # NoNearer(d)
    BY <2>1
  <2>3. Cardinality(NoNearer(c)) <= Cardinality(NoNearer(d))
    BY <1>3, <2>1, FS_Subset
  <2>4. Cardinality(NoNearer(c)) # Cardinality(NoNearer(d))
    BY <1>3, <2>1, <2>2, FS_Subset
  <2> HIDE DEF NoNearer
  <2> QED BY <1>3, <2>3, <2>4
<1>5. \A c, d \in S : MvKm[c] = MvKm[d] => c = d
  BY DEF MapAssumption
<1>6. Place \in [S -> 1..n]
  BY <1>3
<1>7. \A c \in S : Place[c] = Cardinality(NoNearer(c))
  OBVIOUS
<1>8. \A c, d \in S : Place[c] < Place[d] => MvKm[c] > MvKm[d]
  <2> SUFFICES ASSUME NEW c \in S, NEW d \in S, Place[c] < Place[d] PROVE MvKm[c] > MvKm[d]
    OBVIOUS
  <2>1. CASE MvKm[c] = MvKm[d]
    <3>1. c = d
      BY <2>1, <1>5
    <3>2. Place[c] \in 1..n
      BY <1>6
    <3> HIDE DEF Place
    <3> QED BY <3>1, <3>2
  <2>2. CASE MvKm[d] > MvKm[c]
    <3>1. Place[d] < Place[c]
      BY <1>4, <1>7, <2>2
    <3>2. Place[c] \in 1..n /\ Place[d] \in 1..n
      BY <1>6
    <3> HIDE DEF Place
    <3> QED BY <3>1, <3>2
  <2> QED BY <2>1, <2>2, <1>2
<1>9. \A c, d \in S : Place[c] = Place[d] => c = d
  <2> SUFFICES ASSUME NEW c \in S, NEW d \in S, Place[c] = Place[d] PROVE c = d
    OBVIOUS
  <2>1. ~(MvKm[c] > MvKm[d]) /\ ~(MvKm[d] > MvKm[c])
    <3>1. Place[c] \in 1..n /\ Place[d] \in 1..n
      BY <1>6
    <3>2. (MvKm[c] > MvKm[d] => Place[c] < Place[d]) /\ (MvKm[d] > MvKm[c] => Place[d] < Place[c])
      BY <1>4, <1>7
    <3> HIDE DEF Place
    <3> QED BY <3>1, <3>2
  <2>2. MvKm[c] = MvKm[d]
    BY <2>1, <1>2
  <2> QED BY <2>2, <1>5
<1> HIDE DEF Place, NoNearer
<1>10. Place \in Injection(S, 1..n)
  BY <1>6, <1>9 DEF Injection, IsInjective
<1>11. Place \in Surjection(S, 1..n)
  <2>1. IsFiniteSet(1..n) /\ Cardinality(1..n) = n
    BY <1>1, FS_Interval
  <2> QED BY <1>1, <1>10, <2>1, FS_Injection
<1>12. \A i \in 1..n : \E c \in S : Place[c] = i
  BY <1>11, Fun_SurjectionProperties DEF Surjection
<1> DEFINE list == [i \in 1..n |-> CHOOSE c \in S : Place[c] = i]
<1>13. \A i \in 1..n : list[i] \in S /\ Place[list[i]] = i
  BY <1>12
<1>14. list \in [1..n -> S] /\ DOMAIN list = 1..n
  BY <1>13
<1> HIDE DEF list
<1>15. FarthestFirst(list)
  <2> SUFFICES ASSUME NEW i \in 1..n, NEW j \in 1..n, i < j PROVE MvKm[list[i]] > MvKm[list[j]]
    BY <1>14 DEF FarthestFirst
  <2>1. Place[list[i]] < Place[list[j]]
    BY <1>13
  <2> QED BY <2>1, <1>8, <1>13
<1> QED BY <1>14, <1>15

\* No list of open stations names one twice, and it names only open ones.
LEMMA SortedIsSound ==
    ASSUME MapAssumption, NEW S \in SUBSET MvCalls
    PROVE  /\ Sorted(S) \in Seq(MvCalls) /\ Len(Sorted(S)) \in Nat
           /\ \A i, j \in 1..Len(Sorted(S)) : Sorted(S)[i] = Sorted(S)[j] => i = j
<1> DEFINE n == Cardinality(S)
           f == Sorted(S)
<1>1. n \in Nat
  BY FS_Subset, FS_CardinalityType DEF MapAssumption
<1>2. f \in [1..n -> S] /\ FarthestFirst(f)
  BY SortedExists DEF Sorted
<1> HIDE DEF f
<1>3. f \in [1..n -> MvCalls]
  BY <1>2
<1>4. f \in Seq(MvCalls) /\ Len(f) = n /\ DOMAIN f = 1..n
  BY <1>1, <1>3, FunctionIsSeq
<1>5. \A i \in 1..n : MvKm[f[i]] \in Nat
  BY <1>3 DEF MapAssumption
<1>6. \A i, j \in 1..n : i < j => MvKm[f[i]] > MvKm[f[j]]
  BY <1>2, <1>4 DEF FarthestFirst
<1>7. ASSUME NEW i \in 1..n, NEW j \in 1..n, f[i] = f[j] PROVE i = j
  <2>1. ~(i < j) /\ ~(j < i)
    BY <1>5, <1>6, <1>7
  <2> QED BY <2>1
<1> HIDE DEF n
<1> QED BY <1>1, <1>4, <1>7 DEF f

-----------------------------------------------------------------------------
(* The map: the clicks on it *)

\* The place that was handed j clicks ago.
Back(cursor, j, n) == IF cursor >= j THEN cursor - j ELSE cursor + n - j

\* The clicks since the list changed went down the list and round.
InTurn(list, cursor, handed) ==
    /\ Len(handed) <= Len(list) + 1
    /\ Len(handed) > 0 =>
         /\ cursor \in 0..(Len(list) - 1)
         /\ \A j \in 1..Len(handed) :
              j <= Len(list) => handed[Len(handed) + 1 - j] = list[Back(cursor, j, Len(list)) + 1]

\* A click hands the next one (OpenClicked).
LEMMA ClickKeepsTurn ==
    ASSUME NEW list \in Seq(MvCalls), list # <<>>, NEW cursor \in Nat, NEW handed \in Seq(MvCalls),
           InTurn(list, cursor, handed), Len(handed) <= Len(list),
           NEW after, after = Following(cursor, Len(list)),
           NEW grown, grown = Append(handed, list[(cursor % Len(list)) + 1])
    PROVE  after \in Nat /\ grown \in Seq(MvCalls) /\ InTurn(list, after, grown)
<1> DEFINE n == Len(list)
           k == Len(handed)
           c == cursor % n
<1>1. n \in Nat \ {0} /\ k \in Nat /\ k <= n
  BY LenProperties, EmptySeq
<1>2. c \in 0..(n - 1) /\ after = (IF c + 1 = n THEN 0 ELSE c + 1)
  <2> HIDE DEF n
  <2> QED BY <1>1, RoundTheList DEF Following, n
<1>3. k > 0 => c = cursor
  <2> SUFFICES ASSUME k > 0 PROVE c = cursor
    OBVIOUS
  <2>1. cursor \in 0..(n - 1)
    BY DEF InTurn
  <2> HIDE DEF n, k
  <2> QED BY <1>1, <2>1, WithinTheList
<1> HIDE DEF c
<1>4. list[c + 1] \in MvCalls
  <2>1. c + 1 \in 1..n
    BY <1>1, <1>2
  <2> QED BY <2>1, ElementOfSeq
<1>5. grown = Append(handed, list[c + 1])
  BY DEF c
<1>6. /\ grown \in Seq(MvCalls) /\ Len(grown) = k + 1
      /\ \A i \in 1..k : grown[i] = handed[i]
      /\ grown[k + 1] = list[c + 1]
  BY <1>4, <1>5, AppendProperties
<1>7. k > 0 => \A j \in 1..k : j <= n => handed[k + 1 - j] = list[Back(cursor, j, n) + 1]
  BY DEF InTurn
<1> HIDE DEF n, k
<1>8. after \in 0..(n - 1)
  BY <1>1, <1>2
<1>9. ASSUME NEW j \in 1..(k + 1), j <= n
      PROVE  grown[(k + 1) + 1 - j] = list[Back(after, j, n) + 1]
  <2>1. CASE j = 1
    <3>1. Back(after, j, n) = c
      BY <1>1, <1>2, <2>1 DEF Back
    <3>2. (k + 1) + 1 - j = k + 1
      BY <1>1, <2>1
    <3> QED BY <1>6, <3>1, <3>2
  <2>2. CASE j # 1
    <3> DEFINE i == j - 1
    <3>1. i \in 1..k /\ i <= n /\ k > 0 /\ (k + 1) + 1 - j = k + 1 - i /\ k + 1 - i \in 1..k
      BY <1>1, <2>2, <1>9
    <3>2. c = cursor
      BY <1>3, <3>1
    <3>3. Back(after, j, n) = Back(cursor, i, n)
      BY <1>1, <1>2, <3>1, <3>2, <1>9, <2>2 DEF Back
    <3> HIDE DEF i
    <3>4. handed[k + 1 - i] = list[Back(cursor, i, n) + 1]
      BY <3>1, <1>7
    <3> QED BY <1>6, <3>1, <3>3, <3>4
  <2> QED BY <2>1, <2>2
<1>10. InTurn(list, after, grown)
  <2>1. Len(grown) <= n + 1
    BY <1>1, <1>6
  <2> QED BY <2>1, <1>6, <1>8, <1>9 DEF InTurn, n
<1> QED BY <1>6, <1>8, <1>10, <1>1

\* Who was handed in turn from a list that names nobody twice was handed once.
LEMMA TurnsDiffer ==
    ASSUME NEW list, NEW cursor, NEW handed \in Seq(MvCalls), InTurn(list, cursor, handed),
           Len(list) \in Nat, \A i, j \in 1..Len(list) : list[i] = list[j] => i = j,
           Len(handed) <= Len(list)
    PROVE  IsInjective(handed)
<1> DEFINE n == Len(list)
           k == Len(handed)
<1>1. n \in Nat /\ k \in Nat /\ k <= n /\ DOMAIN handed = 1..k
  BY LenProperties
<1>2. k > 0 => cursor \in 0..(n - 1) /\ \A j \in 1..k : j <= n => handed[k + 1 - j] = list[Back(cursor, j, n) + 1]
  BY DEF InTurn
<1>3. \A i, j \in 1..n : list[i] = list[j] => i = j
  OBVIOUS
<1> HIDE DEF n, k
<1>4. ASSUME NEW a \in 1..k, NEW b \in 1..k, handed[a] = handed[b]
      PROVE  a = b
  <2> DEFINE i == k + 1 - a
             j == k + 1 - b
             x == Back(cursor, i, n) + 1
             y == Back(cursor, j, n) + 1
  <2>1. i \in 1..k /\ j \in 1..k /\ i <= n /\ j <= n /\ a = k + 1 - i /\ b = k + 1 - j /\ k > 0
    BY <1>1
  <2>2. cursor \in 0..(n - 1)
    BY <1>2, <2>1
  <2>3. handed[a] = list[x] /\ handed[b] = list[y]
    <3> HIDE DEF i, j
    <3> QED BY <1>2, <2>1
  <2>4. x \in 1..n /\ y \in 1..n
    <3> HIDE DEF i, j
    <3> QED BY <1>1, <2>1, <2>2 DEF Back
  <2>5. x = y
    <3> HIDE DEF x, y
    <3> QED BY <2>3, <2>4, <1>3, <1>4
  <2>6. i = j
    <3> HIDE DEF i, j
    <3> QED BY <1>1, <2>1, <2>2, <2>5 DEF Back
  <2> QED BY <2>6, <1>1
<1> QED BY <1>1, <1>4 DEF IsInjective

-----------------------------------------------------------------------------
(* The map: the invariant *)

PrefsKind == [on : SUBSET MapLayers, width : [Antennas -> MvAngles]]
StationKind == [set : SUBSET Antennas, two : SUBSET Rotors]
ConesKind == [Antennas -> MvAngles \cup {NoCone}]
BeamKind == [heading : 0..359, cursor : Nat, handed : Seq(MvCalls)]

MvKinds ==
    /\ mvPrefs \in PrefsKind /\ mvStored \in PrefsKind
    /\ mvRound \in BOOLEAN /\ mvUp \in BOOLEAN /\ mvTimers \subseteq Timed
    /\ mvStation \in StationKind /\ mvTwo \subseteq Rotors /\ mvCones \in ConesKind
    /\ mvOpen \subseteq MvCalls /\ mvBeam \in BeamKind /\ mvSteps \in 0..MvMaxSteps

\* While it runs: what is stored is shown, and dials and map agree.
MvAgree ==
    mvUp =>
        /\ mvStored.on = mvPrefs.on /\ mvTimers = mvPrefs.on \cap Timed
        /\ \A r \in Rotors : mvStored.width[r] = mvPrefs.width[r]
                             /\ mvCones[r] = (IF r \in mvStation.set THEN mvPrefs.width[r] ELSE NoCone)
        /\ mvTwo = mvStation.two

MvTurn ==
    /\ InTurn(OpenInBeam, mvBeam.cursor, mvBeam.handed)
    /\ ~mvUp => mvBeam.handed = <<>>

MvInv == MvKinds /\ MvAgree /\ MvTurn

\* The dials' cones (MainWindow::applyRotorBeamwidths).
LEMMA ConesAre ==
    ASSUME NEW prefs \in PrefsKind, NEW antennas, NEW cones, cones = ConesFor(antennas, prefs)
    PROVE  /\ cones \in ConesKind
           /\ \A a \in Antennas : cones[a] = IF a \in antennas THEN prefs.width[a] ELSE NoCone
<1>1. prefs.width \in [Antennas -> MvAngles]
  BY DEF PrefsKind
<1> QED BY <1>1 DEF ConesFor, ConesKind

\* A list that no click was made on since it changed.
LEMMA FreshTurn ==
    ASSUME NEW list, Len(list) \in Nat, NEW cursor, NEW handed, handed = <<>>
    PROVE  InTurn(list, cursor, handed)
<1>1. Len(handed) = 0
  OBVIOUS
<1> QED BY <1>1 DEF InTurn

\* The list of the open stations in the beam names only stations.
LEMMA OpenIsSound ==
    ASSUME MapAssumption, MvKinds
    PROVE  /\ OpenInBeam \in Seq(MvCalls) /\ Len(OpenInBeam) \in Nat
           /\ \A i, j \in 1..Len(OpenInBeam) : OpenInBeam[i] = OpenInBeam[j] => i = j
<1> DEFINE S == {c \in mvOpen : Inside(c, mvBeam.heading, "rotor1" \in mvTwo, mvPrefs.width["rotor1"])}
<1>1. CASE "rotor1" \notin mvStation.set
  <2>1. OpenInBeam = <<>>
    BY <1>1 DEF OpenInBeam
  <2>2. <<>> \in Seq(MvCalls) /\ Len(<<>>) = 0
    OBVIOUS
  <2> QED BY <2>1, <2>2
<1>2. CASE "rotor1" \in mvStation.set
  <2>1. OpenInBeam = Sorted(S)
    BY <1>2 DEF OpenInBeam
  <2>2. S \in SUBSET MvCalls
    BY DEF MvKinds
  <2> HIDE DEF S
  <2> QED BY <2>1, <2>2, SortedIsSound
<1> QED BY <1>1, <1>2

\* The same after a step.
LEMMA OpenWillBeSound ==
    ASSUME MapAssumption, mvOpen' \subseteq MvCalls
    PROVE  Len(OpenInBeam') \in Nat
<1> DEFINE S == {c \in mvOpen' : Inside(c, mvBeam.heading, "rotor1" \in mvTwo, mvPrefs.width["rotor1"])'}
<1>1. CASE "rotor1" \notin mvStation.set'
  <2>1. OpenInBeam' = <<>>
    BY <1>1 DEF OpenInBeam
  <2>2. Len(<<>>) = 0
    OBVIOUS
  <2> QED BY <2>1, <2>2
<1>2. CASE "rotor1" \in mvStation.set'
  <2>1. OpenInBeam' = Sorted(S)
    BY <1>2 DEF OpenInBeam
  <2>2. S \in SUBSET MvCalls
    OBVIOUS
  <2> HIDE DEF S
  <2> QED BY <2>1, <2>2, SortedIsSound
<1> QED BY <1>1, <1>2

\* What a step does to the list and its round of clicks: the round is over, or
\* the list stays, or a click was made.
RoundGoesOn ==
    \/ mvBeam'.handed = <<>>
    \/ OpenInBeam' = OpenInBeam /\ mvBeam' = mvBeam /\ mvUp' = mvUp
    \/ OpenClicked

\* One more step of the operator or the air.
LEMMA MvCounts == ASSUME MapAssumption, MvKinds, Step PROVE mvUp /\ mvSteps' \in 0..MvMaxSteps
<1>1. MvMaxSteps \in Nat /\ mvSteps \in 0..MvMaxSteps /\ mvUp /\ mvSteps < MvMaxSteps /\ mvSteps' = mvSteps + 1
  BY DEF MapAssumption, MvKinds, Step
<1> QED BY <1>1

\* Shown, stored and on the dials (MapWidget::notePreferenceChange).
LEMMA KeptIsRight ==
    ASSUME MvKinds, MvAgree, NEW prefs \in PrefsKind, Kept(prefs), mvUp,
           UNCHANGED <<mvRound, mvUp, mvStation, mvTwo, mvOpen>>, mvTimers' = prefs.on \cap Timed,
           mvBeam' \in BeamKind, mvSteps' \in 0..MvMaxSteps
    PROVE  MvKinds' /\ MvAgree'
<1>1. mvPrefs' = prefs /\ mvStored' = prefs /\ mvCones' = ConesFor(mvStation.set, prefs)
  BY DEF Kept
<1>2. mvCones' \in ConesKind /\ \A a \in Antennas : mvCones'[a] = IF a \in mvStation.set THEN prefs.width[a] ELSE NoCone
  BY <1>1, ConesAre
<1>3. MvKinds'
  <2>1. mvTimers' \subseteq Timed
    OBVIOUS
  <2> QED BY <1>1, <1>2, <2>1 DEF MvKinds
<1>4. MvAgree'
  <2>1. mvTwo' = mvStation'.two
    BY DEF MvAgree
  <2>2. \A r \in Rotors : mvStored'.width[r] = mvPrefs'.width[r]
                          /\ mvCones'[r] = (IF r \in mvStation'.set THEN mvPrefs'.width[r] ELSE NoCone)
    BY <1>1, <1>2 DEF Rotors, Antennas
  <2>3. mvStored'.on = mvPrefs'.on /\ mvTimers' = mvPrefs'.on \cap Timed
    BY <1>1
  <2> QED BY <2>1, <2>2, <2>3 DEF MvAgree
<1> QED BY <1>3, <1>4

\* A layer of the menu (MapWidget::setGridLayerVisible).
LEMMA ToggleLayerIsRight ==
    ASSUME MapAssumption, MvInv, NEW layer \in MapLayers, ToggleLayer(layer)
    PROVE  MvKinds' /\ MvAgree' /\ RoundGoesOn
<1> DEFINE on == IF layer \in mvPrefs.on THEN mvPrefs.on \ {layer} ELSE mvPrefs.on \cup {layer}
           prefs == [mvPrefs EXCEPT !.on = on]
<1>1. /\ Step /\ Kept(prefs) /\ mvTimers' = on \cap Timed
      /\ UNCHANGED <<mvRound, mvUp, mvStation, mvTwo, mvOpen, mvBeam>>
  BY DEF ToggleLayer
<1>2. mvPrefs \in PrefsKind /\ MvKinds /\ MvAgree /\ mvBeam \in BeamKind
  BY DEF MvInv, MvKinds
<1>3. on \subseteq MapLayers
  BY <1>2 DEF PrefsKind
<1> HIDE DEF on
<1>4. prefs \in PrefsKind /\ prefs.on = on /\ prefs.width = mvPrefs.width
  BY <1>2, <1>3 DEF PrefsKind
<1> HIDE DEF prefs
<1>5. mvUp /\ mvSteps' \in 0..MvMaxSteps
  BY <1>1, <1>2, MvCounts
<1>6. MvKinds' /\ MvAgree'
  BY <1>1, <1>2, <1>4, <1>5, KeptIsRight
<1>7. OpenInBeam' = OpenInBeam
  <2>1. mvPrefs'.width = mvPrefs.width
    BY <1>1, <1>4 DEF Kept
  <2> QED BY <1>1, <2>1 DEF OpenInBeam, Inside
<1> QED BY <1>1, <1>6, <1>7 DEF RoundGoesOn

\* A rotor's opening angle (MapWidget::setRotor1BeamwidthDeg).
LEMMA RotorAngleIsRight ==
    ASSUME MapAssumption, MvInv, NEW r \in Rotors, NEW degrees \in MvAngles, SetRotorAngle(r, degrees)
    PROVE  MvKinds' /\ MvAgree' /\ RoundGoesOn
<1> DEFINE prefs == [mvPrefs EXCEPT !.width[r] = degrees]
<1>1. /\ Step /\ Kept(prefs) /\ mvBeam' = [mvBeam EXCEPT !.handed = <<>>]
      /\ UNCHANGED <<mvRound, mvUp, mvTimers, mvStation, mvTwo, mvOpen>>
  BY DEF SetRotorAngle, ListMayChange
<1>2. mvPrefs \in PrefsKind /\ MvKinds /\ MvAgree /\ mvBeam \in BeamKind
  BY DEF MvInv, MvKinds
<1>3. prefs \in PrefsKind /\ prefs.on = mvPrefs.on
  BY <1>2 DEF PrefsKind, Rotors, Antennas
<1> HIDE DEF prefs
<1>4. <<>> \in Seq(MvCalls)
  OBVIOUS
<1>5. mvBeam' \in BeamKind /\ mvBeam'.handed = <<>>
  BY <1>1, <1>2, <1>4 DEF BeamKind
<1>6. mvUp /\ mvSteps' \in 0..MvMaxSteps
  BY <1>1, <1>2, MvCounts
<1>7. mvTimers' = prefs.on \cap Timed
  BY <1>1, <1>2, <1>3, <1>6 DEF MvAgree
<1>8. MvKinds' /\ MvAgree'
  BY <1>1, <1>2, <1>3, <1>5, <1>6, <1>7, KeptIsRight
<1> QED BY <1>5, <1>8 DEF RoundGoesOn

\* The fixed antenna's opening angle (MapWidget::setFixedAntennaBeamwidthDeg).
LEMMA FixedAngleIsRight ==
    ASSUME MapAssumption, MvInv, NEW degrees \in MvAngles, SetFixedAngle(degrees)
    PROVE  MvKinds' /\ MvAgree' /\ RoundGoesOn
<1> DEFINE prefs == [mvPrefs EXCEPT !.width["fixed"] = degrees]
<1>1. /\ Step /\ mvPrefs' = prefs
      /\ UNCHANGED <<mvStored, mvRound, mvUp, mvTimers, mvStation, mvCones, mvTwo, mvOpen, mvBeam>>
  BY DEF SetFixedAngle
<1>2. mvPrefs \in PrefsKind /\ MvKinds /\ MvAgree
  BY DEF MvInv, MvKinds
<1>3. prefs \in PrefsKind /\ prefs.on = mvPrefs.on /\ \A r \in Rotors : prefs.width[r] = mvPrefs.width[r]
  BY <1>2 DEF PrefsKind, Rotors, Antennas
<1> HIDE DEF prefs
<1>4. mvUp /\ mvSteps' \in 0..MvMaxSteps
  BY <1>1, <1>2, MvCounts
<1>5. MvKinds'
  BY <1>1, <1>2, <1>3, <1>4 DEF MvKinds
<1>6. MvAgree'
  BY <1>1, <1>2, <1>3, <1>4 DEF MvAgree
<1>7. OpenInBeam' = OpenInBeam
  <2>1. mvPrefs'.width["rotor1"] = mvPrefs.width["rotor1"]
    BY <1>1, <1>3 DEF Rotors
  <2> QED BY <1>1, <2>1 DEF OpenInBeam, Inside
<1> QED BY <1>1, <1>5, <1>6, <1>7 DEF RoundGoesOn

\* Dials and map take the station's settings (MainWindow::applyRotorWidgetSettings).
LEMMA StationIsRight ==
    ASSUME MvInv, NEW station \in StationKind, StationApplied(station), ListMayChange,
           UNCHANGED <<mvPrefs, mvStored, mvRound, mvUp, mvTimers, mvOpen>>, mvSteps' \in 0..MvMaxSteps
    PROVE  MvKinds' /\ MvAgree' /\ RoundGoesOn
<1>1. mvStation' = station /\ mvTwo' = station.two /\ mvCones' = ConesFor(station.set, mvPrefs)
      /\ mvBeam' = [mvBeam EXCEPT !.handed = <<>>]
  BY DEF StationApplied, ListMayChange
<1>2. mvPrefs \in PrefsKind /\ MvKinds /\ MvAgree /\ mvBeam \in BeamKind
  BY DEF MvInv, MvKinds
<1>3. <<>> \in Seq(MvCalls)
  OBVIOUS
<1>4. mvBeam' \in BeamKind /\ mvBeam'.handed = <<>>
  BY <1>1, <1>2, <1>3 DEF BeamKind
<1>5. /\ mvCones' \in ConesKind
      /\ \A a \in Antennas : mvCones'[a] = IF a \in station.set THEN mvPrefs.width[a] ELSE NoCone
  BY <1>1, <1>2, ConesAre
<1>6. mvTwo' \subseteq Rotors
  BY <1>1 DEF StationKind
<1>7. MvKinds'
  BY <1>1, <1>2, <1>4, <1>5, <1>6 DEF MvKinds
<1>8. MvAgree'
  <2> SUFFICES ASSUME mvUp PROVE MvAgree'
    BY DEF MvAgree
  <2>1. \A r \in Rotors : mvStored'.width[r] = mvPrefs'.width[r]
    BY <1>2 DEF MvAgree
  <2>2. \A r \in Rotors : mvCones'[r] = (IF r \in mvStation'.set THEN mvPrefs'.width[r] ELSE NoCone)
    BY <1>1, <1>5 DEF Rotors, Antennas
  <2>3. mvStored'.on = mvPrefs'.on /\ mvTimers' = mvPrefs'.on \cap Timed
    BY <1>2 DEF MvAgree
  <2> QED BY <1>1, <2>1, <2>2, <2>3 DEF MvAgree
<1> QED BY <1>4, <1>7, <1>8 DEF RoundGoesOn

\* One antenna or two, and an antenna set up or given up.
LEMMA AntennasAreRight ==
    ASSUME MapAssumption, MvInv,
           \/ \E r \in Rotors, two \in BOOLEAN : ChooseAntennas(r, two)
           \/ \E a \in Antennas, on \in BOOLEAN : SetUpAntenna(a, on)
    PROVE  MvKinds' /\ MvAgree' /\ RoundGoesOn
<1>0. MvKinds /\ mvStation \in StationKind
  BY DEF MvInv, MvKinds
<1>1. ASSUME NEW r \in Rotors, NEW two \in BOOLEAN, ChooseAntennas(r, two)
      PROVE  MvKinds' /\ MvAgree' /\ RoundGoesOn
  <2> DEFINE chosen == IF two THEN mvStation.two \cup {r} ELSE mvStation.two \ {r}
             station == [mvStation EXCEPT !.two = chosen]
  <2>1. /\ Step /\ StationApplied(station) /\ ListMayChange
        /\ UNCHANGED <<mvPrefs, mvStored, mvRound, mvUp, mvTimers, mvOpen>>
    BY <1>1 DEF ChooseAntennas
  <2>2. chosen \subseteq Rotors
    BY <1>0 DEF StationKind
  <2> HIDE DEF chosen
  <2>3. station \in StationKind
    BY <1>0, <2>2 DEF StationKind
  <2> HIDE DEF station
  <2>4. mvSteps' \in 0..MvMaxSteps
    BY <1>0, <2>1, MvCounts
  <2> QED BY <2>1, <2>3, <2>4, StationIsRight
<1>2. ASSUME NEW a \in Antennas, NEW on \in BOOLEAN, SetUpAntenna(a, on)
      PROVE  MvKinds' /\ MvAgree' /\ RoundGoesOn
  <2> DEFINE there == IF on THEN mvStation.set \cup {a} ELSE mvStation.set \ {a}
             station == [mvStation EXCEPT !.set = there]
  <2>1. /\ Step /\ StationApplied(station) /\ ListMayChange
        /\ UNCHANGED <<mvPrefs, mvStored, mvRound, mvUp, mvTimers, mvOpen>>
    BY <1>2 DEF SetUpAntenna
  <2>2. there \subseteq Antennas
    BY <1>0 DEF StationKind
  <2> HIDE DEF there
  <2>3. station \in StationKind
    BY <1>0, <2>2 DEF StationKind
  <2> HIDE DEF station
  <2>4. mvSteps' \in 0..MvMaxSteps
    BY <1>0, <2>1, MvCounts
  <2> QED BY <2>1, <2>3, <2>4, StationIsRight
<1> QED BY <1>1, <1>2

\* Stations seen and worked, the rotor turned: the round of clicks is over.
LEMMA AirIsRight ==
    ASSUME MapAssumption, MvInv,
           (\E c \in MvCalls : StationSeen(c) \/ StationWorked(c)) \/ \E h \in MvHeadings : RotorTurned(h)
    PROVE  MvKinds' /\ MvAgree' /\ RoundGoesOn
<1>1. MvKinds /\ MvAgree /\ mvBeam \in BeamKind /\ mvOpen \subseteq MvCalls
  BY DEF MvInv, MvKinds
<1>2. <<>> \in Seq(MvCalls)
  OBVIOUS
<1>3. ASSUME Step, UNCHANGED <<mvPrefs, mvStored, mvRound, mvUp, mvTimers, mvStation, mvCones, mvTwo>>,
             mvOpen' \subseteq MvCalls, mvBeam' \in BeamKind, mvBeam'.handed = <<>>
      PROVE  MvKinds' /\ MvAgree' /\ RoundGoesOn
  <2>1. mvSteps' \in 0..MvMaxSteps
    BY <1>1, <1>3, MvCounts
  <2>2. MvKinds'
    BY <1>1, <1>3, <2>1 DEF MvKinds
  <2>3. MvAgree'
    BY <1>1, <1>3 DEF MvAgree
  <2> QED BY <1>3, <2>2, <2>3 DEF RoundGoesOn
<1>4. ASSUME ListMayChange PROVE mvBeam' \in BeamKind /\ mvBeam'.handed = <<>>
  BY <1>1, <1>2, <1>4 DEF ListMayChange, BeamKind
<1>5. ASSUME NEW c \in MvCalls, StationSeen(c) \/ StationWorked(c) PROVE MvKinds' /\ MvAgree' /\ RoundGoesOn
  <2>1. /\ Step /\ ListMayChange /\ mvOpen' \subseteq MvCalls
        /\ UNCHANGED <<mvPrefs, mvStored, mvRound, mvUp, mvTimers, mvStation, mvCones, mvTwo>>
    BY <1>1, <1>5 DEF StationSeen, StationWorked
  <2> QED BY <1>3, <1>4, <2>1
<1>6. ASSUME NEW h \in MvHeadings, RotorTurned(h) PROVE MvKinds' /\ MvAgree' /\ RoundGoesOn
  <2>1. h \in 0..359
    BY DEF MapAssumption
  <2>2. /\ Step /\ mvBeam' = [mvBeam EXCEPT !.heading = h, !.handed = <<>>]
        /\ UNCHANGED <<mvPrefs, mvStored, mvRound, mvUp, mvTimers, mvStation, mvCones, mvTwo, mvOpen>>
    BY <1>6 DEF RotorTurned
  <2>3. mvBeam' \in BeamKind /\ mvBeam'.handed = <<>>
    BY <1>1, <1>2, <2>1, <2>2 DEF BeamKind
  <2> QED BY <1>1, <1>3, <2>2, <2>3
<1> QED BY <1>5, <1>6

\* What a click does (MapWidget::mousePressEvent).
LEMMA ClickIsRight ==
    ASSUME MapAssumption, MvInv, OpenClicked
    PROVE  MvKinds' /\ MvAgree' /\ MvTurn'
<1> DEFINE list == OpenInBeam
           after == Following(mvBeam.cursor, Len(list))
           grown == Append(mvBeam.handed, list[(mvBeam.cursor % Len(list)) + 1])
<1>1. /\ mvUp /\ list # <<>> /\ Len(mvBeam.handed) <= Len(list)
      /\ mvBeam' = [mvBeam EXCEPT !.cursor = after, !.handed = grown]
      /\ UNCHANGED <<mvPrefs, mvStored, mvRound, mvUp, mvTimers, mvStation, mvCones, mvTwo, mvOpen, mvSteps>>
  BY DEF OpenClicked
<1>2. MvKinds /\ MvAgree /\ mvBeam \in BeamKind /\ InTurn(list, mvBeam.cursor, mvBeam.handed)
  BY DEF MvInv, MvKinds, MvTurn
<1>3. list \in Seq(MvCalls)
  BY <1>2, OpenIsSound
<1>4. mvBeam.cursor \in Nat /\ mvBeam.handed \in Seq(MvCalls)
  BY <1>2 DEF BeamKind
<1>5. OpenInBeam' = OpenInBeam
  <2>1. mvBeam'.heading = mvBeam.heading
    <3> HIDE DEF after, grown
    <3> QED BY <1>1, <1>2 DEF BeamKind
  <2> QED BY <1>1, <2>1 DEF OpenInBeam, Inside
<1>6. after \in Nat /\ grown \in Seq(MvCalls) /\ InTurn(list, after, grown)
  <2> DEFINE c == mvBeam.cursor
             h == mvBeam.handed
  <2>1. c \in Nat /\ h \in Seq(MvCalls) /\ InTurn(list, c, h) /\ Len(h) <= Len(list) /\ list # <<>>
    BY <1>1, <1>2, <1>4
  <2>2. \A x, y : x = after /\ y = grown => x = Following(c, Len(list)) /\ y = Append(h, list[(c % Len(list)) + 1])
    OBVIOUS
  <2> HIDE DEF c, h, list, after, grown
  <2> QED BY <1>3, <2>1, <2>2, ClickKeepsTurn
<1> HIDE DEF after, grown
<1>7. mvBeam' \in BeamKind /\ mvBeam'.cursor = after /\ mvBeam'.handed = grown
  BY <1>1, <1>2, <1>6 DEF BeamKind
<1>8. MvKinds'
  BY <1>1, <1>2, <1>7 DEF MvKinds
<1>9. MvAgree'
  BY <1>1, <1>2 DEF MvAgree
<1>10. MvTurn'
  <2>1. InTurn(OpenInBeam', mvBeam'.cursor, mvBeam'.handed)
    BY <1>5, <1>6, <1>7
  <2> QED BY <1>1, <2>1 DEF MvTurn
<1> QED BY <1>8, <1>9, <1>10

\* A start, cut short or not, and an end (MapWidget::applyPreferencesText).
LEMMA StartsAndEndsAreRight ==
    ASSUME MapAssumption, MvInv, Started \/ StartCutShort \/ Ended
    PROVE  MvKinds' /\ MvAgree' /\ mvBeam'.handed = <<>>
<1>1. /\ MvKinds /\ MvAgree /\ mvBeam \in BeamKind /\ mvStored \in PrefsKind /\ mvStation \in StationKind
      /\ (~mvUp => mvBeam.handed = <<>>)
  BY DEF MvInv, MvKinds, MvTurn
<1>2. CASE Started
  <2> DEFINE round == [mvStored EXCEPT !.on = @ \ {"fit"}]
             prefs == IF mvRound THEN mvStored ELSE round
  <2>1. /\ ~mvUp /\ mvUp' = TRUE /\ mvRound' = TRUE
        /\ mvPrefs' = prefs /\ mvStored' = prefs
        /\ mvTimers' = prefs.on \cap Timed /\ mvCones' = ConesFor(mvStation.set, prefs)
        /\ mvTwo' = mvStation.two
        /\ UNCHANGED <<mvStation, mvOpen, mvBeam, mvSteps>>
    BY <1>2 DEF Started
  <2>2. round \in PrefsKind
    BY <1>1 DEF PrefsKind
  <2> HIDE DEF round
  <2>3. prefs \in PrefsKind
    BY <1>1, <2>2
  <2> HIDE DEF prefs
  <2>4. /\ mvCones' \in ConesKind
        /\ \A a \in Antennas : mvCones'[a] = IF a \in mvStation.set THEN prefs.width[a] ELSE NoCone
    BY <2>1, <2>3, ConesAre
  <2>5. mvTwo' \subseteq Rotors
    BY <1>1, <2>1 DEF StationKind
  <2>6. mvTimers' \subseteq Timed
    BY <2>1
  <2>7. MvKinds'
    BY <1>1, <2>1, <2>3, <2>4, <2>5, <2>6 DEF MvKinds
  <2>8. MvAgree'
    <3>1. \A r \in Rotors : mvStored'.width[r] = mvPrefs'.width[r]
                            /\ mvCones'[r] = (IF r \in mvStation'.set THEN mvPrefs'.width[r] ELSE NoCone)
      BY <2>1, <2>4 DEF Rotors, Antennas
    <3>2. mvStored'.on = mvPrefs'.on /\ mvTimers' = mvPrefs'.on \cap Timed /\ mvTwo' = mvStation'.two
      BY <2>1
    <3> QED BY <3>1, <3>2 DEF MvAgree
  <2> QED BY <1>1, <2>1, <2>7, <2>8
<1>3. CASE StartCutShort
  <2>1. ~mvUp /\ mvRound' = TRUE
        /\ UNCHANGED <<mvPrefs, mvStored, mvUp, mvTimers, mvStation, mvCones, mvTwo, mvOpen, mvBeam, mvSteps>>
    BY <1>3 DEF StartCutShort
  <2>2. MvKinds'
    BY <1>1, <2>1 DEF MvKinds
  <2>3. MvAgree'
    BY <1>1, <2>1 DEF MvAgree
  <2> QED BY <1>1, <2>1, <2>2, <2>3
<1>4. CASE Ended
  <2>1. /\ Step /\ mvUp' = FALSE /\ mvTimers' = {}
        /\ mvOpen' = {} /\ mvBeam' = [heading |-> 0, cursor |-> 0, handed |-> <<>>]
        /\ UNCHANGED <<mvPrefs, mvStored, mvRound, mvStation, mvCones, mvTwo>>
    BY <1>4 DEF Ended
  <2>2. mvSteps' \in 0..MvMaxSteps
    BY <1>1, <2>1, MvCounts
  <2>3. <<>> \in Seq(MvCalls)
    OBVIOUS
  <2>4. mvBeam' \in BeamKind /\ mvBeam'.handed = <<>>
    BY <2>1, <2>3 DEF BeamKind
  <2>5. MvKinds'
    BY <1>1, <2>1, <2>2, <2>4 DEF MvKinds
  <2>6. MvAgree'
    BY <2>1 DEF MvAgree
  <2> QED BY <2>4, <2>5, <2>6
<1> QED BY <1>2, <1>3, <1>4

\* Every step keeps the map's word.
LEMMA MvInvariant ==
    ASSUME MapAssumption, MvInv, MvNext
    PROVE  MvInv'
<1>1. ASSUME MvKinds', RoundGoesOn, ~OpenClicked
      PROVE  MvTurn'
  <2>1. Len(OpenInBeam') \in Nat
    BY <1>1, OpenWillBeSound DEF MvKinds
  <2>2. CASE mvBeam'.handed = <<>>
    <3>1. InTurn(OpenInBeam', mvBeam'.cursor, mvBeam'.handed)
      BY <2>1, <2>2, FreshTurn
    <3> QED BY <2>2, <3>1 DEF MvTurn
  <2>3. CASE OpenInBeam' = OpenInBeam /\ mvBeam' = mvBeam /\ mvUp' = mvUp
    <3>1. MvTurn
      BY DEF MvInv
    <3> QED BY <2>3, <3>1 DEF MvTurn
  <2> QED BY <1>1, <2>2, <2>3 DEF RoundGoesOn
<1>2. CASE OpenClicked
  BY <1>2, ClickIsRight DEF MvInv
<1>3. CASE Started \/ StartCutShort \/ Ended
  <2>1. MvKinds' /\ MvAgree' /\ mvBeam'.handed = <<>>
    BY <1>3, StartsAndEndsAreRight
  <2>2. InTurn(OpenInBeam', mvBeam'.cursor, mvBeam'.handed)
    <3>1. Len(OpenInBeam') \in Nat
      BY <2>1, OpenWillBeSound DEF MvKinds
    <3> QED BY <2>1, <3>1, FreshTurn
  <2> QED BY <2>1, <2>2 DEF MvInv, MvTurn
<1>4. CASE ~OpenClicked /\ ~(Started \/ StartCutShort \/ Ended)
  <2>1. MvKinds' /\ MvAgree' /\ RoundGoesOn
    <3>1. \/ \E layer \in MapLayers : ToggleLayer(layer)
          \/ \E r \in Rotors, w \in MvAngles : SetRotorAngle(r, w)
          \/ \E w \in MvAngles : SetFixedAngle(w)
          \/ \E r \in Rotors, two \in BOOLEAN : ChooseAntennas(r, two)
          \/ \E a \in Antennas, on \in BOOLEAN : SetUpAntenna(a, on)
          \/ \E c \in MvCalls : StationSeen(c) \/ StationWorked(c)
          \/ \E h \in MvHeadings : RotorTurned(h)
      BY <1>4 DEF MvNext
    <3>2. CASE \E layer \in MapLayers : ToggleLayer(layer)
      BY <3>2, ToggleLayerIsRight
    <3>3. CASE \E r \in Rotors, w \in MvAngles : SetRotorAngle(r, w)
      BY <3>3, RotorAngleIsRight
    <3>4. CASE \E w \in MvAngles : SetFixedAngle(w)
      BY <3>4, FixedAngleIsRight
    <3>5. CASE \/ \E r \in Rotors, two \in BOOLEAN : ChooseAntennas(r, two)
               \/ \E a \in Antennas, on \in BOOLEAN : SetUpAntenna(a, on)
      BY <3>5, AntennasAreRight
    <3>6. CASE (\E c \in MvCalls : StationSeen(c) \/ StationWorked(c)) \/ \E h \in MvHeadings : RotorTurned(h)
      BY <3>6, AirIsRight
    <3> QED BY <3>1, <3>2, <3>3, <3>4, <3>5, <3>6
  <2> QED BY <1>1, <1>4, <2>1 DEF MvInv
<1> QED BY <1>2, <1>3, <1>4

\* The first start of a new database or of an older one.
LEMMA MvStarts == ASSUME MapAssumption, MvInit PROVE MvInv
<1> DEFINE w0 == CHOOSE w \in MvAngles : TRUE
           width == [a \in Antennas |-> w0]
<1>1. w0 \in MvAngles
  BY DEF MapAssumption
<1> HIDE DEF w0
<1>2. width \in [Antennas -> MvAngles]
  BY <1>1
<1>3. mvStored \in PrefsKind
  <2>1. PICK on \in {{}, {"fit"}, {"fit", "aging"}} : mvStored = [on |-> on \cup {"rotor1", "rotor2"}, width |-> width]
    BY DEF MvInit, OldTexts, w0
  <2> HIDE DEF width
  <2>2. on \cup {"rotor1", "rotor2"} \subseteq MapLayers
    BY DEF MapLayers, Timed
  <2> QED BY <1>2, <2>1, <2>2 DEF PrefsKind
<1>4. /\ mvPrefs = mvStored /\ mvRound \in BOOLEAN /\ mvUp = FALSE /\ mvTimers = {} /\ mvOpen = {} /\ mvSteps = 0
      /\ mvStation = [set |-> {"rotor1"}, two |-> {}] /\ mvTwo = {}
      /\ mvCones = [a \in Antennas |-> NoCone]
      /\ mvBeam = [heading |-> 0, cursor |-> 0, handed |-> <<>>]
  BY DEF MvInit
<1>5. mvStation \in StationKind
  BY <1>4 DEF StationKind, Antennas
<1>6. mvCones \in ConesKind
  BY <1>4 DEF ConesKind
<1>7. mvBeam \in BeamKind /\ mvBeam.handed = <<>>
  <2>1. <<>> \in Seq(MvCalls)
    OBVIOUS
  <2> QED BY <1>4, <2>1 DEF BeamKind
<1>8. mvSteps \in 0..MvMaxSteps
  BY <1>4 DEF MapAssumption
<1>9. MvKinds
  BY <1>3, <1>4, <1>5, <1>6, <1>7, <1>8 DEF MvKinds
<1>10. MvTurn
  <2>1. Len(OpenInBeam) \in Nat
    BY <1>9, OpenIsSound
  <2>2. InTurn(OpenInBeam, mvBeam.cursor, mvBeam.handed)
    BY <1>7, <2>1, FreshTurn
  <2> QED BY <1>7, <2>2 DEF MvTurn
<1>11. MvAgree
  BY <1>4 DEF MvAgree
<1> QED BY <1>9, <1>10, <1>11 DEF MvInv

\* A rotor's beams as the map draws them: one, or two a quarter turn apart
\* (MapWidget::beams).
LEMMA BeamsOfARotor ==
    ASSUME MvKinds, NEW r \in Rotors, r \in mvStation.set, r \in mvPrefs.on
    PROVE  LET drawn == {b \in BeamsDrawn : b.beam.of = r /\ ~b.rear}
           IN  Cardinality(drawn) = (IF r \in mvTwo THEN 2 ELSE 1)
<1> DEFINE Drawn(b) == [beam |-> b, rear |-> FALSE]
           Behind(b) == [beam |-> [b EXCEPT !.at = Turned(@ + 180)], rear |-> TRUE]
           drawn == {b \in BeamsDrawn : b.beam.of = r /\ ~b.rear}
           h == HeadingOf(r)
           q == Turned(h + SecondTurn)
           one == [of |-> r, at |-> h]
           two == [of |-> r, at |-> q]
           own == {b \in FrontBeams : b.of = r}
           rears == {b \in FrontBeams : "rear" \in mvPrefs.on}
<1>1. h \in 0..359
  BY DEF HeadingOf, MvKinds, BeamKind
<1>2. q # h
  <2> HIDE DEF h
  <2> QED BY <1>1 DEF Turned, SecondTurn
<1>3. r # "fixed"
  BY DEF Rotors
<1> HIDE DEF h, q
<1>4. own = {one} \cup {b \in {two} : r \in mvTwo}
  <2> DEFINE A == {[of |-> a, at |-> HeadingOf(a)] : a \in {a \in mvStation.set : a = "fixed" \/ a \in mvPrefs.on}}
             B == {[of |-> s, at |-> Turned(HeadingOf(s) + SecondTurn)] : s \in mvTwo \cap mvStation.set \cap mvPrefs.on}
  <2>1. FrontBeams = A \cup B
    BY DEF FrontBeams
  <2>2. \A b \in A : b.of = r => b = one
    BY DEF h
  <2>3. one \in A /\ one.of = r /\ two.of = r
    BY DEF h
  <2>4. \A b \in B : b.of = r => b = two /\ r \in mvTwo
    BY DEF h, q
  <2>5. r \in mvTwo => two \in B
    BY DEF h, q
  <2> HIDE DEF A, B, one, two
  <2> QED BY <2>1, <2>2, <2>3, <2>4, <2>5
<1>5. BeamsDrawn = {Drawn(b) : b \in FrontBeams} \cup {Behind(b) : b \in rears}
  BY DEF BeamsDrawn
<1>6. \A b : Drawn(b).beam = b
  OBVIOUS
<1>7. \A b : ~(Drawn(b).rear)
  BY Zenon
<1>8. \A b : Behind(b).rear
  BY Zenon
<1> HIDE DEF Drawn, Behind
<1>9. drawn = {Drawn(b) : b \in own}
  <2>1. ASSUME NEW x \in drawn PROVE x \in {Drawn(b) : b \in own}
    <3>1. x \in BeamsDrawn /\ x.beam.of = r /\ ~x.rear
      OBVIOUS
    <3>2. CASE x \in {Drawn(b) : b \in FrontBeams}
      <4>1. PICK b \in FrontBeams : x = Drawn(b)
        BY <3>2
      <4>2. b \in own
        BY <3>1, <4>1, <1>6
      <4> QED BY <4>1, <4>2
    <3>3. CASE x \in {Behind(b) : b \in rears}
      <4>1. PICK b \in rears : x = Behind(b)
        BY <3>3
      <4> QED BY <3>1, <4>1, <1>8, Zenon
    <3> QED BY <3>1, <3>2, <3>3, <1>5
  <2>2. ASSUME NEW b \in own PROVE Drawn(b) \in drawn
    <3>1. b \in FrontBeams /\ b.of = r
      OBVIOUS
    <3>2. Drawn(b) \in BeamsDrawn
      BY <3>1, <1>5
    <3>3. Drawn(b).beam.of = r
      BY <3>1, <1>6
    <3> QED BY <3>2, <3>3, <1>7, Zenon
  <2> HIDE DEF drawn, own
  <2> QED BY <2>1, <2>2
<1> HIDE DEF drawn, own
<1>10. IsFiniteSet({}) /\ Cardinality({}) = 0
  BY FS_EmptySet
<1>11. \A x : IsFiniteSet({x}) /\ Cardinality({x}) = 1
  BY FS_Singleton
<1>12. CASE r \in mvTwo
  <2> DEFINE x == Drawn(one)
             y == Drawn(two)
  <2>1. own = {one, two}
    BY <1>4, <1>12
  <2>2. one # two
    BY <1>2
  <2>3. x # y
    BY <1>6, <2>2
  <2>4. drawn = {x} \cup {y}
    BY <1>9, <2>1
  <2> HIDE DEF x, y
  <2>5. IsFiniteSet({x}) /\ Cardinality({x}) = 1 /\ y \notin {x}
    BY <1>11, <2>3
  <2>6. Cardinality({x} \cup {y}) = 2
    <3> DEFINE X == {x}
    <3>1. IsFiniteSet(X) /\ Cardinality(X) = 1 /\ y \notin X
      BY <2>5
    <3> HIDE DEF X
    <3>2. Cardinality(X \cup {y}) = Cardinality(X) + 1
      BY <3>1, FS_AddElement
    <3>3. Cardinality(X \cup {y}) = 2
      BY <3>1, <3>2
    <3> QED BY <3>3 DEF X
  <2> QED BY <1>12, <2>4, <2>6 DEF drawn
<1>13. CASE r \notin mvTwo
  <2> DEFINE x == Drawn(one)
  <2>1. own = {one}
    BY <1>4, <1>13
  <2>2. drawn = {x}
    BY <1>9, <2>1
  <2> HIDE DEF x
  <2> QED BY <1>11, <1>13, <2>2 DEF drawn
<1> QED BY <1>12, <1>13

\* What the invariant is for.
LEMMA MvShows == ASSUME MapAssumption, MvInv PROVE MapKeepsItsWord /\ MvTypeOK
<1>1. MvKinds /\ MvAgree /\ MvTurn
  BY DEF MvInv
<1>2. MapAndDialsAgree
  <2>1. SUFFICES ASSUME mvUp PROVE MapAndDialsAgree
    BY DEF MapAndDialsAgree
  <2>2. /\ mvStored.on = mvPrefs.on /\ mvTimers = mvPrefs.on \cap Timed
        /\ \A r \in Rotors : mvStored.width[r] = mvPrefs.width[r]
                             /\ mvCones[r] = (IF r \in mvStation.set THEN mvPrefs.width[r] ELSE NoCone)
        /\ mvTwo = mvStation.two
    BY <1>1, <2>1 DEF MvAgree
  <2>3. ASSUME NEW r \in Rotors \cap mvStation.set \cap mvPrefs.on
        PROVE  Cardinality({b \in BeamsDrawn : b.beam.of = r /\ ~b.rear}) = (IF r \in mvStation.two THEN 2 ELSE 1)
    BY <1>1, <2>2, BeamsOfARotor
  <2> QED BY <2>2, <2>3 DEF MapAndDialsAgree
<1>3. EachOpenStationOnce
  <2> SUFFICES ASSUME Len(mvBeam.handed) <= Len(OpenInBeam) PROVE IsInjective(mvBeam.handed)
    BY DEF EachOpenStationOnce
  <2> DEFINE list == OpenInBeam
             handed == mvBeam.handed
  <2>1. Len(list) \in Nat /\ \A i, j \in 1..Len(list) : list[i] = list[j] => i = j
    BY <1>1, OpenIsSound
  <2>2. handed \in Seq(MvCalls) /\ InTurn(list, mvBeam.cursor, handed) /\ Len(handed) <= Len(list)
    BY <1>1 DEF MvKinds, BeamKind, MvTurn
  <2> HIDE DEF list, handed
  <2>3. IsInjective(handed)
    BY <2>1, <2>2, TurnsDiffer
  <2> QED BY <2>3 DEF handed
<1>4. MvTypeOK
  BY <1>1 DEF MvTypeOK, MvKinds, PrefsKind, StationKind, ConesKind, BeamKind
<1> QED BY <1>2, <1>3, <1>4 DEF MapKeepsItsWord

-----------------------------------------------------------------------------
(* The panels: what a window can be *)

PnRects == [x : Int, w : Int]
PnRows == [Panels -> [shown : BOOLEAN, rect : PnRects]]
PnFrames == [rect : PnRects, locked : BOOLEAN, window : PnRects]
PnSides == [pages : Seq(Panels), active : Panels \cup {NoPanel}, collapsed : BOOLEAN]
PnStates ==
    [rect : [Panels -> PnRects], desired : [Panels -> PnRects], docked : [Panels -> PnRects],
     home : [Panels -> PnRects], locked : [Panels -> BOOLEAN], hidden : [Panels -> BOOLEAN],
     pending : [Panels -> BOOLEAN], where : [Panels -> {"canvas", "window", "page"}],
     pages : Seq(Panels), active : Panels \cup {NoPanel}, collapsed : BOOLEAN, area : BOOLEAN,
     canvas : {0, Narrow, Wide}, fresh : BOOLEAN, names : Seq(PnNames), profile : PnNames,
     profiles : [PnNames -> PnRows], layout : [Panels -> PnFrames], kept : PnSides]

\* The pages are the panels in the side area, one page each.
PagesRight(s) == /\ ToSet(s.pages) = {p \in Panels : HasPage(s, p)} /\ IsInjective(s.pages)
                 /\ s.active \in Panels => HasPage(s, s.active)
\* One of them is the active one.
Paged(s) == PagesRight(s) /\ (s.pages # <<>> => s.active # NoPanel)
\* The window as every function of the layout leaves it.
Ordered == {s \in PnStates : Paged(s)}

\* Panel p can be clamped and stands where the canvas lets it.
Stands(s, p, put) ==
    /\ Clamps(s, p) /\ ~s.hidden[p] /\ s.desired[p] = put /\ s.rect[p] = ClampedRect(put, s.canvas)

PnInv ==
    /\ panels \in Ordered /\ pnSteps \in 0..PnMaxSteps /\ pnPut \in [Panels -> PnRects]
    /\ Contains(panels.names, panels.profile) /\ IsInjective(panels.names)
    /\ \A p \in Panels : pnPut[p] # NoRect => Stands(panels, p, pnPut[p])

-----------------------------------------------------------------------------
(* The panels: one panel *)

\* Profiles, side area and canvas are left alone.
Frames(s, t) ==
    /\ t.pages = s.pages /\ t.active = s.active /\ t.where = s.where /\ t.kept = s.kept
    /\ t.names = s.names /\ t.profile = s.profile /\ t.canvas = s.canvas
\* So are names and canvas, whatever goes in and out of the side area.
Same(s, t) == t.names = s.names /\ t.profile = s.profile /\ t.canvas = s.canvas
\* The panels Q stand where they stood.
Leaves(s, t, Q) ==
    \A q \in Q : /\ t.where[q] = s.where[q] /\ t.rect[q] = s.rect[q] /\ t.desired[q] = s.desired[q]
                 /\ t.hidden[q] = s.hidden[q] /\ t.locked[q] = s.locked[q]
\* Something was done to panel p alone.
Touches(s, t, p) == t \in PnStates /\ Frames(s, t) /\ Leaves(s, t, Panels \ {p})

\* Only the side area decides whether the pages are in order.
LEMMA FramesKeepOrder ==
    ASSUME NEW s \in Ordered, NEW t \in PnStates, Frames(s, t)
    PROVE  t \in Ordered
BY DEF Ordered, Frames, Paged, PagesRight, HasPage

\* One function of a panel after another.
LEMMA TouchesCompose ==
    ASSUME NEW s, NEW t, NEW u, NEW p, Touches(s, t, p), Touches(t, u, p)
    PROVE  Touches(s, u, p)
BY DEF Touches, Frames, Leaves

\* The rectangles of the designs, and that of a clamped panel.
LEMMA RectsAreRects ==
    /\ NoRect \in PnRects /\ OnScreen \in PnRects /\ InStack \in PnRects
    /\ DefaultRect \in PnRects /\ CompactRect \in PnRects
    /\ \A x, w \in Int : At(x, w) \in PnRects
    /\ \A r \in PnRects, canvas \in {0, Narrow, Wide} : ClampedRect(r, canvas) \in PnRects
<1>1. \A x, w \in Int : At(x, w) \in PnRects
  BY DEF At, PnRects
<1>2. NoRect \in PnRects /\ OnScreen \in PnRects /\ InStack \in PnRects /\ DefaultRect \in PnRects
      /\ CompactRect \in PnRects
  BY DEF At, PnRects, NoRect, OnScreen, InStack, DefaultRect, CompactRect
<1>3. ASSUME NEW r \in PnRects, NEW canvas \in {0, Narrow, Wide}
      PROVE  ClampedRect(r, canvas) \in PnRects
  BY <1>3 DEF At, PnRects, ClampedRect, Least, Narrow, Wide
<1> QED BY <1>1, <1>2, <1>3

\* trySetGeometry() (ui/PanelLayoutManager.cpp).
LEMMA TrySetTouches ==
    ASSUME NEW s \in PnStates, NEW p \in Panels, NEW r \in PnRects
    PROVE  Touches(s, TrySet(s, p, r), p)
BY DEF Touches, Frames, Leaves, TrySet, PnStates

\* setGeometry() of a panel that is shown or hidden.
LEMMA PlacedTouches ==
    ASSUME NEW s \in PnStates, NEW p \in Panels, NEW r \in PnRects
    PROVE  Touches(s, Placed(s, p, r), p)
BY DEF Touches, Frames, Leaves, Placed, PnStates

\* show() and hide().
LEMMA MadeTouches ==
    ASSUME NEW s \in PnStates, NEW p \in Panels, NEW shown \in BOOLEAN
    PROVE  Touches(s, Made(s, p, shown), p)
BY DEF Touches, Frames, Leaves, Made, PnStates

\* clampPanelToCanvas() leaves the wanted place alone.
LEMMA ClampTouches ==
    ASSUME NEW s \in PnStates, NEW p \in Panels
    PROVE  /\ Touches(s, ClampPanel(s, p), p)
           /\ ClampPanel(s, p).desired = s.desired /\ ClampPanel(s, p).hidden = s.hidden
           /\ ClampPanel(s, p).locked = s.locked
           /\ Clamps(s, p) => ClampPanel(s, p).rect[p] = ClampedRect(s.desired[p], s.canvas)
<1> DEFINE r == ClampedRect(s.desired[p], s.canvas)
<1>1. r \in PnRects
  BY RectsAreRects DEF PnStates
<1>2. CASE Clamps(s, p) /\ r # s.rect[p]
  <2> DEFINE t == ClampPanel(s, p)
  <2>1. t = [s EXCEPT !.rect[p] = r, !.pending[p] = @ \/ s.hidden[p]]
    BY <1>2 DEF ClampPanel
  <2> HIDE DEF r, t
  <2>2. t \in PnStates
    BY <1>1, <2>1 DEF PnStates
  <2>3. Frames(s, t) /\ Leaves(s, t, Panels \ {p})
    BY <2>1 DEF Frames, Leaves, PnStates
  <2>4. t.rect[p] = r /\ t.desired = s.desired /\ t.hidden = s.hidden /\ t.locked = s.locked
    BY <1>1, <2>1 DEF PnStates
  <2> QED
    BY <2>2, <2>3, <2>4 DEF Touches, r, t
<1>3. CASE ~(Clamps(s, p) /\ r # s.rect[p])
  <2>1. ClampPanel(s, p) = s
    BY <1>3 DEF ClampPanel
  <2> QED
    BY <1>3, <2>1 DEF Touches, Frames, Leaves
<1> QED
  BY <1>2, <1>3

\* What is written down changes nothing on the screen.
Notes(s, t) == t \in PnStates /\ Frames(s, t) /\ Leaves(s, t, Panels)

\* saveActiveProfileState() writes down what is there.
LEMMA SaveProfileNotes ==
    ASSUME NEW s \in PnStates
    PROVE  Notes(s, SaveProfile(s))
<1> DEFINE rows == Snapshot(s)
<1> DEFINE all == [s.profiles EXCEPT ![s.profile] = rows]
<1>1. rows \in PnRows
  BY DEF Snapshot, Row, PnStates, PnRows
<1>2. SaveProfile(s) = [s EXCEPT !.profiles = all]
  BY DEF SaveProfile, PnStates
<1> HIDE DEF rows
<1>5. all \in [PnNames -> PnRows]
  BY <1>1 DEF PnStates
<1> HIDE DEF all
<1>3. SaveProfile(s) \in PnStates
  BY <1>2, <1>5 DEF PnStates
<1>4. Frames(s, SaveProfile(s)) /\ Leaves(s, SaveProfile(s), Panels)
  BY <1>2 DEF Frames, Leaves, PnStates
<1> QED
  BY <1>3, <1>4 DEF Notes

\* saveLayout() writes the frame of one panel and the profile.
LEMMA SavedPanelIsFrame ==
    ASSUME NEW s \in PnStates, NEW p \in Panels
    PROVE  SavedPanel(s, p) \in PnFrames
BY RectsAreRects DEF SavedPanel, PnStates, PnFrames

\* Two things written down one after the other.
LEMMA NotesCompose ==
    ASSUME NEW s, NEW t, NEW u, Notes(s, t), Notes(t, u)
    PROVE  Notes(s, u)
BY DEF Notes, Frames, Leaves

\* saveLayout() writes down one panel and the profile.
LEMMA SaveLayoutNotes ==
    ASSUME NEW s \in PnStates, NEW p \in Panels
    PROVE  Notes(s, SaveLayout(s, p))
<1> DEFINE frame == SavedPanel(s, p)
<1> DEFINE t == [s EXCEPT !.layout[p] = frame]
<1>1. frame \in PnFrames
  BY SavedPanelIsFrame
<1> HIDE DEF frame
<1>2. t \in PnStates
  BY <1>1 DEF PnStates
<1>3. Frames(s, t) /\ Leaves(s, t, Panels)
  BY DEF Frames, Leaves, PnStates
<1>4. SaveLayout(s, p) = SaveProfile(t)
  BY DEF SaveLayout, frame
<1> HIDE DEF t
<1> QED
  BY <1>2, <1>3, <1>4, SaveProfileNotes, NotesCompose DEF Notes

\* At a reset every panel is written down.
LEMMA SaveAllNotes ==
    ASSUME NEW s \in PnStates
    PROVE  Notes(s, SaveAll(s))
<1> DEFINE frames == [p \in Panels |-> SavedPanel(s, p)]
<1> DEFINE t == [s EXCEPT !.layout = frames]
<1>1. frames \in [Panels -> PnFrames]
  BY SavedPanelIsFrame
<1> HIDE DEF frames
<1>2. t \in PnStates
  BY <1>1 DEF PnStates
<1>3. Frames(s, t) /\ Leaves(s, t, Panels)
  BY DEF Frames, Leaves, PnStates
<1>4. SaveAll(s) = SaveProfile(t)
  BY DEF SaveAll, frames
<1> HIDE DEF t
<1> QED
  BY <1>2, <1>3, <1>4, SaveProfileNotes, NotesCompose DEF Notes

\* What is only written down touches no panel.
LEMMA NotesTouch ==
    ASSUME NEW s, NEW t, NEW p, Notes(s, t)
    PROVE  Touches(s, t, p)
BY DEF Notes, Touches, Leaves

\* setPanelLocked() (ui/PanelLayoutManager.cpp).
LEMMA SetLockedTouches ==
    ASSUME NEW s \in PnStates, NEW p \in Panels, NEW locked \in BOOLEAN
    PROVE  Touches(s, SetLocked(s, p, locked), p)
<1> DEFINE t == [s EXCEPT !.locked[p] = locked]
<1>1. CASE s.locked[p] = locked
  BY <1>1 DEF SetLocked, Touches, Frames, Leaves
<1>2. CASE s.locked[p] # locked
  <2>1. t \in PnStates
    BY DEF PnStates
  <2>2. Frames(s, t) /\ Leaves(s, t, Panels \ {p})
    BY DEF Frames, Leaves, PnStates
  <2>3. SetLocked(s, p, locked) = SaveLayout(t, p)
    BY <1>2 DEF SetLocked
  <2> HIDE DEF t
  <2>4. Touches(s, t, p)
    BY <2>1, <2>2 DEF Touches
  <2>5. Touches(t, SaveLayout(t, p), p)
    BY <2>1, SaveLayoutNotes, NotesTouch
  <2> QED
    BY <2>3, <2>4, <2>5, TouchesCompose
<1> QED
  BY <1>1, <1>2

\* applyState() for one panel.
LEMMA ApplyRowTouches ==
    ASSUME NEW s \in PnStates, NEW p \in Panels, NEW row \in [shown : BOOLEAN, rect : PnRects]
    PROVE  Touches(s, ApplyRow(s, p, row), p)
<1> DEFINE t == IF row.shown THEN TrySet(s, p, row.rect) ELSE s
<1>1. row.shown \in BOOLEAN /\ row.rect \in PnRects
  OBVIOUS
<1>2. Touches(s, t, p)
  BY <1>1, TrySetTouches DEF Touches, Frames, Leaves
<1>3. Touches(s, Made(s, p, FALSE), p) /\ Touches(s, Made(t, p, row.shown), p)
  BY <1>1, <1>2, MadeTouches, TouchesCompose DEF Touches
<1> QED
  BY <1>3 DEF ApplyRow

\* revealPanel(): shown, and on the canvas as far as it can be.
LEMMA RevealTouches ==
    ASSUME NEW s \in PnStates, NEW p \in Panels
    PROVE  /\ Touches(s, Reveal(s, p), p)
           /\ Clamps(Reveal(s, p), p) => Reveal(s, p).rect[p] = ClampedRect(Reveal(s, p).desired[p], s.canvas)
<1> DEFINE t == Made(s, p, TRUE)
<1> DEFINE u == SaveLayout(t, p)
<1>1. Touches(s, t, p)
  BY MadeTouches
<1>2. Touches(s, u, p)
  BY <1>1, SaveLayoutNotes, NotesTouch, TouchesCompose DEF Touches
<1>3. Reveal(s, p) = ClampPanel(u, p)
  BY DEF Reveal
<1> HIDE DEF t, u
<1>5. u \in PnStates /\ u.canvas = s.canvas
  BY <1>2 DEF Touches, Frames
<1> DEFINE v == ClampPanel(u, p)
<1>6. /\ Touches(u, v, p) /\ v.desired = u.desired /\ v.locked = u.locked
      /\ Clamps(u, p) => v.rect[p] = ClampedRect(u.desired[p], u.canvas)
  BY <1>5, ClampTouches
<1> HIDE DEF v
<1>7. Touches(s, v, p)
  BY <1>2, <1>6, TouchesCompose
<1>8. v.where = u.where /\ v.canvas = u.canvas
  BY <1>6 DEF Touches, Frames
<1>9. Clamps(v, p) => Clamps(u, p)
  BY <1>6, <1>8 DEF Clamps, Laid, OnCanvas
<1> QED
  BY <1>3, <1>5, <1>6, <1>7, <1>9 DEF v

-----------------------------------------------------------------------------
(* The panels: the side area *)

-----------------------------------------------------------------------------
(* The panels: window of its own, side area *)

\* Panel p goes into a window of its own or comes back, the side area stays.
Shifts(s, t, p) ==
    /\ t \in PnStates /\ Same(s, t) /\ Leaves(s, t, Panels \ {p})
    /\ t.pages = s.pages /\ t.active = s.active /\ t.kept = s.kept
    /\ \A q \in Panels : HasPage(t, q) <=> HasPage(s, q)

\* Touching a panel does not change the pages.
LEMMA TouchesShifts ==
    ASSUME NEW s, NEW t, NEW p, Touches(s, t, p)
    PROVE  Shifts(s, t, p)
BY DEF Touches, Shifts, Frames, Same, HasPage

\* One shift after another.
LEMMA ShiftsCompose ==
    ASSUME NEW s, NEW t, NEW u, NEW p, Shifts(s, t, p), Shifts(t, u, p)
    PROVE  Shifts(s, u, p)
BY DEF Shifts, Same, Leaves

\* A panel that stays on its side of the side area leaves the pages in order.
LEMMA ShiftsKeepOrder ==
    ASSUME NEW s \in Ordered, NEW t, NEW p, Shifts(s, t, p)
    PROVE  t \in Ordered
<1>1. {q \in Panels : HasPage(t, q)} = {q \in Panels : HasPage(s, q)}
  BY DEF Shifts
<1> QED
  BY <1>1 DEF Shifts, Ordered, Paged, PagesRight

\* setFloating() (ui/PanelContainerWidget.cpp); a page is not floated.
LEMMA SetFloatingShifts ==
    ASSUME NEW s \in PnStates, NEW p \in Panels, NEW floating \in BOOLEAN, floating => ~HasPage(s, p)
    PROVE  /\ Shifts(s, SetFloating(s, p, floating), p)
           /\ ~HasPage(s, p) /\ ~floating => SetFloating(s, p, floating).where[p] = "canvas"
<1>1. CASE (s.where[p] = "window") = floating
  <2>1. SetFloating(s, p, floating) = s
    BY <1>1 DEF SetFloating
  <2>2. Shifts(s, s, p)
    BY DEF Shifts, Same, Leaves
  <2>3. ~HasPage(s, p) /\ ~floating => s.where[p] = "canvas"
    BY <1>1 DEF HasPage, PnStates
  <2> QED
    BY <2>1, <2>2, <2>3
<1>2. CASE (s.where[p] = "window") # floating /\ floating
  <2> DEFINE t == [s EXCEPT !.docked[p] = s.rect[p], !.where[p] = "window"]
  <2>1. t \in PnStates
    BY DEF PnStates
  <2>2. Same(s, t) /\ Leaves(s, t, Panels \ {p}) /\ t.pages = s.pages /\ t.active = s.active /\ t.kept = s.kept
    BY DEF Same, Leaves, PnStates
  <2>3. \A q \in Panels : HasPage(t, q) <=> HasPage(s, q)
    BY <1>2 DEF HasPage, PnStates
  <2>4. SetFloating(s, p, floating) = SaveLayout(Placed(Made(t, p, TRUE), p, OnScreen), p)
    BY <1>2 DEF SetFloating
  <2> HIDE DEF t
  <2> DEFINE u == Made(t, p, TRUE)
  <2> DEFINE v == Placed(u, p, OnScreen)
  <2>5. Touches(t, u, p)
    BY <2>1, MadeTouches
  <2>6. Touches(u, v, p)
    BY <2>5, PlacedTouches, RectsAreRects DEF Touches
  <2>7. Touches(v, SaveLayout(v, p), p)
    BY <2>6, SaveLayoutNotes, NotesTouch DEF Touches
  <2> HIDE DEF u, v
  <2>8. Shifts(s, t, p) /\ Shifts(t, u, p) /\ Shifts(u, v, p) /\ Shifts(v, SaveLayout(v, p), p)
    BY <2>1, <2>2, <2>3, <2>5, <2>6, <2>7, TouchesShifts DEF Shifts
  <2>9. Shifts(s, SaveLayout(v, p), p)
    BY <2>8, ShiftsCompose
  <2> QED
    BY <1>2, <2>4, <2>9 DEF u, v
<1>3. CASE (s.where[p] = "window") # floating /\ ~floating
  <2> DEFINE t == [s EXCEPT !.where[p] = "canvas"]
  <2>1. t \in PnStates
    BY DEF PnStates
  <2>2. Same(s, t) /\ Leaves(s, t, Panels \ {p}) /\ t.pages = s.pages /\ t.active = s.active /\ t.kept = s.kept
    BY DEF Same, Leaves, PnStates
  <2>3. \A q \in Panels : HasPage(t, q) <=> HasPage(s, q)
    BY <1>3 DEF HasPage, PnStates
  <2>4. SetFloating(s, p, floating) = SaveLayout(Made(Placed(t, p, s.docked[p]), p, TRUE), p)
    BY <1>3 DEF SetFloating, PnStates
  <2>5. t.where[p] = "canvas"
    BY DEF PnStates
  <2> HIDE DEF t
  <2> DEFINE u == Placed(t, p, s.docked[p])
  <2> DEFINE v == Made(u, p, TRUE)
  <2>6. Touches(t, u, p)
    <3>1. s.docked[p] \in PnRects
      BY DEF PnStates
    <3> QED
      BY <2>1, <3>1, PlacedTouches
  <2>7. Touches(u, v, p)
    BY <2>6, MadeTouches DEF Touches
  <2>8. Touches(v, SaveLayout(v, p), p)
    BY <2>7, SaveLayoutNotes, NotesTouch DEF Touches
  <2> HIDE DEF u, v
  <2>9. Shifts(s, t, p) /\ Shifts(t, u, p) /\ Shifts(u, v, p) /\ Shifts(v, SaveLayout(v, p), p)
    BY <2>1, <2>2, <2>3, <2>6, <2>7, <2>8, TouchesShifts DEF Shifts
  <2>10. Shifts(s, SaveLayout(v, p), p)
    BY <2>9, ShiftsCompose
  <2>11. SaveLayout(v, p).where[p] = "canvas"
    BY <2>5, <2>6, <2>7, <2>8 DEF Touches, Frames
  <2> QED
    BY <2>4, <2>10, <2>11 DEF u, v
<1> QED
  BY <1>1, <1>2, <1>3

\* SideAreaWidget::setActive() shows and hides pages only.
LEMMA ShowPageIsActive ==
    ASSUME NEW s \in PnStates, NEW p \in Panels, PagesRight(s), HasPage(s, p)
    PROVE  /\ ShowPage(s, p) \in PnStates /\ Paged(ShowPage(s, p)) /\ Same(s, ShowPage(s, p))
           /\ ShowPage(s, p).kept = s.kept /\ ShowPage(s, p).where = s.where /\ ShowPage(s, p).active = p
           /\ Leaves(s, ShowPage(s, p), {q \in Panels : ~HasPage(s, q)})
<1> DEFINE t == IF p = s.active \/ s.active \notin Panels THEN s ELSE Made(s, s.active, FALSE)
<1> DEFINE u == IF p = s.active THEN t ELSE Made(t, p, TRUE)
<1> DEFINE Away == {q \in Panels : ~HasPage(s, q)}
<1>1. t \in PnStates /\ Frames(s, t) /\ Leaves(s, t, Away)
  <2>1. CASE p = s.active \/ s.active \notin Panels
    BY <2>1 DEF Frames, Leaves
  <2>2. CASE ~(p = s.active \/ s.active \notin Panels)
    <3>1. HasPage(s, s.active) /\ Touches(s, t, s.active)
      BY <2>2, MadeTouches DEF PagesRight
    <3> QED
      BY <3>1 DEF Touches, Leaves
  <2> QED
    BY <2>1, <2>2
<1> HIDE DEF t
<1>2. u \in PnStates /\ Frames(t, u) /\ Leaves(t, u, Away)
  <2>1. CASE p = s.active
    BY <1>1, <2>1 DEF Frames, Leaves
  <2>2. CASE p # s.active
    <3>1. Touches(t, u, p)
      BY <1>1, <2>2, MadeTouches
    <3> QED
      BY <3>1 DEF Touches, Leaves
  <2> QED
    BY <2>1, <2>2
<1>3. ShowPage(s, p) = [u EXCEPT !.active = p, !.collapsed = FALSE]
  BY DEF ShowPage, t, u
<1> HIDE DEF u
<1> DEFINE v == ShowPage(s, p)
<1>4. v \in PnStates /\ v.active = p /\ v.pages = u.pages /\ v.kept = u.kept /\ v.where = u.where
  BY <1>2, <1>3 DEF PnStates
<1>5. Same(u, v) /\ Leaves(u, v, Away)
  BY <1>2, <1>3 DEF Same, Leaves, PnStates
<1> HIDE DEF v
<1>6. Same(s, v) /\ Leaves(s, v, Away) /\ v.pages = s.pages /\ v.where = s.where /\ v.kept = s.kept
  BY <1>1, <1>2, <1>4, <1>5 DEF Same, Leaves, Frames
<1>7. Paged(v)
  BY <1>4, <1>6, PanelAssumption DEF PanelAssumption, Paged, PagesRight, HasPage, NoPanel
<1> QED
  BY <1>4, <1>6, <1>7 DEF v

\* Panel p goes in or out; besides it only pages are touched.
Moves(s, t, p) ==
    t \in Ordered /\ Same(s, t) /\ Leaves(s, t, {q \in Panels \ {p} : ~HasPage(s, q)})

\* saveSideArea() writes down what is in order.
LEMMA SaveSideAreaIsOrdered ==
    ASSUME NEW s \in PnStates, Paged(s)
    PROVE  /\ SaveSideArea(s) \in Ordered /\ Same(s, SaveSideArea(s)) /\ Leaves(s, SaveSideArea(s), Panels)
           /\ SaveSideArea(s).where = s.where
<1> DEFINE k == [pages |-> s.pages, active |-> s.active, collapsed |-> s.collapsed]
<1> DEFINE t == SaveSideArea(s)
<1>1. k \in PnSides /\ k.pages = s.pages /\ k.active = s.active
  BY DEF PnSides, PnStates
<1>2. t = [s EXCEPT !.kept = k]
  BY DEF SaveSideArea
<1> HIDE DEF k, t
<1>3. t \in PnStates /\ t.kept = k
  BY <1>1, <1>2 DEF PnStates
<1>4. /\ t.pages = s.pages /\ t.active = s.active /\ t.where = s.where /\ t.names = s.names
      /\ t.profile = s.profile /\ t.canvas = s.canvas /\ t.rect = s.rect /\ t.desired = s.desired
      /\ t.hidden = s.hidden /\ t.locked = s.locked
  BY <1>2 DEF PnStates
<1>6. Paged(t)
  BY <1>4 DEF Paged, PagesRight, HasPage
<1> QED
  BY <1>3, <1>4, <1>6 DEF Ordered, Same, Leaves, t

\* setActive() of a panel that has a page.
LEMMA SetActiveIsOrdered ==
    ASSUME NEW s \in PnStates, NEW p \in Panels, PagesRight(s), HasPage(s, p)
    PROVE  /\ SetActive(s, p) \in Ordered /\ Same(s, SetActive(s, p))
           /\ Leaves(s, SetActive(s, p), {q \in Panels : ~HasPage(s, q)})
           /\ SetActive(s, p).where = s.where
<1> DEFINE t == ShowPage(s, p)
<1>1. /\ t \in PnStates /\ Paged(t) /\ Same(s, t) /\ t.where = s.where
      /\ Leaves(s, t, {q \in Panels : ~HasPage(s, q)})
  BY ShowPageIsActive
<1>2. SetActive(s, p) = SaveSideArea(t)
  BY DEF SetActive
<1> HIDE DEF t
<1>3. /\ SaveSideArea(t) \in Ordered /\ Same(t, SaveSideArea(t)) /\ Leaves(t, SaveSideArea(t), Panels)
      /\ SaveSideArea(t).where = t.where
  BY <1>1, SaveSideAreaIsOrdered
<1> QED
  BY <1>1, <1>2, <1>3 DEF Same, Leaves

\* One page more, and one page less.
LEMMA OneIsAdded ==
    ASSUME NEW T, NEW pages \in Seq(T), NEW p \in T \ ToSet(pages), IsInjective(pages)
    PROVE  /\ Append(pages, p) \in Seq(T) /\ IsInjective(Append(pages, p))
           /\ ToSet(Append(pages, p)) = ToSet(pages) \cup {p}
<1> DEFINE more == Append(pages, p)
<1>1. /\ more \in Seq(T) /\ Len(more) = Len(pages) + 1 /\ DOMAIN more = 1..(Len(pages) + 1)
      /\ \A i \in 1..Len(pages) : more[i] = pages[i]
      /\ more[Len(pages) + 1] = p
  OBVIOUS
<1>2. DOMAIN pages = 1..Len(pages) /\ Len(pages) \in Nat
  OBVIOUS
<1> HIDE DEF more
<1>3. \A i \in 1..Len(pages) : pages[i] # p
  BY <1>2 DEF ToSet
<1>4. IsInjective(more)
  BY <1>1, <1>2, <1>3 DEF IsInjective
<1>5. ToSet(more) = ToSet(pages) \cup {p}
  BY <1>1, <1>2 DEF ToSet
<1> QED
  BY <1>1, <1>4, <1>5 DEF more

\* takePage() and removeProfile(): what is listed once is gone, the rest stays.
LEMMA OneIsRemoved ==
    ASSUME NEW T, NEW list \in Seq(T), NEW e, IsInjective(list), Contains(list, e)
    PROVE  /\ RemoveFirst(list, e) \in Seq(T) /\ IsInjective(RemoveFirst(list, e))
           /\ ToSet(RemoveFirst(list, e)) = ToSet(list) \ {e}
           /\ Len(RemoveFirst(list, e)) = Len(list) - 1
<1> DEFINE I == {i \in 1..Len(list) : list[i] = e}
<1>1. PICK k \in 1..Len(list) : list[k] = e
  BY DEF Contains
<1>2. DOMAIN list = 1..Len(list) /\ Len(list) \in Nat /\ \A i \in 1..Len(list) : list[i] \in T
  OBVIOUS
<1>3. I = {k}
  BY <1>1, <1>2 DEF IsInjective
<1>4. Min(I) = k
  BY <1>1, <1>2, <1>3 DEF Min
<1>5. SelectInSeq(list, LAMBDA v : v = e) = k
  BY <1>3, <1>4 DEF SelectInSeq
<1> DEFINE front == SubSeq(list, 1, k - 1)
<1> DEFINE back == SubSeq(list, k + 1, Len(list))
<1> DEFINE left == RemoveFirst(list, e)
<1>6. left = front \o back
  BY <1>1, <1>5 DEF RemoveFirst, RemoveAt
<1>7. front \in Seq(T) /\ Len(front) = k - 1 /\ \A i \in 1..(k - 1) : front[i] = list[i]
  <2>1. 1 \in Int /\ k - 1 \in Int /\ \A i \in 1..(k - 1) : list[i] \in T
    BY <1>1, <1>2
  <2>2. /\ front \in Seq(T) /\ Len(front) = IF 1 <= k - 1 THEN k - 1 - 1 + 1 ELSE 0
        /\ \A i \in 1..(k - 1 - 1 + 1) : front[i] = list[1 + i - 1]
    BY <2>1, SubSeqProperties
  <2> QED
    BY <1>1, <1>2, <2>2
<1>8. back \in Seq(T) /\ Len(back) = Len(list) - k /\ \A i \in 1..(Len(list) - k) : back[i] = list[k + i]
  <2>1. k + 1 \in Int /\ Len(list) \in Int /\ \A i \in (k + 1)..Len(list) : list[i] \in T
    BY <1>1, <1>2
  <2>2. /\ back \in Seq(T) /\ Len(back) = IF k + 1 <= Len(list) THEN Len(list) - (k + 1) + 1 ELSE 0
        /\ \A i \in 1..(Len(list) - (k + 1) + 1) : back[i] = list[k + 1 + i - 1]
    BY <2>1, SubSeqProperties
  <2> QED
    BY <1>1, <1>2, <2>2
<1> HIDE DEF front, back, left
<1>9. /\ left \in Seq(T) /\ Len(left) = Len(list) - 1
      /\ \A i \in 1..(Len(list) - 1) : left[i] = IF i < k THEN list[i] ELSE list[i + 1]
  <2>1. left \in Seq(T) /\ Len(left) = Len(front) + Len(back)
        /\ \A i \in 1..(Len(front) + Len(back)) :
             left[i] = IF i <= Len(front) THEN front[i] ELSE back[i - Len(front)]
    BY <1>6, <1>7, <1>8, ConcatProperties
  <2>2. Len(front) + Len(back) = Len(list) - 1
    BY <1>1, <1>2, <1>7, <1>8
  <2>3. ASSUME NEW i \in 1..(Len(list) - 1)
        PROVE  left[i] = IF i < k THEN list[i] ELSE list[i + 1]
    <3>1. CASE i < k
      BY <1>1, <1>2, <1>7, <2>1, <2>2, <3>1
    <3>2. CASE ~(i < k)
      <4>1. left[i] = back[i - (k - 1)]
        BY <1>1, <1>2, <1>7, <2>1, <2>2, <3>2
      <4>2. i - (k - 1) \in 1..(Len(list) - k) /\ k + (i - (k - 1)) = i + 1
        BY <1>1, <1>2, <3>2
      <4> QED
        BY <1>8, <3>2, <4>1, <4>2
    <3> QED
      BY <3>1, <3>2
  <2> QED
    BY <2>1, <2>2, <2>3
<1>10. DOMAIN left = 1..(Len(list) - 1)
  BY <1>9
<1>11. IsInjective(left)
  BY <1>1, <1>2, <1>9, <1>10 DEF IsInjective
<1>12. ToSet(left) = ToSet(list) \ {e}
  <2>1. ASSUME NEW x \in ToSet(left)
        PROVE  x \in ToSet(list) \ {e}
    <3>1. PICK i \in 1..(Len(list) - 1) : x = left[i]
      BY <1>10 DEF ToSet
    <3> DEFINE j == IF i < k THEN i ELSE i + 1
    <3>2. j \in 1..Len(list) /\ j # k /\ x = list[j]
      BY <1>1, <1>2, <1>9, <3>1
    <3>3. list[j] # e
      BY <1>1, <1>2, <3>2 DEF IsInjective
    <3> QED
      BY <1>2, <3>2, <3>3 DEF ToSet
  <2>2. ASSUME NEW x \in ToSet(list) \ {e}
        PROVE  x \in ToSet(left)
    <3>1. PICK j \in 1..Len(list) : x = list[j]
      BY <1>2 DEF ToSet
    <3>2. j # k
      BY <1>1, <3>1
    <3> DEFINE i == IF j < k THEN j ELSE j - 1
    <3>3. i \in 1..(Len(list) - 1) /\ left[i] = list[j]
      BY <1>1, <1>2, <1>9, <3>2
    <3> QED
      BY <1>10, <3>1, <3>3 DEF ToSet
  <2> QED
    BY <2>1, <2>2
<1> QED
  BY <1>9, <1>11, <1>12 DEF left

\* putPanelIntoSideArea() (ui/MainWindow.cpp).
LEMMA PutIntoSideAreaMoves ==
    ASSUME NEW s \in Ordered, NEW p \in Panels
    PROVE  /\ Moves(s, PutIntoSideArea(s, p), p) /\ HasPage(PutIntoSideArea(s, p), p)
           /\ \A q \in Panels : HasPage(s, q) => HasPage(PutIntoSideArea(s, p), q)
<1>1. CASE HasPage(s, p)
  <2>1. PutIntoSideArea(s, p) = s
    BY <1>1 DEF PutIntoSideArea
  <2> QED
    BY <1>1, <2>1 DEF Moves, Same, Leaves
<1>2. CASE ~HasPage(s, p)
  <2> DEFINE t == SetFloating(s, p, FALSE)
  <2> DEFINE Away == {q \in Panels \ {p} : ~HasPage(s, q)}
  <2>1. s \in PnStates
    BY DEF Ordered
  <2>2. Shifts(s, t, p) /\ t.where[p] = "canvas"
    BY <1>2, <2>1, SetFloatingShifts
  <2>3. t \in Ordered
    BY <2>2, ShiftsKeepOrder
  <2> HIDE DEF t
  <2> DEFINE u == [t EXCEPT !.home[p] = t.rect[p], !.where[p] = "page", !.rect[p] = InStack,
                            !.pages = Append(@, p)]
  <2>4. t \in PnStates /\ PagesRight(t)
    BY <2>3 DEF Ordered, Paged
  <2>5. p \notin ToSet(t.pages) /\ t.pages \in Seq(Panels) /\ IsInjective(t.pages)
    BY <2>2, <2>4 DEF PagesRight, HasPage, PnStates
  <2>6. /\ Append(t.pages, p) \in Seq(Panels) /\ IsInjective(Append(t.pages, p))
        /\ ToSet(Append(t.pages, p)) = ToSet(t.pages) \cup {p}
    BY <2>5, OneIsAdded
  <2>7. u \in PnStates
    BY <2>4, <2>6, RectsAreRects DEF PnStates
  <2>8. /\ u.pages = Append(t.pages, p) /\ u.active = t.active /\ Same(t, u) /\ u.where[p] = "page"
        /\ \A q \in Panels \ {p} : u.where[q] = t.where[q]
        /\ Leaves(t, u, Panels \ {p})
    BY <2>4 DEF PnStates, Same, Leaves
  <2> HIDE DEF u
  <2>9. PagesRight(u) /\ HasPage(u, p)
    BY <2>4, <2>6, <2>8 DEF PagesRight, HasPage
  <2> DEFINE v == SetActive(u, p)
  <2>10. /\ v \in Ordered /\ Same(u, v) /\ v.where = u.where
         /\ Leaves(u, v, {q \in Panels : ~HasPage(u, q)})
    BY <2>7, <2>9, SetActiveIsOrdered
  <2>11. PutIntoSideArea(s, p) = [v EXCEPT !.area = TRUE]
    BY <1>2 DEF PutIntoSideArea, t, u
  <2> HIDE DEF v
  <2> DEFINE w == PutIntoSideArea(s, p)
  <2>12. /\ w \in PnStates /\ w.pages = v.pages /\ w.active = v.active /\ w.where = v.where /\ w.kept = v.kept
         /\ w.names = v.names /\ w.profile = v.profile /\ w.canvas = v.canvas /\ w.rect = v.rect
         /\ w.desired = v.desired /\ w.hidden = v.hidden /\ w.locked = v.locked
    BY <2>10, <2>11 DEF PnStates, Ordered
  <2> HIDE DEF w
  <2>13. w \in Ordered
    BY <2>10, <2>12 DEF Ordered, Paged, PagesRight, HasPage
  <2>14. Same(s, w)
    BY <2>2, <2>8, <2>10, <2>12 DEF Same, Shifts
  <2>15. \A q \in Away : ~HasPage(u, q)
    BY <2>2, <2>8 DEF Shifts, HasPage
  <2>16. Leaves(s, w, Away)
    BY <2>2, <2>8, <2>10, <2>12, <2>15 DEF Leaves, Shifts
  <2>17. HasPage(w, p)
    BY <2>8, <2>10, <2>12 DEF HasPage
  <2>18. \A q \in Panels : HasPage(s, q) => HasPage(w, q)
    BY <2>2, <2>8, <2>10, <2>12 DEF HasPage, Shifts
  <2> QED
    BY <2>13, <2>14, <2>16, <2>17, <2>18 DEF Moves, w
<1> QED
  BY <1>1, <1>2

\* takePanelOutOfSideArea() (ui/MainWindow.cpp).
LEMMA TakeOutMoves ==
    ASSUME NEW s \in Ordered, NEW p \in Panels
    PROVE  Moves(s, TakeOutOfSideArea(s, p), p)
<1>1. CASE ~HasPage(s, p)
  BY <1>1 DEF TakeOutOfSideArea, Moves, Same, Leaves
<1>2. CASE HasPage(s, p)
  <2> DEFINE left == RemoveFirst(s.pages, p)
  <2> DEFINE t == [s EXCEPT !.where[p] = "canvas", !.pages = left, !.active = IF @ = p THEN NoPanel ELSE @]
  <2> DEFINE front == IF s.active = p THEN left[1] ELSE s.active
  <2> DEFINE u == IF left = <<>> THEN t ELSE ShowPage(t, front)
  <2> DEFINE v == Made(TrySet(u, p, u.home[p]), p, TRUE)
  <2> DEFINE w == [v EXCEPT !.area = left # <<>>]
  <2> DEFINE Away == {q \in Panels \ {p} : ~HasPage(s, q)}
  <2>1. s \in PnStates /\ Paged(s) /\ PagesRight(s) /\ s.pages \in Seq(Panels)
    BY DEF Ordered, Paged, PnStates
  <2>2. p \in ToSet(s.pages) /\ Contains(s.pages, p)
    BY <1>2, <2>1 DEF PagesRight, ToSet, Contains
  <2>3. /\ left \in Seq(Panels) /\ IsInjective(left) /\ ToSet(left) = ToSet(s.pages) \ {p}
    BY <2>1, <2>2, OneIsRemoved DEF PagesRight
  <2>4. TakeOutOfSideArea(s, p) = SaveSideArea(w)
    BY <1>2 DEF TakeOutOfSideArea
  <2>5. t \in PnStates
    BY <2>1, <2>3 DEF PnStates
  <2>6. /\ t.pages = left /\ t.active = (IF s.active = p THEN NoPanel ELSE s.active) /\ t.where[p] = "canvas"
        /\ \A q \in Panels \ {p} : t.where[q] = s.where[q]
        /\ Same(s, t) /\ Leaves(s, t, Panels \ {p})
    BY <2>1 DEF PnStates, Same, Leaves
  <2> HIDE DEF t
  <2>7. PagesRight(t)
    <3>1. ToSet(left) = {q \in Panels : HasPage(t, q)}
      BY <2>1, <2>3, <2>6 DEF PagesRight, HasPage
    <3>2. t.active \in Panels => HasPage(t, t.active)
      BY <2>1, <2>6, PanelAssumption DEF PagesRight, HasPage, PanelAssumption
    <3> QED
      BY <2>3, <2>6, <3>1, <3>2 DEF PagesRight
  <2>8. u \in PnStates /\ Paged(u) /\ Same(t, u) /\ u.where = t.where
        /\ Leaves(t, u, {q \in Panels : ~HasPage(t, q)})
    <3>1. CASE left = <<>>
      BY <2>5, <2>6, <2>7, <3>1 DEF Paged, Same, Leaves
    <3>2. CASE left # <<>>
      <4>1. 1 \in DOMAIN left /\ left[1] \in Panels
        BY <2>3, <3>2
      <4>2. left[1] \in ToSet(left)
        BY <4>1 DEF ToSet
      <4>3. s.active \in Panels
        <5>1. s.pages # <<>>
          BY <2>1, <2>2 DEF ToSet
        <5> QED
          BY <2>1, <5>1 DEF Paged, PnStates
      <4>4. front \in Panels /\ HasPage(t, front)
        BY <2>1, <2>3, <2>6, <2>7, <4>1, <4>2, <4>3 DEF PagesRight, HasPage
      <4>5. u = ShowPage(t, front)
        BY <3>2
      <4> HIDE DEF u, front
      <4> QED
        BY <2>5, <2>7, <4>4, <4>5, ShowPageIsActive
    <3> QED
      BY <3>1, <3>2
  <2> HIDE DEF u, front
  <2>9. Touches(u, v, p)
    <3>1. u.home[p] \in PnRects
      BY <2>8 DEF PnStates
    <3>2. Touches(u, TrySet(u, p, u.home[p]), p)
      BY <2>8, <3>1, TrySetTouches
    <3>3. TrySet(u, p, u.home[p]) \in PnStates
      BY <3>2 DEF Touches
    <3> QED
      BY <3>2, <3>3, MadeTouches, TouchesCompose
  <2> HIDE DEF v
  <2>10. v \in PnStates /\ Frames(u, v) /\ Leaves(u, v, Panels \ {p})
    BY <2>9 DEF Touches
  <2>12. /\ w \in PnStates /\ w.pages = v.pages /\ w.active = v.active /\ w.where = v.where
         /\ Same(v, w) /\ Leaves(v, w, Panels)
    BY <2>10 DEF PnStates, Same, Leaves
  <2> HIDE DEF w, left
  <2>13. Paged(w)
    BY <2>8, <2>10, <2>12 DEF Paged, PagesRight, HasPage, Frames
  <2>14. /\ SaveSideArea(w) \in Ordered /\ Same(w, SaveSideArea(w)) /\ Leaves(w, SaveSideArea(w), Panels)
         /\ SaveSideArea(w).where = w.where
    BY <2>12, <2>13, SaveSideAreaIsOrdered
  <2>15. Same(s, SaveSideArea(w))
    BY <2>6, <2>8, <2>10, <2>12, <2>14 DEF Same, Frames
  <2>16. \A q \in Away : q \in Panels \ {p} /\ ~HasPage(t, q)
    BY <2>6 DEF HasPage
  <2>17. Leaves(s, SaveSideArea(w), Away)
    BY <2>6, <2>8, <2>10, <2>12, <2>14, <2>16 DEF Leaves
  <2> QED
    BY <2>4, <2>14, <2>15, <2>17 DEF Moves
<1> QED
  BY <1>1, <1>2

-----------------------------------------------------------------------------
(* The panels: one function after another *)

\* What a fold returns for each set of places: the last place is the last step.
FoldedBy(g, n, s, step) ==
    \A S \in SUBSET (1..n) : g[S] = IF S = {} THEN s ELSE step[Max(S)][g[S \ {Max(S)}]]

\* A set of places has a last one.
LEMMA LastPlace ==
    ASSUME NEW n \in Nat, NEW S \in SUBSET (1..n), S # {}
    PROVE  Max(S) \in S /\ \A i \in S : Max(S) >= i
<1> DEFINE T == {j \in 0..n : \E i \in S : j = n - i}
<1>1. T \in SUBSET Nat /\ T # {}
  <2>1. PICK i \in S : i \in 1..n
    OBVIOUS
  <2>2. n - i \in 0..n
    BY <2>1
  <2>3. n - i \in T
    BY <2>2
  <2>4. T \in SUBSET Nat
    OBVIOUS
  <2> QED
    BY <2>3, <2>4
<1>2. PICK j \in T : \A k \in T : j <= k
  <2> HIDE DEF T
  <2> QED BY <1>1, LeastExists
<1>3. PICK i \in S : j = n - i
  BY <1>2
<1>4. \A k \in S : i >= k
  <2>1. SUFFICES ASSUME NEW k \in S
                 PROVE  i >= k
    OBVIOUS
  <2>2. n - k \in T
    OBVIOUS
  <2> QED
    BY <1>2, <1>3, <2>2
<1> HIDE DEF T
<1> QED
  BY <1>4 DEF Max

\* The last of the first m places is m.
LEMMA LastOfPlaces ==
    ASSUME NEW n \in Nat, NEW m \in 1..n
    PROVE  1..m \in SUBSET (1..n) /\ 1..m # {} /\ Max(1..m) = m /\ (1..m) \ {m} = 1..(m - 1)
<1>1. 1..m \in SUBSET (1..n) /\ m \in 1..m
  OBVIOUS
<1>2. Max(1..m) \in 1..m /\ Max(1..m) >= m
  BY <1>1, LastPlace
<1> QED
  BY <1>1, <1>2

\* Steps that stay in a set can be taken one after another.
LEMMA FoldExists ==
    ASSUME NEW Good, NEW s \in Good, NEW n \in Nat, NEW step \in [1..n -> [Good -> Good]]
    PROVE  \E g \in [SUBSET (1..n) -> Good] : FoldedBy(g, n, s, step)
<1> DEFINE Bad == {m \in 0..n : ~\E g \in [SUBSET (1..m) -> Good] : FoldedBy(g, m, s, step)}
<1>1. SUFFICES ASSUME Bad # {}
               PROVE  FALSE
  <2>1. n \in 0..n
    OBVIOUS
  <2> QED
    BY <2>1
<1>2. PICK m \in Bad : \A k \in Bad : m <= k
  <2>1. Bad \in SUBSET Nat
    OBVIOUS
  <2> HIDE DEF Bad
  <2> QED
    BY <1>1, <2>1, LeastExists
<1>3. m # 0
  <2>1. ASSUME m = 0
        PROVE  FALSE
    <3> DEFINE g == [S \in SUBSET (1..m) |-> s]
    <3>1. \A S \in SUBSET (1..m) : S = {}
      BY <2>1
    <3>2. g \in [SUBSET (1..m) -> Good] /\ FoldedBy(g, m, s, step)
      BY <3>1 DEF FoldedBy
    <3> QED
      BY <1>2, <3>2
  <2> QED
    BY <2>1
<1>4. m - 1 \in 0..n /\ m \in 1..n /\ m \in Nat /\ m - 1 \in Nat /\ ~(m <= m - 1)
  BY <1>2, <1>3
<1>5. m - 1 \notin Bad
  <2> HIDE DEF Bad
  <2> QED
    BY <1>2, <1>4
<1>6. PICK g \in [SUBSET (1..(m - 1)) -> Good] : FoldedBy(g, m - 1, s, step)
  BY <1>4, <1>5
<1> DEFINE h == [S \in SUBSET (1..m) |-> IF m \in S THEN step[m][g[S \ {m}]] ELSE g[S]]
<1>7. ASSUME NEW S \in SUBSET (1..m)
      PROVE  /\ m \in S => S \ {m} \in SUBSET (1..(m - 1))
             /\ m \notin S => S \in SUBSET (1..(m - 1))
  BY <1>4
<1>8. h \in [SUBSET (1..m) -> Good]
  <2>1. ASSUME NEW S \in SUBSET (1..m)
        PROVE  (IF m \in S THEN step[m][g[S \ {m}]] ELSE g[S]) \in Good
    <3>1. CASE m \in S
      <4>1. g[S \ {m}] \in Good
        BY <1>7, <3>1
      <4>2. step[m] \in [Good -> Good]
        BY <1>4
      <4> QED
        BY <3>1, <4>1, <4>2
    <3>2. CASE m \notin S
      BY <1>7, <3>2
    <3> QED
      BY <3>1, <3>2
  <2> QED
    BY <2>1
<1>9. FoldedBy(h, m, s, step)
  <2>1. ASSUME NEW S \in SUBSET (1..m)
        PROVE  h[S] = IF S = {} THEN s ELSE step[Max(S)][h[S \ {Max(S)}]]
    <3>1. CASE m \in S
      <4>1. Max(S) = m
        <5>1. Max(S) \in S /\ Max(S) >= m
          BY <1>4, <3>1, LastPlace
        <5>2. Max(S) \in 1..m
          BY <5>1
        <5> QED
          BY <1>4, <5>1, <5>2
      <4>2. h[S \ {m}] = g[S \ {m}]
        BY <1>7, <3>1
      <4> QED
        BY <3>1, <4>1, <4>2
    <3>2. CASE m \notin S /\ S = {}
      BY <1>6, <1>7, <3>2 DEF FoldedBy
    <3>3. CASE m \notin S /\ S # {}
      <4>1. S \in SUBSET (1..(m - 1)) /\ S \ {Max(S)} \in SUBSET (1..(m - 1)) /\ m \notin S \ {Max(S)}
        BY <1>7, <3>3
      <4>2. S \ {Max(S)} \in SUBSET (1..m)
        OBVIOUS
      <4>3. h[S] = g[S] /\ h[S \ {Max(S)}] = g[S \ {Max(S)}]
        BY <3>3, <4>1, <4>2
      <4>4. g[S] = step[Max(S)][g[S \ {Max(S)}]]
        BY <1>6, <3>3, <4>1 DEF FoldedBy
      <4> QED
        BY <3>3, <4>3, <4>4
    <3> QED
      BY <3>1, <3>2, <3>3
  <2> QED
    BY <2>1 DEF FoldedBy
<1> QED
  BY <1>2, <1>8, <1>9

\* What the first step finds and each step hands on holds at the end.
LEMMA FoldEnds ==
    ASSUME NEW n \in Nat, NEW h, NEW Good, h[{}] \in Good[0],
           \A m \in 1..n : h[1..(m - 1)] \in Good[m - 1] => h[1..m] \in Good[m]
    PROVE  h[1..n] \in Good[n]
<1> DEFINE Bad == {m \in 0..n : h[1..m] \notin Good[m]}
<1>1. SUFFICES ASSUME Bad # {}
               PROVE  FALSE
  OBVIOUS
<1>2. PICK m \in Bad : \A k \in Bad : m <= k
  <2>1. Bad \in SUBSET Nat
    OBVIOUS
  <2> HIDE DEF Bad
  <2> QED
    BY <1>1, <2>1, LeastExists
<1>3. m # 0
  <2>1. 1..0 = {}
    OBVIOUS
  <2> QED
    BY <1>2, <2>1
<1>4. m - 1 \in 0..n /\ m \in 1..n
  BY <1>2, <1>3
<1>5. h[1..(m - 1)] \in Good[m - 1]
  BY <1>2, <1>4
<1> QED
  BY <1>2, <1>4, <1>5

\* All panels are in the list of all panels.
LEMMA AllPanelsAreListed ==
    /\ AllPanels \in Seq(Panels) /\ DOMAIN AllPanels = 1..Len(AllPanels) /\ Len(AllPanels) \in Nat
    /\ \A p \in Panels : \E i \in 1..Len(AllPanels) : AllPanels[i] = p
BY PanelAssumption, SetToSeqLists DEF AllPanels, PanelAssumption

\* Every page leaves the side area (ui/MainWindow.cpp, "Fenster zurücksetzen").
LEMMA TakeOutPagesIsOrdered ==
    ASSUME NEW s \in Ordered
    PROVE  TakeOutPages(s) \in Ordered /\ Same(s, TakeOutPages(s))
<1> DEFINE order == s.pages
           n == Len(order)
           Good == {t \in Ordered : Same(s, t)}
           step == [i \in 1..n |-> [t \in Good |-> TakeOutOfSideArea(t, order[i])]]
           h == CHOOSE iter : iter = [S \in SUBSET DOMAIN order |->
                    IF S = {} THEN s ELSE TakeOutOfSideArea(iter[S \ {Max(S)}], order[Max(S)])]
<1>1. order \in Seq(Panels) /\ DOMAIN order = 1..n /\ n \in Nat /\ \A i \in 1..n : order[i] \in Panels
  BY DEF Ordered, PnStates
<1>2. s \in Good
  BY DEF Same
<1>3. ASSUME NEW t \in Good, NEW p \in Panels
      PROVE  TakeOutOfSideArea(t, p) \in Good
  BY <1>3, TakeOutMoves DEF Moves, Same
<1>4. TakeOutPages(s) = h[DOMAIN order]
  BY Zenon DEF TakeOutPages, FoldLeft, MapThenFoldSet
<1> HIDE DEF Good, order, n
<1>5. step \in [1..n -> [Good -> Good]]
  BY <1>1, <1>3
<1>6. PICK g \in [SUBSET (1..n) -> Good] : FoldedBy(g, n, s, step)
  <2> HIDE DEF step
  <2> QED
    BY <1>1, <1>2, <1>5, FoldExists
<1>7. ASSUME NEW S \in SUBSET (1..n), S # {}
      PROVE  g[S] = TakeOutOfSideArea(g[S \ {Max(S)}], order[Max(S)])
  <2>1. Max(S) \in 1..n /\ S \ {Max(S)} \in SUBSET (1..n)
    BY <1>1, <1>7, LastPlace
  <2>2. g[S \ {Max(S)}] \in Good
    BY <2>1
  <2>3. g[S] = step[Max(S)][g[S \ {Max(S)}]]
    BY <1>6, <1>7 DEF FoldedBy
  <2> QED
    BY <2>1, <2>2, <2>3
<1>8. g = [S \in SUBSET DOMAIN order |->
             IF S = {} THEN s ELSE TakeOutOfSideArea(g[S \ {Max(S)}], order[Max(S)])]
  <2>1. g[{}] = s
    BY <1>6 DEF FoldedBy
  <2> QED
    BY <1>1, <1>7, <2>1
<1>9. h = [S \in SUBSET DOMAIN order |->
             IF S = {} THEN s ELSE TakeOutOfSideArea(h[S \ {Max(S)}], order[Max(S)])]
  BY <1>8, Zenon
<1> HIDE DEF h
<1>10. h[{}] = s /\ \A m \in 1..n : h[1..m] = TakeOutOfSideArea(h[1..(m - 1)], order[m])
  <2>1. h[{}] = s
    BY <1>9
  <2>2. ASSUME NEW m \in 1..n
        PROVE  h[1..m] = TakeOutOfSideArea(h[1..(m - 1)], order[m])
    <3>1. 1..m \in SUBSET (1..n) /\ 1..m # {} /\ Max(1..m) = m /\ (1..m) \ {m} = 1..(m - 1)
      BY <1>1, LastOfPlaces
    <3>2. h[1..m] = TakeOutOfSideArea(h[(1..m) \ {Max(1..m)}], order[Max(1..m)])
      BY <1>1, <1>9, <3>1
    <3> QED
      BY <3>1, <3>2
  <2> QED
    BY <2>1, <2>2
<1>11. h[1..n] \in Good
  <2> DEFINE All == [m \in 0..n |-> Good]
  <2>1. h[{}] \in All[0] /\ All[n] = Good
    BY <1>1, <1>2, <1>10
  <2>2. \A m \in 1..n : h[1..(m - 1)] \in All[m - 1] => h[1..m] \in All[m]
    BY <1>1, <1>3, <1>10
  <2> HIDE DEF All
  <2> QED
    BY <1>1, <2>1, <2>2, FoldEnds
<1> QED
  BY <1>1, <1>4, <1>11 DEF Good

\* One panel of applyDesignDefaults(), unlocked, set and perhaps hidden.
LEMMA DesignPanelTouches ==
    ASSUME NEW s \in PnStates, NEW p \in Panels
    PROVE  Touches(s, DesignPanel(s, p), p)
<1> DEFINE t == SetLocked(s, p, FALSE)
           u == TrySet(t, p, DesignFor(s, p))
<1>1. Touches(s, t, p) /\ t \in PnStates
  <2>1. Touches(s, t, p)
    BY SetLockedTouches
  <2> QED
    BY <2>1 DEF Touches
<1>2. DesignFor(s, p) \in PnRects
  BY RectsAreRects DEF DesignFor
<1> HIDE DEF t
<1>3. Touches(t, u, p) /\ u \in PnStates
  <2>1. Touches(t, u, p)
    BY <1>1, <1>2, TrySetTouches
  <2> QED
    BY <2>1 DEF Touches
<1>4. Touches(s, u, p)
  BY <1>1, <1>3, TouchesCompose
<1>5. DesignPanel(s, p) = IF s.canvas < Wide /\ p \notin PnCompact THEN Made(u, p, FALSE) ELSE u
  BY DEF DesignPanel, t
<1> HIDE DEF u
<1>6. Touches(u, Made(u, p, FALSE), p)
  BY <1>3, MadeTouches
<1>7. Touches(s, Made(u, p, FALSE), p)
  BY <1>4, <1>6, TouchesCompose
<1> QED
  BY <1>4, <1>5, <1>7

\* What is done to one panel and leaves the side area alone keeps the order.
LEMMA TouchesKeepOrder ==
    ASSUME NEW s, NEW t \in Ordered, Same(s, t), NEW u, NEW p, Touches(t, u, p)
    PROVE  u \in Ordered /\ Same(s, u)
<1>1. u \in PnStates /\ Frames(t, u)
  BY DEF Touches
<1>2. u \in Ordered
  BY <1>1, FramesKeepOrder
<1> QED
  BY <1>1, <1>2 DEF Frames, Same

\* A panel comes back to the canvas and is shown.
LEMMA DockShifts ==
    ASSUME NEW s \in PnStates, NEW p \in Panels
    PROVE  Shifts(s, Dock(s, p), p)
<1> DEFINE t == SetFloating(s, p, FALSE)
<1>1. Shifts(s, t, p)
  BY SetFloatingShifts
<1> HIDE DEF t
<1>2. t \in PnStates
  BY <1>1 DEF Shifts
<1>3. Shifts(t, Made(t, p, TRUE), p)
  BY <1>2, MadeTouches, TouchesShifts
<1>4. Shifts(s, Made(t, p, TRUE), p)
  BY <1>1, <1>3, ShiftsCompose
<1> QED
  BY <1>4 DEF Dock, t

\* applyDesignDefaults() (ui/PanelLayoutManager.cpp) does not go into the side area.
LEMMA ApplyDesignIsOrdered ==
    ASSUME NEW s \in Ordered
    PROVE  ApplyDesign(s) \in Ordered /\ Same(s, ApplyDesign(s))
<1> DEFINE order == AllPanels
           n == Len(order)
           Good == {t \in Ordered : Same(s, t)}
           step == [i \in 1..n |-> [t \in Good |-> DesignPanel(t, order[i])]]
           h == CHOOSE iter : iter = [S \in SUBSET DOMAIN order |->
                    IF S = {} THEN s ELSE DesignPanel(iter[S \ {Max(S)}], order[Max(S)])]
<1>1. order \in Seq(Panels) /\ DOMAIN order = 1..n /\ n \in Nat /\ \A i \in 1..n : order[i] \in Panels
  BY AllPanelsAreListed
<1>2. s \in Good
  BY DEF Same
<1>3. ASSUME NEW t \in Good, NEW p \in Panels
      PROVE  DesignPanel(t, p) \in Good
  BY <1>3, DesignPanelTouches, TouchesKeepOrder DEF Ordered
<1>4. ApplyDesign(s) = h[DOMAIN order]
  BY Zenon DEF ApplyDesign, FoldLeft, MapThenFoldSet
<1> HIDE DEF Good, order, n
<1>5. step \in [1..n -> [Good -> Good]]
  BY <1>1, <1>3
<1>6. PICK g \in [SUBSET (1..n) -> Good] : FoldedBy(g, n, s, step)
  <2> HIDE DEF step
  <2> QED
    BY <1>1, <1>2, <1>5, FoldExists
<1>7. ASSUME NEW S \in SUBSET (1..n), S # {}
      PROVE  g[S] = DesignPanel(g[S \ {Max(S)}], order[Max(S)])
  <2>1. Max(S) \in 1..n /\ S \ {Max(S)} \in SUBSET (1..n)
    BY <1>1, <1>7, LastPlace
  <2>2. g[S \ {Max(S)}] \in Good
    BY <2>1
  <2>3. g[S] = step[Max(S)][g[S \ {Max(S)}]]
    BY <1>6, <1>7 DEF FoldedBy
  <2> QED
    BY <2>1, <2>2, <2>3
<1>8. g = [S \in SUBSET DOMAIN order |->
             IF S = {} THEN s ELSE DesignPanel(g[S \ {Max(S)}], order[Max(S)])]
  <2>1. g[{}] = s
    BY <1>6 DEF FoldedBy
  <2> QED
    BY <1>1, <1>7, <2>1
<1>9. h = [S \in SUBSET DOMAIN order |->
             IF S = {} THEN s ELSE DesignPanel(h[S \ {Max(S)}], order[Max(S)])]
  BY <1>8, Zenon
<1> HIDE DEF h
<1>10. h[{}] = s /\ \A m \in 1..n : h[1..m] = DesignPanel(h[1..(m - 1)], order[m])
  <2>1. h[{}] = s
    BY <1>9
  <2>2. ASSUME NEW m \in 1..n
        PROVE  h[1..m] = DesignPanel(h[1..(m - 1)], order[m])
    <3>1. 1..m \in SUBSET (1..n) /\ 1..m # {} /\ Max(1..m) = m /\ (1..m) \ {m} = 1..(m - 1)
      BY <1>1, LastOfPlaces
    <3>2. h[1..m] = DesignPanel(h[(1..m) \ {Max(1..m)}], order[Max(1..m)])
      BY <1>1, <1>9, <3>1
    <3> QED
      BY <3>1, <3>2
  <2> QED
    BY <2>1, <2>2
<1>11. h[1..n] \in Good
  <2> DEFINE All == [m \in 0..n |-> Good]
  <2>1. h[{}] \in All[0] /\ All[n] = Good
    BY <1>1, <1>2, <1>10
  <2>2. \A m \in 1..n : h[1..(m - 1)] \in All[m - 1] => h[1..m] \in All[m]
    BY <1>1, <1>3, <1>10
  <2> HIDE DEF All
  <2> QED
    BY <1>1, <2>1, <2>2, FoldEnds
<1> QED
  BY <1>1, <1>4, <1>11 DEF Good

\* All windows come back to the canvas (ui/MainWindow.cpp, "Fenster zurücksetzen").
LEMMA DockAllIsOrdered ==
    ASSUME NEW s \in Ordered
    PROVE  DockAll(s) \in Ordered /\ Same(s, DockAll(s))
<1> DEFINE order == AllPanels
           n == Len(order)
           Good == {t \in Ordered : Same(s, t)}
           step == [i \in 1..n |-> [t \in Good |-> Dock(t, order[i])]]
           h == CHOOSE iter : iter = [S \in SUBSET DOMAIN order |->
                    IF S = {} THEN s ELSE Dock(iter[S \ {Max(S)}], order[Max(S)])]
<1>1. order \in Seq(Panels) /\ DOMAIN order = 1..n /\ n \in Nat /\ \A i \in 1..n : order[i] \in Panels
  BY AllPanelsAreListed
<1>2. s \in Good
  BY DEF Same
<1>3. ASSUME NEW t \in Good, NEW p \in Panels
      PROVE  Dock(t, p) \in Good
  <2>1. t \in Ordered /\ t \in PnStates /\ Same(s, t)
    BY <1>3 DEF Ordered
  <2>2. Shifts(t, Dock(t, p), p)
    BY <2>1, DockShifts
  <2>3. Dock(t, p) \in Ordered
    BY <2>1, <2>2, ShiftsKeepOrder
  <2> QED
    BY <2>1, <2>2, <2>3 DEF Shifts, Same
<1>4. DockAll(s) = h[DOMAIN order]
  BY Zenon DEF DockAll, FoldLeft, MapThenFoldSet
<1> HIDE DEF Good, order, n
<1>5. step \in [1..n -> [Good -> Good]]
  BY <1>1, <1>3
<1>6. PICK g \in [SUBSET (1..n) -> Good] : FoldedBy(g, n, s, step)
  <2> HIDE DEF step
  <2> QED
    BY <1>1, <1>2, <1>5, FoldExists
<1>7. ASSUME NEW S \in SUBSET (1..n), S # {}
      PROVE  g[S] = Dock(g[S \ {Max(S)}], order[Max(S)])
  <2>1. Max(S) \in 1..n /\ S \ {Max(S)} \in SUBSET (1..n)
    BY <1>1, <1>7, LastPlace
  <2>2. g[S \ {Max(S)}] \in Good
    BY <2>1
  <2>3. g[S] = step[Max(S)][g[S \ {Max(S)}]]
    BY <1>6, <1>7 DEF FoldedBy
  <2> QED
    BY <2>1, <2>2, <2>3
<1>8. g = [S \in SUBSET DOMAIN order |->
             IF S = {} THEN s ELSE Dock(g[S \ {Max(S)}], order[Max(S)])]
  <2>1. g[{}] = s
    BY <1>6 DEF FoldedBy
  <2> QED
    BY <1>1, <1>7, <2>1
<1>9. h = [S \in SUBSET DOMAIN order |->
             IF S = {} THEN s ELSE Dock(h[S \ {Max(S)}], order[Max(S)])]
  BY <1>8, Zenon
<1> HIDE DEF h
<1>10. h[{}] = s /\ \A m \in 1..n : h[1..m] = Dock(h[1..(m - 1)], order[m])
  <2>1. h[{}] = s
    BY <1>9
  <2>2. ASSUME NEW m \in 1..n
        PROVE  h[1..m] = Dock(h[1..(m - 1)], order[m])
    <3>1. 1..m \in SUBSET (1..n) /\ 1..m # {} /\ Max(1..m) = m /\ (1..m) \ {m} = 1..(m - 1)
      BY <1>1, LastOfPlaces
    <3>2. h[1..m] = Dock(h[(1..m) \ {Max(1..m)}], order[Max(1..m)])
      BY <1>1, <1>9, <3>1
    <3> QED
      BY <3>1, <3>2
  <2> QED
    BY <2>1, <2>2
<1>11. h[1..n] \in Good
  <2> DEFINE All == [m \in 0..n |-> Good]
  <2>1. h[{}] \in All[0] /\ All[n] = Good
    BY <1>1, <1>2, <1>10
  <2>2. \A m \in 1..n : h[1..(m - 1)] \in All[m - 1] => h[1..m] \in All[m]
    BY <1>1, <1>3, <1>10
  <2> HIDE DEF All
  <2> QED
    BY <1>1, <2>1, <2>2, FoldEnds
<1> QED
  BY <1>1, <1>4, <1>11 DEF Good

\* applyState() (ui/LayoutProfileManager.cpp) shows, hides and places panels.
LEMMA ApplyRowsFrame ==
    ASSUME NEW s \in PnStates, NEW rows \in PnRows
    PROVE  ApplyRows(s, rows) \in PnStates /\ Frames(s, ApplyRows(s, rows))
<1> DEFINE order == AllPanels
           n == Len(order)
           Good == {t \in PnStates : Frames(s, t)}
           step == [i \in 1..n |-> [t \in Good |-> ApplyRow(t, order[i], rows[order[i]])]]
           h == CHOOSE iter : iter = [S \in SUBSET DOMAIN order |->
                    IF S = {} THEN s ELSE ApplyRow(iter[S \ {Max(S)}], order[Max(S)], rows[order[Max(S)]])]
<1>1. order \in Seq(Panels) /\ DOMAIN order = 1..n /\ n \in Nat /\ \A i \in 1..n : order[i] \in Panels
  BY AllPanelsAreListed
<1>2. s \in Good
  BY DEF Frames
<1>3. ASSUME NEW t \in Good, NEW p \in Panels
      PROVE  ApplyRow(t, p, rows[p]) \in Good
  <2>1. t \in PnStates /\ Frames(s, t) /\ rows[p] \in [shown : BOOLEAN, rect : PnRects]
    BY <1>3 DEF PnRows
  <2>2. Touches(t, ApplyRow(t, p, rows[p]), p)
    BY <2>1, ApplyRowTouches
  <2> QED
    BY <2>1, <2>2 DEF Touches, Frames
<1>4. ApplyRows(s, rows) = h[DOMAIN order]
  BY Zenon DEF ApplyRows, FoldLeft, MapThenFoldSet
<1> HIDE DEF Good, order, n
<1>5. step \in [1..n -> [Good -> Good]]
  BY <1>1, <1>3
<1>6. PICK g \in [SUBSET (1..n) -> Good] : FoldedBy(g, n, s, step)
  <2> HIDE DEF step
  <2> QED
    BY <1>1, <1>2, <1>5, FoldExists
<1>7. ASSUME NEW S \in SUBSET (1..n), S # {}
      PROVE  g[S] = ApplyRow(g[S \ {Max(S)}], order[Max(S)], rows[order[Max(S)]])
  <2>1. Max(S) \in 1..n /\ S \ {Max(S)} \in SUBSET (1..n)
    BY <1>1, <1>7, LastPlace
  <2>2. g[S \ {Max(S)}] \in Good
    BY <2>1
  <2>3. g[S] = step[Max(S)][g[S \ {Max(S)}]]
    BY <1>6, <1>7 DEF FoldedBy
  <2> QED
    BY <2>1, <2>2, <2>3
<1>8. g = [S \in SUBSET DOMAIN order |->
             IF S = {} THEN s ELSE ApplyRow(g[S \ {Max(S)}], order[Max(S)], rows[order[Max(S)]])]
  <2>1. g[{}] = s
    BY <1>6 DEF FoldedBy
  <2> QED
    BY <1>1, <1>7, <2>1
<1>9. h = [S \in SUBSET DOMAIN order |->
             IF S = {} THEN s ELSE ApplyRow(h[S \ {Max(S)}], order[Max(S)], rows[order[Max(S)]])]
  BY <1>8, Zenon
<1> HIDE DEF h
<1>10. h[{}] = s /\ \A m \in 1..n : h[1..m] = ApplyRow(h[1..(m - 1)], order[m], rows[order[m]])
  <2>1. h[{}] = s
    BY <1>9
  <2>2. ASSUME NEW m \in 1..n
        PROVE  h[1..m] = ApplyRow(h[1..(m - 1)], order[m], rows[order[m]])
    <3>1. 1..m \in SUBSET (1..n) /\ 1..m # {} /\ Max(1..m) = m /\ (1..m) \ {m} = 1..(m - 1)
      BY <1>1, LastOfPlaces
    <3>2. h[1..m] = ApplyRow(h[(1..m) \ {Max(1..m)}], order[Max(1..m)], rows[order[Max(1..m)]])
      BY <1>1, <1>9, <3>1
    <3> QED
      BY <3>1, <3>2
  <2> QED
    BY <2>1, <2>2
<1>11. h[1..n] \in Good
  <2> DEFINE All == [m \in 0..n |-> Good]
  <2>1. h[{}] \in All[0] /\ All[n] = Good
    BY <1>1, <1>2, <1>10
  <2>2. \A m \in 1..n : h[1..(m - 1)] \in All[m - 1] => h[1..m] \in All[m]
    BY <1>1, <1>3, <1>10
  <2> HIDE DEF All
  <2> QED
    BY <1>1, <2>1, <2>2, FoldEnds
<1> QED
  BY <1>1, <1>4, <1>11 DEF Good

\* The pages of the side area are put back one after another.
LEMMA PutPagesIsOrdered ==
    ASSUME NEW s \in Ordered, NEW pages \in Seq(Panels)
    PROVE  PutPages(s, pages) \in Ordered /\ Same(s, PutPages(s, pages))
<1> DEFINE order == pages
           n == Len(order)
           Good == {t \in Ordered : Same(s, t)}
           step == [i \in 1..n |-> [t \in Good |-> PutIntoSideArea(t, order[i])]]
           h == CHOOSE iter : iter = [S \in SUBSET DOMAIN order |->
                    IF S = {} THEN s ELSE PutIntoSideArea(iter[S \ {Max(S)}], order[Max(S)])]
<1>1. order \in Seq(Panels) /\ DOMAIN order = 1..n /\ n \in Nat /\ \A i \in 1..n : order[i] \in Panels
  OBVIOUS
<1>2. s \in Good
  BY DEF Same
<1>3. ASSUME NEW t \in Good, NEW p \in Panels
      PROVE  PutIntoSideArea(t, p) \in Good
  BY <1>3, PutIntoSideAreaMoves DEF Moves, Same
<1>4. PutPages(s, pages) = h[DOMAIN order]
  BY Zenon DEF PutPages, FoldLeft, MapThenFoldSet
<1> HIDE DEF Good, order, n
<1>5. step \in [1..n -> [Good -> Good]]
  BY <1>1, <1>3
<1>6. PICK g \in [SUBSET (1..n) -> Good] : FoldedBy(g, n, s, step)
  <2> HIDE DEF step
  <2> QED
    BY <1>1, <1>2, <1>5, FoldExists
<1>7. ASSUME NEW S \in SUBSET (1..n), S # {}
      PROVE  g[S] = PutIntoSideArea(g[S \ {Max(S)}], order[Max(S)])
  <2>1. Max(S) \in 1..n /\ S \ {Max(S)} \in SUBSET (1..n)
    BY <1>1, <1>7, LastPlace
  <2>2. g[S \ {Max(S)}] \in Good
    BY <2>1
  <2>3. g[S] = step[Max(S)][g[S \ {Max(S)}]]
    BY <1>6, <1>7 DEF FoldedBy
  <2> QED
    BY <2>1, <2>2, <2>3
<1>8. g = [S \in SUBSET DOMAIN order |->
             IF S = {} THEN s ELSE PutIntoSideArea(g[S \ {Max(S)}], order[Max(S)])]
  <2>1. g[{}] = s
    BY <1>6 DEF FoldedBy
  <2> QED
    BY <1>1, <1>7, <2>1
<1>9. h = [S \in SUBSET DOMAIN order |->
             IF S = {} THEN s ELSE PutIntoSideArea(h[S \ {Max(S)}], order[Max(S)])]
  BY <1>8, Zenon
<1> HIDE DEF h
<1>10. h[{}] = s /\ \A m \in 1..n : h[1..m] = PutIntoSideArea(h[1..(m - 1)], order[m])
  <2>1. h[{}] = s
    BY <1>9
  <2>2. ASSUME NEW m \in 1..n
        PROVE  h[1..m] = PutIntoSideArea(h[1..(m - 1)], order[m])
    <3>1. 1..m \in SUBSET (1..n) /\ 1..m # {} /\ Max(1..m) = m /\ (1..m) \ {m} = 1..(m - 1)
      BY <1>1, LastOfPlaces
    <3>2. h[1..m] = PutIntoSideArea(h[(1..m) \ {Max(1..m)}], order[Max(1..m)])
      BY <1>1, <1>9, <3>1
    <3> QED
      BY <3>1, <3>2
  <2> QED
    BY <2>1, <2>2
<1>11. h[1..n] \in Good
  <2> DEFINE All == [m \in 0..n |-> Good]
  <2>1. h[{}] \in All[0] /\ All[n] = Good
    BY <1>1, <1>2, <1>10
  <2>2. \A m \in 1..n : h[1..(m - 1)] \in All[m - 1] => h[1..m] \in All[m]
    BY <1>1, <1>3, <1>10
  <2> HIDE DEF All
  <2> QED
    BY <1>1, <2>1, <2>2, FoldEnds
<1> QED
  BY <1>1, <1>4, <1>11 DEF Good

\* After the clamp every panel on the canvas stands where its wanted place lets it.
LEMMA ClampPanelsStand ==
    ASSUME NEW s \in PnStates
    PROVE  /\ ClampPanels(s) \in PnStates /\ Frames(s, ClampPanels(s))
           /\ ClampPanels(s).desired = s.desired /\ ClampPanels(s).hidden = s.hidden
           /\ ClampPanels(s).locked = s.locked
           /\ \A p \in Panels : Clamps(s, p) =>
                  ClampPanels(s).rect[p] = ClampedRect(s.desired[p], s.canvas)
<1> DEFINE order == AllPanels
           n == Len(order)
           Good == {t \in PnStates : /\ Frames(s, t) /\ t.desired = s.desired
                                   /\ t.hidden = s.hidden /\ t.locked = s.locked}
           step == [i \in 1..n |-> [t \in Good |-> ClampPanel(t, order[i])]]
           h == CHOOSE iter : iter = [S \in SUBSET DOMAIN order |->
                    IF S = {} THEN s ELSE ClampPanel(iter[S \ {Max(S)}], order[Max(S)])]
<1>1. order \in Seq(Panels) /\ DOMAIN order = 1..n /\ n \in Nat /\ \A i \in 1..n : order[i] \in Panels
  BY AllPanelsAreListed
<1>2. s \in Good
  BY DEF Frames
<1>3. ASSUME NEW t \in Good, NEW p \in Panels
      PROVE  ClampPanel(t, p) \in Good
  <2>1. t \in PnStates /\ Frames(s, t) /\ t.desired = s.desired /\ t.hidden = s.hidden /\ t.locked = s.locked
    BY <1>3
  <2>2. Touches(t, ClampPanel(t, p), p) /\ ClampPanel(t, p).desired = t.desired
        /\ ClampPanel(t, p).hidden = t.hidden /\ ClampPanel(t, p).locked = t.locked
    BY <2>1, ClampTouches
  <2> QED
    BY <2>1, <2>2 DEF Touches, Frames
<1>4. ClampPanels(s) = h[DOMAIN order]
  BY Zenon DEF ClampPanels, FoldLeft, MapThenFoldSet
<1> HIDE DEF Good, order, n
<1>5. step \in [1..n -> [Good -> Good]]
  BY <1>1, <1>3
<1>6. PICK g \in [SUBSET (1..n) -> Good] : FoldedBy(g, n, s, step)
  <2> HIDE DEF step
  <2> QED
    BY <1>1, <1>2, <1>5, FoldExists
<1>7. ASSUME NEW S \in SUBSET (1..n), S # {}
      PROVE  g[S] = ClampPanel(g[S \ {Max(S)}], order[Max(S)])
  <2>1. Max(S) \in 1..n /\ S \ {Max(S)} \in SUBSET (1..n)
    BY <1>1, <1>7, LastPlace
  <2>2. g[S \ {Max(S)}] \in Good
    BY <2>1
  <2>3. g[S] = step[Max(S)][g[S \ {Max(S)}]]
    BY <1>6, <1>7 DEF FoldedBy
  <2> QED
    BY <2>1, <2>2, <2>3
<1>8. g = [S \in SUBSET DOMAIN order |->
             IF S = {} THEN s ELSE ClampPanel(g[S \ {Max(S)}], order[Max(S)])]
  <2>1. g[{}] = s
    BY <1>6 DEF FoldedBy
  <2> QED
    BY <1>1, <1>7, <2>1
<1>9. h = [S \in SUBSET DOMAIN order |->
             IF S = {} THEN s ELSE ClampPanel(h[S \ {Max(S)}], order[Max(S)])]
  BY <1>8, Zenon
<1> HIDE DEF h
<1>10. h[{}] = s /\ \A m \in 1..n : h[1..m] = ClampPanel(h[1..(m - 1)], order[m])
  <2>1. h[{}] = s
    BY <1>9
  <2>2. ASSUME NEW m \in 1..n
        PROVE  h[1..m] = ClampPanel(h[1..(m - 1)], order[m])
    <3>1. 1..m \in SUBSET (1..n) /\ 1..m # {} /\ Max(1..m) = m /\ (1..m) \ {m} = 1..(m - 1)
      BY <1>1, LastOfPlaces
    <3>2. h[1..m] = ClampPanel(h[(1..m) \ {Max(1..m)}], order[Max(1..m)])
      BY <1>1, <1>9, <3>1
    <3> QED
      BY <3>1, <3>2
  <2> QED
    BY <2>1, <2>2
<1>11. h[1..n] \in {t \in Good : \A i \in 1..n : Clamps(s, order[i]) =>
                        t.rect[order[i]] = ClampedRect(s.desired[order[i]], s.canvas)}
  <2> DEFINE All == [m \in 0..n |-> {t \in Good : \A i \in 1..m : Clamps(s, order[i]) =>
                        t.rect[order[i]] = ClampedRect(s.desired[order[i]], s.canvas)}]
  <2>1. h[{}] \in All[0]
    BY <1>1, <1>2, <1>10
  <2>2. ASSUME NEW m \in 1..n, h[1..(m - 1)] \in All[m - 1]
        PROVE  h[1..m] \in All[m]
    <3> DEFINE t == h[1..(m - 1)]
               p == order[m]
               u == ClampPanel(t, p)
    <3>1. m - 1 \in 0..n /\ m \in 0..n
      BY <1>1
    <3>2. t \in Good /\ \A i \in 1..(m - 1) : Clamps(s, order[i]) =>
                             t.rect[order[i]] = ClampedRect(s.desired[order[i]], s.canvas)
      BY <2>2, <3>1
    <3>3. p \in Panels /\ h[1..m] = u
      BY <1>1, <1>10
    <3> HIDE DEF t, p
    <3>4. u \in Good
      BY <1>3, <3>2, <3>3
    <3>5. t \in PnStates /\ Frames(s, t) /\ t.desired = s.desired /\ t.hidden = s.hidden /\ t.locked = s.locked
      BY <3>2 DEF Good
    <3>6. Touches(t, u, p) /\ (Clamps(t, p) => u.rect[p] = ClampedRect(t.desired[p], t.canvas))
      BY <3>3, <3>5, ClampTouches
    <3>7. Leaves(t, u, Panels \ {p})
      BY <3>6 DEF Touches
    <3> HIDE DEF u
    <3>8. ASSUME NEW i \in 1..m, Clamps(s, order[i])
          PROVE  u.rect[order[i]] = ClampedRect(s.desired[order[i]], s.canvas)
      <4>1. CASE order[i] = p
        <5>1. Clamps(t, p)
          BY <3>3, <3>5, <3>8, <4>1 DEF Clamps, Laid, OnCanvas, Frames
        <5> QED
          BY <3>5, <3>6, <4>1, <5>1 DEF Frames
      <4>2. CASE order[i] # p
        <5>1. i \in 1..(m - 1) /\ order[i] \in Panels \ {p}
          BY <1>1, <4>2 DEF p
        <5>2. t.rect[order[i]] = ClampedRect(s.desired[order[i]], s.canvas)
          BY <3>2, <3>8, <5>1
        <5>3. u.rect[order[i]] = t.rect[order[i]]
          BY <3>7, <5>1 DEF Leaves
        <5> QED
          BY <5>2, <5>3
      <4> QED
        BY <4>1, <4>2
    <3> QED
      BY <3>1, <3>3, <3>4, <3>8
  <2> HIDE DEF All
  <2>3. h[1..n] \in All[n]
    BY <1>1, <2>1, <2>2, FoldEnds
  <2> QED
    BY <1>1, <2>3 DEF All
<1> QED
  <2>1. \A p \in Panels : Clamps(s, p) => h[1..n].rect[p] = ClampedRect(s.desired[p], s.canvas)
    BY <1>11, AllPanelsAreListed DEF order, n
  <2> QED
    BY <1>1, <1>4, <1>11, <2>1 DEF Good

\* One panel as the constructor registers it.
LEMMA RegisterPanelStays ==
    ASSUME NEW s \in PnStates, NEW p \in Panels, ~HasPage(s, p)
    PROVE  /\ RegisterPanel(s, p) \in PnStates /\ Same(s, RegisterPanel(s, p))
           /\ RegisterPanel(s, p).pages = s.pages /\ RegisterPanel(s, p).active = s.active
           /\ RegisterPanel(s, p).kept = s.kept /\ RegisterPanel(s, p).profiles = s.profiles
           /\ \A q \in Panels : HasPage(RegisterPanel(s, p), q) => HasPage(s, q)
<1> DEFINE l == s.layout[p]
           r == IF l = NoLayout THEN DefaultRect ELSE l.rect
           rect == IF l.window = NoRect THEN r ELSE l.window
           place == IF l.window = NoRect THEN "canvas" ELSE "window"
           t == RegisterPanel(s, p)
<1>1. l \in PnFrames /\ l.locked \in BOOLEAN /\ l.rect \in PnRects /\ l.window \in PnRects
  BY DEF PnStates, PnFrames
<1>2. r \in PnRects /\ rect \in PnRects /\ place \in {"canvas", "window"} /\ s.rect[p] \in PnRects
  BY <1>1, RectsAreRects DEF PnStates
<1>3. t = [s EXCEPT !.rect[p] = rect, !.desired[p] = s.rect[p], !.docked[p] = r,
                    !.locked[p] = l.locked, !.where[p] = place]
  BY DEF RegisterPanel
<1> DEFINE locked == l.locked
<1> HIDE DEF l, r, rect, place, t, locked
<1>4. t = [s EXCEPT !.rect[p] = rect, !.desired[p] = s.rect[p], !.docked[p] = r,
                    !.locked[p] = locked, !.where[p] = place] /\ locked \in BOOLEAN
  BY <1>1, <1>3 DEF locked
<1>5. t \in PnStates
  BY <1>2, <1>4 DEF PnStates
<1>6. /\ t.pages = s.pages /\ t.active = s.active /\ t.kept = s.kept /\ t.names = s.names
      /\ t.profile = s.profile /\ t.canvas = s.canvas /\ t.profiles = s.profiles
      /\ t.where = [s.where EXCEPT ![p] = place]
  BY <1>4 DEF PnStates
<1>7. \A q \in Panels : HasPage(t, q) => HasPage(s, q)
  BY <1>2, <1>6 DEF HasPage, PnStates
<1> QED
  BY <1>5, <1>6, <1>7 DEF Same, t

\* The constructor places the panels before there are pages (ui/PanelLayoutManager.cpp, loadLayout()).
LEMMA LoadLayoutStays ==
    ASSUME NEW s \in PnStates, s.pages = <<>>, s.active = NoPanel, \A q \in Panels : ~HasPage(s, q)
    PROVE  /\ LoadLayout(s) \in Ordered /\ Same(s, LoadLayout(s))
           /\ LoadLayout(s).kept = s.kept /\ LoadLayout(s).profiles = s.profiles
<1> DEFINE order == AllPanels
           n == Len(order)
           Good == {t \in PnStates : /\ Same(s, t) /\ t.pages = <<>> /\ t.active = NoPanel
                                   /\ t.kept = s.kept /\ t.profiles = s.profiles
                                   /\ \A q \in Panels : ~HasPage(t, q)}
           step == [i \in 1..n |-> [t \in Good |-> RegisterPanel(t, order[i])]]
           h == CHOOSE iter : iter = [S \in SUBSET DOMAIN order |->
                    IF S = {} THEN s ELSE RegisterPanel(iter[S \ {Max(S)}], order[Max(S)])]
<1>1. order \in Seq(Panels) /\ DOMAIN order = 1..n /\ n \in Nat /\ \A i \in 1..n : order[i] \in Panels
  BY AllPanelsAreListed
<1>2. s \in Good
  BY DEF Same
<1>3. ASSUME NEW t \in Good, NEW p \in Panels
      PROVE  RegisterPanel(t, p) \in Good
  <2>1. /\ t \in PnStates /\ Same(s, t) /\ t.pages = <<>> /\ t.active = NoPanel
        /\ t.kept = s.kept /\ t.profiles = s.profiles /\ \A q \in Panels : ~HasPage(t, q)
    BY <1>3
  <2> DEFINE u == RegisterPanel(t, p)
  <2>2. /\ u \in PnStates /\ Same(t, u) /\ u.pages = t.pages /\ u.active = t.active /\ u.kept = t.kept
        /\ u.profiles = t.profiles /\ \A q \in Panels : HasPage(u, q) => HasPage(t, q)
    BY <1>3, <2>1, RegisterPanelStays
  <2> HIDE DEF u
  <2>3. u \in Good
    BY <2>1, <2>2 DEF Same
  <2> QED
    BY <2>3 DEF u
<1>4. LoadLayout(s) = h[DOMAIN order]
  BY Zenon DEF LoadLayout, FoldLeft, MapThenFoldSet
<1> HIDE DEF Good, order, n
<1>5. step \in [1..n -> [Good -> Good]]
  BY <1>1, <1>3
<1>6. PICK g \in [SUBSET (1..n) -> Good] : FoldedBy(g, n, s, step)
  <2> HIDE DEF step
  <2> QED
    BY <1>1, <1>2, <1>5, FoldExists
<1>7. ASSUME NEW S \in SUBSET (1..n), S # {}
      PROVE  g[S] = RegisterPanel(g[S \ {Max(S)}], order[Max(S)])
  <2>1. Max(S) \in 1..n /\ S \ {Max(S)} \in SUBSET (1..n)
    BY <1>1, <1>7, LastPlace
  <2>2. g[S \ {Max(S)}] \in Good
    BY <2>1
  <2>3. g[S] = step[Max(S)][g[S \ {Max(S)}]]
    BY <1>6, <1>7 DEF FoldedBy
  <2> QED
    BY <2>1, <2>2, <2>3
<1>8. g = [S \in SUBSET DOMAIN order |->
             IF S = {} THEN s ELSE RegisterPanel(g[S \ {Max(S)}], order[Max(S)])]
  <2>1. g[{}] = s
    BY <1>6 DEF FoldedBy
  <2> QED
    BY <1>1, <1>7, <2>1
<1>9. h = [S \in SUBSET DOMAIN order |->
             IF S = {} THEN s ELSE RegisterPanel(h[S \ {Max(S)}], order[Max(S)])]
  BY <1>8, Zenon
<1> HIDE DEF h
<1>10. h[{}] = s /\ \A m \in 1..n : h[1..m] = RegisterPanel(h[1..(m - 1)], order[m])
  <2>1. h[{}] = s
    BY <1>9
  <2>2. ASSUME NEW m \in 1..n
        PROVE  h[1..m] = RegisterPanel(h[1..(m - 1)], order[m])
    <3>1. 1..m \in SUBSET (1..n) /\ 1..m # {} /\ Max(1..m) = m /\ (1..m) \ {m} = 1..(m - 1)
      BY <1>1, LastOfPlaces
    <3>2. h[1..m] = RegisterPanel(h[(1..m) \ {Max(1..m)}], order[Max(1..m)])
      BY <1>1, <1>9, <3>1
    <3> QED
      BY <3>1, <3>2
  <2> QED
    BY <2>1, <2>2
<1>11. h[1..n] \in Good
  <2> DEFINE All == [m \in 0..n |-> Good]
  <2>1. h[{}] \in All[0] /\ All[n] = Good
    BY <1>1, <1>2, <1>10
  <2>2. \A m \in 1..n : h[1..(m - 1)] \in All[m - 1] => h[1..m] \in All[m]
    BY <1>1, <1>3, <1>10
  <2> HIDE DEF All
  <2> QED
    BY <1>1, <2>1, <2>2, FoldEnds
<1>12. h[1..n] \in Ordered
  <2>1. h[1..n] \in PnStates /\ h[1..n].pages = <<>> /\ h[1..n].active = NoPanel
        /\ \A q \in Panels : ~HasPage(h[1..n], q)
    BY <1>11 DEF Good
  <2> DEFINE t == h[1..n]
  <2> HIDE DEF t
  <2>2. t \in PnStates /\ t.pages = <<>> /\ t.active = NoPanel /\ \A q \in Panels : ~HasPage(t, q)
    BY <2>1 DEF t
  <2>3. ToSet(t.pages) = {} /\ IsInjective(t.pages) /\ NoPanel \notin Panels
    <3>1. DOMAIN <<>> = {} /\ NoPanel \notin Panels
      BY PanelAssumption DEF PanelAssumption
    <3> DEFINE pages == t.pages
    <3>2. pages = <<>>
      BY <2>2
    <3> HIDE DEF pages
    <3>3. ToSet(pages) = {} /\ IsInjective(pages)
      BY <3>1, <3>2 DEF ToSet, IsInjective
    <3> QED
      BY <3>1, <3>3 DEF pages
  <2>4. t \in Ordered
    BY <2>2, <2>3 DEF Ordered, Paged, PagesRight
  <2> QED
    BY <2>4 DEF t
<1> QED
  BY <1>1, <1>4, <1>11, <1>12 DEF Good

-----------------------------------------------------------------------------
(* The start *)

\* The function that gives every panel the same.
LEMMA NothingIsEverywhere ==
    ASSUME NEW v
    PROVE  Nothing(v) \in [Panels -> {v}] /\ \A p \in Panels : Nothing(v)[p] = v
<1>1. [p \in Panels |-> v] \in [Panels -> {v}]
  OBVIOUS
<1>2. Nothing(v) \in [Panels -> {v}]
  BY <1>1 DEF Nothing
<1> QED
  BY <1>2

\* The window before the constructor has done anything.
LEMMA ClosedIsEmpty ==
    ASSUME NEW names \in Seq(PnNames), NEW profile \in PnNames, NEW profiles \in [PnNames -> PnRows],
           NEW layout \in [Panels -> PnFrames], NEW kept \in PnSides
    PROVE  LET c == Closed(names, profile, profiles, layout, kept)
           IN /\ c \in PnStates /\ c.pages = <<>> /\ c.active = NoPanel
              /\ \A q \in Panels : ~HasPage(c, q)
              /\ c.names = names /\ c.profile = profile /\ c.profiles = profiles /\ c.kept = kept
              /\ c.canvas = 0
<1> DEFINE c == Closed(names, profile, profiles, layout, kept)
           off == Nothing(NoRect)
           no == Nothing(FALSE)
           there == Nothing("canvas")
<1>1. off \in [Panels -> PnRects] /\ there \in [Panels -> {"canvas", "window", "page"}]
      /\ \A q \in Panels : there[q] = "canvas"
  BY NothingIsEverywhere, RectsAreRects
<1>2. no \in [Panels -> BOOLEAN]
  <2>1. no \in [Panels -> {FALSE}]
    BY NothingIsEverywhere
  <2> QED
    BY <2>1
<1>3. c = [rect |-> off, desired |-> off, docked |-> off,
           home |-> off, locked |-> no, hidden |-> no,
           pending |-> no, where |-> there, pages |-> <<>>, active |-> NoPanel,
           collapsed |-> FALSE, area |-> FALSE, canvas |-> 0, fresh |-> FALSE,
           names |-> names, profile |-> profile, profiles |-> profiles, layout |-> layout, kept |-> kept]
  BY DEF Closed
<1> HIDE DEF off, no, there, c
<1>4. c \in PnStates
  BY <1>1, <1>2, <1>3 DEF PnStates
<1>5. /\ c.pages = <<>> /\ c.active = NoPanel /\ c.where = there
      /\ c.names = names /\ c.profile = profile /\ c.profiles = profiles /\ c.kept = kept
      /\ c.canvas = 0
  BY <1>3
<1> QED
  BY <1>1, <1>4, <1>5 DEF c, HasPage

\* The side area as it was at the end of the last session.
LEMMA RestoreSideAreaIsOrdered ==
    ASSUME NEW s \in Ordered
    PROVE  RestoreSideArea(s) \in Ordered /\ Same(s, RestoreSideArea(s))
<1> DEFINE k == s.kept
           t == PutPages(s, k.pages)
           u == IF k.active \in Panels /\ HasPage(t, k.active) THEN ShowPage(t, k.active) ELSE t
           shut == k.pages # <<>> /\ k.collapsed
<1>1. k \in PnSides /\ k.pages \in Seq(Panels)
  BY DEF Ordered, PnStates, PnSides
<1>2. t \in Ordered /\ Same(s, t)
  BY <1>1, PutPagesIsOrdered
<1>3. shut \in BOOLEAN
  OBVIOUS
<1>4. RestoreSideArea(s) = [u EXCEPT !.collapsed = shut, !.kept = k]
  BY DEF RestoreSideArea
<1>5. u \in Ordered /\ Same(s, u)
  <2>1. CASE k.active \in Panels /\ HasPage(t, k.active)
    <3> DEFINE p == k.active
    <3>1. p \in Panels /\ HasPage(t, p) /\ u = ShowPage(t, p)
      BY <2>1
    <3> HIDE DEF t, u, p
    <3>2. t \in PnStates /\ PagesRight(t)
      BY <1>2 DEF Ordered, Paged
    <3>3. u \in PnStates /\ Paged(u) /\ Same(t, u)
      BY <3>1, <3>2, ShowPageIsActive
    <3> QED
      BY <1>2, <3>3 DEF Ordered, Same
  <2>2. CASE ~(k.active \in Panels /\ HasPage(t, k.active))
    BY <1>2, <2>2
  <2> QED
    BY <2>1, <2>2
<1> DEFINE v == RestoreSideArea(s)
<1> HIDE DEF k, t, u, v, shut
<1>6. v \in PnStates /\ Frames([u EXCEPT !.kept = k], v)
  BY <1>1, <1>3, <1>4, <1>5 DEF Ordered, PnStates, Frames, v
<1>7. /\ v.pages = u.pages /\ v.active = u.active /\ v.where = u.where
      /\ v.names = u.names /\ v.profile = u.profile /\ v.canvas = u.canvas
  BY <1>4, <1>5 DEF Ordered, PnStates, v
<1>8. Paged(v)
  BY <1>5, <1>7 DEF Ordered, Paged, PagesRight, HasPage
<1> QED
  BY <1>5, <1>6, <1>7, <1>8 DEF Ordered, Same, v

\* The constructor places the panels and only then knows what is wanted.
LEMMA RegisterPanelsIsOrdered ==
    ASSUME NEW s \in PnStates, s.pages = <<>>, s.active = NoPanel, \A q \in Panels : ~HasPage(s, q)
    PROVE  RegisterPanels(s) \in Ordered /\ Same(s, RegisterPanels(s))
<1> DEFINE t == LoadLayout(s)
           u == RegisterPanels(s)
<1>1. t \in Ordered /\ t \in PnStates /\ Same(s, t)
  BY LoadLayoutStays DEF Ordered
<1>2. u = [t EXCEPT !.desired = t.rect]
  BY DEF RegisterPanels
<1> HIDE DEF t, u
<1>3. u \in PnStates /\ Frames(t, u)
  BY <1>1, <1>2 DEF PnStates, Frames
<1>4. u \in Ordered
  BY <1>1, <1>3, FramesKeepOrder
<1> QED
  BY <1>1, <1>3, <1>4 DEF Frames, Same, u

\* A profile or the design put on the screen: afterwards everything that can be
\* clamped stands where its wanted place lets it.
LEMMA ApplyStateStands ==
    ASSUME NEW s \in Ordered, NEW rows \in PnRows
    PROVE  /\ ApplyState(s, rows) \in Ordered /\ Frames(s, ApplyState(s, rows))
           /\ \A p \in Panels : Clamps(ApplyState(s, rows), p) =>
                  ApplyState(s, rows).rect[p] = ClampedRect(ApplyState(s, rows).desired[p], s.canvas)
<1> DEFINE t == ApplyRows(s, rows)
           u == ClampPanels(t)
<1>1. s \in PnStates
  BY DEF Ordered
<1>2. t \in PnStates /\ Frames(s, t)
  BY <1>1, ApplyRowsFrame
<1> HIDE DEF t
<1>3. /\ u \in PnStates /\ Frames(t, u) /\ u.desired = t.desired /\ u.locked = t.locked
      /\ \A p \in Panels : Clamps(t, p) => u.rect[p] = ClampedRect(t.desired[p], t.canvas)
  BY <1>2, ClampPanelsStand
<1>4. ApplyState(s, rows) = u
  BY DEF ApplyState, t
<1> HIDE DEF u
<1>5. Frames(s, u)
  BY <1>2, <1>3 DEF Frames
<1>6. u \in Ordered
  BY <1>3, <1>5, FramesKeepOrder
<1>7. ASSUME NEW p \in Panels, Clamps(u, p)
      PROVE  u.rect[p] = ClampedRect(u.desired[p], s.canvas)
  <2>1. Clamps(t, p)
    BY <1>3, <1>7 DEF Clamps, Laid, OnCanvas, Frames
  <2> QED
    BY <1>2, <1>3, <2>1 DEF Frames
<1> QED
  BY <1>4, <1>5, <1>6, <1>7

\* A profile with that name is there and is the one in use.
NamesRight(s) == Contains(s.names, s.profile) /\ IsInjective(s.names)

\* The constructor: with a database of an earlier session, and with none.
LEMMA StartIsOrdered ==
    ASSUME NEW s \in PnStates, s.names # <<>> => NamesRight(s)
    PROVE  PnStart(s) \in Ordered /\ NamesRight(PnStart(s))
<1> DEFINE c == Closed(s.names, s.profile, s.profiles, s.layout, s.kept)
           r == RegisterPanels(c)
           t == RestoreSideArea(r)
<1>1. /\ s.names \in Seq(PnNames) /\ s.profile \in PnNames /\ s.profiles \in [PnNames -> PnRows]
      /\ s.layout \in [Panels -> PnFrames] /\ s.kept \in PnSides
  BY DEF PnStates
<1>2. /\ c \in PnStates /\ c.pages = <<>> /\ c.active = NoPanel /\ \A q \in Panels : ~HasPage(c, q)
      /\ c.names = s.names /\ c.profile = s.profile
  BY <1>1, ClosedIsEmpty
<1> HIDE DEF c
<1>3. r \in Ordered /\ Same(c, r)
  BY <1>2, RegisterPanelsIsOrdered
<1> HIDE DEF r
<1>4. t \in Ordered /\ Same(r, t)
  BY <1>3, RestoreSideAreaIsOrdered
<1>5. PnStart(s) = IF s.names = <<>>
                   THEN [SaveProfile([t EXCEPT !.profile = 1, !.names = <<1>>])
                         EXCEPT !.fresh = \A p \in Panels : s.layout[p] = NoLayout]
                   ELSE ApplyState(t, s.profiles[s.profile])
  BY DEF PnStart, t, r, c
<1> HIDE DEF t
<1>6. CASE s.names # <<>>
  <2> DEFINE a == ApplyState(t, s.profiles[s.profile])
  <2>1. a \in Ordered /\ Frames(t, a)
    BY <1>1, <1>4, ApplyStateStands
  <2> HIDE DEF a
  <2>2. a.names = s.names /\ a.profile = s.profile
    BY <1>2, <1>3, <1>4, <2>1 DEF Frames, Same
  <2> QED
    BY <1>5, <1>6, <2>1, <2>2 DEF NamesRight, a
<1>7. CASE s.names = <<>>
  <2> DEFINE u == [t EXCEPT !.profile = 1, !.names = <<1>>]
             v == SaveProfile(u)
             fresh == \A p \in Panels : s.layout[p] = NoLayout
             w == [v EXCEPT !.fresh = fresh]
  <2>1. <<1>> \in Seq(PnNames) /\ Contains(<<1>>, 1) /\ IsInjective(<<1>>) /\ 1 \in PnNames
    BY PanelAssumption DEF PanelAssumption, Contains, IsInjective
  <2>2. u \in PnStates /\ u.names = <<1>> /\ u.profile = 1
        /\ u.pages = t.pages /\ u.active = t.active /\ u.where = t.where
    BY <1>4, <2>1 DEF Ordered, PnStates
  <2>3. u \in Ordered
    BY <1>4, <2>2 DEF Ordered, Paged, PagesRight, HasPage
  <2> HIDE DEF u
  <2>4. v \in PnStates /\ Frames(u, v)
    BY <2>2, SaveProfileNotes DEF Notes
  <2>5. fresh \in BOOLEAN
    OBVIOUS
  <2> HIDE DEF v, fresh
  <2>6. w \in PnStates /\ Frames(v, w)
    BY <2>4, <2>5 DEF PnStates, Frames
  <2>7. Frames(u, w)
    BY <2>4, <2>6 DEF Frames
  <2> HIDE DEF w
  <2>8. w \in Ordered
    BY <2>3, <2>6, <2>7, FramesKeepOrder
  <2>9. PnStart(s) = w
    BY <1>5, <1>7 DEF w, v, u, fresh
  <2>10. NamesRight(w)
    BY <2>1, <2>2, <2>7 DEF NamesRight, Frames
  <2> QED
    BY <2>8, <2>9, <2>10
<1> QED
  BY <1>6, <1>7

-----------------------------------------------------------------------------
(* The actions *)

\* What an action has to leave alone when it makes no claim for the panels P.
LEMMA ClaimsAreLost ==
    ASSUME PnInv, NEW P \in SUBSET Panels, panels' \in Ordered, NamesRight(panels)', panels'.canvas = panels.canvas,
           Leaves(panels, panels', {q \in Panels \ P : ~HasPage(panels, q)}),
           pnSteps' \in 0..PnMaxSteps, pnPut' = Loses(P)
    PROVE  PnInv'
<1>1. pnPut \in [Panels -> PnRects] /\ \A p \in Panels : pnPut[p] # NoRect => Stands(panels, p, pnPut[p])
  BY DEF PnInv
<1>2. pnPut' \in [Panels -> PnRects]
  BY <1>1, RectsAreRects DEF Loses
<1>3. ASSUME NEW p \in Panels, pnPut'[p] # NoRect
      PROVE  Stands(panels', p, pnPut'[p])
  <2>1. p \in Panels \ P /\ pnPut'[p] = pnPut[p]
    BY <1>3 DEF Loses
  <2>2. Stands(panels, p, pnPut[p])
    BY <1>1, <1>3, <2>1
  <2>3. ~HasPage(panels, p)
    BY <2>2 DEF Stands, Clamps, OnCanvas, HasPage
  <2> QED
    BY <2>1, <2>2, <2>3 DEF Leaves, Stands, Clamps, Laid, OnCanvas
<1> QED
  BY <1>2, <1>3 DEF PnInv, NamesRight

\* The same when the panels P are where they were put.
LEMMA ClaimsAreMade ==
    ASSUME PnInv, NEW P \in SUBSET Panels, panels' \in Ordered, NamesRight(panels)', panels'.canvas = panels.canvas,
           Laid(panels), Leaves(panels, panels', {q \in Panels \ P : ~HasPage(panels, q)}),
           \A p \in P : Clamps(panels', p) => panels'.rect[p] = ClampedRect(panels'.desired[p], panels.canvas),
           pnSteps' \in 0..PnMaxSteps, pnPut' = Gets(P)
    PROVE  PnInv'
<1>1. pnPut \in [Panels -> PnRects] /\ \A p \in Panels : pnPut[p] # NoRect => Stands(panels, p, pnPut[p])
  BY DEF PnInv
<1>2. panels'.desired \in [Panels -> PnRects]
  BY DEF Ordered, PnStates
<1>3. pnPut' \in [Panels -> PnRects]
  BY <1>1, <1>2, RectsAreRects DEF Gets
<1>4. ASSUME NEW p \in Panels, pnPut'[p] # NoRect
      PROVE  Stands(panels', p, pnPut'[p])
  <2>1. CASE p \in P
    <3>1. /\ OnCanvas(panels', p) /\ ~panels'.hidden[p] /\ ~panels'.locked[p]
          /\ pnPut'[p] = panels'.desired[p]
      BY <1>4, <2>1 DEF Gets
    <3>2. Clamps(panels', p)
      BY <3>1 DEF Clamps, Laid
    <3> QED
      BY <2>1, <3>1, <3>2 DEF Stands
  <2>2. CASE p \notin P
    <3>1. pnPut'[p] = pnPut[p]
      BY <2>2 DEF Gets
    <3>2. Stands(panels, p, pnPut[p])
      BY <1>1, <1>4, <3>1
    <3>3. ~HasPage(panels, p)
      BY <3>2 DEF Stands, Clamps, OnCanvas, HasPage
    <3> QED
      BY <2>2, <3>1, <3>2, <3>3 DEF Leaves, Stands, Clamps, Laid, OnCanvas
  <2> QED
    BY <2>1, <2>2
<1> QED
  BY <1>3, <1>4 DEF PnInv, NamesRight

\* What the invariant gives every action.
LEMMA PnInvSays ==
    ASSUME PnInv
    PROVE  /\ panels \in Ordered /\ panels \in PnStates /\ NamesRight(panels) /\ pnSteps \in 0..PnMaxSteps
           /\ PagesRight(panels)
           /\ Operator => pnSteps' \in 0..PnMaxSteps /\ Laid(panels)
BY PanelAssumption DEF PnInv, NamesRight, Operator, Ordered, Paged, PanelAssumption

\* A step that touches one panel keeps order and names.
LEMMA TouchKeeps ==
    ASSUME NEW s \in Ordered, NamesRight(s), NEW t, NEW p, Touches(s, t, p)
    PROVE  /\ t \in Ordered /\ NamesRight(t) /\ t.canvas = s.canvas
           /\ Leaves(s, t, {q \in Panels \ {p} : ~HasPage(s, q)})
<1>1. t \in PnStates /\ Frames(s, t) /\ Leaves(s, t, Panels \ {p})
  BY DEF Touches
<1>2. t \in Ordered
  BY <1>1, FramesKeepOrder
<1> QED
  BY <1>1, <1>2 DEF Frames, Leaves, NamesRight

\* So does one that moves a panel in or out of the side area.
LEMMA MoveKeeps ==
    ASSUME NEW s \in Ordered, NamesRight(s), NEW t, NEW p, Moves(s, t, p)
    PROVE  /\ t \in Ordered /\ NamesRight(t) /\ t.canvas = s.canvas
           /\ Leaves(s, t, {q \in Panels \ {p} : ~HasPage(s, q)})
BY DEF Moves, Same, NamesRight

\* Dragged by its frame a panel stands where it was let go.
LEMMA DragPanelKeepsInv ==
    ASSUME PnInv, NEW p \in Panels, NEW r \in PnRects, DragPanel(p, r), 0 <= r.x, 0 <= r.w
    PROVE  PnInv'
<1> DEFINE t == [panels EXCEPT !.rect[p] = r, !.desired[p] = r]
<1>1. /\ panels \in Ordered /\ panels \in PnStates /\ NamesRight(panels) /\ Laid(panels)
      /\ pnSteps' \in 0..PnMaxSteps
  BY PnInvSays DEF DragPanel
<1>2. /\ panels' = SaveLayout(t, p) /\ pnPut' = Gets({p}) /\ r.x + r.w <= panels.canvas
  BY DEF DragPanel
<1>3. Touches(panels, t, p) /\ t.rect[p] = r /\ t.desired[p] = r
  BY <1>1 DEF PnStates, Touches, Frames, Leaves
<1> HIDE DEF t
<1>4. Notes(t, panels')
  BY <1>2, <1>3, SaveLayoutNotes DEF Touches
<1>5. Touches(panels, panels', p)
  BY <1>3, <1>4, NotesTouch, TouchesCompose
<1>6. /\ panels' \in Ordered /\ NamesRight(panels') /\ panels'.canvas = panels.canvas
      /\ Leaves(panels, panels', {q \in Panels \ {p} : ~HasPage(panels, q)})
  BY <1>1, <1>5, TouchKeeps
<1>7. panels'.rect[p] = r /\ panels'.desired[p] = r
  BY <1>3, <1>4 DEF Notes, Leaves
<1>8. ClampedRect(r, panels.canvas) = r
  <2>1. r = [x |-> r.x, w |-> r.w] /\ r.x \in Int /\ r.w \in Int /\ panels.canvas \in Int
    BY <1>1 DEF PnRects, PnStates, Narrow, Wide
  <2> QED
    BY <1>2, <2>1 DEF ClampedRect, Least, At
<1>9. \A q \in {p} : Clamps(panels', q) => panels'.rect[q] = ClampedRect(panels'.desired[q], panels.canvas)
  BY <1>7, <1>8
<1>10. NamesRight(panels)'
  BY <1>6 DEF NamesRight
<1>11. {p} \in SUBSET Panels
  OBVIOUS
<1> QED
  BY <1>1, <1>2, <1>6, <1>9, <1>10, <1>11, ClaimsAreMade

\* Dropped over the side area it becomes a page and the claim ends.
LEMMA DropIntoSideAreaKeepsInv ==
    ASSUME PnInv, NEW p \in Panels, DropIntoSideArea(p)
    PROVE  PnInv'
<1> DEFINE t == PutIntoSideArea(panels, p)
<1>1. panels \in Ordered /\ NamesRight(panels) /\ pnSteps' \in 0..PnMaxSteps
  BY PnInvSays DEF DropIntoSideArea
<1>2. panels' = SaveLayout(t, p) /\ pnPut' = Loses({p})
  BY DEF DropIntoSideArea
<1>3. Moves(panels, t, p)
  BY <1>1, PutIntoSideAreaMoves
<1>4. /\ t \in Ordered /\ t \in PnStates /\ NamesRight(t) /\ t.canvas = panels.canvas
      /\ Leaves(panels, t, {q \in Panels \ {p} : ~HasPage(panels, q)})
  <2>1. t \in Ordered /\ NamesRight(t) /\ t.canvas = panels.canvas
        /\ Leaves(panels, t, {q \in Panels \ {p} : ~HasPage(panels, q)})
    BY <1>1, <1>3, MoveKeeps
  <2> QED
    BY <2>1 DEF Ordered
<1> HIDE DEF t
<1>5. Notes(t, panels')
  BY <1>2, <1>4, SaveLayoutNotes
<1>6. /\ panels' \in Ordered /\ NamesRight(panels)' /\ panels'.canvas = panels.canvas
  BY <1>4, <1>5, FramesKeepOrder DEF Notes, Frames, NamesRight
<1>7. Leaves(panels, panels', {q \in Panels \ {p} : ~HasPage(panels, q)})
  BY <1>4, <1>5 DEF Notes, Leaves
<1>8. {p} \in SUBSET Panels
  OBVIOUS
<1> QED
  BY <1>1, <1>2, <1>6, <1>7, <1>8, ClaimsAreLost

\* The same on its way home.
LEMMA TakeHomeKeepsInv ==
    ASSUME PnInv, NEW p \in Panels, TakeHome(p)
    PROVE  PnInv'
<1>1. panels \in Ordered /\ NamesRight(panels) /\ pnSteps' \in 0..PnMaxSteps
  BY PnInvSays DEF TakeHome
<1>2. panels' = TakeOutOfSideArea(panels, p) /\ pnPut' = Loses({p})
  BY DEF TakeHome
<1>3. Moves(panels, panels', p)
  BY <1>1, <1>2, TakeOutMoves
<1>4. /\ panels' \in Ordered /\ NamesRight(panels') /\ panels'.canvas = panels.canvas
      /\ Leaves(panels, panels', {q \in Panels \ {p} : ~HasPage(panels, q)})
  BY <1>1, <1>3, MoveKeeps
<1>5. NamesRight(panels)' /\ {p} \in SUBSET Panels
  BY <1>4 DEF NamesRight
<1> QED
  BY <1>1, <1>2, <1>4, <1>5, ClaimsAreLost

\* Dragged out of the side area it is unlocked, put, locked again and clamped.
LEMMA DragOutOfSideAreaKeepsInv ==
    ASSUME PnInv, NEW p \in Panels, NEW x \in Int, DragOutOfSideArea(p, x)
    PROVE  PnInv'
<1> DEFINE t == TakeOutOfSideArea(panels, p)
           w == panels.home[p].w
           a == SetLocked(t, p, FALSE)
           r == At(Least(x, IF w > t.canvas THEN 0 ELSE t.canvas - w), w)
           u == TrySet(a, p, r)
           b == SetLocked(u, p, panels.locked[p])
<1>1. /\ panels \in Ordered /\ panels \in PnStates /\ NamesRight(panels) /\ Laid(panels)
      /\ pnSteps' \in 0..PnMaxSteps
  BY PnInvSays DEF DragOutOfSideArea
<1>2. panels' = Reveal(b, p) /\ pnPut' = Gets({p})
  BY DEF DragOutOfSideArea
<1>3. Moves(panels, t, p)
  BY <1>1, TakeOutMoves
<1>4. /\ t \in Ordered /\ NamesRight(t) /\ t.canvas = panels.canvas
      /\ Leaves(panels, t, {q \in Panels \ {p} : ~HasPage(panels, q)})
  BY <1>1, <1>3, MoveKeeps
<1>5. t \in PnStates /\ t.canvas \in Int /\ w \in Int /\ panels.locked[p] \in BOOLEAN
  <2>1. t \in PnStates
    BY <1>4 DEF Ordered
  <2> HIDE DEF t
  <2>2. t.canvas \in Int
    BY <2>1 DEF PnStates, Narrow, Wide
  <2>3. panels.home[p] \in PnRects /\ panels.locked[p] \in BOOLEAN
    BY <1>1 DEF PnStates
  <2>4. w \in Int
    BY <2>3 DEF PnRects
  <2> QED
    BY <2>1, <2>2, <2>3, <2>4
<1> HIDE DEF t, w
<1>6. r \in PnRects
  BY <1>5 DEF Least, At, PnRects
<1>7. Touches(t, a, p) /\ a \in PnStates
  <2>1. Touches(t, a, p)
    BY <1>5, SetLockedTouches
  <2> QED
    BY <2>1 DEF Touches
<1> HIDE DEF a, r
<1>8. Touches(a, u, p) /\ u \in PnStates
  <2>1. Touches(a, u, p)
    BY <1>6, <1>7, TrySetTouches
  <2> QED
    BY <2>1 DEF Touches
<1> HIDE DEF u
<1>9. Touches(u, b, p) /\ b \in PnStates
  <2>1. Touches(u, b, p)
    BY <1>5, <1>8, SetLockedTouches
  <2> QED
    BY <2>1 DEF Touches
<1> HIDE DEF b
<1>10. /\ Touches(b, panels', p)
       /\ Clamps(panels', p) => panels'.rect[p] = ClampedRect(panels'.desired[p], b.canvas)
  BY <1>2, <1>9, RevealTouches
<1>11. Touches(t, panels', p) /\ Touches(t, b, p)
  BY <1>7, <1>8, <1>9, <1>10, TouchesCompose
<1>12. /\ panels' \in Ordered /\ NamesRight(panels') /\ panels'.canvas = t.canvas
  BY <1>4, <1>11, TouchKeeps
<1>13. Leaves(t, panels', Panels \ {p}) /\ b.canvas = panels.canvas
  BY <1>4, <1>11 DEF Touches, Frames
<1>14. Leaves(panels, panels', {q \in Panels \ {p} : ~HasPage(panels, q)})
  BY <1>4, <1>13 DEF Leaves
<1>15. NamesRight(panels)' /\ {p} \in SUBSET Panels
  BY <1>12 DEF NamesRight
<1>16. \A q \in {p} : Clamps(panels', q) => panels'.rect[q] = ClampedRect(panels'.desired[q], panels.canvas)
  BY <1>10, <1>13
<1> QED
  BY <1>1, <1>2, <1>4, <1>12, <1>14, <1>15, <1>16, ClaimsAreMade

\* A click on the rail shows and hides pages.
LEMMA RailClickedKeepsInv ==
    ASSUME PnInv, NEW p \in Panels, RailClicked(p)
    PROVE  PnInv'
<1> DEFINE Away == {q \in Panels : ~HasPage(panels, q)}
<1>1. /\ panels \in Ordered /\ panels \in PnStates /\ NamesRight(panels) /\ pnSteps' \in 0..PnMaxSteps
      /\ PagesRight(panels) /\ Paged(panels)
  BY PnInvSays DEF RailClicked, Ordered
<1>2. HasPage(panels, p) /\ pnPut' = Loses({})
  <2>1. pnPut \in [Panels -> PnRects]
    BY DEF PnInv
  <2> QED
    BY <2>1 DEF RailClicked, Loses
<1>3. panels' \in Ordered /\ Same(panels, panels') /\ Leaves(panels, panels', Away)
  <2>1. CASE p = panels.active /\ ~panels.collapsed
    <3> DEFINE t == [panels EXCEPT !.collapsed = TRUE]
    <3>1. t \in PnStates /\ Frames(panels, t) /\ Leaves(panels, t, Panels)
      BY <1>1 DEF PnStates, Frames, Leaves
    <3>2. panels' = SaveSideArea(t)
      BY <2>1 DEF RailClicked
    <3> HIDE DEF t
    <3>3. Paged(t)
      BY <1>1, <3>1, FramesKeepOrder DEF Ordered
    <3>4. panels' \in Ordered /\ Same(t, panels') /\ Leaves(t, panels', Panels)
      BY <3>1, <3>2, <3>3, SaveSideAreaIsOrdered
    <3> QED
      BY <3>1, <3>4 DEF Frames, Same, Leaves
  <2>2. CASE ~(p = panels.active /\ ~panels.collapsed)
    <3>1. panels' = SetActive(panels, p)
      BY <2>2 DEF RailClicked
    <3> QED
      BY <1>1, <1>2, <3>1, SetActiveIsOrdered
  <2> QED
    BY <2>1, <2>2
<1>4. NamesRight(panels)' /\ panels'.canvas = panels.canvas
  BY <1>1, <1>3 DEF NamesRight, Same
<1>5. Leaves(panels, panels', {q \in Panels \ {} : ~HasPage(panels, q)})
  BY <1>3 DEF Leaves
<1>6. {} \in SUBSET Panels
  OBVIOUS
<1> QED
  BY <1>1, <1>2, <1>3, <1>4, <1>5, <1>6, ClaimsAreLost

\* Locked or unlocked by the operator.
LEMMA ToggleLockKeepsInv ==
    ASSUME PnInv, NEW p \in Panels, ToggleLock(p)
    PROVE  PnInv'
<1>1. /\ panels \in Ordered /\ panels \in PnStates /\ NamesRight(panels) /\ pnSteps' \in 0..PnMaxSteps
  BY PnInvSays DEF ToggleLock
<1> DEFINE locked == ~panels.locked[p]
<1>2. panels' = SetLocked(panels, p, locked) /\ pnPut' = Loses({p}) /\ locked \in BOOLEAN
  BY DEF ToggleLock
<1> HIDE DEF locked
<1>3. Touches(panels, panels', p)
  BY <1>1, <1>2, SetLockedTouches
<1>4. /\ panels' \in Ordered /\ NamesRight(panels') /\ panels'.canvas = panels.canvas
      /\ Leaves(panels, panels', {q \in Panels \ {p} : ~HasPage(panels, q)})
  BY <1>1, <1>3, TouchKeeps
<1>5. NamesRight(panels)' /\ {p} \in SUBSET Panels
  BY <1>4 DEF NamesRight
<1> QED
  BY <1>1, <1>2, <1>4, <1>5, ClaimsAreLost

\* A window of its own, or back on the canvas.
LEMMA ToggleFloatingKeepsInv ==
    ASSUME PnInv, NEW p \in Panels, ToggleFloating(p)
    PROVE  PnInv'
<1>1. /\ panels \in Ordered /\ panels \in PnStates /\ NamesRight(panels) /\ pnSteps' \in 0..PnMaxSteps
  BY PnInvSays DEF ToggleFloating
<1> DEFINE floating == panels.where[p] # "window"
<1>2. /\ panels' = SetFloating(panels, p, floating) /\ pnPut' = Loses({p}) /\ floating \in BOOLEAN
      /\ ~HasPage(panels, p)
  BY DEF ToggleFloating
<1> HIDE DEF floating
<1>3. Shifts(panels, panels', p)
  BY <1>1, <1>2, SetFloatingShifts
<1>4. panels' \in Ordered
  BY <1>1, <1>3, ShiftsKeepOrder
<1>5. /\ NamesRight(panels)' /\ panels'.canvas = panels.canvas /\ {p} \in SUBSET Panels
      /\ Leaves(panels, panels', {q \in Panels \ {p} : ~HasPage(panels, q)})
  BY <1>1, <1>3 DEF Shifts, Same, Leaves, NamesRight
<1> QED
  BY <1>1, <1>2, <1>4, <1>5, ClaimsAreLost

\* Hidden, or shown and clamped.
LEMMA TogglePanelKeepsInv ==
    ASSUME PnInv, NEW p \in Panels, TogglePanel(p)
    PROVE  PnInv'
<1>1. /\ panels \in Ordered /\ panels \in PnStates /\ NamesRight(panels) /\ pnSteps' \in 0..PnMaxSteps
  BY PnInvSays DEF TogglePanel
<1> DEFINE t == IF panels.hidden[p] THEN Reveal(panels, p) ELSE Made(panels, p, FALSE)
<1>2. panels' = SaveProfile(t) /\ pnPut' = Loses({p})
  BY DEF TogglePanel
<1>3. Touches(panels, t, p) /\ t \in PnStates
  <2>1. Touches(panels, t, p)
    <3>1. CASE panels.hidden[p]
      BY <1>1, <3>1, RevealTouches
    <3>2. CASE ~panels.hidden[p]
      BY <1>1, <3>2, MadeTouches
    <3> QED
      BY <3>1, <3>2
  <2> QED
    BY <2>1 DEF Touches
<1> HIDE DEF t
<1>4. Touches(t, panels', p)
  BY <1>2, <1>3, SaveProfileNotes, NotesTouch
<1>5. Touches(panels, panels', p)
  BY <1>3, <1>4, TouchesCompose
<1>6. /\ panels' \in Ordered /\ NamesRight(panels') /\ panels'.canvas = panels.canvas
      /\ Leaves(panels, panels', {q \in Panels \ {p} : ~HasPage(panels, q)})
  BY <1>1, <1>5, TouchKeeps
<1>7. NamesRight(panels)' /\ {p} \in SUBSET Panels
  BY <1>6 DEF NamesRight
<1> QED
  BY <1>1, <1>2, <1>6, <1>7, ClaimsAreLost

\* A profile put on the screen claims every panel that stands on the canvas.
LEMMA AppliedProfileKeepsInv ==
    ASSUME PnInv, NEW s \in Ordered, NamesRight(s), s.canvas = panels.canvas, NEW rows \in PnRows,
           Operator, panels' = ApplyState(s, rows), pnPut' = Gets(Panels)
    PROVE  PnInv'
<1>1. Laid(panels) /\ pnSteps' \in 0..PnMaxSteps
  BY PnInvSays
<1>2. /\ panels' \in Ordered /\ Frames(s, panels')
      /\ \A p \in Panels : Clamps(panels', p) => panels'.rect[p] = ClampedRect(panels'.desired[p], s.canvas)
  BY ApplyStateStands
<1>3. NamesRight(panels)' /\ panels'.canvas = panels.canvas
  BY <1>2 DEF Frames, NamesRight
<1>4. Leaves(panels, panels', {q \in Panels \ Panels : ~HasPage(panels, q)}) /\ Panels \in SUBSET Panels
  BY DEF Leaves
<1> QED
  BY <1>1, <1>2, <1>3, <1>4, ClaimsAreMade

\* The profile in use is saved and another one applied.
LEMMA SwitchToKeepsInv ==
    ASSUME PnInv, NEW n \in PnNames, SwitchTo(n)
    PROVE  PnInv'
<1> DEFINE t == SaveProfile(panels)
           s == [t EXCEPT !.profile = n]
           rows == panels.profiles[n]
<1>1. panels \in Ordered /\ panels \in PnStates /\ NamesRight(panels)
  BY PnInvSays
<1>2. Operator /\ Contains(panels.names, n) /\ panels' = ApplyState(s, rows) /\ pnPut' = Gets(Panels)
  BY DEF SwitchTo
<1>3. rows \in PnRows
  BY <1>1 DEF PnStates
<1>4. t \in PnStates /\ Frames(panels, t)
  BY <1>1, SaveProfileNotes DEF Notes
<1>5. t \in Ordered
  BY <1>1, <1>4, FramesKeepOrder
<1> HIDE DEF t, rows
<1>6. /\ s \in PnStates /\ s.names = t.names /\ s.profile = n /\ s.canvas = t.canvas
      /\ s.pages = t.pages /\ s.active = t.active /\ s.where = t.where
  BY <1>4 DEF PnStates
<1> HIDE DEF s
<1>7. s \in Ordered
  BY <1>5, <1>6 DEF Ordered, Paged, PagesRight, HasPage
<1>8. NamesRight(s) /\ s.canvas = panels.canvas
  BY <1>1, <1>2, <1>4, <1>6 DEF NamesRight, Frames
<1> QED
  BY <1>2, <1>3, <1>7, <1>8, AppliedProfileKeepsInv

\* What a new profile can hold: nothing, or what is on the screen.
LEMMA NewRowsAreRows ==
    ASSUME NEW s \in PnStates
    PROVE  Nothing(NoRow) \in PnRows /\ Snapshot(s) \in PnRows
<1>1. NoRow \in [shown : BOOLEAN, rect : PnRects]
  BY RectsAreRects DEF NoRow
<1>2. Nothing(NoRow) \in PnRows
  BY <1>1, NothingIsEverywhere DEF PnRows
<1>3. Snapshot(s) \in PnRows
  BY DEF Snapshot, Row, PnRows, PnStates
<1> QED
  BY <1>2, <1>3

\* A new profile is the one in use at once.
LEMMA NewProfileKeepsInv ==
    ASSUME PnInv, NEW n \in PnNames, NEW rows \in PnRows, NewProfile(n, rows)
    PROVE  PnInv'
<1> DEFINE t == SaveProfile(panels)
           names == Append(panels.names, n)
           s == [t EXCEPT !.profile = n, !.profiles[n] = rows, !.names = Append(@, n)]
<1>1. panels \in Ordered /\ panels \in PnStates /\ NamesRight(panels)
  BY PnInvSays
<1>2. /\ Operator /\ ~Contains(panels.names, n) /\ panels' = ApplyState(s, rows) /\ pnPut' = Gets(Panels)
  BY DEF NewProfile
<1>3. t \in PnStates /\ Frames(panels, t)
  BY <1>1, SaveProfileNotes DEF Notes
<1>4. t \in Ordered
  BY <1>1, <1>3, FramesKeepOrder
<1> HIDE DEF t
<1>5. panels.names \in Seq(PnNames) /\ n \in PnNames \ ToSet(panels.names) /\ IsInjective(panels.names)
  <2>1. panels.names \in Seq(PnNames) /\ IsInjective(panels.names)
    BY <1>1 DEF PnStates, NamesRight
  <2> QED
    BY <1>2, <2>1 DEF Contains, ToSet
<1>6. names \in Seq(PnNames) /\ IsInjective(names) /\ Contains(names, n)
  <2>1. names \in Seq(PnNames) /\ IsInjective(names) /\ ToSet(names) = ToSet(panels.names) \cup {n}
    BY <1>5, OneIsAdded
  <2> HIDE DEF names
  <2> QED
    BY <2>1 DEF Contains, ToSet
<1>7. s = [t EXCEPT !.profile = n, !.profiles[n] = rows, !.names = names]
  BY <1>3 DEF Frames
<1> HIDE DEF s, names
<1>8. /\ s \in PnStates /\ s.names = names /\ s.profile = n /\ s.canvas = t.canvas
      /\ s.pages = t.pages /\ s.active = t.active /\ s.where = t.where
  BY <1>3, <1>6, <1>7 DEF PnStates
<1>9. s \in Ordered
  BY <1>4, <1>8 DEF Ordered, Paged, PagesRight, HasPage
<1>10. NamesRight(s) /\ s.canvas = panels.canvas
  BY <1>3, <1>6, <1>8 DEF NamesRight, Frames
<1> QED
  BY <1>2, <1>9, <1>10, AppliedProfileKeepsInv

\* If the profile in use is removed the first of the others is applied.
LEMMA RemoveProfileKeepsInv ==
    ASSUME PnInv, NEW n \in PnNames, RemoveProfile(n)
    PROVE  PnInv'
<1> DEFINE left == RemoveFirst(panels.names, n)
           next == IF panels.profile = n THEN left[1] ELSE panels.profile
           s == [panels EXCEPT !.names = left, !.profile = IF @ = n THEN left[1] ELSE @]
<1>1. panels \in Ordered /\ panels \in PnStates /\ NamesRight(panels)
  BY PnInvSays
<1>2. /\ Operator /\ Contains(panels.names, n) /\ Len(panels.names) > 1
      /\ panels' = IF panels.profile = n THEN ApplyState(s, s.profiles[s.profile]) ELSE s
      /\ pnPut' = IF panels.profile = n THEN Gets(Panels) ELSE pnPut
  BY DEF RemoveProfile
<1>3. /\ left \in Seq(PnNames) /\ IsInjective(left) /\ ToSet(left) = ToSet(panels.names) \ {n}
      /\ Len(left) = Len(panels.names) - 1
  <2>1. panels.names \in Seq(PnNames) /\ IsInjective(panels.names)
    BY <1>1 DEF PnStates, NamesRight
  <2> QED
    BY <1>2, <2>1, OneIsRemoved
<1> HIDE DEF left
<1>4. next \in PnNames /\ Contains(left, next)
  <2>1. panels.profile \in PnNames /\ panels.profile \in ToSet(panels.names) /\ Len(panels.names) \in Nat
    BY <1>1 DEF PnStates, NamesRight, Contains, ToSet
  <2>2. Len(left) \in Nat /\ 1 <= Len(left) /\ left[1] \in PnNames /\ DOMAIN left = 1..Len(left)
    BY <1>2, <1>3, <2>1
  <2>3. CASE panels.profile = n
    BY <2>2, <2>3 DEF Contains
  <2>4. CASE panels.profile # n
    BY <1>3, <2>1, <2>2, <2>4 DEF Contains, ToSet
  <2> QED
    BY <2>3, <2>4
<1>5. s = [panels EXCEPT !.names = left, !.profile = next]
  BY <1>1 DEF PnStates
<1> HIDE DEF s, next
<1>6. /\ s \in PnStates /\ s.names = left /\ s.profile = next /\ Leaves(panels, s, Panels)
      /\ s.pages = panels.pages /\ s.active = panels.active /\ s.where = panels.where
      /\ s.canvas = panels.canvas /\ s.profiles = panels.profiles
  BY <1>1, <1>3, <1>4, <1>5 DEF PnStates, Leaves
<1>7. s \in Ordered
  BY <1>1, <1>6 DEF Ordered, Paged, PagesRight, HasPage
<1>8. NamesRight(s) /\ s.profiles[s.profile] \in PnRows
  BY <1>3, <1>4, <1>6 DEF NamesRight, PnStates
<1>9. CASE panels.profile = n
  BY <1>2, <1>6, <1>7, <1>8, <1>9, AppliedProfileKeepsInv
<1>10. CASE panels.profile # n
  <2>1. panels' = s /\ pnPut' = pnPut /\ pnSteps' \in 0..PnMaxSteps
    BY <1>2, <1>10, PnInvSays
  <2>2. pnPut' = Loses({})
    BY <2>1 DEF Loses, PnInv
  <2>3. Leaves(panels, panels', {q \in Panels \ {} : ~HasPage(panels, q)}) /\ {} \in SUBSET Panels
    BY <1>6, <2>1 DEF Leaves
  <2>4. panels' \in Ordered /\ NamesRight(panels)' /\ panels'.canvas = panels.canvas
    BY <1>6, <1>7, <1>8, <2>1 DEF NamesRight
  <2> QED
    BY <2>1, <2>2, <2>3, <2>4, ClaimsAreLost
<1> QED
  BY <1>9, <1>10

\* No claim for any panel.
LEMMA NoClaimIsHeld ==
    ASSUME panels' \in Ordered, NamesRight(panels)', pnSteps' \in 0..PnMaxSteps, pnPut' = Nothing(NoRect)
    PROVE  PnInv'
<1>1. pnPut' \in [Panels -> PnRects] /\ \A p \in Panels : pnPut'[p] = NoRect
  BY NothingIsEverywhere, RectsAreRects
<1> QED
  BY <1>1 DEF PnInv, NamesRight

\* "Fenster zurücksetzen" goes over all panels three times.
LEMMA ResetLayoutKeepsInv ==
    ASSUME PnInv, ResetLayout
    PROVE  PnInv'
<1> DEFINE t == TakeOutPages(panels)
           u == DockAll(t)
           v == ApplyDesign(u)
<1>1. panels \in Ordered /\ NamesRight(panels) /\ pnSteps' \in 0..PnMaxSteps
  BY PnInvSays DEF ResetLayout
<1>2. panels' = SaveAll(v) /\ pnPut' = Loses(Panels)
  BY DEF ResetLayout
<1>3. t \in Ordered /\ Same(panels, t)
  BY <1>1, TakeOutPagesIsOrdered
<1> HIDE DEF t
<1>4. u \in Ordered /\ Same(t, u)
  BY <1>3, DockAllIsOrdered
<1> HIDE DEF u
<1>5. v \in Ordered /\ v \in PnStates /\ Same(u, v)
  BY <1>4, ApplyDesignIsOrdered DEF Ordered
<1> HIDE DEF v
<1>6. panels' \in PnStates /\ Frames(v, panels')
  BY <1>2, <1>5, SaveAllNotes DEF Notes
<1>7. panels' \in Ordered
  BY <1>5, <1>6, FramesKeepOrder
<1>8. NamesRight(panels)' /\ panels'.canvas = panels.canvas
  BY <1>1, <1>3, <1>4, <1>5, <1>6 DEF Same, Frames, NamesRight
<1>9. Leaves(panels, panels', {q \in Panels \ Panels : ~HasPage(panels, q)}) /\ Panels \in SUBSET Panels
  BY DEF Leaves
<1> QED
  BY <1>1, <1>2, <1>7, <1>8, <1>9, ClaimsAreLost

\* The next session starts from what was kept.
LEMMA PnRestartKeepsInv ==
    ASSUME PnInv, PnRestart
    PROVE  PnInv'
<1>1. panels \in PnStates /\ NamesRight(panels) /\ pnSteps' \in 0..PnMaxSteps
  BY PnInvSays DEF PnRestart
<1>2. panels' = PnStart(panels) /\ pnPut' = Nothing(NoRect)
  BY DEF PnRestart
<1>3. panels' \in Ordered /\ NamesRight(panels')
  BY <1>1, <1>2, StartIsOrdered
<1>4. NamesRight(panels)'
  BY <1>3 DEF NamesRight
<1> QED
  BY <1>1, <1>2, <1>3, <1>4, NoClaimIsHeld

\* The design is applied no more.
LEMMA SettleTimeOverKeepsInv ==
    ASSUME PnInv, SettleTimeOver
    PROVE  PnInv'
<1>1. panels \in Ordered /\ panels \in PnStates /\ NamesRight(panels) /\ pnSteps \in 0..PnMaxSteps
  BY PnInvSays
<1>2. panels' = [panels EXCEPT !.fresh = FALSE] /\ pnPut' = pnPut /\ pnSteps' = pnSteps
  BY DEF SettleTimeOver
<1>3. panels' \in PnStates /\ Frames(panels, panels') /\ Leaves(panels, panels', Panels)
  BY <1>1, <1>2 DEF PnStates, Frames, Leaves
<1>4. panels' \in Ordered
  BY <1>1, <1>3, FramesKeepOrder
<1>5. NamesRight(panels)' /\ panels'.canvas = panels.canvas
  BY <1>1, <1>3 DEF NamesRight, Frames
<1>6. Leaves(panels, panels', {q \in Panels \ {} : ~HasPage(panels, q)}) /\ {} \in SUBSET Panels
  BY <1>3 DEF Leaves
<1>7. pnPut' = Loses({})
  BY <1>2 DEF Loses, PnInv
<1> QED
  BY <1>1, <1>2, <1>4, <1>5, <1>6, <1>7, ClaimsAreLost

\* Every panel is clamped to the new canvas, from where it was wanted.
LEMMA CanvasResizeKeepsInv ==
    ASSUME PnInv, NEW width \in {Narrow, Wide}, NEW told \in BOOLEAN, CanvasResize(width, told)
    PROVE  PnInv'
<1> DEFINE s == [panels EXCEPT !.canvas = width]
           d == IF panels.fresh THEN SaveProfile(ApplyDesign(s)) ELSE s
           c == ClampPanels(d)
           wanted == [p \in Panels |-> IF told /\ ~c.hidden[p] THEN c.rect[p] ELSE c.desired[p]]
<1>1. panels \in Ordered /\ panels \in PnStates /\ NamesRight(panels) /\ pnSteps \in 0..PnMaxSteps
  BY PnInvSays
<1>2. /\ told => ~Laid(panels)
      /\ panels' = [c EXCEPT !.desired = wanted] /\ pnSteps' = pnSteps
      /\ pnPut' = IF panels.fresh \/ ~Laid(panels) THEN Nothing(NoRect) ELSE pnPut
  BY DEF CanvasResize
<1>3. /\ s \in PnStates /\ s.pages = panels.pages /\ s.active = panels.active /\ s.where = panels.where
      /\ s.names = panels.names /\ s.profile = panels.profile /\ s.canvas = width
      /\ Leaves(panels, s, Panels)
  BY <1>1 DEF PnStates, Leaves
<1> HIDE DEF s
<1>4. s \in Ordered /\ NamesRight(s)
  BY <1>1, <1>3 DEF Ordered, Paged, PagesRight, HasPage, NamesRight
<1>5. d \in Ordered /\ d \in PnStates /\ Same(s, d)
  <2>1. CASE panels.fresh
    <3> DEFINE a == ApplyDesign(s)
    <3>1. a \in Ordered /\ a \in PnStates /\ Same(s, a)
      BY <1>4, ApplyDesignIsOrdered DEF Ordered
    <3> HIDE DEF a
    <3>2. SaveProfile(a) \in PnStates /\ Frames(a, SaveProfile(a))
      BY <3>1, SaveProfileNotes DEF Notes
    <3>3. SaveProfile(a) \in Ordered
      BY <3>1, <3>2, FramesKeepOrder
    <3>4. d = SaveProfile(a)
      BY <2>1 DEF a
    <3> HIDE DEF d
    <3> QED
      BY <3>1, <3>2, <3>3, <3>4 DEF Same, Frames
  <2>2. CASE ~panels.fresh
    BY <1>3, <1>4, <2>2 DEF Same
  <2> QED
    BY <2>1, <2>2
<1>6. CASE panels.fresh \/ ~Laid(panels)
  <2> HIDE DEF d
  <2>1. c \in PnStates /\ Frames(d, c)
    BY <1>5, ClampPanelsStand
  <2>2. c.rect \in [Panels -> PnRects] /\ c.desired \in [Panels -> PnRects]
    <3> HIDE DEF c
    <3> QED
      BY <2>1 DEF PnStates
  <2> HIDE DEF c
  <2>3. wanted \in [Panels -> PnRects]
    BY <2>2
  <2> HIDE DEF wanted
  <2>4. panels' \in PnStates /\ Frames(c, panels')
    BY <1>2, <2>1, <2>3 DEF PnStates, Frames
  <2>5. Frames(d, panels')
    BY <2>1, <2>4 DEF Frames
  <2>6. panels' \in Ordered
    BY <1>5, <2>4, <2>5, FramesKeepOrder
  <2>7. NamesRight(panels)'
    BY <1>4, <1>5, <2>5 DEF NamesRight, Frames, Same
  <2> QED
    BY <1>1, <1>2, <1>6, <2>6, <2>7, NoClaimIsHeld
<1>7. CASE ~(panels.fresh \/ ~Laid(panels))
  <2> DEFINE e == ClampPanels(s)
  <2>1. d = s /\ c = e /\ ~told /\ pnPut' = pnPut
    BY <1>2, <1>7
  <2>2. /\ e \in PnStates /\ Frames(s, e) /\ e.desired = s.desired /\ e.hidden = s.hidden
        /\ e.locked = s.locked
        /\ \A p \in Panels : Clamps(s, p) => e.rect[p] = ClampedRect(s.desired[p], s.canvas)
    BY <1>3, ClampPanelsStand
  <2> HIDE DEF e
  <2>3. wanted = e.desired
    BY <2>1, <2>2 DEF PnStates
  <2>4. panels' = [e EXCEPT !.desired = e.desired]
    BY <1>2, <2>1, <2>3
  <2>5. panels' = e
    BY <2>2, <2>4 DEF PnStates
  <2> HIDE DEF c, d, wanted
  <2>6. panels' \in Ordered
    BY <1>4, <2>2, <2>5, FramesKeepOrder
  <2>7. NamesRight(panels)'
    BY <1>4, <2>2, <2>5 DEF NamesRight, Frames
  <2>8. ASSUME NEW p \in Panels, pnPut[p] # NoRect
        PROVE  Stands(e, p, pnPut[p])
    <3>1. Stands(panels, p, pnPut[p])
      BY <2>8 DEF PnInv
    <3>2. Clamps(s, p)
      BY <1>3, <3>1 DEF Stands, Clamps, Laid, OnCanvas, Leaves, Narrow, Wide
    <3>3. e.rect[p] = ClampedRect(s.desired[p], s.canvas) /\ s.desired[p] = pnPut[p] /\ ~s.hidden[p]
      BY <1>3, <2>2, <3>1, <3>2 DEF Stands, Leaves
    <3>4. Clamps(e, p)
      BY <2>2, <3>2 DEF Clamps, Laid, OnCanvas, Frames
    <3> QED
      BY <2>2, <3>3, <3>4 DEF Stands, Frames
  <2>9. ASSUME NEW p \in Panels, pnPut'[p] # NoRect
        PROVE  Stands(panels', p, pnPut'[p])
    BY <2>1, <2>5, <2>8, <2>9
  <2> QED
    BY <1>1, <1>2, <2>1, <2>6, <2>7, <2>9 DEF PnInv, NamesRight
<1> QED
  BY <1>6, <1>7

\* The first start of all, with an empty database.
LEMMA PnStarts ==
    ASSUME PnInit
    PROVE  PnInv
<1> DEFINE profiles == [n \in PnNames |-> Nothing(NoRow)]
           layout == Nothing(NoLayout)
           kept == [pages |-> <<>>, active |-> NoPanel, collapsed |-> FALSE]
           f == FirstDatabase
           names == <<>>
<1>1. NoRow \in [shown : BOOLEAN, rect : PnRects]
  BY RectsAreRects DEF NoRow
<1>2. Nothing(NoRow) \in PnRows
  BY <1>1, NothingIsEverywhere DEF PnRows
<1>3. profiles \in [PnNames -> PnRows]
  BY <1>2
<1>4. NoLayout \in PnFrames
  BY RectsAreRects DEF NoLayout, PnFrames
<1>5. layout \in [Panels -> PnFrames]
  BY <1>4, NothingIsEverywhere
<1>6. kept \in PnSides
  BY DEF PnSides
<1>7. f = Closed(names, 1, profiles, layout, kept) /\ names \in Seq(PnNames) /\ 1 \in PnNames
  BY PanelAssumption DEF FirstDatabase, PanelAssumption
<1> HIDE DEF profiles, layout, kept, f, names
<1>8. f \in PnStates /\ f.names = <<>>
  <2>1. f \in PnStates /\ f.names = names
    BY <1>3, <1>5, <1>6, <1>7, ClosedIsEmpty
  <2> QED
    BY <2>1 DEF names
<1>9. panels = PnStart(f) /\ pnPut = Nothing(NoRect) /\ pnSteps = 0
  BY DEF PnInit, f
<1>10. panels \in Ordered /\ NamesRight(panels)
  BY <1>8, <1>9, StartIsOrdered
<1>11. pnPut \in [Panels -> PnRects] /\ \A p \in Panels : pnPut[p] = NoRect
  BY <1>9, NothingIsEverywhere, RectsAreRects
<1> QED
  BY <1>9, <1>10, <1>11, PanelAssumption DEF PnInv, NamesRight, PanelAssumption

\* Every step of the window.
LEMMA PnNextKeepsInv ==
    ASSUME PnInv, PnNext
    PROVE  PnInv'
<1>1. ASSUME NEW width \in {Narrow, Wide}, NEW told \in BOOLEAN, CanvasResize(width, told)
      PROVE  PnInv'
  BY <1>1, CanvasResizeKeepsInv
<1>2. CASE SettleTimeOver
  BY <1>2, SettleTimeOverKeepsInv
<1>3. CASE PnRestart
  BY <1>3, PnRestartKeepsInv
<1>4. CASE ResetLayout
  BY <1>4, ResetLayoutKeepsInv
<1>5. ASSUME NEW p \in Panels, NEW r \in {At(0, 2), At(2, 2), At(0, 3)}, DragPanel(p, r)
      PROVE  PnInv'
  <2>1. r \in PnRects /\ 0 <= r.x /\ 0 <= r.w
    BY DEF At, PnRects
  <2> QED
    BY <1>5, <2>1, DragPanelKeepsInv
<1>6. ASSUME NEW p \in Panels, DropIntoSideArea(p) \/ TakeHome(p) \/ RailClicked(p)
      PROVE  PnInv'
  BY <1>6, DropIntoSideAreaKeepsInv, TakeHomeKeepsInv, RailClickedKeepsInv
<1>7. ASSUME NEW p \in Panels, NEW x \in {0, 2}, DragOutOfSideArea(p, x)
      PROVE  PnInv'
  <2>1. x \in Int
    OBVIOUS
  <2> QED
    BY <1>7, <2>1, DragOutOfSideAreaKeepsInv
<1>8. ASSUME NEW p \in Panels, ToggleLock(p) \/ ToggleFloating(p) \/ TogglePanel(p)
      PROVE  PnInv'
  BY <1>8, ToggleLockKeepsInv, ToggleFloatingKeepsInv, TogglePanelKeepsInv
<1>9. ASSUME NEW n \in PnNames, SwitchTo(n) \/ RemoveProfile(n)
      PROVE  PnInv'
  BY <1>9, SwitchToKeepsInv, RemoveProfileKeepsInv
<1>10. ASSUME NEW n \in PnNames, NEW rows \in {Nothing(NoRow), Snapshot(panels)}, NewProfile(n, rows)
       PROVE  PnInv'
  <2>1. rows \in PnRows
    BY PnInvSays, NewRowsAreRows
  <2> QED
    BY <1>10, <2>1, NewProfileKeepsInv
<1> QED
  BY <1>1, <1>2, <1>3, <1>4, <1>5, <1>6, <1>7, <1>8, <1>9, <1>10 DEF PnNext

\* Standing still.
LEMMA PnStutters ==
    ASSUME PnInv, UNCHANGED pnVars
    PROVE  PnInv'
<1>1. panels' = panels /\ pnPut' = pnPut /\ pnSteps' = pnSteps
  BY DEF pnVars
<1>2. \A p \in Panels : pnPut'[p] # NoRect => Stands(panels', p, pnPut'[p])
  BY <1>1 DEF PnInv
<1> QED
  BY <1>1, <1>2 DEF PnInv

\* What the runs check follows.
LEMMA PnShows ==
    ASSUME PnInv
    PROVE  PnTypeOK /\ CanvasComesBack
<1>1. /\ panels \in PnStates /\ pnSteps \in 0..PnMaxSteps /\ PagesRight(panels)
      /\ panels.pages # <<>> => panels.active # NoPanel
      /\ Contains(panels.names, panels.profile) /\ IsInjective(panels.names)
  BY DEF PnInv, Ordered, Paged
<1>2. /\ panels.where \in [Panels -> {"canvas", "window", "page"}] /\ panels.names \in Seq(PnNames)
      /\ panels.pages \in Seq(Panels) /\ panels.active \in Panels \cup {NoPanel}
  BY <1>1 DEF PnStates
<1>3. ToSet(panels.names) \subseteq PnNames
  BY <1>2 DEF ToSet
<1>4. DOMAIN panels.pages = 1..Len(panels.pages)
  BY <1>2
<1>5. ASSUME panels.pages = <<>>
      PROVE  panels.active = NoPanel
  <2>1. Len(panels.pages) = 0
    BY <1>5
  <2>2. ToSet(panels.pages) = {}
    BY <1>4, <2>1 DEF ToSet
  <2> QED
    BY <1>1, <1>2, <2>2 DEF PagesRight
<1>6. ASSUME panels.pages # <<>>
      PROVE  Contains(panels.pages, panels.active)
  <2>1. panels.active \in ToSet(panels.pages)
    BY <1>1, <1>2, <1>6 DEF PagesRight
  <2> QED
    BY <1>4, <2>1 DEF ToSet, Contains
<1>7. PnTypeOK
  BY <1>1, <1>2, <1>3, <1>5, <1>6 DEF PnTypeOK, PagesRight
<1>8. CanvasComesBack
  <2>1. \A p \in Panels : pnPut[p] # NoRect => panels.rect[p] = ClampedRect(pnPut[p], panels.canvas)
    BY DEF PnInv, Stands
  <2> QED
    BY <2>1 DEF CanvasComesBack
<1> QED
  BY <1>7, <1>8

-----------------------------------------------------------------------------
(* In the instance that is checked *)

\* Any step of dials and map, stuttering included.
LEMMA RpStep ==
    ASSUME RpInv, [RpNext]_rpVars
    PROVE  RpInv'
<1>1. CASE RpNext
  BY <1>1, RotorAssumption, RpInvariant
<1>2. CASE UNCHANGED rpVars
  BY <1>2 DEF rpVars, RpInv, SlotOK
<1> QED
  BY <1>1, <1>2

\* The map that is left alone.
LEMMA MvStep ==
    ASSUME MvInv, [MvNext]_mvVars
    PROVE  MvInv'
<1>1. CASE MvNext
  BY <1>1, MapAssumption, MvInvariant
<1>2. CASE UNCHANGED mvVars
  <2>1. OpenInBeam' = OpenInBeam
    BY <1>2 DEF mvVars, OpenInBeam, Inside
  <2>2. InTurn(OpenInBeam', mvBeam'.cursor, mvBeam'.handed)
    BY <1>2, <2>1 DEF mvVars, MvInv, MvTurn
  <2>3. MvTurn'
    BY <1>2, <2>2 DEF mvVars, MvInv, MvTurn
  <2> QED
    BY <1>2, <2>3 DEF mvVars, MvInv, MvKinds, MvAgree
<1> QED
  BY <1>1, <1>2

\* The panels that are left alone.
LEMMA PnStep ==
    ASSUME PnInv, [PnNext]_pnVars
    PROVE  PnInv'
BY PnNextKeepsInv, PnStutters

WindowInv ==
    /\ part = "panels" => PnInv
    /\ part = "rotors" => RpInv
    /\ part = "map" => MvInv

\* The window as it starts.
LEMMA WindowStarts == DeskInit => WindowInv
BY RotorAssumption, MapAssumption, PnStarts, RpStarts, MvStarts
   DEF DeskInit, PanelsInit, RotorsInit, MapInit, WindowInv

\* The window in every step of the station.
LEMMA WindowSteps == WindowInv /\ [DeskNext]_deskVars => WindowInv'
BY DeskPartsMoveAlone, PnStep, RpStep, MvStep DEF WindowInv

\* A panel on the canvas stands where it was put as far as the canvas lets it, whatever
\* the canvas was in between (PanelLayoutManager::clampPanelToCanvas); the headings and
\* antennas on the map are those of the dials whatever moved them
\* (MainWindow::applyRotorSlot); and the map keeps layers and angles as they were
\* chosen and hands out every open station of a beam once a round
\* (MapWidget::openStationsInBeam).
THEOREM WindowStaysAsChosen == DeskSpec => []WindowIsAsChosen
<1>1. WindowInv => WindowIsAsChosen
  BY RotorAssumption, MapAssumption, PnShows, RpShows, MvShows DEF WindowInv, WindowIsAsChosen
<1> QED
  BY <1>1, WindowStarts, WindowSteps, PTL DEF DeskSpec

StationInv == part \in Parts /\ WindowInv /\ DisplayInv /\ ChoiceInv /\ SoundInv

\* The waterfall's invariant has its types in it.
LEMMA WfTypes == WfInv => WfTypeOK
BY DEF WfInv

\* Types and bounds of panels, dials, map, waterfall, spots, settings, rules and
\* recording: among them that the pages of the side area are the panels that are in it
\* and one of them is in front (SideAreaWidget), and that the profile in use is listed
\* once (LayoutProfileManager).
THEOREM StationStaysTyped == DeskSpec => []DeskTypeOK
<1>1. DeskInit => StationInv
  <2> SUFFICES ASSUME DeskInit
               PROVE  StationInv
    OBVIOUS
  <2>1. part \in Parts /\ WindowInv
    BY WindowStarts DEF DeskInit
  <2>2. DisplayInv
    BY SpotAssumption, WaterfallAssumption, SpStarts, WfStarts DEF DeskInit, SpotsInit, WaterfallInit, DisplayInv
  <2>3. ChoiceInv
    BY SettingsAssumption, RuleBookAssumption, StStarts, RbStarts DEF DeskInit, SettingsInit, RulesInit, ChoiceInv
  <2>4. SoundInv
    BY AudioAssumption, ArStarts DEF DeskInit, AudioInit, SoundInv
  <2> QED
    BY <2>1, <2>2, <2>3, <2>4 DEF StationInv
<1>2. StationInv /\ [DeskNext]_deskVars => StationInv'
  <2> SUFFICES ASSUME StationInv, [DeskNext]_deskVars
               PROVE  StationInv'
    OBVIOUS
  <2>1. part' \in Parts /\ WindowInv'
    BY DeskPartsMoveAlone, WindowSteps DEF StationInv
  <2>2. DisplayInv'
    BY SpotAssumption, WaterfallAssumption, DeskPartsMoveAlone, SpInvariant, WfInvariant DEF StationInv, DisplayInv
  <2>3. ChoiceInv'
    BY SettingsAssumption, DeskPartsMoveAlone, StInvariant, RbStep DEF StationInv, ChoiceInv
  <2>4. SoundInv'
    BY DeskPartsMoveAlone, ArStep DEF StationInv, SoundInv
  <2> QED
    BY <2>1, <2>2, <2>3, <2>4 DEF StationInv
<1>3. StationInv => DeskTypeOK
  BY RotorAssumption, MapAssumption, PnShows, RpShows, MvShows, SpShows, WfTypes, StShows, RbShows, ArShows
     DEF StationInv, WindowInv, DisplayInv, ChoiceInv, SoundInv, DeskTypeOK
<1> QED
  BY <1>1, <1>2, <1>3, PTL DEF DeskSpec
=============================================================================
