------------------------------ MODULE MapView ------------------------------
(***************************************************************************)
(* The map panel (ui/MapWidget): its layers and opening angles, kept as one *)
(* text in the settings table by MainWindow; the rotor dials whose cones    *)
(* follow the map's angles; the second antennas, a station setting that the *)
(* map's menu switches too; and the stations still open in rotor 1's beam,  *)
(* which one click after the other hands to the entry row.                  *)
(***************************************************************************)
EXTENDS Integers, FiniteSets, SequencesExt

CONSTANTS
    MvAngles,      \* opening angles the menu offers, in degrees
    MvCalls,       \* stations the map can show
    MvBearing,     \* [MvCalls -> degrees]
    MvKm,          \* [MvCalls -> km], no two alike
    MvHeadings,    \* where rotor 1 can point
    MvMaxSteps     \* bound: what the operator and the air do

\* "No two alike" settles which list the stable sort makes.
MapAssumption ==
    /\ MvAngles # {} /\ MvAngles \subseteq Nat \ {0} /\ MvHeadings \subseteq 0..359 /\ MvMaxSteps \in Nat
    /\ IsFiniteSet(MvCalls) /\ MvBearing \in [MvCalls -> 0..359] /\ MvKm \in [MvCalls -> Nat]
    /\ \A c, d \in MvCalls : MvKm[c] = MvKm[d] => c = d
ASSUME MapAssumption

Timed == {"greyline", "aging"}
MapLayers == Timed \cup {"fit", "rotor1", "rotor2", "rear"}
Antennas == {"rotor1", "rotor2", "fixed"}
Rotors == {"rotor1", "rotor2"}
NoCone == 0
SecondTurn == 90

VARIABLES
    mvPrefs,     \* what the map shows: layers on, the antennas' opening angles
    mvStored,    \* the same in the settings table
    mvRound,     \* "map_round_default_applied" is in the settings table
    mvUp,        \* the program runs
    mvTimers,    \* the map's timers that run
    mvStation,   \* station settings: antennas set up, rotors with a second antenna
    mvCones,     \* the opening angle each dial draws, NoCone without a dial
    mvTwo,       \* rotors the map draws with two antennas
    mvOpen,      \* stations shown and not worked
    mvBeam,      \* rotor 1's heading, the cursor, and what it handed since the list changed
    mvSteps

mvVars == <<mvPrefs, mvStored, mvRound, mvUp, mvTimers, mvStation, mvCones, mvTwo, mvOpen, mvBeam, mvSteps>>

-----------------------------------------------------------------------------
(* Beams *)

\* An antenna with the direction it stands in; the map draws its back on demand.
Turned(degrees) == (degrees + 360) % 360
HeadingOf(a) == IF a = "rotor1" THEN mvBeam.heading ELSE 0
FrontBeams ==
    {[of |-> a, at |-> HeadingOf(a)] : a \in {a \in mvStation.set : a = "fixed" \/ a \in mvPrefs.on}}
    \cup {[of |-> r, at |-> Turned(HeadingOf(r) + SecondTurn)] : r \in mvTwo \cap mvStation.set \cap mvPrefs.on}
BeamsDrawn ==
    {[beam |-> b, rear |-> FALSE] : b \in FrontBeams}
    \cup {[beam |-> [b EXCEPT !.at = Turned(@ + 180)], rear |-> TRUE] :
            b \in {b \in FrontBeams : "rear" \in mvPrefs.on}}

\* openStationsInBeam(): inside either antenna of rotor 1, the farthest first.
Apart(a, b) == LET d == Turned(a - b) IN IF d > 180 THEN 360 - d ELSE d
Inside(call, heading, two, angle) ==
    \E d \in {heading} \cup {h \in {heading + SecondTurn} : two} : 2 * Apart(MvBearing[call], Turned(d)) <= angle
FarthestFirst(list) == \A i, j \in DOMAIN list : i < j => MvKm[list[i]] > MvKm[list[j]]
Sorted(calls) == CHOOSE list \in [1..Cardinality(calls) -> calls] : FarthestFirst(list)
OpenInBeam ==
    IF "rotor1" \notin mvStation.set THEN <<>>
    ELSE Sorted({c \in mvOpen : Inside(c, mvBeam.heading, "rotor1" \in mvTwo, mvPrefs.width["rotor1"])})

\* Before a step that may change the list, its round of clicks is over.
ListMayChange == mvBeam' = [mvBeam EXCEPT !.handed = <<>>]

-----------------------------------------------------------------------------
(* Preferences *)

\* The dials take the map's angles.
ConesFor(antennas, prefs) == [a \in Antennas |-> IF a \in antennas THEN prefs.width[a] ELSE NoCone]
Kept_DialsOnly(prefs) ==
    mvPrefs' = prefs /\ mvCones' = ConesFor(mvStation.set, prefs) /\ UNCHANGED mvStored
\* notePreferenceChange() and MainWindow's answer to preferencesChanged.
Kept(prefs) ==
    mvPrefs' = prefs /\ mvStored' = prefs /\ mvCones' = ConesFor(mvStation.set, prefs)
\* applyRotorWidgetSettings(): the dials and the map take the station's settings.
StationApplied(station) ==
    mvStation' = station /\ mvTwo' = station.two /\ mvCones' = ConesFor(station.set, mvPrefs)

Step == mvUp /\ mvSteps < MvMaxSteps /\ mvSteps' = mvSteps + 1

\* A layer of the menu; two of them have a timer.
ToggleLayer(layer) ==
    LET on == IF layer \in mvPrefs.on THEN mvPrefs.on \ {layer} ELSE mvPrefs.on \cup {layer}
    IN /\ Step /\ Kept([mvPrefs EXCEPT !.on = on]) /\ mvTimers' = on \cap Timed
       /\ UNCHANGED <<mvRound, mvUp, mvStation, mvTwo, mvOpen, mvBeam>>

SetRotorAngle(r, degrees) ==
    /\ Step /\ mvPrefs.width[r] # degrees
    /\ Kept([mvPrefs EXCEPT !.width[r] = degrees]) /\ ListMayChange
    /\ UNCHANGED <<mvRound, mvUp, mvTimers, mvStation, mvTwo, mvOpen>>

\* The fixed antenna's angle is offered only with the antenna, and told nobody.
SetFixedAngle(degrees) ==
    /\ Step /\ "fixed" \in mvStation.set
    /\ mvPrefs' = [mvPrefs EXCEPT !.width["fixed"] = degrees]
    /\ UNCHANGED <<mvStored, mvRound, mvUp, mvTimers, mvStation, mvCones, mvTwo, mvOpen, mvBeam>>

\* "Eine Antenne (Stack)" or "Zwei Antennen": shown, stored, applied everywhere.
ChooseAntennas(r, two) ==
    /\ Step /\ two # (r \in mvTwo)
    /\ StationApplied([mvStation EXCEPT !.two = IF two THEN @ \cup {r} ELSE @ \ {r}]) /\ ListMayChange
    /\ UNCHANGED <<mvPrefs, mvStored, mvRound, mvUp, mvTimers, mvOpen>>

\* An antenna set up or given up in the settings or at the rotor panel's gear.
SetUpAntenna(a, on) ==
    /\ Step /\ on # (a \in mvStation.set)
    /\ StationApplied([mvStation EXCEPT !.set = IF on THEN @ \cup {a} ELSE @ \ {a}]) /\ ListMayChange
    /\ UNCHANGED <<mvPrefs, mvStored, mvRound, mvUp, mvTimers, mvOpen>>

-----------------------------------------------------------------------------
(* The air, and the click on "Offen in Richtung" *)

StationSeen(call) ==
    /\ Step /\ mvOpen' = mvOpen \cup {call} /\ ListMayChange
    /\ UNCHANGED <<mvPrefs, mvStored, mvRound, mvUp, mvTimers, mvStation, mvCones, mvTwo>>
StationWorked(call) ==
    /\ Step /\ call \in mvOpen /\ mvOpen' = mvOpen \ {call} /\ ListMayChange
    /\ UNCHANGED <<mvPrefs, mvStored, mvRound, mvUp, mvTimers, mvStation, mvCones, mvTwo>>
RotorTurned(heading) ==
    /\ Step /\ "rotor1" \in mvStation.set /\ heading # mvBeam.heading
    /\ mvBeam' = [mvBeam EXCEPT !.heading = heading, !.handed = <<>>]
    /\ UNCHANGED <<mvPrefs, mvStored, mvRound, mvUp, mvTimers, mvStation, mvCones, mvTwo, mvOpen>>

Following(cursor, size) == (cursor + 1) % size
OpenClicked ==
    LET list == OpenInBeam IN
    /\ mvUp /\ list # <<>> /\ Len(mvBeam.handed) <= Len(list)
    /\ mvBeam' = [mvBeam EXCEPT !.cursor = Following(@, Len(list)),
                                !.handed = Append(@, list[(mvBeam.cursor % Len(list)) + 1])]
    /\ UNCHANGED <<mvPrefs, mvStored, mvRound, mvUp, mvTimers, mvStation, mvCones, mvTwo, mvOpen, mvSteps>>

-----------------------------------------------------------------------------
(* Starting and ending *)

\* The stored text is applied; an older database gets the round disc, once.
Started ==
    /\ ~mvUp /\ mvUp' = TRUE /\ mvRound' = TRUE
    /\ LET prefs == IF mvRound THEN mvStored ELSE [mvStored EXCEPT !.on = @ \ {"fit"}]
       IN /\ mvPrefs' = prefs /\ mvStored' = prefs
          /\ mvTimers' = prefs.on \cap Timed /\ mvCones' = ConesFor(mvStation.set, prefs)
    /\ mvTwo' = mvStation.two
    /\ UNCHANGED <<mvStation, mvOpen, mvBeam, mvSteps>>
\* It dies between the mark and the text.
StartCutShort ==
    /\ ~mvUp /\ ~mvRound /\ mvRound' = TRUE
    /\ UNCHANGED <<mvPrefs, mvStored, mvUp, mvTimers, mvStation, mvCones, mvTwo, mvOpen, mvBeam, mvSteps>>
Ended ==
    /\ Step /\ mvUp' = FALSE /\ mvTimers' = {}
    /\ mvOpen' = {} /\ mvBeam' = [heading |-> 0, cursor |-> 0, handed |-> <<>>]
    /\ UNCHANGED <<mvPrefs, mvStored, mvRound, mvStation, mvCones, mvTwo>>

OldTexts ==
    {[on |-> on \cup {"rotor1", "rotor2"}, width |-> [a \in Antennas |-> CHOOSE w \in MvAngles : TRUE]] :
        on \in {{}, {"fit"}, {"fit", "aging"}}}
MvInit ==
    /\ mvStored \in OldTexts /\ mvPrefs = mvStored /\ mvRound \in BOOLEAN
    /\ mvUp = FALSE /\ mvTimers = {} /\ mvOpen = {} /\ mvSteps = 0
    /\ mvStation = [set |-> {"rotor1"}, two |-> {}] /\ mvTwo = {}
    /\ mvCones = [a \in Antennas |-> NoCone]
    /\ mvBeam = [heading |-> 0, cursor |-> 0, handed |-> <<>>]

MvNext ==
    \/ \E layer \in MapLayers : ToggleLayer(layer)
    \/ \E r \in Rotors, w \in MvAngles : SetRotorAngle(r, w)
    \/ \E w \in MvAngles : SetFixedAngle(w)
    \/ \E r \in Rotors, two \in BOOLEAN : ChooseAntennas(r, two)
    \/ \E a \in Antennas, on \in BOOLEAN : SetUpAntenna(a, on)
    \/ \E c \in MvCalls : StationSeen(c) \/ StationWorked(c)
    \/ \E h \in MvHeadings : RotorTurned(h)
    \/ OpenClicked \/ Started \/ StartCutShort \/ Ended

MvSpec == MvInit /\ [][MvNext]_mvVars

-----------------------------------------------------------------------------
(* Properties *)

\* Type invariant.
MvTypeOK ==
    /\ mvPrefs.on \subseteq MapLayers /\ mvPrefs.width \in [Antennas -> MvAngles]
    /\ mvStored.on \subseteq MapLayers /\ mvStored.width \in [Antennas -> MvAngles]
    /\ mvRound \in BOOLEAN /\ mvUp \in BOOLEAN /\ mvTimers \subseteq Timed
    /\ mvStation.set \subseteq Antennas /\ mvStation.two \subseteq Rotors /\ mvTwo \subseteq Rotors
    /\ mvCones \in [Antennas -> MvAngles \cup {NoCone}]
    /\ mvOpen \subseteq MvCalls /\ mvBeam.cursor \in Nat /\ mvSteps \in 0..MvMaxSteps

\* "one number, two instruments" (ui/MainWindow.cpp:818-819): what the next start
\* will read is what the map shows, the dials' cones and the map's agree however
\* dials come and go, and the timers run for the layers that need them.
MapAndDialsAgree ==
    mvUp =>
        /\ mvStored.on = mvPrefs.on /\ mvTimers = mvPrefs.on \cap Timed
        /\ \A r \in Rotors : mvStored.width[r] = mvPrefs.width[r]
                             /\ mvCones[r] = (IF r \in mvStation.set THEN mvPrefs.width[r] ELSE NoCone)
        /\ mvTwo = mvStation.two
        /\ \A r \in Rotors \cap mvStation.set \cap mvPrefs.on :
             Cardinality({b \in BeamsDrawn : b.beam.of = r /\ ~b.rear}) = (IF r \in mvStation.two THEN 2 ELSE 1)

\* "each click hands the next one" (ui/MapWidget.cpp:1829-1831): while the list
\* stands, no station is handed twice before every open one was.
EachOpenStationOnce ==
    Len(mvBeam.handed) <= Len(OpenInBeam) => IsInjective(mvBeam.handed)

\* The same for the fixed antenna ("the one place the beamwidth lives; the dials'
\* cones follow it", ui/MainWindow.cpp:2698-2700).
FixedConeFollows == mvUp /\ "fixed" \in mvStation.set => mvCones["fixed"] = mvPrefs.width["fixed"]

\* The map's word: layers, cones and rear lobes as chosen, open stations in turn
\* (MapWidget::applyPreferencesText, MapWidget::mousePressEvent).
MapKeepsItsWord == MapAndDialsAgree /\ EachOpenStationOnce
=============================================================================
