--------------------------- MODULE MCDeskStation ---------------------------
(***************************************************************************)
(* The window and the station's instruments, in small instances for TLC:    *)
(* panels, rotor dials, map, waterfall, settings, contest rules, recording  *)
(* and the spots of a DX cluster.  As in MCDeskLog a behaviour is one of a  *)
(* single part, and the others lie asleep.                                  *)
(***************************************************************************)
EXTENDS PanelLayout, RotorPanel, MapView, Settings, RuleBook, AudioRoll, SpotLink, Waterfall

CONSTANT Parts   \* the parts that are looked at
VARIABLE part    \* the part of this behaviour
deskVars == <<part, pnVars, rpVars, mvVars, stVars, rbVars, arVars, spVars, wfVars>>

-----------------------------------------------------------------------------
(* Values for the constants *)

\* Two stations ahead and one in the second antenna's direction.
ThreeBearings == [a |-> 0, b |-> 10, c |-> 90]
ThreeDistances == [a |-> 100, b |-> 300, c |-> 200]

\* A contest in every mode, and a VHF contest that counts kilometres.
Definition(id, allModes, distance, asked, schedule, everyday) ==
    [id |-> id, vhf |-> TRUE, allModes |-> allModes, distance |-> distance, fields |-> asked,
     schedule |-> schedule, everyday |-> everyday]
TwoShipped == <<Definition("all", TRUE, FALSE, {"rst"}, FALSE, TRUE),
                Definition("vhf", TRUE, TRUE, {"grid", "serial"}, TRUE, FALSE)>>

\* One station, heard on two bands.
OneOnTwoBands == {[call |-> "OK1A", band |-> "144"], [call |-> "OK1A", band |-> "432"]}

-----------------------------------------------------------------------------
Asleep == 0

PanelsInit == IF part = "panels" THEN PnInit ELSE panels = Asleep /\ pnPut = Asleep /\ pnSteps = Asleep
RotorsInit ==
    IF part = "rotors" THEN RpInit
    ELSE rpSettings = Asleep /\ rpDial = Asleep /\ rpOnMap = Asleep /\ rpRotor = Asleep /\ rpAsk = Asleep /\ rpSteps = Asleep
MapInit ==
    IF part = "map" THEN MvInit
    ELSE /\ mvPrefs = Asleep /\ mvStored = Asleep /\ mvRound = Asleep /\ mvUp = Asleep /\ mvTimers = Asleep
         /\ mvStation = Asleep /\ mvCones = Asleep /\ mvTwo = Asleep /\ mvOpen = Asleep /\ mvBeam = Asleep
         /\ mvSteps = Asleep
SettingsInit ==
    IF part = "settings" THEN StInit
    ELSE /\ stLive = Asleep /\ stStored = Asleep /\ stForm = Asleep /\ stLog = Asleep /\ stEven = Asleep
         /\ stTorn = Asleep /\ stFaults = Asleep
RulesInit ==
    IF part = "rules" THEN RbInit
    ELSE /\ rbOwn = Asleep /\ rbKnown = Asleep /\ rbActive = Asleep /\ rbEditor = Asleep /\ rbShown = Asleep
         /\ rbTorn = Asleep /\ rbFaults = Asleep /\ rbEdits = Asleep
AudioInit ==
    IF part = "audio" THEN ArInit
    ELSE /\ arSet = Asleep /\ arCapture = Asleep /\ arOpen = Asleep /\ arFiles = Asleep /\ arSays = Asleep
         /\ arNow = Asleep /\ arFeeds = Asleep /\ arFaults = Asleep
SpotsInit ==
    IF part = "spots" THEN SpInit
    ELSE /\ spLink = Asleep /\ spHost = Asleep /\ spWire = Asleep /\ spBuffer = Asleep /\ spMap = Asleep
         /\ spShown = Asleep /\ spBand = Asleep /\ spLog = Asleep /\ spStale = Asleep /\ spNow = Asleep
         /\ spSent = Asleep /\ spEvents = Asleep
WaterfallInit ==
    IF part = "waterfall" THEN WfInit
    ELSE /\ wfSet = Asleep /\ wfLine = Asleep /\ wfOrder = Asleep /\ wfScale = Asleep /\ wfPanel = Asleep
         /\ wfPicture = Asleep /\ wfSide = Asleep /\ wfLines = Asleep /\ wfEvents = Asleep

DeskInit ==
    /\ part \in Parts
    /\ PanelsInit /\ RotorsInit /\ MapInit /\ SettingsInit /\ RulesInit /\ AudioInit /\ SpotsInit /\ WaterfallInit

DeskNext ==
    \/ part = "panels" /\ PnNext /\ UNCHANGED <<part, rpVars, mvVars, stVars, rbVars, arVars, spVars, wfVars>>
    \/ part = "rotors" /\ RpNext /\ UNCHANGED <<part, pnVars, mvVars, stVars, rbVars, arVars, spVars, wfVars>>
    \/ part = "map" /\ MvNext /\ UNCHANGED <<part, pnVars, rpVars, stVars, rbVars, arVars, spVars, wfVars>>
    \/ part = "settings" /\ StNext /\ UNCHANGED <<part, pnVars, rpVars, mvVars, rbVars, arVars, spVars, wfVars>>
    \/ part = "rules" /\ RbNext /\ UNCHANGED <<part, pnVars, rpVars, mvVars, stVars, arVars, spVars, wfVars>>
    \/ part = "audio" /\ ArNext /\ UNCHANGED <<part, pnVars, rpVars, mvVars, stVars, rbVars, spVars, wfVars>>
    \/ part = "spots" /\ SpNext /\ UNCHANGED <<part, pnVars, rpVars, mvVars, stVars, rbVars, arVars, wfVars>>
    \/ part = "waterfall" /\ WfNext /\ UNCHANGED <<part, pnVars, rpVars, mvVars, stVars, rbVars, arVars, spVars>>

DeskSpec == DeskInit /\ [][DeskNext]_deskVars

-----------------------------------------------------------------------------
(* The properties of the parts, each looked at in the behaviours of its part. *)

\* Type invariant: those of the parts.
DeskTypeOK ==
    /\ part \in Parts
    /\ part = "panels" => PnTypeOK
    /\ part = "rotors" => RpTypeOK
    /\ part = "map" => MvTypeOK
    /\ part = "settings" => StTypeOK
    /\ part = "rules" => RbTypeOK
    /\ part = "audio" => ArTypeOK
    /\ part = "spots" => SpTypeOK
    /\ part = "waterfall" => WfTypeOK

\* Panels find back to their places, and map and dials show one heading and what
\* was chosen, see PanelLayout (PanelLayoutManager::clampPanelToCanvas), RotorPanel
\* (MainWindow::applyRotorSlot) and MapView (MapWidget).
WindowIsAsChosen ==
    /\ part = "panels" => CanvasComesBack
    /\ part = "rotors" => MapFollowsDial
    /\ part = "map" => MapKeepsItsWord
\* Log and settings agree on the locator, and the contest that is active can be
\* worked by, see Settings (AppController::setSettings) and RuleBook (ContestRulesDialog).
SettingsHold == (part = "settings" => SettingsAgree) /\ (part = "rules" => RulesStayUsable)
\* Files of the recorder, see AudioRoll (QsoAudioRecorder).
SoundIsKept == [][part = "audio" => FinishedIsPlayable' /\ NothingIsLost]_deskVars
\* The bandmap shows what was spotted and the waterfall what was sent, see
\* SpotLink (DxClusterClient) and Waterfall (SpectrumClient).
DisplaysAreTrue == (part = "spots" => BandmapIsTrue) /\ (part = "waterfall" => WaterfallIsHonest)
=============================================================================
