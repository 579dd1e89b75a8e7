------------------------------- MODULE Settings -------------------------------
(***************************************************************************)
(* The settings: the form of ui/SettingsDialog, what setSettings() does     *)
(* with it to the running log, and the single writes of                     *)
(* ContestSettings::saveTo(), between which the program can die.  A locator *)
(* is a model value; the distance of a QSO is the locator it was measured   *)
(* from; an elevation is the place it belongs to.                           *)
(***************************************************************************)
EXTENDS Integers, Sequences, FiniteSets

CONSTANTS
    StGrids,        \* locators of the station; the first stored one is StHome
    StHome,
    StContests,     \* contests; StFirst stands first in the list
    StFirst,
    StBands,        \* bands with a rotor of their own
    StMaxQsos,      \* bound: QSOs made
    StMaxFaults,    \* bound: crashes, failing writes
    StMaxEdits      \* bound: changes in one dialog

SettingsAssumption ==
    /\ StHome \in StGrids /\ StFirst \in StContests
    /\ StMaxQsos \in Nat /\ StMaxFaults \in Nat /\ StMaxEdits \in Nat
ASSUME SettingsAssumption

StandardInput == "standard"
StRotors == {"rotor1", "rotor2"}
\* The order in which saveTo() writes them.
SettingFields == <<"grid", "elev", "contest", "on", "slot", "rec", "device">>

VARIABLES
    stLive,       \* m_settings
    stStored,     \* the settings table
    stForm,       \* the open dialog, or NoForm
    stLog,        \* the QSOs: sequence of [contest, from, gone]
    stEven,       \* contests whose QSOs are all measured from one place (history)
    stTorn,       \* a save was cut off or a write failed (history)
    stFaults

stVars == <<stLive, stStored, stForm, stLog, stEven, stTorn, stFaults>>

NoForm == [open |-> FALSE]

-----------------------------------------------------------------------------
(* The dialog *)

\* A combo box shows the value when it has it, else its first entry.
ComboShows(value, entries, first) == IF value \in entries THEN value ELSE first
SlotEntries(on) == {"none"} \cup {i \in StRotors : on[i]}
\* inputDeviceNames(): what is plugged in just now.
InputDevices == {{StandardInput}, {StandardInput, "usb"}}

OpenSettingsDialog ==
    /\ ~stForm.open
    /\ \E inputs \in InputDevices :
          stForm' = [open |-> TRUE, edits |-> 0, awaited |-> {}, inputs |-> inputs,
                     s |-> [stLive EXCEPT
                               !.slot = [b \in StBands |-> ComboShows(stLive.slot[b], SlotEntries(stLive.on), "none")],
                               !.contest = ComboShows(@, StContests, StFirst),
                               !.device = ComboShows(@, inputs, StandardInput)]]
    /\ UNCHANGED <<stLive, stStored, stLog, stEven, stTorn, stFaults>>

EditForm(s) ==
    /\ stForm.open /\ stForm.edits < StMaxEdits
    /\ stForm' = [stForm EXCEPT !.s = s, !.edits = @ + 1]
    /\ UNCHANGED <<stLive, stStored, stLog, stEven, stTorn, stFaults>>

TypeGrid(grid) == EditForm([stForm.s EXCEPT !.grid = grid])
ChooseContest(contest) == EditForm([stForm.s EXCEPT !.contest = contest])
ChooseDevice(device) == device \in stForm.inputs /\ EditForm([stForm.s EXCEPT !.device = device])
ChooseSlot(band, slot) ==
    /\ slot \in SlotEntries(stForm.s.on)
    /\ EditForm([stForm.s EXCEPT !.slot[band] = slot])

\* refreshBandRotorCombos(): filled again, a choice that is gone becomes "Kein Rotor".
RefreshBandRotorCombos(s) ==
    [s EXCEPT !.slot = [b \in StBands |-> ComboShows(@[b], SlotEntries(s.on), "none")]]

ToggleRotor(rotor) == EditForm(RefreshBandRotorCombos([stForm.s EXCEPT !.on[rotor] = ~@]))

\* applyGpsCoordinates(): the locator at once, the elevation when its tile is there; until then
\* the button stays grey.
ApplyGpsCoordinates(grid) ==
    /\ stForm.open /\ stForm.awaited = {} /\ stForm.edits < StMaxEdits
    /\ \E atHand \in BOOLEAN :
          stForm' = [stForm EXCEPT !.edits = @ + 1, !.s.grid = grid,
                        !.s.elev = IF atHand THEN grid ELSE @,
                        !.awaited = IF atHand THEN {} ELSE {grid}]
    /\ UNCHANGED <<stLive, stStored, stLog, stEven, stTorn, stFaults>>

\* tileLoaded or tileLoadFailed.
ElevationArrives(found) ==
    /\ stForm.open /\ stForm.awaited # {}
    /\ stForm' = [stForm EXCEPT !.awaited = {}, !.s.elev = IF found THEN CHOOSE g \in stForm.awaited : TRUE ELSE @]
    /\ UNCHANGED <<stLive, stStored, stLog, stEven, stTorn, stFaults>>

CancelSettings ==
    /\ stForm.open
    /\ stForm' = NoForm
    /\ UNCHANGED <<stLive, stStored, stLog, stEven, stTorn, stFaults>>

-----------------------------------------------------------------------------
(* setSettings() *)

\* Mutant: the log of the contest that was active before is measured again.
Remeasured_OldContest(s) ==
    [i \in DOMAIN stLog |-> IF stLog[i].contest = stLive.contest /\ ~stLog[i].gone
                            THEN [stLog[i] EXCEPT !.from = s.grid] ELSE stLog[i]]

\* recomputeDistances(): every QSO in the table of the contest that is active from now on.
Remeasured(s) ==
    [i \in DOMAIN stLog |-> IF stLog[i].contest = s.contest /\ ~stLog[i].gone
                            THEN [stLog[i] EXCEPT !.from = s.grid] ELSE stLog[i]]

\* The contests measured from one place after the locator changed with the contest s.contest:
\* those with nothing in the log count as such.
StaysEven(s, measured) ==
    IF s.grid = stLive.grid THEN stEven
    ELSE {c \in StContests : (c = s.contest /\ measured) \/ \A i \in DOMAIN stLog : stLog[i].contest # c}

\* saveTo(): one write for each field; `written` are those that reached the table.
SaveTo(s, written) == [f \in DOMAIN s |-> IF f \in written THEN s[f] ELSE stStored[f]]
AllFields == {SettingFields[i] : i \in DOMAIN SettingFields}

\* loadFrom(): the recording is never switched on by a start.
LoadFrom(stored) == [stored EXCEPT !.rec = FALSE]

\* The measuring may fail and be rolled back, a write may fail; neither is reported.
SetSettings(s) ==
    \E measured \in BOOLEAN, failed \in {{}} \cup {{f} : f \in AllFields} :
        /\ (~measured => s.grid # stLive.grid) /\ (measured => failed = {} \/ stFaults < StMaxFaults)
        /\ (~measured => failed = {} /\ stFaults < StMaxFaults)
        /\ stLog' = IF s.grid # stLive.grid /\ measured THEN Remeasured(s) ELSE stLog
        /\ stEven' = StaysEven(s, measured)
        /\ stLive' = s
        /\ stStored' = SaveTo(s, AllFields \ failed)
        /\ stTorn' = (stTorn \/ failed # {})
        /\ stFaults' = stFaults + (IF measured /\ failed = {} THEN 0 ELSE 1)
        /\ stForm' = NoForm

\* The program dies while it saves: the log is measured, the first `count` fields are written.
DieWhileSaving(s, count) ==
    /\ stFaults < StMaxFaults
    /\ stLog' = IF s.grid # stLive.grid THEN Remeasured(s) ELSE stLog
    /\ stStored' = SaveTo(s, {SettingFields[i] : i \in 1..count})
    /\ stLive' = LoadFrom(stStored')
    /\ stEven' = IF stLive'.grid = s.grid THEN StaysEven(s, TRUE)
                 ELSE IF stLive'.grid = stLive.grid THEN stEven \ {s.contest} ELSE {}
    /\ stTorn' = TRUE
    /\ stFaults' = stFaults + 1
    /\ stForm' = NoForm

PressOk ==
    /\ stForm.open
    /\ \/ SetSettings(stForm.s)
       \/ \E count \in 0..(Len(SettingFields) - 1) : DieWhileSaving(stForm.s, count)

\* openContestPicker(): the contest and the locator in one dialog.
PickContestAndGrid(contest, grid) ==
    /\ ~stForm.open
    /\ contest # stLive.contest \/ grid # stLive.grid
    /\ SetSettings([stLive EXCEPT !.contest = contest, !.grid = grid])

\* The button in the status bar.
ToggleRecording ==
    /\ ~stForm.open
    /\ SetSettings([stLive EXCEPT !.rec = ~@])

-----------------------------------------------------------------------------
(* The log *)

LogFromHere ==
    /\ ~stForm.open /\ Len(stLog) < StMaxQsos
    /\ stLog' = Append(stLog, [contest |-> stLive.contest, from |-> stLive.grid, gone |-> FALSE])
    /\ UNCHANGED <<stLive, stStored, stForm, stEven, stTorn, stFaults>>

\* A QSO is deleted, or taken back with the distance it had.
DeleteOrTakeBack(i) ==
    /\ ~stForm.open
    /\ stLog[i].gone \/ stLog[i].contest = stLive.contest
    /\ stLog' = [stLog EXCEPT ![i].gone = ~@]
    /\ stEven' = IF stLog[i].gone /\ stLog[i].from # stLive.grid THEN stEven \ {stLog[i].contest} ELSE stEven
    /\ UNCHANGED <<stLive, stStored, stForm, stTorn, stFaults>>

RestartSettings ==
    /\ stLive' = LoadFrom(stStored)
    /\ stForm' = NoForm
    /\ stEven' = IF stStored.grid = stLive.grid /\ stStored.contest = stLive.contest THEN stEven ELSE {}
    /\ UNCHANGED <<stStored, stLog, stTorn, stFaults>>

StDefaults == [grid |-> StHome, elev |-> StHome, contest |-> StFirst, on |-> [i \in StRotors |-> TRUE],
               slot |-> [b \in StBands |-> "rotor1"], rec |-> FALSE, device |-> StandardInput]

StInit ==
    /\ stLive = StDefaults /\ stStored = StDefaults /\ stForm = NoForm /\ stLog = <<>>
    /\ stEven = StContests /\ stTorn = FALSE /\ stFaults = 0

DialogStep ==
    \/ \E g \in StGrids : TypeGrid(g) \/ ApplyGpsCoordinates(g)
    \/ \E c \in StContests : ChooseContest(c)
    \/ \E d \in {StandardInput, "usb"} : ChooseDevice(d)
    \/ \E b \in StBands, slot \in {"none"} \cup StRotors : ChooseSlot(b, slot)
    \/ \E i \in StRotors : ToggleRotor(i)
    \/ \E found \in BOOLEAN : ElevationArrives(found)
    \/ CancelSettings \/ PressOk

StNext ==
    \/ OpenSettingsDialog \/ (stForm.open /\ DialogStep)
    \/ \E c \in StContests, g \in StGrids : PickContestAndGrid(c, g)
    \/ ToggleRecording \/ LogFromHere \/ RestartSettings
    \/ \E i \in DOMAIN stLog : DeleteOrTakeBack(i)

StSpec == StInit /\ [][StNext]_stVars

-----------------------------------------------------------------------------
(* Properties *)

\* Type invariant.
StTypeOK ==
    /\ \A s \in {stLive, stStored} :
          /\ s.grid \in StGrids /\ s.elev \in StGrids /\ s.contest \in StContests /\ s.rec \in BOOLEAN
          /\ s.device \in {StandardInput, "usb"}
          /\ \A b \in StBands : s.slot[b] \in {"none"} \cup StRotors
    /\ \A i \in DOMAIN stLog : stLog[i].from \in StGrids
    /\ stEven \subseteq StContests /\ stFaults \in 0..StMaxFaults

\* The running log is measured from the own locator throughout, wherever the locator and the contest
\* were changed, unless the measuring failed, the program died in the middle, a QSO came back with an
\* old distance, or the locator changed while another contest was active.
\* And a band is routed only to a rotor that is switched on, unless a save was cut off.
SettingsAgree ==
    /\ stLive.contest \in stEven =>
          \A i \in DOMAIN stLog : (stLog[i].contest = stLive.contest /\ ~stLog[i].gone) => stLog[i].from = stLive.grid
    /\ stTorn \/ \A b \in StBands : stLive.slot[b] \in SlotEntries(stLive.on)
===============================================================================
