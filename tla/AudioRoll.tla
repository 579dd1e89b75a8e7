------------------------------ MODULE AudioRoll ------------------------------
(***************************************************************************)
(* The recording that runs for hours: core/QsoAudioRecorder writes WAV      *)
(* files and an index beside each, core/QsoAudioCapture holds the sound     *)
(* device, AppController::applySettings starts and stops both and the       *)
(* button in the status bar (MainWindow) is the only switch.  Frames stand  *)
(* for seconds; a file's size fields are filled in when it is closed, if    *)
(* the disk still takes them: nobody looks whether it did.                  *)
(***************************************************************************)
EXTENDS Integers, FiniteSets, FiniteSetsExt

CONSTANTS
    ArRolls,      \* the lengths the operator sets; 0 is "never"
    ArChunk,      \* the largest read of onReadyRead()
    ArWrap,       \* frames at which the 32-bit size fields start over
    ArHorizon,    \* bound: seconds of the PC's clock
    ArMaxFeeds,   \* bound: reads of the device
    ArMaxFiles,   \* bound: files
    ArMaxFaults   \* bound: failures and crashes

AudioAssumption ==
    /\ ArRolls \subseteq Nat /\ ArChunk \in Nat \ {0} /\ ArWrap \in Nat \ {0}
    /\ ArMaxFiles \in Nat /\ ArHorizon \in Nat \ {0} /\ ArMaxFeeds \in Nat /\ ArMaxFaults \in Nat
ASSUME AudioAssumption

VARIABLES
    arSet,      \* the settings: [on, folder, device, roll]
    arCapture,  \* QsoAudioCapture::m_source, by m_deviceName
    arOpen,     \* QsoAudioRecorder::m_file: the name of the open file
    arFiles,    \* the files: name -> [data, header, marks, cut]; data is what the
                \* recorder counts, cut (history) that a crash or the disk ended it
    arSays,     \* what the button in the status bar says
    arNow,      \* the PC's clock, in seconds
    arFeeds, arFaults

arVars == <<arSet, arCapture, arOpen, arFiles, arSays, arNow, arFeeds, arFaults>>

\* Device "" is the default input, which is Inbuilt.
Inbuilt == "inbuilt"
SoundDevices == {"", Inbuilt, "usb"}
DeviceOf(name) == IF name = "" THEN Inbuilt ELSE name
CaptureOff == "off"

\* A file is named by its second and a running number.
NoRecording == <<0, 0>>
FreeName(second, names) ==
    <<second, Min({n \in 1..(Cardinality(names) + 1) : <<second, n>> \notin names})>>

FreshFile == [data |-> 0, header |-> 0, marks |-> {}, cut |-> FALSE]
With(f, name, file) == [n \in DOMAIN f \cup {name} |-> IF n = name THEN file ELSE f[n]]

-----------------------------------------------------------------------------
(* The recorder.  r is [open, files]; a step of it gives the next one.     *)

\* patchWavHeader(): taken is FALSE when a seek, a write or the flush fails, which
\* goes unnoticed: the size fields, or the last sound in the buffer, are missing.
Patched_NotYet(file, taken) == IF taken THEN file ELSE [file EXCEPT !.cut = TRUE]
Patched(file, taken) ==
    IF taken THEN [file EXCEPT !.header = file.data % ArWrap] ELSE [file EXCEPT !.cut = TRUE]

\* closeFile()
CloseFile(r, taken) ==
    IF r.open = NoRecording THEN r
    ELSE [open |-> NoRecording, files |-> With(r.files, r.open, Patched(r.files[r.open], taken))]

\* openNewFile(): a fresh name, its index removed.
OpenNewFile(r, ok) ==
    LET name == FreeName(arNow, DOMAIN r.files)
    IN  IF ok THEN [open |-> name, files |-> With(r.files, name, FreshFile)] ELSE r

RollDue(file) == arSet.roll > 0 /\ file.data >= arSet.roll

\* feed(): written is FALSE for a write that fails; room is enoughSpace().
FeedRecorder(r, n, written, room, opens, taken) ==
    LET grown == [r EXCEPT !.files[r.open].data = @ + n]
    IN  IF r.open = NoRecording THEN r
        ELSE IF ~written THEN CloseFile(r, taken)
        ELSE IF ~RollDue(grown.files[r.open]) THEN grown
        ELSE IF ~room THEN CloseFile(grown, taken)
        ELSE OpenNewFile(CloseFile(grown, taken), opens)

-----------------------------------------------------------------------------
(* applySettings()                                                         *)

Recorder == [open |-> arOpen, files |-> arFiles]
Wanted(s) == s.on /\ s.folder

\* Both are started, the device first; each start may fail.
StartBoth(device, r, deviceOk, fileOk) ==
    IF deviceOk /\ fileOk THEN [capture |-> DeviceOf(device), r |-> OpenNewFile(r, TRUE)]
    ELSE [capture |-> CaptureOff, r |-> r]

ApplyAudio(s, deviceOk, fileOk, taken) ==
    LET runs == arCapture # CaptureOff
        moved == s.device # "" /\ arCapture # s.device
    IN  IF ~Wanted(s) /\ runs THEN [capture |-> CaptureOff, r |-> CloseFile(Recorder, taken)]
        ELSE IF Wanted(s) /\ ~runs THEN StartBoth(s.device, Recorder, deviceOk, fileOk)
        ELSE IF Wanted(s) /\ moved THEN StartBoth(s.device, CloseFile(Recorder, taken), deviceOk, fileOk)
        ELSE [capture |-> arCapture, r |-> Recorder]

\* aktualisiereMitschnittAnzeige(): what the button says.
ButtonText(open, s) ==
    IF open # NoRecording THEN "stop" ELSE IF ~s.folder THEN "choose folder" ELSE "start"

SetAudio(s) ==
    \E deviceOk, fileOk, taken \in BOOLEAN :
        LET next == ApplyAudio(s, deviceOk, fileOk, taken)
            missed == IF deviceOk /\ fileOk /\ taken THEN 0 ELSE 1
        IN  /\ arFaults' = arFaults + missed
            /\ arFaults' <= ArMaxFaults
            /\ arSet' = s
            /\ arCapture' = next.capture
            /\ arOpen' = next.r.open
            /\ arFiles' = next.r.files
            /\ Cardinality(DOMAIN arFiles') <= ArMaxFiles
            /\ arSays' = ButtonText(next.r.open, s)

-----------------------------------------------------------------------------
(* The steps                                                               *)

\* Without a folder the button only explains itself.
PressRecord ==
    /\ arSet.on \/ arSet.folder
    /\ SetAudio([arSet EXCEPT !.on = ~@])
    /\ UNCHANGED <<arNow, arFeeds>>

\* The dialog passes `on` through; any other change of a setting applies all of them too.
SaveAudioSettings ==
    \E folder \in BOOLEAN, device \in SoundDevices, roll \in ArRolls :
        /\ SetAudio([arSet EXCEPT !.folder = folder, !.device = device, !.roll = roll])
        /\ UNCHANGED <<arNow, arFeeds>>

\* onReadyRead().
SoundArrives ==
    /\ arCapture # CaptureOff
    /\ arFeeds < ArMaxFeeds
    /\ \E n \in 1..ArChunk, written, room, opens, taken \in BOOLEAN :
          LET r == FeedRecorder(Recorder, n, written, room, opens, taken)
              missed == IF written /\ room /\ opens /\ taken THEN 0 ELSE 1
          IN  /\ arFaults + missed <= ArMaxFaults
              /\ arFaults' = arFaults + missed
              /\ arOpen' = r.open
              /\ arFiles' = r.files
              /\ Cardinality(DOMAIN arFiles') <= ArMaxFiles
              /\ arSays' = ButtonText(r.open, arSet)
    /\ arFeeds' = arFeeds + 1
    /\ UNCHANGED <<arSet, arCapture, arNow>>

\* markQso(), at every QSO of AppController::publishQso.
MarkQso ==
    /\ arOpen # NoRecording
    /\ arFiles' = [arFiles EXCEPT ![arOpen].marks = @ \cup {arFiles[arOpen].data}]
    /\ UNCHANGED <<arSet, arCapture, arOpen, arSays, arNow, arFeeds, arFaults>>

SecondPasses ==
    /\ arNow < ArHorizon
    /\ arNow' = arNow + 1
    /\ UNCHANGED <<arSet, arCapture, arOpen, arFiles, arSays, arFeeds, arFaults>>

\* A new start never records by itself.
StartsWith(r) ==
    /\ arSet' = [arSet EXCEPT !.on = FALSE]
    /\ arCapture' = CaptureOff
    /\ arOpen' = NoRecording
    /\ arFiles' = r.files
    /\ arSays' = ButtonText(NoRecording, arSet)
    /\ UNCHANGED <<arNow, arFeeds>>

\* ~QsoAudioRecorder() closes the file; a crash leaves it as it is.
QuitAndStart ==
    /\ arSet.on
    /\ \/ StartsWith(CloseFile(Recorder, TRUE)) /\ UNCHANGED arFaults
       \/ /\ arOpen # NoRecording /\ arFaults < ArMaxFaults
          /\ StartsWith(CloseFile(Recorder, FALSE)) /\ arFaults' = arFaults + 1
CrashAndStart ==
    /\ arOpen # NoRecording /\ arFaults < ArMaxFaults
    /\ StartsWith([Recorder EXCEPT !.files[arOpen].cut = TRUE])
    /\ arFaults' = arFaults + 1

ArInit ==
    /\ \E folder \in BOOLEAN, device \in SoundDevices, roll \in ArRolls :
          arSet = [on |-> FALSE, folder |-> folder, device |-> device, roll |-> roll]
    /\ arCapture = CaptureOff
    /\ arOpen = NoRecording
    /\ arFiles = [n \in {} |-> FreshFile]
    /\ arSays = ButtonText(NoRecording, arSet)
    /\ arNow = 1 /\ arFeeds = 0 /\ arFaults = 0

ArNext ==
    \/ PressRecord \/ SaveAudioSettings \/ SoundArrives \/ MarkQso
    \/ SecondPasses \/ QuitAndStart \/ CrashAndStart

ArSpec == ArInit /\ [][ArNext]_arVars

-----------------------------------------------------------------------------
(* The properties                                                          *)

\* The fields have the shapes of the members of QsoAudioRecorder and
\* QsoAudioCapture, and an open file is one of the files.
ArTypeOK ==
    /\ arSet \in [on : BOOLEAN, folder : BOOLEAN, device : SoundDevices, roll : ArRolls]
    /\ arCapture \in SoundDevices \cup {CaptureOff}
    /\ arOpen \in DOMAIN arFiles \cup {NoRecording}
    /\ \A n \in DOMAIN arFiles : arFiles[n].data \in Nat /\ arFiles[n].marks \subseteq Nat
    /\ arSays \in {"start", "stop", "choose folder"}
    /\ arNow \in 1..ArHorizon /\ arFeeds \in 0..ArMaxFeeds /\ arFaults \in 0..ArMaxFaults

\* A file that is done can be played and its index leads into it: the header
\* names what is in it, unless a crash or the disk kept the recorder from writing
\* it (QsoAudioRecorder.h: "weil die Groessenfelder jeder abgeschlossenen Datei
\* schon stimmen"), and the recorder never writes without a device.
FinishedIsPlayable ==
    /\ \A n \in DOMAIN arFiles :
          /\ n # arOpen /\ ~arFiles[n].cut /\ arFiles[n].data < ArWrap => arFiles[n].header = arFiles[n].data
          /\ \A s \in arFiles[n].marks : s <= arFiles[n].data
    /\ arOpen # NoRecording => arCapture # CaptureOff

\* What is recorded stays: no later recording, roll, start, failure or crash takes
\* away sound or index lines (openNewFile(): a name used before "LOESCHTE die
\* fertige Datei"), or changes anything of a file that is closed.
NothingIsLost ==
    \A n \in DOMAIN arFiles :
        /\ n \in DOMAIN arFiles'
        /\ n # arOpen => arFiles'[n] = arFiles[n]
        /\ arFiles'[n].data >= arFiles[n].data
        /\ arFiles[n].marks \subseteq arFiles'[n].marks
RecordingsAreKept == [][FinishedIsPlayable' /\ NothingIsLost]_arVars

\* The button does what it says (aktualisiereMitschnittAnzeige(): "Der Knopf
\* sagt, was der Druck TUT"): pressed while it offers to start, it asks for
\* the recording, and pressed while it offers to stop, it ends it.
ButtonDoesWhatItSays ==
    [][arSet'.on # arSet.on /\ PressRecord => arSet'.on = (arSays = "start")]_arVars
=============================================================================
