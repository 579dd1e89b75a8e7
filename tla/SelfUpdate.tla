----------------------------- MODULE SelfUpdate -----------------------------
(***************************************************************************)
(* "Auf neueste Version aktualisieren": ui/UpdateDialog drives             *)
(* app/SelfUpdater through check, download, checksum, installation and     *)
(* restart.  The dialog is not modal, so the menu and the status bar can   *)
(* open another one; all of them download to the same path.                *)
(*                                                                         *)
(* A package is the set of its blocks that were written, a program on the  *)
(* disk is "old" (what runs), "new", or "torn", one that is not whole.     *)
(***************************************************************************)
EXTENDS Integers, FiniteSets

CONSTANTS
    UpdDialogs,   \* dialogs that can be open at once
    UpdKinds,     \* how this copy was installed: "mac", "appimage", on Windows
                  \* "portable" or by the "setup", or "none": a build that cannot
                  \* replace itself
    Blocks,       \* a package is Blocks writes long
    UpdMaxFaults  \* bound: what the network, the disk and the power do wrong

ASSUME SelfUpdateAssumption ==
    /\ UpdKinds \subseteq {"mac", "appimage", "portable", "setup", "none"}
    /\ Blocks \in Nat \ {0} /\ UpdMaxFaults \in Nat

VARIABLES
    kind,      \* m_target.kind, never changes
    release,   \* [newer, asset, sums]: what GitHub offers, and whether with checksums
    dialog,    \* each dialog's m_step, and where its updater is
    package,   \* the file at downloadDirectory()/assetName
    disk,      \* [place, staging, aside]: installPath and the two names beside it
    script,    \* the shell command or batch file that restarts: see Scripts
    up,        \* the program runs
    stranded,  \* history: what replaces the program failed or was cut off in the
               \* middle: between the renames, or while files were copied over it
    updFaults

updVars == <<kind, release, dialog, package, disk, script, up, stranded, updFaults>>

Steps == {"closed", "Checking", "UpToDate", "Offer", "Downloading", "Checksum",
          "Installing", "Copied", "Moved", "Done", "Failed"}
Programs == {"none", "old", "new", "torn"}

\* Armed, it waits for the process to end; only the batch file goes on to copy.
Scripts == {"none", "written", "armed", "copying", "copied"}

OnWindows == kind \in {"portable", "setup"}

Whole == 1..Blocks

\* there: under its name; blocks: what is written; open: who writes to it
Packages == [there : BOOLEAN, blocks : SUBSET Whole, open : SUBSET UpdDialogs]

UpdFault == updFaults < UpdMaxFaults /\ updFaults' = updFaults + 1
NoFault  == updFaults' = updFaults

\* install() blocks the event loop: nothing else is done meanwhile.
Free == up /\ \A d \in UpdDialogs : dialog[d].step \notin {"Copied", "Moved"}

To(d, step) == dialog' = [dialog EXCEPT ![d] = [step |-> step, next |-> 1]]

\* QFile::remove(path): who has it open goes on writing to no name.
Removed == [package EXCEPT !.there = FALSE, !.blocks = {}, !.open = {}]

-----------------------------------------------------------------------------
\* The menu, or the click on the status bar: check() as soon as it shows.
OpenDialog(d) ==
    /\ Free /\ dialog[d].step = "closed"
    /\ To(d, "Checking")
    /\ UNCHANGED <<kind, release, package, disk, script, up, stranded, updFaults>>

\* onUpdateAvailable(): a development build cannot replace itself.
Offered == IF kind = "none" THEN "Failed" ELSE "Offer"

\* check(), parseLatest(), isNewer(): the version first, then the package.
Checked(d) ==
    /\ Free /\ dialog[d].step = "Checking"
    /\ \/ To(d, IF ~release.newer THEN "UpToDate"
                ELSE IF release.asset \/ kind = "none" THEN Offered ELSE "Failed") /\ NoFault
       \/ To(d, "Failed") /\ UpdFault
    /\ UNCHANGED <<kind, release, package, disk, script, up, stranded>>

\* startDownload(), download(): opens the path with Truncate, or fails.
StartDownload(d) ==
    /\ Free /\ dialog[d].step = "Offer"
    /\ \/ /\ To(d, "Downloading") /\ NoFault
          /\ package' = [there |-> TRUE, blocks |-> {}, open |-> package.open \cup {d}]
       \/ To(d, "Failed") /\ UpdFault /\ UNCHANGED package
    /\ UNCHANGED <<kind, release, disk, script, up, stranded>>

\* readyRead(): that the disk is full is not noticed, the file ends short.
Receive(d) ==
    /\ Free /\ dialog[d].step = "Downloading" /\ dialog[d].next \in Whole
    /\ \/ /\ package' = IF d \in package.open
                        THEN [package EXCEPT !.blocks = @ \cup {dialog[d].next}] ELSE package
          /\ dialog' = [dialog EXCEPT ![d].next = @ + 1] /\ NoFault
       \/ UpdFault /\ dialog' = [dialog EXCEPT ![d].next = Blocks + 1] /\ UNCHANGED package
    /\ UNCHANGED <<kind, release, disk, script, up, stranded>>

\* QFileInfo(path).size(): up to the last block written
SizeFits == package.there /\ Blocks \in package.blocks

\* Mutant of SizeIsRight: the size is not compared.
SizeIsRight_Unchecked == package.there

\* "Der Download ist unvollständig"; GitHub always names a size.
SizeIsRight == SizeFits

\* finished(): an error, a size that is not right, or the file as it is.
Downloaded(d) ==
    /\ Free /\ dialog[d].step = "Downloading"
    /\ \/ /\ dialog[d].next = Blocks + 1 /\ SizeIsRight
          /\ To(d, IF release.sums THEN "Checksum" ELSE "Installing") /\ NoFault
          /\ package' = [package EXCEPT !.open = @ \ {d}]
       \/ /\ dialog[d].next = Blocks + 1 /\ ~SizeIsRight
          /\ To(d, "Failed") /\ NoFault /\ package' = Removed
       \/ /\ To(d, "Failed") /\ UpdFault /\ package' = Removed
    /\ UNCHANGED <<kind, release, disk, script, up, stranded>>

\* fetchChecksum(): the file that lies there now is hashed.
CompareChecksum(d) ==
    /\ Free /\ dialog[d].step = "Checksum"
    /\ \/ /\ package.there /\ package.blocks = Whole
          /\ To(d, "Installing") /\ NoFault /\ UNCHANGED package
       \/ /\ ~(package.there /\ package.blocks = Whole)
          /\ To(d, "Failed") /\ NoFault /\ package' = Removed
       \/ /\ To(d, "Failed") /\ UpdFault /\ package' = Removed
    /\ UNCHANGED <<kind, release, disk, script, up, stranded>>

\* reject(), cancel(): abort() comes back through finished(), which removes the
\* file.  No way out while the files are swapped.
CloseDialog(d) ==
    /\ Free /\ dialog[d].step \notin {"closed", "Installing", "Done"}
    /\ To(d, "closed")
    /\ package' = IF dialog[d].step \in {"Downloading", "Checksum"} THEN Removed ELSE package
    /\ UNCHANGED <<kind, release, disk, script, up, stranded, updFaults>>

-----------------------------------------------------------------------------
\* What comes out of the package; only an AppImage is copied unseen.
Unpacked ==
    IF ~package.there THEN "none"
    ELSE IF package.blocks = Whole THEN "new"
    ELSE IF kind = "appimage" THEN "torn" ELSE "none"

\* installMacBundle(), installAppImage() up to the copy beside the program
CopyBeside(d) ==
    /\ Free /\ dialog[d].step = "Installing" /\ ~OnWindows
    /\ \/ /\ Unpacked # "none" /\ NoFault
          /\ disk' = [disk EXCEPT !.staging = Unpacked] /\ To(d, "Copied")
       \/ /\ disk' = [disk EXCEPT !.staging = "none"] /\ To(d, "Failed")
          /\ IF Unpacked = "none" THEN NoFault ELSE UpdFault
    /\ UNCHANGED <<kind, release, package, script, up, stranded>>

\* installWindows(): a running .exe is locked, so a batch file does the rest.  A
\* portable package is unpacked first, a setup program is not looked at.
WriteScript(d) ==
    /\ Free /\ dialog[d].step = "Installing" /\ OnWindows
    /\ \/ /\ kind = "portable" => Unpacked # "none"
          /\ disk' = IF kind = "portable" THEN [disk EXCEPT !.staging = Unpacked] ELSE disk
          /\ To(d, "Done") /\ script' = "written" /\ NoFault
       \/ /\ IF kind = "portable" /\ Unpacked = "none" THEN NoFault ELSE UpdFault
          /\ To(d, "Failed") /\ UNCHANGED <<disk, script>>
    /\ UNCHANGED <<kind, release, package, up, stranded>>

\* remove(old), rename(installPath, old)
MoveAside(d) ==
    /\ up /\ dialog[d].step = "Copied"
    /\ \/ /\ disk.place # "none" /\ NoFault /\ To(d, "Moved")
          /\ disk' = [disk EXCEPT !.aside = disk.place, !.place = "none"]
       \/ /\ IF disk.place = "none" THEN NoFault ELSE UpdFault
          /\ disk' = [disk EXCEPT !.aside = "none", !.staging = "none"] /\ To(d, "Failed")
    /\ UNCHANGED <<kind, release, package, script, up, stranded>>

\* Mutant of MoveIn: what was moved aside stays there when the new one does not
\* get into its place.
MoveIn_NoWayBack(d) ==
    /\ up /\ dialog[d].step = "Moved"
    /\ \/ /\ disk' = [place |-> disk.staging, staging |-> "none", aside |-> "none"]
          /\ package' = Removed /\ NoFault /\ To(d, "Done")
       \/ /\ disk' = [disk EXCEPT !.staging = "none"]
          /\ UpdFault /\ To(d, "Failed") /\ UNCHANGED package
    /\ UNCHANGED <<kind, release, script, up, stranded>>

\* rename(staging, installPath); if that fails, the old one back, if that does
\* not fail too; at the end the old one and the package are removed.
MoveIn(d) ==
    /\ up /\ dialog[d].step = "Moved"
    /\ \/ /\ disk' = [place |-> disk.staging, staging |-> "none", aside |-> "none"]
          /\ package' = Removed /\ NoFault /\ To(d, "Done")
          /\ UNCHANGED stranded
       \/ /\ disk' = [place |-> disk.aside, staging |-> "none", aside |-> "none"]
          /\ UpdFault /\ To(d, "Failed") /\ UNCHANGED <<package, stranded>>
       \/ /\ disk' = [disk EXCEPT !.staging = "none"]
          /\ UpdFault /\ To(d, "Failed") /\ UNCHANGED package /\ stranded' = TRUE
    /\ UNCHANGED <<kind, release, script, up>>

-----------------------------------------------------------------------------
\* restart(), 1.5 s after "eingesetzt": starts what waits for this process, and
\* quits whether that could be started or not.
RestartUpdated(d) ==
    /\ Free /\ dialog[d].step = "Done"
    /\ (script' = "armed" /\ NoFault) \/ (script' = "none" /\ UpdFault)
    /\ up' = FALSE
    /\ dialog' = [e \in UpdDialogs |-> [step |-> "closed", next |-> 1]]
    /\ package' = [package EXCEPT !.open = {}]
    /\ UNCHANGED <<kind, release, disk, stranded>>

\* What lies in its place is started; it comes up if it is a whole program.
StartsInPlace(works) ==
    /\ up' = (works /\ disk.place \in {"old", "new"})
    /\ release' = [release EXCEPT !.newer = @ /\ disk.place # "new"]

\* macOS and Linux: the shell has seen the process end, and starts the program.
ShellStarts ==
    /\ script = "armed" /\ ~up /\ ~OnWindows
    /\ (StartsInPlace(TRUE) /\ NoFault) \/ (StartsInPlace(FALSE) /\ UpdFault)
    /\ script' = "none"
    /\ UNCHANGED <<kind, dialog, package, disk, stranded>>

\* What the batch file puts over the program: the unpacked folder, or the setup
\* program, which checks itself first.
HasNewFiles ==
    IF kind = "setup" THEN package.there /\ package.blocks = Whole ELSE disk.staging = "new"

\* robocopy, or the setup, has replaced its first file: or none, since the files
\* are held by someone or the elevation is refused.
SwapBegins ==
    /\ script = "armed" /\ ~up /\ OnWindows
    /\ \/ /\ HasNewFiles /\ NoFault
          /\ disk' = [disk EXCEPT !.place = "torn"] /\ script' = "copying"
       \/ /\ IF HasNewFiles THEN UpdFault ELSE NoFault
          /\ script' = "copied" /\ UNCHANGED disk
    /\ UNCHANGED <<kind, release, dialog, package, up, stranded>>

\* The last file, or one that could not be replaced in ten tries.
SwapEnds ==
    /\ script = "copying" /\ ~up
    /\ \/ disk' = [disk EXCEPT !.place = "new"] /\ NoFault /\ UNCHANGED stranded
       \/ UpdFault /\ stranded' = TRUE /\ UNCHANGED disk
    /\ script' = "copied"
    /\ UNCHANGED <<kind, release, dialog, package, up>>

\* rmdir, del and start: whatever became of the swap, and of one another.
ScriptEnds ==
    /\ script = "copied" /\ ~up
    /\ \E failed \in SUBSET {"rmdir", "del", "start"} :
          /\ IF failed = {} THEN NoFault ELSE UpdFault
          /\ disk' = IF "rmdir" \in failed THEN disk ELSE [disk EXCEPT !.staging = "none"]
          /\ package' = IF "del" \in failed THEN package ELSE Removed
          /\ StartsInPlace("start" \notin failed)
    /\ script' = "none"
    /\ UNCHANGED <<kind, dialog, stranded>>

\* A crash, or the power: whatever has been done so far stays on the disk, and
\* nothing goes on with it.
ProgramDies ==
    /\ up \/ script # "none"
    /\ UpdFault
    /\ up' = FALSE /\ script' = "none"
    /\ dialog' = [e \in UpdDialogs |-> [step |-> "closed", next |-> 1]]
    /\ package' = [package EXCEPT !.open = {}]
    /\ stranded' = (stranded \/ disk.place = "none" \/ script = "copying")
    /\ UNCHANGED <<kind, release, disk>>

\* The operator starts what lies at its place, when nothing else is going to.
OperatorStarts ==
    /\ ~up /\ script = "none" /\ disk.place \in {"old", "new"}
    /\ StartsInPlace(TRUE)
    /\ UNCHANGED <<kind, dialog, package, disk, script, stranded, updFaults>>

-----------------------------------------------------------------------------
UpdInit ==
    /\ kind \in UpdKinds
    /\ release \in [newer : BOOLEAN, asset : BOOLEAN, sums : BOOLEAN]
    /\ dialog = [d \in UpdDialogs |-> [step |-> "closed", next |-> 1]]
    /\ package = [there |-> FALSE, blocks |-> {}, open |-> {}]
    /\ disk = [place |-> "old", staging |-> "none", aside |-> "none"]
    /\ script = "none" /\ up = TRUE /\ stranded = FALSE /\ updFaults = 0

UpdNext ==
    \/ \E d \in UpdDialogs :
           \/ OpenDialog(d) \/ Checked(d) \/ StartDownload(d) \/ Receive(d)
           \/ Downloaded(d) \/ CompareChecksum(d) \/ CloseDialog(d)
           \/ CopyBeside(d) \/ WriteScript(d) \/ MoveAside(d) \/ MoveIn(d) \/ RestartUpdated(d)
    \/ ShellStarts \/ SwapBegins \/ SwapEnds \/ ScriptEnds
    \/ ProgramDies \/ OperatorStarts

UpdSpec == UpdInit /\ [][UpdNext]_updVars

-----------------------------------------------------------------------------
UpdTypeOK ==
    /\ kind \in UpdKinds
    /\ release \in [newer : BOOLEAN, asset : BOOLEAN, sums : BOOLEAN]
    /\ dialog \in [UpdDialogs -> [step : Steps, next : 1..Blocks + 1]]
    /\ package \in Packages
    /\ disk \in [place : Programs, staging : Programs, aside : Programs]
    /\ script \in Scripts /\ up \in BOOLEAN /\ stranded \in BOOLEAN
    /\ updFaults \in 0..UpdMaxFaults

\* "check its SHA-256, put it in place of the running copy" (SelfUpdater.h:47),
\* with a checksum or with the size alone: what lies in the program's place is
\* a whole program.  macOS and Linux keep that whatever fails.  The batch file of
\* Windows copies file by file: only while it does, or when it failed or was cut
\* off in the middle, is what lies there not whole.
OnlyWholePrograms ==
    disk.place = "torn" => OnWindows /\ (script = "copying" \/ stranded)

\* An update that fails at any step, the restart included, leaves a program in its
\* place, unless the way back fails too or the power goes between the two
\* renames; a program that is not in its place lies beside it.
ProgramStays ==
    /\ disk.place = "none" =>
           ~OnWindows /\ (stranded \/ \E d \in UpdDialogs : dialog[d].step = "Moved")
    /\ \A d \in UpdDialogs : dialog[d].step = "Moved" => disk.aside \in {"old", "new"}
=============================================================================
