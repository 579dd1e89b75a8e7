----------------------------- MODULE LiveProofs -----------------------------
(***************************************************************************)
(* Proofs about what goes on by itself, for every value of the constants:  *)
(* one process works on the log and one whole program lies on the disk     *)
(* (SingleInstance, SelfUpdate); the terrain shown and the tiles at hand   *)
(* belong together (SiteData); the lines to radio and rotor stay sound     *)
(* (HamlibLink); and all of MCDeskLive is correctly typed.                 *)
(***************************************************************************)
EXTENDS MCDeskLive, FiniteSetTheorems, SequenceTheorems, TLAPS

-----------------------------------------------------------------------------
(* SingleInstance *)

OnLog == {"locked", "running", "hung"}

\* Who is at work holds the lock; and the holder listens from its window on,
\* until it has given the lock away or is gone.
LockRules ==
    /\ \A p \in Pids : proc[p] \in OnLog => holder = p
    /\ holder \in Pids =>
          /\ proc[holder] \in OnLog \cup {"quitting"}
          /\ proc[holder] # "locked" => socket = holder

ProcInv ==
    /\ proc \in [Pids -> ProcStates] /\ gap \in BOOLEAN
    /\ holder \in {0, Stale} \cup Pids /\ socket \in {0, Stale} \cup Pids
    /\ gap \/ LockRules

LEMMA Pidless ==
    /\ 0 \notin Pids /\ Stale \notin Pids /\ 0 # Stale
BY SingleInstanceAssumption DEF Stale

LEMMA ProcInvInit ==
    ASSUME ProcInit
    PROVE  ProcInv
BY Pidless DEF ProcInit, ProcInv, LockRules, ProcStates, OnLog

\* release(), and a start of its own for process r.
LEMMA RestartKeepsLock ==
    ASSUME ProcInv, NEW p \in Pids, NEW r \in Pids, NEW b,
           proc[p] = "running", proc[r] = "off", RestartInto(p, r, b), gap' = gap
    PROVE  ProcInv'
<1>1. p # r /\ proc' = [proc EXCEPT ![p] = "quitting", ![r] = "starting"]
  BY DEF RestartInto
<1>2. holder' = (IF holder = p THEN 0 ELSE holder) /\ socket' = (IF socket = p THEN 0 ELSE socket)
  BY DEF RestartInto, Released
<1>3. proc' \in [Pids -> ProcStates] /\ holder' \in {0, Stale} \cup Pids /\ socket' \in {0, Stale} \cup Pids
  BY <1>1, <1>2 DEF ProcInv, ProcStates
<1>4. \A q \in Pids : proc'[q] = IF q = r THEN "starting" ELSE IF q = p THEN "quitting" ELSE proc[q]
  BY <1>1 DEF ProcInv
<1>5. CASE gap
  BY <1>3, <1>5 DEF ProcInv
<1>6. CASE LockRules
  <2>1. \A q \in Pids : proc'[q] \in OnLog => holder' = q
    BY <1>2, <1>4, <1>6 DEF LockRules, OnLog
  <2>2. ASSUME holder' \in Pids
        PROVE  FALSE
    <3>1. holder' = 0
      BY <1>2, <1>6 DEF LockRules, OnLog
    <3> QED
      BY <2>2, <3>1, Pidless
  <2>3. LockRules'
    BY <2>1, <2>2 DEF LockRules
  <2> QED
    BY <1>3, <2>3 DEF ProcInv
<1> QED
  BY <1>5, <1>6 DEF ProcInv

\* One step per action.
LEMMA ProcInvStep ==
    ASSUME ProcInv, [ProcNext]_procVars
    PROVE  ProcInv'
<1> USE Pidless DEF ProcInv, LockRules, OnLog, ProcStates
<1>1. ASSUME NEW p \in Pids, NEW b \in Builds, StartProgram(p, b)
      PROVE  ProcInv'
  BY <1>1 DEF StartProgram, IsNextPid, FreePids
<1>2. ASSUME NEW p \in Pids, TakeLock(p)
      PROVE  ProcInv'
  BY <1>2 DEF TakeLock, LockIsFree
<1>3. ASSUME NEW p \in Pids, LockRefused(p)
      PROVE  ProcInv'
  BY <1>3 DEF LockRefused
<1>4. ASSUME NEW p \in Pids, Listen(p)
      PROVE  ProcInv'
  BY <1>4 DEF Listen
<1>5. ASSUME NEW p \in Pids, Ask(p)
      PROVE  ProcInv'
  BY <1>5 DEF Ask
<1>6. ASSUME NEW p \in Pids, GoOnAlone(p)
      PROVE  ProcInv'
  BY <1>6 DEF GoOnAlone, LockIsFree, Answering
<1>7. ASSUME NEW p \in Pids, StartEnds(p)
      PROVE  ProcInv'
  BY <1>7 DEF StartEnds
<1>8. ASSUME NEW p \in Pids, ProcessEnds(p)
      PROVE  ProcInv'
  BY <1>8 DEF ProcessEnds, Released
<1>9. ASSUME NEW p \in Pids, NEW b \in Builds, NEW r \in Pids, ReadLine(p, b, r)
      PROVE  ProcInv'
  <2>1. CASE b # build[p]
    BY <1>9, <2>1, RestartKeepsLock DEF ReadLine, IsNextPid, FreePids
  <2>2. CASE b = build[p]
    BY <1>9, <2>2 DEF ReadLine
  <2> QED
    BY <2>1, <2>2
<1>10. ASSUME NEW p \in Pids, NEW r \in Pids, RestartSelf(p, r)
       PROVE  ProcInv'
  BY <1>10, RestartKeepsLock DEF RestartSelf, IsNextPid, FreePids
<1>11. ASSUME NEW p \in Pids, CloseWindow(p)
       PROVE  ProcInv'
  BY <1>11 DEF CloseWindow
<1>12. ASSUME NEW p \in Pids, ProcessCrashes(p)
       PROVE  ProcInv'
  BY <1>12 DEF ProcessCrashes
<1>13. ASSUME NEW p \in Pids, ProcessHangs(p)
       PROVE  ProcInv'
  BY <1>13 DEF ProcessHangs
<1>14. CASE UNCHANGED procVars
  BY <1>14 DEF procVars
<1> QED
  BY <1>1, <1>2, <1>3, <1>4, <1>5, <1>6, <1>7, <1>8, <1>9, <1>10, <1>11, <1>12, <1>13, <1>14
     DEF ProcNext, ProcStep, ReadLines

LEMMA AtMostOneWorks ==
    ASSUME ProcInv
    PROVE  OneWorksOnTheLog
<1>1. CASE LockRules
  <2>1. \A p, q \in Working : p = q
    BY <1>1 DEF LockRules, Working, OnLog
  <2>2. CASE Working = {}
    BY <2>2, FS_EmptySet DEF OneWorksOnTheLog
  <2>3. ASSUME NEW p \in Working
        PROVE  OneWorksOnTheLog
    <3>1. Working = {p}
      BY <2>1
    <3>2. Cardinality(Working) = 1
      BY <3>1, FS_Singleton
    <3> QED
      BY <3>2 DEF OneWorksOnTheLog
  <2> QED
    BY <2>2, <2>3
<1> QED
  BY <1>1 DEF ProcInv, OneWorksOnTheLog

-----------------------------------------------------------------------------
(* SelfUpdate, with one dialog open at a time *)

OneDialog == \A d, e \in UpdDialogs : d = e

\* What the dialog has done so far shows in the package and on the disk.
PackageFits(d) ==
    /\ dialog[d].step = "Downloading" =>
          /\ d \in package.open /\ package.there
          /\ \/ package.blocks = 1..(dialog[d].next - 1)
             \/ dialog[d].next = Blocks + 1 /\ Blocks \notin package.blocks
    /\ dialog[d].step = "Installing" => package.there /\ package.blocks = Whole

DiskFits(d) ==
    /\ dialog[d].step \in {"Copied", "Moved"} => disk.staging = "new" /\ ~OnWindows
    /\ dialog[d].step = "Moved" => disk.aside \in {"old", "new"}

UpdShape ==
    /\ dialog \in [UpdDialogs -> [step : Steps, next : 1..Blocks + 1]]
    /\ package \in Packages
    /\ disk \in [place : Programs, staging : Programs, aside : Programs]
    /\ up \in BOOLEAN /\ stranded \in BOOLEAN

\* Only the batch file of Windows tears a program, and none that runs.
PlaceFits ==
    disk.place = "torn" => ~up /\ OnWindows /\ (script = "copying" \/ stranded)

UpdInv ==
    /\ UpdShape
    /\ \A d \in UpdDialogs : PackageFits(d) /\ DiskFits(d)
    /\ up \/ \A d \in UpdDialogs : dialog[d].step = "closed"
    /\ PlaceFits
    /\ disk.place = "none" =>
           ~OnWindows /\ (stranded \/ \E d \in UpdDialogs : dialog[d].step = "Moved")

LEMMA BlocksArePositive == Blocks \in Nat \ {0}
BY SelfUpdateAssumption

DialogType == dialog \in [UpdDialogs -> [step : Steps, next : 1..Blocks + 1]]
DiskType == disk \in [place : Programs, staging : Programs, aside : Programs]

\* What is to be shown of a state, when there is one dialog.
LEMMA UpdInvFrom ==
    ASSUME OneDialog, NEW d \in UpdDialogs, kind' = kind,
           DialogType', (package \in Packages)', DiskType', up' \in BOOLEAN, stranded' \in BOOLEAN,
           PackageFits(d)', DiskFits(d)',
           up' \/ dialog'[d].step = "closed",
           disk'.place # "torn",
           disk'.place = "none" => ~OnWindows /\ (stranded' \/ dialog'[d].step = "Moved")
    PROVE  UpdInv'
<1>1. \A e \in UpdDialogs : e = d
  BY DEF OneDialog
<1>2. UpdShape'
  BY DEF UpdShape, DialogType, DiskType
<1>3. (\A e \in UpdDialogs : PackageFits(e) /\ DiskFits(e))'
  BY <1>1
<1>4. (up \/ \A e \in UpdDialogs : dialog[e].step = "closed")'
  BY <1>1
<1>5. PlaceFits' /\ (OnWindows' <=> OnWindows)
  BY DEF PlaceFits, OnWindows
<1> QED
  BY <1>2, <1>3, <1>4, <1>5 DEF UpdInv

LEMMA UpdInvInit ==
    ASSUME UpdInit
    PROVE  UpdInv
<1>1. UpdShape
  <2>1. [step |-> "closed", next |-> 1] \in [step : Steps, next : 1..Blocks + 1]
    BY BlocksArePositive DEF Steps
  <2>2. DialogType
    BY <2>1 DEF UpdInit, DialogType
  <2> QED
    BY <2>2 DEF UpdInit, UpdShape, DialogType, Packages, Programs, Whole
<1>2. \A d \in UpdDialogs : dialog[d].step = "closed"
  BY DEF UpdInit
<1> QED
  BY <1>1, <1>2 DEF UpdInit, UpdInv, PackageFits, DiskFits, PlaceFits

\* The dialog at step s, the rest of it fresh.
LEMMA StepOfDialog ==
    ASSUME UpdInv, NEW d \in UpdDialogs, NEW s \in Steps, To(d, s)
    PROVE  DialogType' /\ dialog'[d].step = s /\ dialog'[d].next = 1
<1>1. [step |-> s, next |-> 1] \in [step : Steps, next : 1..Blocks + 1]
  BY BlocksArePositive
<1> QED
  BY <1>1 DEF UpdInv, UpdShape, To, DialogType

LEMMA NoPackage ==
    ASSUME UpdInv
    PROVE  Removed \in Packages
BY DEF UpdInv, UpdShape, Removed, Packages

\* What the steps below start from.
LEMMA UpdInvOf ==
    ASSUME UpdInv, NEW d \in UpdDialogs
    PROVE  /\ DialogType /\ package \in Packages /\ DiskType /\ up \in BOOLEAN /\ stranded \in BOOLEAN
           /\ PackageFits(d) /\ DiskFits(d)
           /\ up \/ dialog[d].step = "closed"
           /\ up => disk.place # "torn"
BY DEF UpdInv, UpdShape, DialogType, DiskType, PlaceFits

LEMMA PlaceOf ==
    ASSUME OneDialog, UpdInv, NEW d \in UpdDialogs, disk.place = "none"
    PROVE  ~OnWindows /\ (stranded \/ dialog[d].step = "Moved")
BY DEF OneDialog, UpdInv

\* A step that touches neither the disk nor the process and ends where the
\* package does not matter.
LEMMA DownloadStep ==
    ASSUME OneDialog, UpdInv, NEW d \in UpdDialogs,
           NEW s \in Steps \ {"Downloading", "Installing", "Copied", "Moved"}, To(d, s),
           dialog[d].step # "Moved",
           (package \in Packages)', up, UNCHANGED <<kind, disk, up, stranded>>
    PROVE  UpdInv'
<1>1. DialogType' /\ dialog'[d].step = s
  BY StepOfDialog
<1>2. PackageFits(d)' /\ DiskFits(d)'
  BY <1>1 DEF PackageFits, DiskFits
<1>3. DiskType' /\ up' \in BOOLEAN /\ stranded' \in BOOLEAN /\ disk'.place # "torn"
  BY UpdInvOf DEF DiskType
<1>4. disk'.place = "none" => ~OnWindows /\ (stranded' \/ dialog'[d].step = "Moved")
  BY PlaceOf
<1> QED
  BY <1>1, <1>2, <1>3, <1>4, UpdInvFrom

LEMMA UpdInvDownload ==
    ASSUME OneDialog, UpdInv, NEW d \in UpdDialogs,
           OpenDialog(d) \/ Checked(d) \/ StartDownload(d)
    PROVE  UpdInv'
<1>1. /\ package \in Packages /\ up /\ UNCHANGED <<kind, disk, up, stranded>>
      /\ dialog[d].step # "Moved"
  BY UpdInvOf DEF OpenDialog, Checked, StartDownload, Free
<1>2. CASE OpenDialog(d)
  BY <1>1, <1>2, DownloadStep DEF OpenDialog, Steps
<1>3. CASE Checked(d)
  BY <1>1, <1>3, DownloadStep DEF Checked, Offered, Steps
<1>4. CASE To(d, "Failed") /\ package' = package
  BY <1>1, <1>4, DownloadStep DEF Steps
<1>5. CASE /\ To(d, "Downloading")
           /\ package' = [there |-> TRUE, blocks |-> {}, open |-> package.open \cup {d}]
  <2>1. DialogType' /\ dialog'[d].step = "Downloading" /\ dialog'[d].next = 1
    BY <1>5, StepOfDialog DEF Steps
  <2>2. package' = [there |-> TRUE, blocks |-> {}, open |-> package.open \cup {d}]
    BY <1>5
  <2>3. package' \in Packages
    BY <1>1, <2>2 DEF Packages
  <2>4. PackageFits(d)' /\ DiskFits(d)'
    BY <2>1, <2>2 DEF PackageFits, DiskFits
  <2>5. DiskType' /\ up' \in BOOLEAN /\ stranded' \in BOOLEAN /\ disk'.place # "torn"
    BY <1>1, UpdInvOf DEF DiskType
  <2>6. disk'.place = "none" => ~OnWindows /\ (stranded' \/ dialog'[d].step = "Moved")
    BY <1>1, PlaceOf
  <2> QED
    BY <1>1, <2>1, <2>3, <2>4, <2>5, <2>6, UpdInvFrom DEF Packages
<1> QED
  BY <1>2, <1>3, <1>4, <1>5 DEF StartDownload

LEMMA UpdInvReceive ==
    ASSUME OneDialog, UpdInv, NEW d \in UpdDialogs, Receive(d)
    PROVE  UpdInv'
<1> DEFINE n == dialog[d].next
<1>1. /\ package \in Packages /\ up /\ UNCHANGED <<kind, disk, up, stranded>>
      /\ dialog[d].step = "Downloading" /\ n \in 1..Blocks
      /\ dialog[d] \in [step : Steps, next : 1..Blocks + 1] /\ DialogType
  BY UpdInvOf DEF Receive, Free, Whole, DialogType
<1>2. d \in package.open /\ package.there /\ package.blocks = 1..(n - 1)
  BY <1>1, UpdInvOf, BlocksArePositive DEF PackageFits
<1>3. CASE /\ package' = [package EXCEPT !.blocks = @ \cup {n}]
           /\ dialog' = [dialog EXCEPT ![d].next = @ + 1]
  <2>1. DialogType' /\ dialog'[d].step = "Downloading" /\ dialog'[d].next = n + 1
    BY <1>1, <1>3, BlocksArePositive DEF DialogType
  <2>2. package'.blocks = 1..n /\ package'.there /\ d \in package'.open
    <3>1. 1..(n - 1) \cup {n} = 1..n
      BY <1>1, BlocksArePositive
    <3> QED
      BY <1>1, <1>2, <1>3, <3>1 DEF Packages
  <2>3. package' \in Packages
    BY <1>1, <1>3 DEF Packages, Whole
  <2>4. PackageFits(d)' /\ DiskFits(d)'
    BY <1>1, <2>1, <2>2, BlocksArePositive DEF PackageFits, DiskFits
  <2>5. DiskType' /\ up' \in BOOLEAN /\ stranded' \in BOOLEAN /\ disk'.place # "torn"
    BY <1>1, UpdInvOf DEF DiskType
  <2>6. disk'.place = "none" => ~OnWindows /\ (stranded' \/ dialog'[d].step = "Moved")
    BY <1>1, PlaceOf
  <2> QED
    BY <1>1, <2>1, <2>3, <2>4, <2>5, <2>6, UpdInvFrom
<1>4. CASE package' = package /\ dialog' = [dialog EXCEPT ![d].next = Blocks + 1]
  <2>1. DialogType' /\ dialog'[d].step = "Downloading" /\ dialog'[d].next = Blocks + 1
    BY <1>1, <1>4, BlocksArePositive DEF DialogType
  <2>2. Blocks \notin package'.blocks
    BY <1>1, <1>2, <1>4, BlocksArePositive
  <2>3. PackageFits(d)' /\ DiskFits(d)'
    BY <1>2, <1>4, <2>1, <2>2 DEF PackageFits, DiskFits
  <2>4. DiskType' /\ up' \in BOOLEAN /\ stranded' \in BOOLEAN /\ disk'.place # "torn"
    BY <1>1, UpdInvOf DEF DiskType
  <2>5. disk'.place = "none" => ~OnWindows /\ (stranded' \/ dialog'[d].step = "Moved")
    BY <1>1, PlaceOf
  <2> QED
    BY <1>1, <1>4, <2>1, <2>3, <2>4, <2>5, UpdInvFrom
<1> QED
  BY <1>2, <1>3, <1>4 DEF Receive

LEMMA UpdInvPackage ==
    ASSUME OneDialog, UpdInv, NEW d \in UpdDialogs,
           Downloaded(d) \/ CompareChecksum(d) \/ CloseDialog(d)
    PROVE  UpdInv'
<1>1. /\ package \in Packages /\ Removed \in Packages /\ up /\ UNCHANGED <<kind, disk, up, stranded>>
      /\ dialog[d].step # "Moved" /\ PackageFits(d) /\ DiskFits(d)
      /\ dialog[d] \in [step : Steps, next : 1..Blocks + 1]
  BY UpdInvOf, NoPackage DEF Downloaded, CompareChecksum, CloseDialog, Free, DialogType
<1>2. CASE CloseDialog(d)
  BY <1>1, <1>2, DownloadStep DEF CloseDialog, Steps
<1>3. CASE To(d, "Failed") /\ package' = Removed
  BY <1>1, <1>3, DownloadStep DEF Steps
<1>4. CASE To(d, "Checksum") /\ package' = [package EXCEPT !.open = @ \ {d}]
  <2>1. package' \in Packages
    BY <1>1, <1>4 DEF Packages
  <2> QED
    BY <1>1, <1>4, <2>1, DownloadStep DEF Steps
<1>5. CASE /\ To(d, "Installing") /\ package.there /\ package.blocks = Whole
           /\ package' = package \/ package' = [package EXCEPT !.open = @ \ {d}]
  <2>1. package' \in Packages /\ package'.there /\ package'.blocks = Whole
    BY <1>1, <1>5 DEF Packages
  <2>2. DialogType' /\ dialog'[d].step = "Installing"
    BY <1>5, StepOfDialog DEF Steps
  <2>3. PackageFits(d)' /\ DiskFits(d)'
    BY <2>1, <2>2 DEF PackageFits, DiskFits, Whole
  <2>4. DiskType' /\ up' \in BOOLEAN /\ stranded' \in BOOLEAN /\ disk'.place # "torn"
    BY <1>1, UpdInvOf DEF DiskType
  <2>5. disk'.place = "none" => ~OnWindows /\ (stranded' \/ dialog'[d].step = "Moved")
    BY <1>1, PlaceOf
  <2> QED
    BY <1>1, <2>1, <2>2, <2>3, <2>4, <2>5, UpdInvFrom
<1>6. CASE CompareChecksum(d)
  BY <1>3, <1>5, <1>6 DEF CompareChecksum
<1>7. CASE Downloaded(d)
  <2>1. dialog[d].next = Blocks + 1 /\ SizeIsRight => package.there /\ package.blocks = Whole
    <3>1. dialog[d].step = "Downloading"
      BY <1>7 DEF Downloaded
    <3>2. dialog[d].next = Blocks + 1 => dialog[d].next - 1 = Blocks
      BY BlocksArePositive
    <3> QED
      BY <1>1, <3>1, <3>2 DEF PackageFits, SizeIsRight, SizeFits, Whole
  <2> QED
    BY <1>3, <1>4, <1>5, <1>7, <2>1 DEF Downloaded
<1> QED
  BY <1>2, <1>6, <1>7

\* A step from the installation on, as it leaves the disk.
LEMMA DiskStep ==
    ASSUME OneDialog, UpdInv, NEW d \in UpdDialogs, NEW s \in Steps \ {"Downloading", "Installing"},
           To(d, s), up, up' = up, package' \in {package, Removed}, DiskType', DiskFits(d)',
           stranded' \in BOOLEAN, disk'.place # "torn", kind' = kind,
           disk'.place = "none" => ~OnWindows /\ (stranded' \/ s = "Moved")
    PROVE  UpdInv'
<1>1. DialogType' /\ dialog'[d].step = s
  BY StepOfDialog
<1>2. PackageFits(d)'
  BY <1>1 DEF PackageFits
<1>3. package' \in Packages
  BY UpdInvOf, NoPackage
<1> QED
  BY <1>1, <1>2, <1>3, UpdInvFrom

LEMMA UpdInvInstall ==
    ASSUME OneDialog, UpdInv, NEW d \in UpdDialogs, CopyBeside(d) \/ WriteScript(d)
    PROVE  UpdInv'
<1>1. /\ DiskType /\ disk.place # "torn" /\ up /\ UNCHANGED <<kind, package, up, stranded>>
      /\ stranded \in BOOLEAN /\ dialog[d].step = "Installing" /\ Unpacked = "new"
  BY UpdInvOf DEF CopyBeside, WriteScript, Free, PackageFits, Unpacked
<1>2. disk.place = "none" => ~OnWindows /\ stranded
  BY <1>1, PlaceOf
<1>3. CASE To(d, "Copied") /\ ~OnWindows /\ disk' = [disk EXCEPT !.staging = "new"]
  <2>1. dialog'[d].step = "Copied"
    BY <1>3, StepOfDialog DEF Steps
  <2>2. DiskType' /\ disk'.place = disk.place /\ disk'.staging = "new"
    BY <1>1, <1>3 DEF DiskType, Programs
  <2>3. DiskFits(d)'
    BY <1>1, <1>3, <2>1, <2>2 DEF DiskFits, OnWindows
  <2> QED
    BY <1>1, <1>2, <1>3, <2>2, <2>3, DiskStep DEF Steps
<1>4. ASSUME NEW s \in {"Failed", "Done"}, To(d, s), disk' = disk \/ \E t \in {"none", "new"} : disk' = [disk EXCEPT !.staging = t]
      PROVE  UpdInv'
  <2>1. dialog'[d].step = s
    BY <1>4, StepOfDialog DEF Steps
  <2>2. DiskType' /\ disk'.place = disk.place
    BY <1>1, <1>4 DEF DiskType, Programs
  <2>3. DiskFits(d)'
    BY <2>1 DEF DiskFits
  <2> QED
    BY <1>1, <1>2, <1>4, <2>2, <2>3, DiskStep DEF Steps
<1>5. CASE CopyBeside(d)
  BY <1>1, <1>3, <1>4, <1>5 DEF CopyBeside
<1>6. CASE WriteScript(d)
  BY <1>1, <1>4, <1>6 DEF WriteScript
<1> QED
  BY <1>5, <1>6

LEMMA UpdInvSwap ==
    ASSUME OneDialog, UpdInv, NEW d \in UpdDialogs, MoveAside(d) \/ MoveIn(d)
    PROVE  UpdInv'
<1>1. /\ DiskType /\ disk.place # "torn" /\ up /\ up' = up /\ stranded \in BOOLEAN /\ DiskFits(d)
      /\ kind' = kind /\ ~OnWindows
      /\ disk.place \in Programs /\ disk.aside \in Programs /\ disk.staging \in Programs
  BY UpdInvOf DEF MoveAside, MoveIn, DiskType, DiskFits
<1>2. CASE MoveAside(d)
  <2>1. /\ package' = package /\ stranded' = stranded /\ disk.staging = "new"
        /\ disk.place = "none" => stranded
    BY <1>1, <1>2, PlaceOf DEF MoveAside, DiskFits
  <2>2. CASE /\ To(d, "Moved") /\ disk.place # "none"
             /\ disk' = [disk EXCEPT !.aside = disk.place, !.place = "none"]
    <3>1. dialog'[d].step = "Moved"
      BY <2>2, StepOfDialog DEF Steps
    <3>2. DiskType' /\ disk'.place = "none" /\ disk'.staging = "new" /\ disk'.aside = disk.place
      BY <1>1, <2>1, <2>2 DEF DiskType, Programs
    <3>3. DiskFits(d)'
      BY <1>1, <2>2, <3>1, <3>2 DEF DiskFits, Programs, OnWindows
    <3> QED
      BY <1>1, <2>1, <2>2, <3>2, <3>3, DiskStep DEF Steps
  <2>3. CASE To(d, "Failed") /\ disk' = [disk EXCEPT !.aside = "none", !.staging = "none"]
    <3>1. dialog'[d].step = "Failed"
      BY <2>3, StepOfDialog DEF Steps
    <3>2. DiskType' /\ disk'.place = disk.place
      BY <1>1, <2>3 DEF DiskType, Programs
    <3>3. DiskFits(d)'
      BY <3>1 DEF DiskFits
    <3> QED
      BY <1>1, <2>1, <2>3, <3>2, <3>3, DiskStep DEF Steps
  <2> QED
    BY <1>2, <2>2, <2>3 DEF MoveAside
<1>3. CASE MoveIn(d)
  <2>1. disk.staging = "new" /\ disk.aside \in {"old", "new"} /\ package' \in {package, Removed}
    BY <1>1, <1>3 DEF MoveIn, DiskFits
  <2>2. ASSUME NEW s \in {"Done", "Failed"}, To(d, s), stranded' \in BOOLEAN,
               DiskType', disk'.place # "torn", disk'.place = "none" => stranded'
        PROVE  UpdInv'
    <3>1. dialog'[d].step = s
      BY <2>2, StepOfDialog DEF Steps
    <3>2. DiskFits(d)'
      BY <3>1 DEF DiskFits
    <3> QED
      BY <1>1, <2>1, <2>2, <3>2, DiskStep DEF Steps
  <2>3. CASE /\ To(d, "Done") /\ stranded' = stranded
             /\ disk' = [place |-> disk.staging, staging |-> "none", aside |-> "none"]
    BY <1>1, <2>1, <2>2, <2>3 DEF DiskType, Programs
  <2>4. CASE /\ To(d, "Failed") /\ stranded' = stranded
             /\ disk' = [place |-> disk.aside, staging |-> "none", aside |-> "none"]
    BY <1>1, <2>1, <2>2, <2>4 DEF DiskType, Programs
  <2>5. CASE To(d, "Failed") /\ stranded' = TRUE /\ disk' = [disk EXCEPT !.staging = "none"]
    <3>1. DiskType' /\ disk'.place = disk.place
      BY <1>1, <2>5 DEF DiskType, Programs
    <3> QED
      BY <1>1, <2>2, <2>5, <3>1
  <2> QED
    BY <1>3, <2>3, <2>4, <2>5 DEF MoveIn
<1> QED
  BY <1>2, <1>3

\* The process ends or begins, or the script goes on: all dialogs are closed.
LEMMA ClosedStep ==
    ASSUME OneDialog, UpdInv, kind' = kind, \A d \in UpdDialogs : dialog'[d].step = "closed",
           DialogType', (package \in Packages)', DiskType', up' \in BOOLEAN, stranded' \in BOOLEAN,
           disk'.place = "torn" => ~up' /\ OnWindows /\ (script' = "copying" \/ stranded'),
           disk'.place = "none" => ~OnWindows /\ stranded'
    PROVE  UpdInv'
<1>1. UpdShape'
  BY DEF UpdShape, DialogType, DiskType
<1>2. (\A d \in UpdDialogs : PackageFits(d) /\ DiskFits(d))'
  BY DEF PackageFits, DiskFits
<1>3. PlaceFits' /\ (OnWindows' <=> OnWindows)
  BY DEF PlaceFits, OnWindows
<1> QED
  BY <1>1, <1>2, <1>3 DEF UpdInv

\* What the steps of the process start from.
LEMMA ProcessOf ==
    ASSUME UpdInv
    PROVE  /\ DialogType /\ package \in Packages /\ DiskType /\ up \in BOOLEAN /\ stranded \in BOOLEAN
           /\ disk.place \in Programs /\ PlaceFits
           /\ up \/ \A d \in UpdDialogs : dialog[d].step = "closed"
           /\ disk.place = "none" =>
                  ~OnWindows /\ (stranded \/ \E d \in UpdDialogs : dialog[d].step = "Moved")
           /\ [package EXCEPT !.open = {}] \in Packages /\ Removed \in Packages
<1>1. package \in Packages
  BY DEF UpdInv, UpdShape
<1>2. [package EXCEPT !.open = {}] \in Packages /\ Removed \in Packages
  BY <1>1, NoPackage DEF Packages
<1> QED
  BY <1>1, <1>2 DEF UpdInv, UpdShape, DialogType, DiskType

LEMMA AllClosed ==
    ASSUME dialog' = [e \in UpdDialogs |-> [step |-> "closed", next |-> 1]]
    PROVE  DialogType' /\ \A d \in UpdDialogs : dialog'[d].step = "closed"
<1>1. [step |-> "closed", next |-> 1] \in [step : Steps, next : 1..Blocks + 1]
  BY BlocksArePositive DEF Steps
<1> QED
  BY <1>1 DEF DialogType

\* Started is what lies in its place, when it is whole.
LEMMA WholeComesUp ==
    ASSUME NEW works \in BOOLEAN, StartsInPlace(works)
    PROVE  up' \in BOOLEAN /\ (up' => disk.place \in {"old", "new"})
<1> DEFINE whole == disk.place \in {"old", "new"}
<1>1. up' = (works /\ whole)
  BY DEF StartsInPlace
<1>2. whole \in BOOLEAN
  OBVIOUS
<1> HIDE DEF whole
<1>3. up' \in BOOLEAN /\ (up' => whole)
  BY <1>1, <1>2
<1> QED
  BY <1>3 DEF whole

LEMMA UpdInvProcess ==
    ASSUME OneDialog, UpdInv,
           (\E d \in UpdDialogs : RestartUpdated(d)) \/ ProgramDies \/ OperatorStarts
    PROVE  UpdInv'
<1>1. CASE \E d \in UpdDialogs : RestartUpdated(d)
  <2>1. /\ dialog' = [e \in UpdDialogs |-> [step |-> "closed", next |-> 1]]
        /\ package' = [package EXCEPT !.open = {}]
        /\ up' = FALSE /\ disk' = disk /\ stranded' = stranded /\ kind' = kind /\ up
        /\ \A d \in UpdDialogs : dialog[d].step # "Moved"
    BY <1>1 DEF RestartUpdated, Free
  <2> QED
    BY <2>1, ProcessOf, AllClosed, ClosedStep DEF DiskType, PlaceFits
<1>2. CASE ProgramDies
  <2> DEFINE cut == disk.place = "none" \/ script = "copying"
  <2>1. /\ dialog' = [e \in UpdDialogs |-> [step |-> "closed", next |-> 1]]
        /\ package' = [package EXCEPT !.open = {}]
        /\ up' = FALSE /\ disk' = disk /\ kind' = kind /\ stranded' = (stranded \/ cut)
    BY <1>2 DEF ProgramDies
  <2>2. stranded' \in BOOLEAN /\ (stranded \/ cut => stranded')
    BY <2>1, ProcessOf, Zenon
  <2>3. /\ disk'.place = "torn" => OnWindows /\ stranded'
        /\ disk'.place = "none" => ~OnWindows /\ stranded'
    BY <2>1, <2>2, ProcessOf DEF PlaceFits
  <2> QED
    BY <2>1, <2>2, <2>3, ProcessOf, AllClosed, ClosedStep DEF DiskType
<1>3. CASE OperatorStarts
  <2>1. /\ ~up /\ disk.place \in {"old", "new"} /\ StartsInPlace(TRUE)
        /\ UNCHANGED <<kind, dialog, package, disk, stranded>>
    BY <1>3 DEF OperatorStarts
  <2> QED
    BY <2>1, ProcessOf, WholeComesUp, ClosedStep DEF DialogType, DiskType
<1> QED
  BY <1>1, <1>2, <1>3

LEMMA UpdInvScript ==
    ASSUME OneDialog, UpdInv, ShellStarts \/ SwapBegins \/ SwapEnds \/ ScriptEnds
    PROVE  UpdInv'
<1>1. CASE ShellStarts
  <2>1. PICK works \in BOOLEAN : StartsInPlace(works)
    BY <1>1 DEF ShellStarts
  <2>2. ~up /\ UNCHANGED <<kind, dialog, package, disk, stranded>> /\ ~OnWindows
    BY <1>1 DEF ShellStarts
  <2> QED
    BY <2>1, <2>2, ProcessOf, WholeComesUp, ClosedStep DEF DialogType, DiskType, PlaceFits
<1>2. CASE SwapBegins
  <2>1. /\ ~up /\ OnWindows /\ script = "armed"
        /\ UNCHANGED <<kind, dialog, package, up, stranded>>
        /\ \/ disk' = [disk EXCEPT !.place = "torn"] /\ script' = "copying"
           \/ disk' = disk
    BY <1>2 DEF SwapBegins
  <2>2. DiskType' /\ (disk'.place = "torn" => script' = "copying" \/ stranded')
        /\ disk'.place # "none"
    BY <2>1, ProcessOf DEF DiskType, Programs, PlaceFits
  <2> QED
    BY <2>1, <2>2, ProcessOf, ClosedStep DEF DialogType
<1>3. CASE SwapEnds
  <2>1. /\ ~up /\ UNCHANGED <<kind, dialog, package, up>>
        /\ \/ disk' = [disk EXCEPT !.place = "new"] /\ stranded' = stranded
           \/ disk' = disk /\ stranded' = TRUE
    BY <1>3 DEF SwapEnds
  <2>2. DiskType' /\ disk'.place \in {disk.place, "new"} /\ stranded' \in BOOLEAN
        /\ (disk'.place = disk.place => stranded' \/ disk'.place = "new")
    BY <2>1, ProcessOf DEF DiskType, Programs
  <2> QED
    BY <2>1, <2>2, ProcessOf, ClosedStep DEF DialogType, PlaceFits
<1>4. CASE ScriptEnds
  <2>1. PICK works \in BOOLEAN : StartsInPlace(works)
    BY <1>4 DEF ScriptEnds
  <2>2. /\ ~up /\ script = "copied" /\ UNCHANGED <<kind, dialog, stranded>>
        /\ package' \in {package, Removed}
        /\ disk' \in {disk, [disk EXCEPT !.staging = "none"]}
    BY <1>4 DEF ScriptEnds
  <2>3. DiskType' /\ disk'.place = disk.place
    BY <2>2, ProcessOf DEF DiskType, Programs
  <2> QED
    BY <2>1, <2>2, <2>3, ProcessOf, WholeComesUp, ClosedStep DEF DialogType, PlaceFits
<1> QED
  BY <1>1, <1>2, <1>3, <1>4

LEMMA UpdInvStep ==
    ASSUME OneDialog, UpdInv, [UpdNext]_updVars
    PROVE  UpdInv'
<1>1. CASE UNCHANGED updVars
  BY <1>1 DEF updVars, UpdInv, UpdShape, PackageFits, DiskFits, PlaceFits, OnWindows
<1> QED
  BY <1>1, UpdInvDownload, UpdInvReceive, UpdInvPackage, UpdInvInstall, UpdInvSwap, UpdInvProcess, UpdInvScript
     DEF UpdNext

-----------------------------------------------------------------------------
(* Both, in the instance that is checked *)

ProgramInv == (part = "start" => ProcInv) /\ (part = "update" => UpdInv)

LEMMA ProgramInvInit ==
    ASSUME LiveInit
    PROVE  ProgramInv
BY ProcInvInit, UpdInvInit DEF LiveInit, StartInit, UpdateInit, ProgramInv

\* A part moves alone.
LEMMA PartsMoveAlone ==
    ASSUME [LiveNext]_liveVars
    PROVE  /\ part' = part
           /\ part = "link" => [RigNext]_rigVars
           /\ part = "start" => [ProcNext]_procVars
           /\ part = "update" => [UpdNext]_updVars
           /\ part = "board" => [BoardNext]_boardVars
           /\ part = "ready" => [RdyNext]_rdyVars
           /\ part = "site" => [SdNext]_sdVars
<1>1. CASE LiveNext
  BY <1>1 DEF LiveNext
<1>2. CASE UNCHANGED liveVars
  BY <1>2 DEF liveVars
<1> QED
  BY <1>1, <1>2

LEMMA ProgramInvStep ==
    ASSUME OneDialog, ProgramInv, [LiveNext]_liveVars
    PROVE  ProgramInv'
<1>1. CASE part = "start"
  BY <1>1, PartsMoveAlone, ProcInvStep DEF ProgramInv
<1>2. CASE part = "update"
  BY <1>2, PartsMoveAlone, UpdInvStep DEF ProgramInv
<1>3. CASE part \notin {"start", "update"}
  BY <1>3, PartsMoveAlone DEF ProgramInv
<1> QED
  BY <1>1, <1>2, <1>3

\* However many programs are started, crash or restart into another build, one
\* works on the log unless a start met the holder of the lock before it listened
\* (SingleInstanceGuard).  And with one dialog, wherever an update stops or fails,
\* its restart included: on macOS and Linux what lies in the program's place is
\* whole, or it lies beside it, or the way back failed or was cut off; on Windows
\* it is whole unless the batch file is copying, failed in the middle of that or
\* was cut off there (SelfUpdater::install, restart).
THEOREM OneProgramIsLeft ==
    ASSUME OneDialog
    PROVE  LiveSpec => []OneWholeProgram
<1>1. ProgramInv /\ [LiveNext]_liveVars => ProgramInv'
  BY ProgramInvStep
<1>2. ProgramInv => OneWholeProgram
  BY AtMostOneWorks
     DEF ProgramInv, OneWholeProgram, UpdInv, DiskFits, PlaceFits, OnlyWholePrograms, ProgramStays
<1> QED
  BY <1>1, <1>2, ProgramInvInit, PTL DEF LiveSpec

-----------------------------------------------------------------------------
(* Terrain and tiles.  Each function of the whole state in SiteData is described
   once, by what it leaves alone and what holds of what it returns; recomputeAll(),
   which all of them end with, is the one that makes the paths right. *)

States ==
    [own: SdPlaces \cup {NoPlace}, asked: SUBSET SdTargets,
     class: SUBSET (SdTargets \X SdPlaces), ring: SUBSET (SdTargets \X SdPlaces),
     loaded: SUBSET SdTiles, pending: SUBSET SdTiles, whole: SUBSET SdTiles, half: SUBSET SdTiles,
     rim: SUBSET SdTiles, rimOf: SdPlaces \cup {NoPlace},
     site: SdPlaces \cup {NoPlace}, weather: SdPlaces \cup {NoPlace}, inquiries: SUBSET SdPlaces]

\* Every tile a path asked for needs.
Needed(s) == UNION {SdPaths[s.own][t] : t \in s.asked}

\* The two parts of TerrainIsTrue about paths, and the one about the ring, of any
\* state.
PathsRight(s) ==
    s.own # NoPlace =>
        /\ Needed(s) \subseteq s.loaded \cup s.pending
        /\ \A t \in s.asked : SdPaths[s.own][t] \subseteq s.loaded =>
              {c[2] : c \in {d \in s.class : d[1] = t}} = {s.own}
RingRight(s) ==
    s.own # NoPlace => s.ring = {c \in s.class : c[1] \in SdSweep[s.own]}

SameGround(s, t) == t.own = s.own /\ t.ring = s.ring

LEMMA PathsAreTiles ==
    ASSUME NEW s \in States, s.own # NoPlace
    PROVE  /\ \A t \in SdTargets : SdPaths[s.own][t] \subseteq SdTiles
           /\ Needed(s) \subseteq SdTiles
           /\ SdSweep[s.own] \subseteq SdTargets /\ SdHorizon[s.own] \subseteq SdTiles
<1>1. s.own \in SdPlaces /\ s.asked \subseteq SdTargets
  BY DEF States
<1>2. SdPaths[s.own] \in [SdTargets -> SUBSET SdTiles]
  BY <1>1, SiteDataAssumption DEF SiteDataAssumption
<1>3. \A t \in SdTargets : SdPaths[s.own][t] \subseteq SdTiles
  BY <1>2
<1>4. SdSweep[s.own] \subseteq SdTargets /\ SdHorizon[s.own] \subseteq SdTiles
  BY <1>1, SiteDataAssumption DEF SiteDataAssumption
<1> QED
  BY <1>1, <1>3, <1>4 DEF Needed

\* ensureTileAvailable()
LEMMA FetchBrings ==
    ASSUME NEW s \in States, NEW need \in SUBSET SdTiles
    PROVE  /\ Fetch(s, need) \in States /\ SameGround(s, Fetch(s, need))
           /\ Fetch(s, need).asked = s.asked /\ Fetch(s, need).class = s.class
           /\ need \subseteq Fetch(s, need).loaded \cup Fetch(s, need).pending
<1> DEFINE missing == need \ (s.loaded \cup s.pending)
<1> DEFINE f == [s EXCEPT !.loaded = s.loaded \cup (missing \cap s.whole),
                          !.pending = s.pending \cup (missing \ s.whole), !.half = s.half \ missing]
<1>1. f \in States
  BY DEF States
<1>2. /\ f.own = s.own /\ f.ring = s.ring /\ f.asked = s.asked /\ f.class = s.class
      /\ f.loaded = s.loaded \cup (missing \cap s.whole)
      /\ f.pending = s.pending \cup (missing \ s.whole)
  BY DEF States
<1>3. Fetch(s, need) = f
  BY DEF Fetch
<1>4. need \subseteq f.loaded \cup f.pending
  BY <1>2
<1> HIDE DEF f
<1> QED
  BY <1>1, <1>2, <1>3, <1>4 DEF SameGround

\* recomputeAll()
LEMMA RecomputeAllJudges ==
    ASSUME NEW s \in States
    PROVE  /\ RecomputeAll(s) \in States /\ SameGround(s, RecomputeAll(s))
           /\ PathsRight(RecomputeAll(s))
<1>1. CASE s.own = NoPlace
  BY <1>1 DEF RecomputeAll, SameGround, PathsRight
<1>2. CASE s.own # NoPlace
  <2> DEFINE f == Fetch(s, Needed(s))
  <2> DEFINE judged == {t \in f.asked : SdPaths[f.own][t] \subseteq f.loaded}
  <2> DEFINE classes == {c \in f.class : c[1] \notin judged} \cup (judged \X {f.own})
  <2> DEFINE r == [f EXCEPT !.class = classes]
  <2>1. /\ f \in States /\ f.own = s.own /\ f.ring = s.ring /\ f.asked = s.asked
        /\ Needed(s) \subseteq f.loaded \cup f.pending
    BY <1>2, PathsAreTiles, FetchBrings DEF SameGround
  <2>2. RecomputeAll(s) = r
    BY <1>2 DEF RecomputeAll, Needed
  <2> HIDE DEF f
  <2>3. f.own \in SdPlaces /\ f.asked \subseteq SdTargets /\ f.class \subseteq SdTargets \X SdPlaces
    BY <1>2, <2>1 DEF States
  <2>4. judged \subseteq f.asked
    OBVIOUS
  <2>5. classes \subseteq SdTargets \X SdPlaces
    BY <2>3, <2>4
  <2>6. \A t \in judged : {c[2] : c \in {d \in classes : d[1] = t}} = {f.own}
    <3> SUFFICES ASSUME NEW t \in judged
                 PROVE  {c[2] : c \in {d \in classes : d[1] = t}} = {f.own}
      OBVIOUS
    <3>1. \A c \in classes : c[1] = t => c[2] = f.own
      OBVIOUS
    <3>2. <<t, f.own>> \in classes /\ <<t, f.own>>[1] = t /\ <<t, f.own>>[2] = f.own
      OBVIOUS
    <3> HIDE DEF classes, judged
    <3> QED
      BY <3>1, <3>2
  <2> HIDE DEF classes
  <2>7. /\ r \in States /\ r.own = f.own /\ r.ring = f.ring /\ r.asked = f.asked /\ r.class = classes
        /\ r.loaded = f.loaded /\ r.pending = f.pending
    BY <2>1, <2>5 DEF States
  <2> HIDE DEF r
  <2>8. Needed(r) = Needed(s)
    BY <2>1, <2>7 DEF Needed
  <2>9. PathsRight(r)
    BY <2>1, <2>6, <2>7, <2>8 DEF PathsRight
  <2> QED
    BY <2>1, <2>2, <2>7, <2>9 DEF SameGround
<1> QED
  BY <1>1, <1>2

\* classification(), and the sweep that asks for many.
LEMMA AskedJudges ==
    ASSUME NEW s \in States, NEW targets \in SUBSET SdTargets
    PROVE  /\ Asked(s, targets) \in States /\ SameGround(s, Asked(s, targets))
           /\ PathsRight(Asked(s, targets))
<1>1. CASE s.own = NoPlace
  BY <1>1 DEF Asked, SameGround, PathsRight
<1>2. CASE s.own # NoPlace
  <2> DEFINE a == [s EXCEPT !.asked = s.asked \cup targets]
  <2>1. a \in States /\ a.own = s.own /\ a.ring = s.ring
    BY DEF States
  <2>2. Asked(s, targets) = RecomputeAll(a)
    BY <1>2 DEF Asked
  <2> HIDE DEF a
  <2> QED
    BY <2>1, <2>2, RecomputeAllJudges DEF SameGround
<1> QED
  BY <1>1, <1>2

\* horizonProfileForOwnStation()
LEMMA SkylineJudges ==
    ASSUME NEW s \in States, s.own # NoPlace, PathsRight(s)
    PROVE  Skyline(s) \in States /\ Skyline(s).own = s.own /\ PathsRight(Skyline(s))
<1>1. CASE s.own = s.rimOf
  BY <1>1 DEF Skyline
<1>2. CASE s.own # s.rimOf
  <2> DEFINE f == Fetch(s, SdHorizon[s.own])
  <2> DEFINE r == [f EXCEPT !.rim = SdHorizon[f.own] \cap f.loaded, !.rimOf = f.own]
  <2>1. f \in States /\ f.own = s.own
    BY PathsAreTiles, FetchBrings DEF SameGround
  <2>2. Skyline(s) = RecomputeAll(r)
    BY <1>2 DEF Skyline
  <2> HIDE DEF f
  <2>3. r \in States /\ r.own = s.own
    BY <2>1 DEF States
  <2> HIDE DEF r
  <2> QED
    BY <2>2, <2>3, RecomputeAllJudges DEF SameGround
<1> QED
  BY <1>1, <1>2

\* refreshTerrainSectors()
LEMMA RefreshMakesRight ==
    ASSUME NEW s \in States
    PROVE  /\ RefreshTerrainSectors(s) \in States
           /\ PathsRight(RefreshTerrainSectors(s)) /\ RingRight(RefreshTerrainSectors(s))
<1>1. CASE s.own = NoPlace
  <2>1. [s EXCEPT !.ring = {}] \in States /\ [s EXCEPT !.ring = {}].own = NoPlace
    BY <1>1 DEF States
  <2> QED
    BY <1>1, <2>1 DEF RefreshTerrainSectors, PathsRight, RingRight
<1>2. CASE s.own # NoPlace
  <2> DEFINE swept == Skyline(SectorSweep(s))
  <2> DEFINE ring == {c \in swept.class : c[1] \in SdSweep[s.own]}
  <2> DEFINE r == [swept EXCEPT !.ring = ring]
  <2>1. SectorSweep(s) \in States /\ SectorSweep(s).own = s.own /\ PathsRight(SectorSweep(s))
    BY <1>2, PathsAreTiles, AskedJudges DEF SectorSweep, SameGround
  <2>2. swept \in States /\ swept.own = s.own /\ PathsRight(swept)
    BY <1>2, <2>1, SkylineJudges
  <2>3. RefreshTerrainSectors(s) = r
    BY <1>2 DEF RefreshTerrainSectors
  <2> HIDE DEF swept
  <2>4. ring \subseteq SdTargets \X SdPlaces
    BY <2>2 DEF States
  <2> HIDE DEF ring
  <2>5. /\ r \in States /\ r.own = swept.own /\ r.class = swept.class /\ r.asked = swept.asked
        /\ r.loaded = swept.loaded /\ r.pending = swept.pending /\ r.ring = ring
    BY <2>2, <2>4 DEF States
  <2> HIDE DEF r
  <2>6. Needed(r) = Needed(swept)
    BY <2>5 DEF Needed
  <2>7. PathsRight(r)
    BY <2>2, <2>5, <2>6 DEF PathsRight
  <2>8. RingRight(r)
    BY <2>2, <2>5 DEF RingRight, ring
  <2> QED
    BY <2>3, <2>5, <2>7, <2>8
<1> QED
  BY <1>1, <1>2

\* classificationChanged(): it reaches the ring, or no class has changed.
LEMMA AnnouncedIsRight ==
    ASSUME NEW s \in States, NEW t \in States, SameGround(s, t), RingRight(s), PathsRight(t)
    PROVE  Announced(s, t) \in States /\ PathsRight(Announced(s, t)) /\ RingRight(Announced(s, t))
<1>1. CASE t.class = s.class
  BY <1>1 DEF Announced, SameGround, RingRight
<1>2. CASE t.class # s.class
  BY <1>2, RefreshMakesRight DEF Announced
<1> QED
  BY <1>1, <1>2

LEMMA TilesChangedIsRight ==
    ASSUME NEW s \in States, RingRight(s)
    PROVE  TilesChanged(s) \in States /\ PathsRight(TilesChanged(s)) /\ RingRight(TilesChanged(s))
BY RecomputeAllJudges, AnnouncedIsRight DEF TilesChanged

LEMMA TilesChangedIsState ==
    ASSUME NEW s \in States
    PROVE  TilesChanged(s) \in States
BY RecomputeAllJudges, RefreshMakesRight DEF TilesChanged, Announced

\* setOwnGrid() of the weather leaves the terrain alone.
LEMMA SetOwnGridIsState ==
    ASSUME NEW s \in States
    PROVE  SetOwnGrid(s) \in States
<1>1. CASE s.own \in {NoPlace, s.site}
  BY <1>1 DEF SetOwnGrid
<1>2. CASE s.own \notin {NoPlace, s.site}
  <2>1. s.own \in SdPlaces
    BY <1>2 DEF States
  <2>2. [s EXCEPT !.site = s.own, !.inquiries = s.inquiries \cup {s.own}] \in States
    BY <2>1 DEF States
  <2> QED
    BY <1>2, <2>2 DEF SetOwnGrid
<1> QED
  BY <1>1, <1>2

LEMMA FreshIsRight ==
    ASSUME NEW own \in SdPlaces \cup {NoPlace}, NEW whole \in SUBSET SdTiles, NEW half \in SUBSET SdTiles
    PROVE  /\ Fresh(own, whole, half) \in States
           /\ PathsRight(Fresh(own, whole, half)) /\ RingRight(Fresh(own, whole, half))
<1> DEFINE blank ==
        [own |-> own, asked |-> {}, class |-> {}, ring |-> {}, loaded |-> {}, pending |-> {},
         whole |-> whole, half |-> half, rim |-> {}, rimOf |-> NoPlace,
         site |-> NoPlace, weather |-> NoPlace, inquiries |-> {}]
<1>1. blank \in States
  BY DEF States
<1>2. Fresh(own, whole, half) = RefreshTerrainSectors(SetOwnGrid(blank))
  BY DEF Fresh
<1> HIDE DEF blank
<1> QED
  BY <1>1, <1>2, SetOwnGridIsState, RefreshMakesRight

-----------------------------------------------------------------------------
(* The steps *)

SiteInv == sd \in States /\ PathsRight(sd) /\ RingRight(sd)

LEMMA SiteInvInit ==
    ASSUME SdInit
    PROVE  SiteInv
BY FreshIsRight DEF SdInit, SiteInv

\* A step that leaves terrain and tiles alone.
LEMMA WeatherStep ==
    ASSUME SiteInv, AskWeather \/ \E p \in SdPlaces : WeatherAnswers(p) \/ WeatherFails(p)
    PROVE  SiteInv'
<1>1. sd \in States
  BY DEF SiteInv
<1>2. sd.site \in SdPlaces \cup {NoPlace}
  BY <1>1 DEF States
<1>3. PICK asking \in SUBSET SdPlaces, shown \in SdPlaces \cup {NoPlace} :
          sd' = [sd EXCEPT !.inquiries = asking, !.weather = shown]
  <2>1. sd.inquiries \subseteq SdPlaces /\ sd.weather \in SdPlaces \cup {NoPlace}
    BY <1>1 DEF States
  <2>2. CASE AskWeather
    <3>1. sd.site \in SdPlaces
      BY <1>2, <2>2 DEF AskWeather
    <3>2. sd' = [sd EXCEPT !.inquiries = sd.inquiries \cup {sd.site}, !.weather = sd.weather]
      BY <1>1, <2>2 DEF AskWeather, States
    <3> QED
      BY <2>1, <3>1, <3>2
  <2>3. ASSUME NEW p \in SdPlaces, WeatherAnswers(p)
        PROVE  \E asking \in SUBSET SdPlaces, shown \in SdPlaces \cup {NoPlace} :
                   sd' = [sd EXCEPT !.inquiries = asking, !.weather = shown]
    BY <2>1, <2>3 DEF WeatherAnswers
  <2>4. ASSUME NEW p \in SdPlaces, WeatherFails(p)
        PROVE  \E asking \in SUBSET SdPlaces, shown \in SdPlaces \cup {NoPlace} :
                   sd' = [sd EXCEPT !.inquiries = asking, !.weather = shown]
    <3>1. sd' = [sd EXCEPT !.inquiries = sd.inquiries \ {p}, !.weather = sd.weather]
      BY <1>1, <2>4 DEF WeatherFails, States
    <3> QED
      BY <2>1, <3>1
  <2> QED
    BY <2>2, <2>3, <2>4
<1>4. /\ sd' \in States /\ sd'.own = sd.own /\ sd'.asked = sd.asked /\ sd'.class = sd.class
      /\ sd'.ring = sd.ring /\ sd'.loaded = sd.loaded /\ sd'.pending = sd.pending
  BY <1>1, <1>3 DEF States
<1>5. Needed(sd') = Needed(sd)
  BY <1>4 DEF Needed
<1> QED
  BY <1>4, <1>5 DEF SiteInv, PathsRight, RingRight

\* One step per action.
LEMMA SiteInvStep ==
    ASSUME SiteInv, [SdNext]_sdVars
    PROVE  SiteInv'
<1>1. sd \in States /\ RingRight(sd)
  BY DEF SiteInv
<1>2. ASSUME NEW p \in SdPlaces \cup {NoPlace}, MoveTo(p)
      PROVE  SiteInv'
  <2>1. [sd EXCEPT !.own = p] \in States
    BY <1>1 DEF States
  <2> QED
    BY <1>2, <2>1, TilesChangedIsState, SetOwnGridIsState, RefreshMakesRight DEF MoveTo, SiteInv
<1>3. ASSUME NEW t \in SdTargets, HearStation(t)
      PROVE  SiteInv'
  BY <1>1, <1>3, AskedJudges, AnnouncedIsRight DEF HearStation, SiteInv
<1>4. ASSUME NEW t \in SdTiles, NEW s \in States, SameGround(sd, s), s.class = sd.class, sd' = TilesChanged(s)
      PROVE  SiteInv'
  <2>1. RingRight(s)
    BY <1>1, <1>4 DEF SameGround, RingRight
  <2> QED
    BY <1>4, <2>1, TilesChangedIsRight DEF SiteInv
<1>5. ASSUME NEW t \in SdTiles, NEW kept \in BOOLEAN, TileArrives(t, kept)
      PROVE  SiteInv'
  <2> DEFINE s == [sd EXCEPT !.pending = sd.pending \ {t}, !.loaded = sd.loaded \cup {t},
                             !.whole = IF kept THEN sd.whole \cup {t} ELSE sd.whole]
  <2>1. s \in States /\ SameGround(sd, s) /\ s.class = sd.class
    BY <1>1 DEF States, SameGround
  <2>2. sd' = TilesChanged(s)
    BY <1>5 DEF TileArrives
  <2> HIDE DEF s
  <2> QED
    BY <1>4, <2>1, <2>2
<1>6. ASSUME NEW t \in SdTiles, TileFails(t)
      PROVE  SiteInv'
  <2> DEFINE s == [sd EXCEPT !.pending = sd.pending \ {t}]
  <2>1. s \in States /\ SameGround(sd, s) /\ s.class = sd.class
    BY <1>1 DEF States, SameGround
  <2>2. sd' = TilesChanged(s)
    BY <1>6 DEF TileFails
  <2> HIDE DEF s
  <2> QED
    BY <1>4, <2>1, <2>2
<1>7. ASSUME NEW torn \in SUBSET sd.pending, SdRestart(torn)
      PROVE  SiteInv'
  <2>1. /\ sd.own \in SdPlaces \cup {NoPlace} /\ sd.whole \in SUBSET SdTiles
        /\ sd.half \cup torn \in SUBSET SdTiles
    BY <1>1 DEF States
  <2> QED
    BY <1>7, <2>1, FreshIsRight DEF SdRestart, SiteInv
<1>8. CASE UNCHANGED sdVars
  BY <1>8 DEF sdVars, SiteInv
<1> QED
  BY <1>2, <1>3, <1>5, <1>6, <1>7, <1>8, WeatherStep DEF SdNext

\* Whatever fails, arrives late or is torn: no path waits for a tile that nobody
\* fetches, a path whose tiles are there has the class of the present place, and
\* the ring shows the classes the manager holds (TerrainDataManager::recomputeAll,
\* MainWindow::refreshTerrainSectors).
THEOREM TerrainStaysTrue == LiveSpec => []TerrainMatchesTiles
<1> DEFINE Inv == part = "site" => SiteInv
<1>1. LiveInit => Inv
  BY SiteInvInit DEF LiveInit, SiteInit
<1>2. Inv /\ [LiveNext]_liveVars => Inv'
  <2>1. CASE LiveNext
    BY <2>1, SiteInvStep DEF LiveNext
  <2>2. CASE UNCHANGED liveVars
    BY <2>2, SiteInvStep DEF liveVars
  <2> QED
    BY <2>1, <2>2
<1>3. Inv => TerrainMatchesTiles
  BY DEF TerrainMatchesTiles, TerrainIsTrue, TilesAreOnTheirWay, LoadedPathsAreJudged, ClassOf,
         RingShowsTheClasses, SiteInv, PathsRight, RingRight, Needed
<1> QED
  BY <1>1, <1>2, <1>3, PTL DEF LiveSpec

-----------------------------------------------------------------------------
(* The lines to radio and rotor.  Answers carry no name, so that what is read must
   follow from what is on the wire: of a line that is up the invariant says which
   answer is on its way and how much of it lies in the buffer. *)

\* What holds of an answer to q, as the client will have it in its buffer: an error,
\* or the lines asked for, and perhaps one more.
IsReply(q, r) ==
    \/ q = "set" /\ Len(r) = 1
    \/ q \in Queries /\ Len(r) = 1 /\ r[1] = "rprt"
    \/ /\ q \in Queries /\ Len(r) \in {Wants(q), Wants(q) + 1}
       /\ \A i \in 1..Wants(q) : r[i] = AnswerOf[q][i]
       /\ Len(r) = Wants(q) + 1 => r[Wants(q) + 1] = "tail"

\* What is under way on a line that is up.
Wire(s) ==
    IF s.awaiting = "none" THEN s.asked = <<>> /\ s.coming = <<>>
    ELSE \/ s.asked = <<s.awaiting>> /\ s.coming = <<>> /\ s.buffer = <<>>
         \/ /\ s.asked = <<>> /\ Len(s.buffer) < Wants(s.awaiting)
            /\ IsReply(s.awaiting, s.buffer \o s.coming)

OnLine(s) ==
    /\ s.poll /\ (s.deadline <=> s.awaiting # "none")
    /\ s.queue # <<>> => s.awaiting # "none"
    /\ Wire(s)
OffLine(s) == ~s.poll /\ ~s.deadline /\ s.asked = <<>> /\ s.coming = <<>>

\* The state shown is the socket's, and what goes with it runs.
LineRight(s) ==
    /\ s.state = "off" <=> s.line = "idle"
    /\ s.state = "dialing" <=> s.line = "dialing"
    /\ s.line = "up" => OnLine(s)
    /\ s.line # "up" => OffLine(s)
LineOK(s) ==
    /\ LineRight(s)
    /\ s.line = "idle" /\ s.host # "none" => s.retry

Fits(s) == s.daemon \in {0, Wanted(s)}

LinkInv == slot \in Slots /\ LineOK(slot) /\ Fits(slot) /\ misread = FALSE

\* But for the state, the daemon and its cool-down t is s.
SameSocket(s, t) ==
    /\ t.conf = s.conf /\ t.line = s.line /\ t.host = s.host /\ t.peer = s.peer
    /\ t.queue = s.queue /\ t.awaiting = s.awaiting /\ t.buffer = s.buffer
    /\ t.poll = s.poll /\ t.retry = s.retry /\ t.deadline = s.deadline
    /\ t.asked = s.asked /\ t.coming = s.coming

-----------------------------------------------------------------------------
(* The daemon *)

\* A daemon is left running only if it fits.
LEMMA SupervisionFits ==
    ASSUME NEW s \in Slots, NEW b \in BOOLEAN
    PROVE  LET t == Supervised(s, b)
           IN  t \in Slots /\ SameSocket(s, t) /\ t.state = s.state /\ Fits(t)
<1> DEFINE d == IF s.daemon = Wanted(s) THEN s ELSE Stopped(s)
<1>1. Wanted(s) \in {0} \cup Launches
  BY DEF Wanted, Slots, RigSettings
<1>2. d \in Slots /\ SameSocket(s, d) /\ d.state = s.state /\ Fits(d) /\ Wanted(d) = Wanted(s)
  BY DEF Stopped, Slots, SameSocket, Fits, Wanted
<1>3. Supervised(s, b) \in {d, Started(d)}
  BY DEF Supervised
<1> HIDE DEF d
<1>4. /\ Started(d) \in Slots /\ SameSocket(d, Started(d)) /\ Started(d).state = d.state
      /\ Fits(Started(d))
  BY <1>1, <1>2 DEF Started, Slots, SameSocket, Fits, Wanted
<1> QED
  BY <1>2, <1>3, <1>4 DEF SameSocket

LEMMA InStateGives ==
    ASSUME NEW s \in Slots, NEW new \in {"off", "dialing", "on", "error"}, Fits(s)
    PROVE  LET t == InState(s, new)
           IN  t \in Slots /\ SameSocket(s, t) /\ t.state = new /\ Fits(t)
<1> DEFINE d == [s EXCEPT !.state = new]
<1>1. d \in Slots /\ SameSocket(s, d) /\ d.state = new
  BY DEF Slots, SameSocket
<1>2. InState(s, new) \in {s, Supervised(d, new = "off")}
  BY DEF InState
<1>3. s.state = new => InState(s, new) = s
  BY DEF InState
<1>4. s.state # new => InState(s, new) = Supervised(d, new = "off")
  BY DEF InState
<1>5. SameSocket(s, s)
  BY DEF SameSocket
<1> HIDE DEF d
<1>6. LET t == Supervised(d, new = "off")
      IN  t \in Slots /\ SameSocket(d, t) /\ t.state = d.state /\ Fits(t)
  BY <1>1, SupervisionFits
<1> QED
  BY <1>1, <1>3, <1>4, <1>5, <1>6 DEF SameSocket

-----------------------------------------------------------------------------
(* The functions of the client *)

\* RigRetried() starts the retry timer if there is somebody to dial, and no more.
LEMMA RetriedWaits ==
    ASSUME NEW s \in Slots, Fits(s)
    PROVE  LET t == RigRetried(s)
           IN  /\ t \in Slots /\ Fits(t) /\ t.line = s.line /\ t.host = s.host /\ t.state = s.state
               /\ OffLine(s) => OffLine(t)
               /\ s.host # "none" => t.retry
<1> DEFINE r == s.retry \/ s.host # "none"
<1>1. r \in BOOLEAN
  BY DEF Slots
<1>2. s.host # "none" => r
  OBVIOUS
<1>3. RigRetried(s) = [s EXCEPT !.retry = r]
  BY DEF RigRetried
<1> HIDE DEF r
<1> DEFINE t == [s EXCEPT !.retry = r]
<1>4. t \in Slots /\ t.retry = r
  BY <1>1 DEF Slots
<1>5. /\ t.line = s.line /\ t.host = s.host /\ t.state = s.state /\ t.conf = s.conf
      /\ t.daemon = s.daemon /\ t.poll = s.poll /\ t.deadline = s.deadline
      /\ t.asked = s.asked /\ t.coming = s.coming
  BY DEF Slots
<1> HIDE DEF t
<1> QED
  BY <1>2, <1>3, <1>4, <1>5 DEF Fits, Wanted, OffLine, t

\* A closed line is idle, nothing is under way on it, and the retry timer runs.
LEMMA ClosedIsOff ==
    ASSUME NEW s \in Slots, Fits(s)
    PROVE  LET t == RigClosed(s)
           IN  /\ t \in Slots /\ Fits(t) /\ LineOK(t)
               /\ t.line = "idle" /\ t.host = s.host
<1> DEFINE d == [s EXCEPT !.line = "idle", !.asked = <<>>, !.coming = <<>>,
                          !.poll = FALSE, !.deadline = FALSE]
<1>1. <<>> \in Seq(Queries \cup {"set"}) /\ <<>> \in Seq(Lines)
  OBVIOUS
<1>2. d \in Slots
  BY <1>1 DEF Slots
<1>3. /\ d.line = "idle" /\ d.host = s.host /\ d.conf = s.conf /\ d.daemon = s.daemon
      /\ d.asked = <<>> /\ d.coming = <<>> /\ ~d.poll /\ ~d.deadline
  BY DEF Slots
<1> DEFINE e == InState(d, "off")
<1>4. RigClosed(s) = RigRetried(e)
  BY DEF RigClosed
<1> HIDE DEF d
<1>5. e \in Slots /\ SameSocket(d, e) /\ e.state = "off" /\ Fits(e)
  BY <1>2, <1>3, InStateGives DEF Fits, Wanted
<1> HIDE DEF e
<1>6. LET t == RigRetried(e)
      IN  /\ t \in Slots /\ Fits(t) /\ t.line = e.line /\ t.host = e.host /\ t.state = e.state
          /\ OffLine(e) => OffLine(t)
          /\ e.host # "none" => t.retry
  BY <1>5, RetriedWaits
<1>7. e.line = "idle" /\ e.host = s.host /\ OffLine(e)
  BY <1>3, <1>5 DEF SameSocket, OffLine
<1> QED
  BY <1>4, <1>5, <1>6, <1>7 DEF LineOK, LineRight

\* Whom there is to dial is dialled; there is no need of a retry timer then.
LEMMA DialledIsRight ==
    ASSUME NEW s \in Slots, Fits(s), LineRight(s)
    PROVE  LET t == RigDialled(s) IN t \in Slots /\ Fits(t) /\ LineOK(t)
<1>1. CASE s.host = "none" \/ s.line # "idle"
  BY <1>1 DEF RigDialled, LineOK
<1>2. CASE s.host # "none" /\ s.line = "idle"
  <2> DEFINE d == [s EXCEPT !.retry = FALSE, !.line = "dialing", !.peer = s.host]
  <2>1. d \in Slots /\ Fits(d) /\ d.line = "dialing" /\ OffLine(d)
    BY <1>2 DEF Slots, Fits, Wanted, OffLine, LineRight
  <2>2. RigDialled(s) = InState(d, "dialing")
    BY <1>2 DEF RigDialled
  <2> HIDE DEF d
  <2>3. LET t == InState(d, "dialing")
        IN  t \in Slots /\ SameSocket(d, t) /\ t.state = "dialing" /\ Fits(t)
    BY <2>1, InStateGives
  <2> QED
    BY <2>1, <2>2, <2>3 DEF LineOK, LineRight, SameSocket, OffLine
<1> QED
  BY <1>1, <1>2

\* abort() on a line that is up comes back through disconnected().
LEMMA HungUpIsRight ==
    ASSUME NEW s \in Slots, Fits(s), s.line = "up"
    PROVE  LET t == RigHungUp(s) IN t \in Slots /\ Fits(t) /\ LineOK(t)
<1> DEFINE d == [s EXCEPT !.retry = FALSE, !.poll = FALSE, !.deadline = FALSE,
                          !.queue = <<>>, !.awaiting = "none"]
<1>1. <<>> \in Seq(Queries \cup {"set"})
  OBVIOUS
<1>2. d \in Slots /\ d.line = "up" /\ d.conf = s.conf /\ d.daemon = s.daemon
  BY <1>1 DEF Slots
<1>3. RigHungUp(s) = InState(RigAborted(d), "off")
  BY DEF RigHungUp
<1> HIDE DEF d
<1>4. RigAborted(d) = RigClosed(d) /\ Fits(d)
  BY <1>2 DEF RigAborted, Fits, Wanted
<1>5. LET t == RigClosed(d)
      IN  t \in Slots /\ Fits(t) /\ LineOK(t) /\ t.line = "idle" /\ t.host = d.host
  BY <1>2, <1>4, ClosedIsOff
<1>6. InState(RigClosed(d), "off") = RigClosed(d)
  BY <1>5 DEF InState, LineOK, LineRight
<1> QED
  BY <1>3, <1>4, <1>5, <1>6

\* A line that is up and waits for nothing asks the next of its queue, if any.
LEMMA PumpedIsOnLine ==
    ASSUME NEW s \in Slots, s.line = "up", s.poll, s.deadline <=> s.awaiting # "none", Wire(s)
    PROVE  LET t == Pumped(s)
           IN  /\ t \in Slots /\ OnLine(t)
               /\ t.line = "up" /\ t.state = s.state /\ t.host = s.host
               /\ t.conf = s.conf /\ t.daemon = s.daemon
<1>1. CASE s.awaiting # "none" \/ s.queue = <<>>
  BY <1>1 DEF Pumped, OnLine
<1>2. CASE s.awaiting = "none" /\ s.queue # <<>>
  <2> DEFINE q == Head(s.queue)
  <2> DEFINE t == [s EXCEPT !.buffer = <<>>, !.awaiting = q, !.queue = Tail(s.queue),
                            !.asked = Append(@, q), !.deadline = TRUE]
  <2>1. Pumped(s) = t
    BY <1>2 DEF Pumped
  <2>2. s.queue \in Seq(Queries \cup {"set"}) /\ s.asked = <<>> /\ s.coming = <<>>
    BY <1>2 DEF Slots, Wire
  <2>3. q \in Queries \cup {"set"} /\ Tail(s.queue) \in Seq(Queries \cup {"set"})
    BY <1>2, <2>2, HeadTailProperties
  <2>4. Append(s.asked, q) = <<q>> /\ <<q>> \in Seq(Queries \cup {"set"}) /\ <<>> \in Seq(Lines)
    BY <2>2, <2>3
  <2> HIDE DEF q
  <2>5. /\ t \in Slots /\ t.asked = <<q>> /\ t.coming = <<>> /\ t.buffer = <<>> /\ t.awaiting = q
        /\ t.deadline /\ t.poll /\ t.line = "up" /\ t.state = s.state /\ t.host = s.host
        /\ t.conf = s.conf /\ t.daemon = s.daemon
    BY <2>2, <2>3, <2>4 DEF Slots
  <2>6. q # "none"
    BY <2>3 DEF Queries
  <2> QED
    BY <2>1, <2>5, <2>6 DEF OnLine, Wire
<1> QED
  BY <1>1, <1>2

\* Commands join the queue, and the first is sent if nothing is waited for.
LEMMA SentIsOnLine ==
    ASSUME NEW s \in Slots, NEW c \in Seq(Queries \cup {"set"}),
           s.line = "up", s.poll, s.deadline <=> s.awaiting # "none", Wire(s)
    PROVE  LET t == Sent(s, c)
           IN  /\ t \in Slots /\ OnLine(t)
               /\ t.line = "up" /\ t.state = s.state /\ t.host = s.host
               /\ t.conf = s.conf /\ t.daemon = s.daemon
<1> DEFINE d == [s EXCEPT !.queue = @ \o c]
<1>1. s.queue \o c \in Seq(Queries \cup {"set"})
  BY ConcatProperties DEF Slots
<1>2. /\ d \in Slots /\ d.line = "up" /\ d.poll /\ (d.deadline <=> d.awaiting # "none") /\ Wire(d)
      /\ d.state = s.state /\ d.host = s.host /\ d.conf = s.conf /\ d.daemon = s.daemon
  BY <1>1 DEF Slots, Wire
<1>3. Sent(s, c) = Pumped(d)
  BY DEF Sent
<1> HIDE DEF d
<1> QED
  BY <1>2, <1>3, PumpedIsOnLine

-----------------------------------------------------------------------------
(* What is read *)

LEMMA AnswerLines ==
    ASSUME NEW q \in Queries
    PROVE  /\ AnswerOf[q] \in Seq(Lines) /\ Len(AnswerOf[q]) = Wants(q) /\ Wants(q) \in {1, 2}
           /\ \A i \in 1..Wants(q) : AnswerOf[q][i] \in Lines \ {"rprt", "tail"}
<1>1. CASE q = "f"
  <2>1. AnswerOf[q] = <<"f">> /\ Wants(q) = 1
    BY <1>1 DEF AnswerOf, Queries, Wants
  <2> QED
    BY <2>1 DEF Lines
<1>2. CASE q = "m"
  <2>1. AnswerOf[q] = <<"m1", "m2">> /\ Wants(q) = 2
    BY <1>2 DEF AnswerOf, Queries, Wants
  <2> QED
    BY <2>1 DEF Lines
<1>3. CASE q = "t"
  <2>1. AnswerOf[q] = <<"t">> /\ Wants(q) = 1
    BY <1>3 DEF AnswerOf, Queries, Wants
  <2> QED
    BY <2>1 DEF Lines
<1>4. CASE q = "p"
  <2>1. AnswerOf[q] = <<"p1", "p2">> /\ Wants(q) = 2
    BY <1>4 DEF AnswerOf, Queries, Wants
  <2> QED
    BY <2>1 DEF Lines
<1> QED
  BY <1>1, <1>2, <1>3, <1>4 DEF Queries

\* f and g are b and c after the first n lines of c were taken to the end of b.
Takes(b, c, n, f, g) == f = b \o SubSeq(c, 1, n) /\ g = SubSeq(c, n + 1, Len(c))

\* Lines taken from the front of c to the end of b: the whole stays what it was.
LEMMA MovedOver ==
    ASSUME NEW b \in Seq(Lines), NEW c \in Seq(Lines), NEW n \in 1..Len(c),
           NEW f, NEW g, Takes(b, c, n, f, g)
    PROVE  /\ f \in Seq(Lines) /\ g \in Seq(Lines)
           /\ Len(f) = Len(b) + n /\ Len(g) = Len(c) - n
           /\ \A i \in 1..Len(g) : g[i] = c[n + i]
           /\ f \o g = b \o c
<1> DEFINE h == SubSeq(c, 1, n)
<1> DEFINE B == Len(b)
<1> DEFINE C == Len(c)
<1>1. B \in Nat /\ C \in Nat /\ n \in Nat /\ 1 <= n /\ n <= C
  OBVIOUS
<1>2. h \in Seq(Lines) /\ Len(h) = n /\ \A i \in 1..n : h[i] = c[i]
  BY <1>1
<1>3. g \in Seq(Lines) /\ Len(g) = C - n /\ \A i \in 1..C - n : g[i] = c[n + i]
  BY <1>1 DEF Takes
<1>4. f = b \o h
  BY DEF Takes
<1> HIDE DEF h
<1>5. f \in Seq(Lines) /\ Len(f) = B + n
  BY <1>2, <1>4, ConcatProperties
<1>6. \A i \in 1..B + n : f[i] = IF i <= B THEN b[i] ELSE h[i - B]
  BY <1>2, <1>4, ConcatProperties
<1>7. b \o c \in Seq(Lines) /\ Len(b \o c) = B + C
      /\ \A i \in 1..B + C : (b \o c)[i] = IF i <= B THEN b[i] ELSE c[i - B]
  BY ConcatProperties
<1>8. f \o g \in Seq(Lines) /\ Len(f \o g) = (B + n) + (C - n)
      /\ \A i \in 1..(B + n) + (C - n) : (f \o g)[i] = IF i <= B + n THEN f[i] ELSE g[i - (B + n)]
  <2>1. /\ f \o g \in Seq(Lines) /\ Len(f \o g) = Len(f) + Len(g)
        /\ \A i \in 1..Len(f) + Len(g) :
             (f \o g)[i] = IF i <= Len(f) THEN f[i] ELSE g[i - Len(f)]
    <3>1. f \in Seq(Lines) /\ g \in Seq(Lines)
      BY <1>3, <1>5
    <3> QED
      BY ONLY <3>1, ConcatProperties
  <2>2. Len(f) = B + n /\ Len(g) = C - n
    BY <1>3, <1>5
  <2> HIDE DEF B, C
  <2> QED
    BY <2>1, <2>2
<1> HIDE DEF B, C
<1>9. (B + n) + (C - n) = B + C
  BY <1>1
<1>10. ASSUME NEW i \in 1..B + C
       PROVE  (f \o g)[i] = (b \o c)[i]
  <2>1. i \in Nat /\ 1 <= i /\ i <= B + C
    BY <1>1
  <2>2. CASE i <= B
    <3>1. i <= B + n /\ i \in 1..B + n
      BY <1>1, <2>1, <2>2
    <3> QED
      BY <1>6, <1>7, <1>8, <1>9, <2>2, <3>1
  <2>3. CASE ~(i <= B) /\ i <= B + n
    <3>1. i \in 1..B + n /\ i - B \in 1..n
      BY <1>1, <2>1, <2>3
    <3> QED
      BY <1>2, <1>6, <1>7, <1>8, <1>9, <2>3, <3>1
  <2>4. CASE ~(i <= B + n)
    <3>1. ~(i <= B) /\ i - (B + n) \in 1..C - n /\ n + (i - (B + n)) = i - B
      BY <1>1, <2>1, <2>4
    <3> QED
      BY <1>3, <1>7, <1>8, <1>9, <2>4, <3>1
  <2> QED
    BY <2>2, <2>3, <2>4
<1>11. f \o g = b \o c
  <2> DEFINE u == f \o g
  <2> DEFINE v == b \o c
  <2>1. u \in Seq(Lines) /\ v \in Seq(Lines) /\ Len(u) = B + C /\ Len(v) = B + C
    BY <1>7, <1>8, <1>9
  <2>2. \A i \in 1..B + C : u[i] = v[i]
    BY <1>10
  <2> HIDE DEF u, v
  <2>3. u = v
    BY <2>1, <2>2, SeqEqual
  <2> QED
    BY <2>3 DEF u, v
<1> QED
  BY <1>3, <1>5, <1>11 DEF B, C

\* What is left behind a whole answer is the line too many.
LEMMA OnlyATailIsLeft ==
    ASSUME NEW q \in Queries \cup {"set"}, NEW f \in Seq(Lines), NEW g \in Seq(Lines),
           IsReply(q, f \o g), Len(f) >= Wants(q), g # <<>>
    PROVE  Len(g) = 1 /\ g[1] = "tail"
<1> DEFINE m == Wants(q)
<1> DEFINE r == f \o g
<1>1. Len(r) = Len(f) + Len(g)
      /\ \A i \in 1..Len(f) + Len(g) : r[i] = IF i <= Len(f) THEN f[i] ELSE g[i - Len(f)]
  BY ConcatProperties
<1>2. Len(f) \in Nat /\ Len(g) \in Nat /\ Len(g) # 0
  BY EmptySeq
<1>3. m \in {1, 2} /\ (q = "set" => m = 1)
  BY DEF Wants
<1>4. \/ Len(r) = 1
      \/ Len(r) \in {m, m + 1} /\ (Len(r) = m + 1 => r[m + 1] = "tail")
  BY DEF IsReply
<1> HIDE DEF m, r
<1>5. Len(f) >= m
  BY DEF m
<1>6. \A x, y \in Nat : x >= m /\ y # 0 /\ x + y \in {1, m, m + 1} => x = m /\ y = 1
  BY <1>3
<1>7. Len(f) = m /\ Len(g) = 1
  BY <1>1, <1>2, <1>4, <1>5, <1>6
<1>8. Len(r) = m + 1 /\ Len(r) # 1 /\ (m + 1) - m = 1 /\ m + 1 \in 1..Len(f) + Len(g) /\ ~(m + 1 <= m)
  BY <1>1, <1>3, <1>7
<1>9. r[m + 1] = g[(m + 1) - m]
  BY <1>1, <1>7, <1>8
<1> QED
  BY <1>4, <1>7, <1>8, <1>9

\* A line that is up, before the next command is sent.
UpRight(s) ==
    /\ s \in Slots /\ Fits(s) /\ s.line = "up" /\ s.state \in {"on", "error"}
    /\ s.poll /\ (s.deadline <=> s.awaiting # "none") /\ Wire(s)

LEMMA ReportedIsRight ==
    ASSUME NEW s, UpRight(s), NEW line
    PROVE  UpRight(Reported(s, line))
<1>1. Reported(s, line) \in {s, InState(s, "error"), InState(s, "on")}
  BY DEF Reported
<1>2. ASSUME NEW new \in {"error", "on"}
      PROVE  UpRight(InState(s, new))
  <2>1. LET t == InState(s, new)
        IN  t \in Slots /\ SameSocket(s, t) /\ t.state = new /\ Fits(t)
    BY InStateGives DEF UpRight
  <2> QED
    BY <2>1 DEF UpRight, SameSocket, Wire
<1> QED
  BY <1>1, <1>2

\* With a whole answer in the buffer and nothing behind it the client waits for
\* nothing, and nothing is on its way.
LEMMA AnsweredIsRight ==
    ASSUME NEW s \in Slots, Fits(s), s.line = "up", s.state \in {"on", "error"},
           s.poll, Len(s.buffer) >= Wants(s.awaiting), s.awaiting # "none",
           s.asked = <<>>, s.coming = <<>>
    PROVE  UpRight(Answered(s))
<1> DEFINE q == s.awaiting
<1> DEFINE rest == SubSeq(s.buffer, Wants(q) + 1, Len(s.buffer))
<1> DEFINE d == [s EXCEPT !.buffer = rest, !.awaiting = "none", !.deadline = FALSE]
<1>1. rest \in Seq(Lines)
  <2>1. s.buffer \in Seq(Lines) /\ Wants(q) \in {1, 2}
    BY DEF Slots, Wants
  <2> QED
    BY <2>1
<1>2. Answered(s) = IF q = "set" THEN Reported(d, s.buffer[1]) ELSE d
  <2>1. ~(Len(s.buffer) < Wants(q))
    <3>1. Len(s.buffer) \in Nat /\ Wants(q) \in {1, 2}
      BY DEF Slots, Wants
    <3> QED
      BY <3>1
  <2> QED
    BY <2>1 DEF Answered
<1> HIDE DEF rest
<1>3. d \in Slots
  BY <1>1 DEF Slots
<1>4. /\ d.line = "up" /\ d.state = s.state /\ d.poll /\ ~d.deadline /\ d.awaiting = "none"
      /\ d.asked = <<>> /\ d.coming = <<>> /\ d.conf = s.conf /\ d.daemon = s.daemon
  BY DEF Slots
<1> HIDE DEF d
<1>5. UpRight(d)
  BY <1>3, <1>4 DEF UpRight, Fits, Wanted, Wire
<1> QED
  BY <1>2, <1>5, ReportedIsRight

\* What a whole answer says is not taken for anything else.
LEMMA WholeAnswerIsRead ==
    ASSUME NEW s \in Slots, s.awaiting \in Queries, Len(s.buffer) >= Wants(s.awaiting),
           IsReply(s.awaiting, s.buffer)
    PROVE  ~Misread(s)
<1> DEFINE q == s.awaiting
<1> DEFINE reply == SubSeq(s.buffer, 1, Wants(q))
<1>1. /\ AnswerOf[q] \in Seq(Lines) /\ Len(AnswerOf[q]) = Wants(q) /\ Wants(q) \in {1, 2}
      /\ \A i \in 1..Wants(q) : AnswerOf[q][i] \in Lines \ {"rprt", "tail"}
  BY AnswerLines
<1>2. s.buffer \in Seq(Lines) /\ Len(s.buffer) \in Nat
  BY DEF Slots
<1>3. reply \in Seq(Lines) /\ Len(reply) = Wants(q) /\ \A i \in 1..Wants(q) : reply[i] = s.buffer[i]
  BY <1>1, <1>2
<1> HIDE DEF reply
<1>4. q # "set"
  BY DEF Queries
<1>5. CASE Len(s.buffer) = 1 /\ s.buffer[1] = "rprt"
  <2>1. Wants(q) = 1 /\ reply[1] = "rprt"
    BY <1>1, <1>2, <1>3, <1>5
  <2>2. q \in {"f", "t"}
    BY <2>1 DEF Wants, Queries
  <2>3. ~Parses(q, reply)
    BY <2>1, <2>2 DEF Parses, Numbers
  <2> QED
    BY <2>3 DEF Misread, reply
<1>6. CASE \A i \in 1..Wants(q) : s.buffer[i] = AnswerOf[q][i]
  <2>1. reply = AnswerOf[q]
    BY <1>1, <1>3, <1>6, SeqEqual
  <2> QED
    BY <2>1 DEF Misread, reply
<1> QED
  BY <1>4, <1>5, <1>6 DEF IsReply

LEMMA PumpedIsRight ==
    ASSUME NEW s, UpRight(s)
    PROVE  LET t == Pumped(s) IN t \in Slots /\ LineOK(t) /\ Fits(t)
BY PumpedIsOnLine DEF UpRight, LineOK, LineRight, Fits, Wanted

LEMMA SentIsRight ==
    ASSUME NEW s, UpRight(s), NEW c \in Seq(Queries \cup {"set"})
    PROVE  LET t == Sent(s, c) IN t \in Slots /\ LineOK(t) /\ Fits(t)
BY SentIsOnLine DEF UpRight, LineOK, LineRight, Fits, Wanted

LEMMA RoundAsks == Round \in Seq(Queries \cup {"set"})
<1>1. <<"f", "m", "t">> \in Seq(Queries \cup {"set"}) /\ <<"p">> \in Seq(Queries \cup {"set"})
  BY DEF Queries
<1> QED
  BY <1>1 DEF Round

LEMMA UpIsRight ==
    ASSUME LinkInv, slot.line = "up"
    PROVE  UpRight(slot) /\ OnLine(slot)
BY DEF LinkInv, LineOK, LineRight, OnLine, UpRight, Slots

-----------------------------------------------------------------------------
(* The steps *)

\* A read moves lines into the buffer; when a whole answer has come nothing is left
\* on its way, since a line too many comes with its answer.
LEMMA ReadStep ==
    ASSUME ~TailApart, LinkInv, NEW n \in 1..3, Read(n)
    PROVE  LinkInv'
<1> DEFINE b == slot.buffer
<1> DEFINE c == slot.coming
<1> DEFINE q == slot.awaiting
<1> DEFINE f == b \o SubSeq(c, 1, n)
<1> DEFINE g == SubSeq(c, n + 1, Len(c))
<1> DEFINE s == [slot EXCEPT !.buffer = f, !.coming = g]
<1>1. b \in Seq(Lines) /\ c \in Seq(Lines) /\ n \in 1..Len(c)
      /\ q \in Queries \cup {"set", "none"} /\ slot \in Slots
  BY DEF Read, LinkInv, Slots
<1>2. c # <<>>
  BY <1>1
<1>3. slot.line = "up"
  BY <1>2 DEF LinkInv, LineOK, LineRight, OffLine
<1>4. UpRight(slot)
  BY <1>3, UpIsRight
<1>5. q # "none" /\ slot.asked = <<>> /\ Len(b) < Wants(q) /\ IsReply(q, b \o c)
  BY <1>2, <1>4 DEF UpRight, Wire
<1>6. /\ f \in Seq(Lines) /\ g \in Seq(Lines) /\ Len(f) = Len(b) + n /\ Len(g) = Len(c) - n
      /\ \A i \in 1..Len(g) : g[i] = c[n + i]
      /\ f \o g = b \o c
  <2>1. Takes(b, c, n, f, g)
    BY DEF Takes
  <2> HIDE DEF f, g, b, c, q, s
  <2>2. b \in Seq(Lines) /\ c \in Seq(Lines) /\ n \in 1..Len(c)
    BY <1>1
  <2>3. \A F, G : Takes(b, c, n, F, G) =>
            /\ F \in Seq(Lines) /\ G \in Seq(Lines) /\ Len(F) = Len(b) + n /\ Len(G) = Len(c) - n
            /\ \A i \in 1..Len(G) : G[i] = c[n + i]
            /\ F \o G = b \o c
    BY ONLY <2>2, MovedOver
  <2> QED
    BY ONLY <2>1, <2>3, Zenon
<1>7. slot' = Pumped(Answered(s)) /\ misread' = (misread \/ Misread(s))
  BY DEF Read
<1>8. ~TailApart => (n < Len(c) => c[n + 1] # "tail")
  BY DEF Read
<1> HIDE DEF f, g
<1>9. /\ s \in Slots /\ Fits(s) /\ s.line = "up" /\ s.state \in {"on", "error"} /\ s.poll /\ s.deadline
      /\ s.awaiting = q /\ s.asked = <<>> /\ s.buffer = f /\ s.coming = g
  BY <1>1, <1>4, <1>5, <1>6 DEF UpRight, Slots, Fits, Wanted
<1> HIDE DEF s
<1>10. Wants(q) \in {1, 2} /\ Len(f) \in Nat /\ Len(g) \in Nat /\ Len(b) \in Nat /\ Len(f) >= 1
  BY <1>1, <1>6 DEF Wants
<1>11. CASE Len(f) < Wants(q)
  <2>1. Answered(s) = s /\ ~Misread(s)
    BY <1>9, <1>10, <1>11 DEF Answered, Misread
  <2>2. Wire(s)
    BY <1>5, <1>6, <1>9, <1>11 DEF Wire
  <2>3. UpRight(s)
    BY <1>5, <1>9, <2>2 DEF UpRight
  <2> QED
    BY <1>7, <2>1, <2>3, PumpedIsRight DEF LinkInv
<1>12. CASE Len(f) >= Wants(q)
  <2>1. g = <<>>
    <3>1. SUFFICES ASSUME g # <<>> PROVE FALSE
      OBVIOUS
    <3>2. Len(g) = 1 /\ g[1] = "tail"
      BY <1>1, <1>5, <1>6, <1>12, <3>1, OnlyATailIsLeft
    <3>3. \A x, y \in Nat : x - y = 1 => y < x
      OBVIOUS
    <3>4. n < Len(c) /\ c[n + 1] = "tail"
      <4>1. Len(c) \in Nat /\ n \in Nat /\ Len(g) = Len(c) - n
        BY <1>1, <1>6
      <4>2. g[1] = c[n + 1]
        <5>1. \A i \in 1..1 : g[i] = c[n + i]
          BY <1>6, <3>2
        <5> QED
          BY ONLY <5>1
      <4> QED
        BY <3>2, <3>3, <4>1, <4>2
    <3> QED
      BY <1>8, <3>4
  <2>2. f = b \o c
    <3>1. f \o <<>> = f
      BY <1>6
    <3> QED
      BY <1>6, <2>1, <3>1
  <2>3. ~Misread(s)
    <3>1. CASE q \in Queries
      BY <1>5, <1>9, <1>12, <2>2, <3>1, WholeAnswerIsRead
    <3>2. CASE q \notin Queries
      BY <1>9, <3>2 DEF Misread
    <3> QED
      BY <3>1, <3>2
  <2>4. UpRight(Answered(s))
    BY <1>5, <1>9, <1>12, <2>1, AnsweredIsRight
  <2> QED
    BY <1>7, <2>3, <2>4, PumpedIsRight DEF LinkInv
<1> QED
  BY <1>10, <1>11, <1>12

\* A server answers the one query on its way.
LEMMA AnswerStep ==
    ASSUME LinkInv, NEW reply \in Replies, Answer(reply)
    PROVE  LinkInv'
<1> DEFINE q == slot.awaiting
<1>1. slot.asked # <<>>
  BY DEF Answer
<1>2. slot.line = "up"
  BY <1>1 DEF LinkInv, LineOK, LineRight, OffLine
<1>3. UpRight(slot) /\ OnLine(slot)
  BY <1>2, UpIsRight
<1>4. /\ q # "none" /\ slot.asked = <<q>> /\ slot.coming = <<>> /\ slot.buffer = <<>>
      /\ q \in Queries \cup {"set"}
  BY <1>1, <1>3 DEF UpRight, Wire, Slots
<1>5. Head(slot.asked) = q /\ Tail(slot.asked) = <<>>
  BY <1>4
<1>6. \/ q = "set" /\ reply \in {<<"ok">>, <<"rprt">>}
      \/ q \in Queries /\ reply \in {AnswerOf[q], <<"rprt">>, Append(AnswerOf[q], "tail")}
  BY <1>4, <1>5 DEF Answer
<1>7. reply \in Seq(Lines) /\ IsReply(q, reply) /\ Wants(q) \in {1, 2}
  <2>1. CASE q = "set"
    BY <1>6, <2>1 DEF IsReply, Wants, Lines, Queries
  <2>2. CASE q \in Queries
    <3>1. /\ AnswerOf[q] \in Seq(Lines) /\ Len(AnswerOf[q]) = Wants(q) /\ Wants(q) \in {1, 2}
          /\ \A i \in 1..Wants(q) : AnswerOf[q][i] \in Lines \ {"rprt", "tail"}
      BY <2>2, AnswerLines
    <3>2. q # "set"
      BY <2>2 DEF Queries
    <3>3. CASE reply = AnswerOf[q]
      BY <2>2, <3>1, <3>3 DEF IsReply
    <3>4. CASE reply = <<"rprt">>
      BY <2>2, <3>1, <3>4 DEF IsReply, Lines
    <3>5. CASE reply = Append(AnswerOf[q], "tail")
      <4>1. "tail" \in Lines
        BY DEF Lines
      <4>2. /\ reply \in Seq(Lines) /\ Len(reply) = Wants(q) + 1 /\ reply[Wants(q) + 1] = "tail"
            /\ \A i \in 1..Wants(q) : reply[i] = AnswerOf[q][i]
        BY <3>1, <3>5, <4>1
      <4> QED
        BY <2>2, <3>1, <4>2 DEF IsReply
    <3> QED
      BY <1>6, <3>2, <3>3, <3>4, <3>5
  <2> QED
    BY <1>4, <2>1, <2>2
<1> DEFINE s == [slot EXCEPT !.asked = <<>>, !.coming = reply]
<1>8. slot' = s
  <2>1. slot.coming \o reply = reply
    BY <1>4, <1>7
  <2> QED
    BY <1>5, <2>1 DEF Answer
<1>9. <<>> \in Seq(Queries \cup {"set"}) /\ slot \in Slots
  BY DEF LinkInv
<1>10. s \in Slots
  BY <1>7, <1>9 DEF Slots
<1>11. /\ s.line = "up" /\ s.state = slot.state /\ s.poll = slot.poll
      /\ s.deadline = slot.deadline /\ s.awaiting = q /\ s.asked = <<>> /\ s.coming = reply
      /\ s.buffer = <<>> /\ s.queue = slot.queue /\ s.conf = slot.conf /\ s.daemon = slot.daemon
  BY <1>2, <1>4, <1>9 DEF Slots
<1> HIDE DEF s
<1>12. Wire(s)
  <2>1. <<>> \o reply = reply /\ Len(<<>>) = 0
    BY <1>7
  <2>2. 0 < Wants(q)
    BY <1>7
  <2> QED
    BY <1>4, <1>7, <1>11, <2>1, <2>2 DEF Wire
<1>13. LineOK(s) /\ Fits(s)
  BY <1>3, <1>11, <1>12 DEF LineOK, LineRight, OnLine, UpRight, Fits, Wanted
<1>14. misread' = misread
  BY DEF Answer, RigUntouched
<1> QED
  BY <1>8, <1>10, <1>13, <1>14 DEF LinkInv

LEMMA SaveStep ==
    ASSUME LinkInv, NEW new \in RigSettings, SaveSettings(new)
    PROVE  LinkInv'
<1> DEFINE h == IF new.enabled THEN new.host ELSE slot.host
<1> DEFINE c == [slot EXCEPT !.conf = new, !.host = h]
<1> DEFINE d == Supervised(c, FALSE)
<1>1. slot' = Saved(slot, new) /\ misread' = FALSE
  BY DEF SaveSettings, LinkInv
<1>2. h \in RigHosts /\ slot \in Slots /\ LineOK(slot)
  BY DEF LinkInv, RigSettings, Slots
<1>3. Saved(slot, new) =
        CASE new.enabled /\ new.host # "none" /\ slot.state # "on" -> RigDialled(d)
          [] ~new.enabled /\ slot.state = "on" -> RigHungUp(d)
          [] OTHER -> d
  BY DEF Saved
<1> HIDE DEF h
<1>4. c \in Slots
  BY <1>2 DEF Slots
<1>5. /\ c.host = h /\ c.line = slot.line /\ c.state = slot.state /\ c.queue = slot.queue
      /\ c.awaiting = slot.awaiting /\ c.buffer = slot.buffer /\ c.poll = slot.poll
      /\ c.retry = slot.retry /\ c.deadline = slot.deadline
      /\ c.asked = slot.asked /\ c.coming = slot.coming
  BY <1>2 DEF Slots
<1> HIDE DEF c
<1>6. d \in Slots /\ SameSocket(c, d) /\ d.state = c.state /\ Fits(d)
  BY <1>4, SupervisionFits
<1> HIDE DEF d
<1>7. LineRight(d)
  BY <1>2, <1>5, <1>6 DEF LineOK, LineRight, OnLine, OffLine, Wire, SameSocket
<1>8. CASE new.enabled /\ new.host # "none" /\ slot.state # "on"
  <2>1. slot' = RigDialled(d)
    BY <1>1, <1>3, <1>8
  <2> QED
    BY <1>1, <1>6, <1>7, <2>1, DialledIsRight DEF LinkInv
<1>9. CASE ~new.enabled /\ slot.state = "on"
  <2>1. slot' = RigHungUp(d)
    BY <1>1, <1>3, <1>9
  <2>2. d.line = "up"
    BY <1>5, <1>6, <1>7, <1>9 DEF LineRight, Slots
  <2> QED
    BY <1>1, <1>6, <2>1, <2>2, HungUpIsRight DEF LinkInv
<1>10. CASE /\ ~(new.enabled /\ new.host # "none" /\ slot.state # "on")
            /\ ~(~new.enabled /\ slot.state = "on")
  <2>1. slot' = d
    BY <1>1, <1>3, <1>10
  <2>2. d.line = slot.line /\ d.host = h /\ d.retry = slot.retry
    BY <1>5, <1>6 DEF SameSocket
  <2>3. d.line = "idle" /\ d.host # "none" => d.retry
    <3>1. slot.line = "idle" => slot.state # "on"
      BY <1>2 DEF LineOK, LineRight
    <3>2. slot.line = "idle" /\ h # "none" => ~new.enabled
      BY <1>10, <3>1 DEF h
    <3>3. ~new.enabled => h = slot.host
      BY DEF h
    <3> QED
      BY <1>2, <2>2, <3>2, <3>3 DEF LineOK
  <2> QED
    BY <1>1, <1>6, <1>7, <2>1, <2>3 DEF LinkInv, LineOK
<1> QED
  BY <1>8, <1>9, <1>10

\* connected(): the queries of the first round go out.
LEMMA LineUpStep ==
    ASSUME LinkInv, RigLineUp
    PROVE  LinkInv'
<1> DEFINE c == [slot EXCEPT !.line = "up", !.buffer = <<>>, !.queue = <<>>,
                             !.awaiting = "none", !.poll = TRUE]
<1> DEFINE d == InState(c, "on")
<1>1. slot.line = "dialing" /\ slot' = Sent(d, Round) /\ misread' = FALSE
  BY DEF RigLineUp, RigUntouched, LinkInv
<1>2. slot \in Slots /\ Fits(slot) /\ OffLine(slot)
  BY <1>1 DEF LinkInv, LineOK, LineRight
<1>3. <<>> \in Seq(Queries \cup {"set"}) /\ <<>> \in Seq(Lines)
  OBVIOUS
<1>4. c \in Slots
  BY <1>2, <1>3 DEF Slots
<1>5. /\ c.line = "up" /\ c.awaiting = "none" /\ c.poll /\ c.deadline = slot.deadline
      /\ c.asked = slot.asked /\ c.coming = slot.coming
      /\ c.conf = slot.conf /\ c.daemon = slot.daemon
  BY <1>2 DEF Slots
<1> HIDE DEF c
<1>6. d \in Slots /\ SameSocket(c, d) /\ d.state = "on" /\ Fits(d)
  BY <1>2, <1>4, <1>5, InStateGives DEF Fits, Wanted
<1> HIDE DEF d
<1>7. UpRight(d)
  BY <1>2, <1>5, <1>6 DEF UpRight, SameSocket, OffLine, Wire
<1> QED
  BY <1>1, <1>7, SentIsRight, RoundAsks DEF LinkInv

\* The retry timer dials if the line is down; otherwise it has only run out.
LEMMA RetryStep ==
    ASSUME LinkInv, RigRetryTimeout
    PROVE  LinkInv'
<1> DEFINE s == [slot EXCEPT !.retry = FALSE]
<1>1. slot' = (IF s.state = "off" THEN RigDialled(s) ELSE s) /\ misread' = FALSE
  BY DEF RigRetryTimeout, RigUntouched, LinkInv
<1>2. slot \in Slots
  BY DEF LinkInv
<1>3. s \in Slots
  BY <1>2 DEF Slots
<1>4. /\ s.line = slot.line /\ s.state = slot.state /\ s.queue = slot.queue
      /\ s.awaiting = slot.awaiting /\ s.buffer = slot.buffer /\ s.poll = slot.poll
      /\ s.deadline = slot.deadline /\ s.asked = slot.asked /\ s.coming = slot.coming
      /\ s.conf = slot.conf /\ s.daemon = slot.daemon
  BY <1>2 DEF Slots
<1> HIDE DEF s
<1>5. Fits(s) /\ LineRight(s)
  BY <1>4 DEF LinkInv, LineOK, LineRight, OnLine, OffLine, Wire, Fits, Wanted
<1>6. CASE s.state = "off"
  BY <1>1, <1>3, <1>5, <1>6, DialledIsRight DEF LinkInv
<1>7. CASE s.state # "off"
  BY <1>1, <1>3, <1>5, <1>7 DEF LinkInv, LineOK, LineRight
<1> QED
  BY <1>6, <1>7

\* The watchdog cuts the line it waits on.
LEMMA ReplyTimeoutStep ==
    ASSUME LinkInv, ReplyTimeout
    PROVE  LinkInv'
<1> DEFINE c == [slot EXCEPT !.deadline = FALSE]
<1> DEFINE s == RigAborted(c)
<1> DEFINE d == [s EXCEPT !.poll = FALSE, !.queue = <<>>, !.buffer = <<>>, !.awaiting = "none"]
<1>1. slot.deadline /\ slot \in Slots /\ misread' = FALSE
  BY DEF ReplyTimeout, RigUntouched, LinkInv
<1>2. slot.line = "up" /\ slot.awaiting # "none"
  BY <1>1 DEF LinkInv, LineOK, LineRight, OnLine, OffLine
<1>3. slot' = RigRetried(InState(d, "off"))
  BY <1>2 DEF ReplyTimeout
<1>4. c \in Slots /\ c.line = "up" /\ c.conf = slot.conf /\ c.daemon = slot.daemon
  BY <1>1, <1>2 DEF Slots
<1> HIDE DEF c
<1>5. s = RigClosed(c) /\ Fits(c)
  BY <1>4 DEF RigAborted, LinkInv, Fits, Wanted
<1>6. s \in Slots /\ Fits(s) /\ LineOK(s) /\ s.line = "idle"
  BY <1>4, <1>5, ClosedIsOff
<1> HIDE DEF s
<1>7. <<>> \in Seq(Queries \cup {"set"}) /\ <<>> \in Seq(Lines)
  OBVIOUS
<1>8. d \in Slots
  BY <1>6, <1>7 DEF Slots
<1>9. /\ d.line = "idle" /\ d.state = s.state /\ ~d.poll /\ d.deadline = s.deadline
      /\ d.asked = s.asked /\ d.coming = s.coming /\ d.conf = s.conf /\ d.daemon = s.daemon
  BY <1>6 DEF Slots
<1> HIDE DEF d
<1>10. d.state = "off" /\ OffLine(d) /\ Fits(d) /\ InState(d, "off") = d
  BY <1>6, <1>9 DEF LineOK, LineRight, OffLine, Fits, Wanted, InState
<1>11. LET t == RigRetried(d)
       IN  /\ t \in Slots /\ Fits(t) /\ t.line = d.line /\ t.host = d.host /\ t.state = d.state
           /\ OffLine(d) => OffLine(t)
           /\ d.host # "none" => t.retry
  BY <1>8, <1>10, RetriedWaits
<1> QED
  BY <1>1, <1>3, <1>9, <1>10, <1>11 DEF LinkInv, LineOK, LineRight

\* A daemon that ended leaves the line as it is, for the socket to notice.
LEMMA DaemonStep ==
    ASSUME LinkInv, DaemonDies \/ CooledDown
    PROVE  LinkInv'
<1> DEFINE d == [slot EXCEPT !.daemon = 0, !.cooling = TRUE]
<1> DEFINE e == [slot EXCEPT !.cooling = FALSE]
<1>1. slot' \in {d, e} /\ misread' = FALSE /\ slot \in Slots
  BY DEF DaemonDies, CooledDown, RigUntouched, LinkInv
<1>2. d \in Slots /\ SameSocket(slot, d) /\ d.state = slot.state /\ d.daemon = 0
  BY <1>1 DEF Slots, SameSocket
<1>3. e \in Slots /\ SameSocket(slot, e) /\ e.state = slot.state /\ e.daemon = slot.daemon
  BY <1>1 DEF Slots, SameSocket
<1> HIDE DEF d, e
<1>4. ASSUME NEW t, SameSocket(slot, t), t.state = slot.state, t.daemon \in {0, slot.daemon}
      PROVE  LineOK(t) /\ Fits(t)
  BY <1>4 DEF LinkInv, LineOK, LineRight, OnLine, OffLine, Wire, SameSocket, Fits, Wanted
<1> QED
  BY <1>1, <1>2, <1>3, <1>4 DEF LinkInv

LEMMA LinkStep ==
    ASSUME ~TailApart, LinkInv, [RigNext]_rigVars
    PROVE  LinkInv'
<1>1. ASSUME NEW new \in RigSettings, SaveSettings(new) PROVE LinkInv'
  BY <1>1, SaveStep
<1>2. CASE RigCommand
  <2>1. slot.state = "on" /\ slot' = Sent(slot, <<"set">>) /\ misread' = FALSE
    BY <1>2 DEF RigCommand, LinkInv
  <2>2. slot.line = "up"
    BY <2>1 DEF LinkInv, LineOK, LineRight, Slots
  <2>3. <<"set">> \in Seq(Queries \cup {"set"})
    OBVIOUS
  <2> QED
    BY <2>1, <2>2, <2>3, UpIsRight, SentIsRight DEF LinkInv
<1>3. CASE RigLineUp
  BY <1>3, LineUpStep
<1>4. CASE RigDialFails \/ RigLineDrops
  <2>1. slot' = RigClosed(slot) /\ misread' = FALSE
    BY <1>4 DEF RigDialFails, RigLineDrops, RigUntouched, LinkInv
  <2> QED
    BY <2>1, ClosedIsOff DEF LinkInv
<1>5. CASE PollTimeout
  <2>1. slot.poll /\ slot' = Sent(slot, Round) /\ misread' = FALSE
    BY <1>5 DEF PollTimeout, RigUntouched, LinkInv
  <2>2. slot.line = "up"
    BY <2>1 DEF LinkInv, LineOK, LineRight, OffLine
  <2> QED
    BY <2>1, <2>2, UpIsRight, SentIsRight, RoundAsks DEF LinkInv
<1>6. CASE RigRetryTimeout
  BY <1>6, RetryStep
<1>7. CASE ReplyTimeout
  BY <1>7, ReplyTimeoutStep
<1>8. ASSUME NEW n \in 1..3, Read(n) PROVE LinkInv'
  BY <1>8, ReadStep
<1>9. ASSUME NEW reply \in Replies, Answer(reply) PROVE LinkInv'
  BY <1>9, AnswerStep
<1>10. CASE WorldChanges \/ UNCHANGED rigVars
  BY <1>10 DEF WorldChanges, rigVars, LinkInv, LineOK, LineRight, OnLine, OffLine, Wire, Fits, Wanted
<1>11. CASE DaemonDies \/ CooledDown
  BY <1>11, DaemonStep
<1> QED
  BY <1>1, <1>2, <1>3, <1>4, <1>5, <1>6, <1>7, <1>8, <1>9, <1>10, <1>11 DEF RigNext

LEMMA LinkStart ==
    ASSUME RigInit
    PROVE  LinkInv
<1>1. <<>> \in Seq(Queries \cup {"set"}) /\ <<>> \in Seq(Lines)
  OBVIOUS
<1> QED
  BY <1>1 DEF RigInit, LinkInv, Slots, RigSettings, RigHosts, LineOK, LineRight, OnLine, OffLine,
              Fits, Wanted

\* Whatever the network, the servers and the daemons do: as long as a line too many
\* arrives with its answer, no value is read from another's lines; whoever waits
\* is watched, a line that is down is dialled again, and a daemon that runs is
\* the one the settings ask for (RigctldClient, RotctldClient,
\* AppController::superviseRigctld).
THEOREM LinkStaysSound ==
    ASSUME ~TailApart
    PROVE  LiveSpec => []LinkIsSound
<1> DEFINE Inv == part = "link" => LinkInv
<1>1. LiveInit => Inv
  BY LinkStart DEF LiveInit, LinkInit
<1>2. Inv /\ [LiveNext]_liveVars => Inv'
  <2> SUFFICES ASSUME Inv, [LiveNext]_liveVars, part' = "link" PROVE LinkInv'
    OBVIOUS
  <2>1. part' = part /\ (part = "link" => [RigNext]_rigVars)
    <3>1. CASE LiveNext
      BY <3>1 DEF LiveNext
    <3>2. CASE UNCHANGED liveVars
      BY <3>2 DEF liveVars
    <3> QED
      BY <3>1, <3>2
  <2> QED
    BY <2>1, LinkStep
<1>3. Inv => LinkIsSound
  <2>1. LinkInv => NeverSilentlyDead /\ AnswersBelong /\ DaemonFitsSettings
    BY DEF LinkInv, LineOK, LineRight, OnLine, OffLine, Fits, Slots,
           NeverSilentlyDead, AnswersBelong, DaemonFitsSettings
  <2> QED
    BY <2>1 DEF LinkIsSound
<1> QED
  BY <1>1, <1>2, <1>3, PTL DEF LiveSpec

-----------------------------------------------------------------------------
(* The types of the starts.  A program that is there runs a build. *)

\* A process that is there runs a build.
ProcTyped == ProcTypeOK /\ \A p \in Pids : proc[p] # "off" => build[p] \in Builds

\* The starts and restarts of programs (SingleInstanceGuard).
LEMMA ProcTypeStep ==
    ASSUME ProcTyped, [ProcNext]_procVars
    PROVE  ProcTyped'
<1> USE SingleInstanceAssumption
<1>1. ProcMaxFaults \in Nat
  OBVIOUS
<1>2. ASSUME ProcFault PROVE procFaults' \in 0..ProcMaxFaults
  BY <1>1, <1>2 DEF ProcTyped, ProcFault, ProcTypeOK
<1>3. ASSUME NEW p \in Pids, Released(p)
      PROVE  holder' \in {0, Stale} \cup Pids /\ socket' \in {0, Stale} \cup Pids
  BY <1>3 DEF ProcTyped, Released, ProcTypeOK
<1>4. ASSUME NEW p \in Pids, NEW r \in Pids, NEW b \in Builds, proc[p] = "running", RestartInto(p, r, b)
      PROVE  /\ holder' \in {0, Stale} \cup Pids /\ socket' \in {0, Stale} \cup Pids
             /\ proc' \in [Pids -> ProcStates] /\ build' \in [Pids -> {0} \cup Builds]
             /\ \A q \in Pids : proc'[q] # "off" => build'[q] \in Builds
  <2>1. Released(p)
    BY <1>4 DEF ProcTyped, RestartInto
  <2>2. /\ proc' \in [Pids -> ProcStates] /\ build' \in [Pids -> {0} \cup Builds]
        /\ \A q \in Pids : proc'[q] # "off" => build'[q] \in Builds
    BY <1>4 DEF ProcTyped, RestartInto, ProcTypeOK, ProcStates
  <2> QED BY <1>3, <2>1, <2>2
<1>5. ASSUME NEW p \in Pids, ProcStep(p) PROVE ProcTyped'
  <2>1. CASE TakeLock(p)
    BY <2>1 DEF ProcTyped, TakeLock, ProcTypeOK, ProcStates
  <2>2. CASE LockRefused(p)
    BY <2>2 DEF ProcTyped, LockRefused, ProcTypeOK, ProcStates
  <2>3. CASE Listen(p)
    BY <2>3 DEF ProcTyped, Listen, ProcTypeOK, ProcStates
  <2>4. CASE Ask(p)
    <3>1. socket \in Pids /\ build[p] \in {0} \cup Builds /\ inbox[socket] \subseteq Builds
      BY <2>4 DEF ProcTyped, Ask, Answering, ProcTypeOK
    <3>2. build[p] \in Builds
      BY <2>4 DEF Ask, ProcTyped
    <3> QED BY <2>4, <3>1, <3>2 DEF ProcTyped, Ask, ProcTypeOK, ProcStates
  <2>5. CASE GoOnAlone(p)
    BY <2>5 DEF ProcTyped, GoOnAlone, ProcTypeOK, ProcStates
  <2>6. CASE StartEnds(p)
    BY <2>6 DEF ProcTyped, StartEnds, ProcTypeOK, ProcStates
  <2>7. CASE ProcessEnds(p)
    <3>1. Released(p)
      BY <2>7 DEF ProcTyped, ProcessEnds
    <3> QED BY <1>3, <2>7, <3>1 DEF ProcTyped, ProcessEnds, ProcTypeOK, ProcStates
  <2> QED BY <1>5, <2>1, <2>2, <2>3, <2>4, <2>5, <2>6, <2>7 DEF ProcTyped, ProcStep
<1>6. ASSUME NEW p \in Pids, NEW b \in Builds, StartProgram(p, b) PROVE ProcTyped'
  BY <1>6 DEF ProcTyped, StartProgram, ProcTypeOK, ProcStates
<1>7. ASSUME NEW p \in Pids, NEW b \in Builds, NEW r \in Pids, ReadLine(p, b, r) PROVE ProcTyped'
  <2>1. inbox' \in [Pids -> SUBSET Builds] /\ wish' \in BOOLEAN /\ gap' = gap /\ procFaults' = procFaults
    BY <1>7 DEF ProcTyped, ReadLine, ProcTypeOK
  <2>2. CASE b # build[p]
    <3>1. RestartInto(p, r, b)
      BY <1>7, <2>2 DEF ProcTyped, ReadLine
    <3>2. proc[p] = "running"
      BY <1>7 DEF ReadLine
    <3> QED BY <1>4, <2>1, <3>1, <3>2 DEF ProcTyped, ProcTypeOK
  <2>3. CASE b = build[p]
    <3>1. UNCHANGED <<proc, build, holder, socket>>
      BY <1>7, <2>3 DEF ProcTyped, ReadLine
    <3> QED BY <2>1, <3>1 DEF ProcTyped, ProcTypeOK
  <2> QED BY <2>2, <2>3
<1>8. ASSUME NEW p \in Pids, NEW r \in Pids, RestartSelf(p, r) PROVE ProcTyped'
  <2>1. RestartInto(p, r, build[p]) /\ build[p] \in Builds /\ proc[p] = "running"
    BY <1>8 DEF ProcTyped, RestartSelf, ProcTypeOK
  <2> DEFINE b == build[p]
  <2>2. RestartInto(p, r, b) /\ b \in Builds /\ proc[p] = "running"
    BY <2>1
  <2> HIDE DEF ProcTyped, b
  <2>3. /\ holder' \in {0, Stale} \cup Pids /\ socket' \in {0, Stale} \cup Pids
        /\ proc' \in [Pids -> ProcStates] /\ build' \in [Pids -> {0} \cup Builds]
        /\ \A q \in Pids : proc'[q] # "off" => build'[q] \in Builds
    BY <1>4, <2>2
  <2> QED BY <1>8, <2>3 DEF ProcTyped, RestartSelf, ProcTypeOK
<1>9. ASSUME NEW p \in Pids, CloseWindow(p) \/ ProcessCrashes(p) \/ ProcessHangs(p) PROVE ProcTyped'
  <2>1. procFaults' \in 0..ProcMaxFaults
    BY <1>2, <1>9 DEF ProcTyped, CloseWindow, ProcessCrashes, ProcessHangs
  <2>2. CASE CloseWindow(p)
    BY <2>1, <2>2 DEF ProcTyped, CloseWindow, ProcTypeOK, ProcStates
  <2>3. CASE ProcessCrashes(p)
    BY <2>1, <2>3 DEF ProcTyped, ProcessCrashes, ProcTypeOK, ProcStates
  <2>4. CASE ProcessHangs(p)
    BY <2>1, <2>4 DEF ProcTyped, ProcessHangs, ProcTypeOK, ProcStates
  <2> QED BY <1>9, <2>2, <2>3, <2>4
<1>10. CASE UNCHANGED procVars
  BY <1>10 DEF ProcTyped, procVars, ProcTypeOK
<1> QED BY <1>5, <1>6, <1>7, <1>8, <1>9, <1>10 DEF ProcTyped, ProcNext, ReadLines

\* Nothing runs at first.
LEMMA ProcTypeStart == ASSUME ProcInit PROVE ProcTyped
<1>1. ProcMaxFaults \in Nat
  BY SingleInstanceAssumption
<1>2. procFaults \in 0..ProcMaxFaults
  BY <1>1 DEF ProcInit
<1>3. proc \in [Pids -> ProcStates] /\ \A p \in Pids : proc[p] = "off"
  BY DEF ProcInit, ProcStates
<1>4. build \in [Pids -> {0} \cup Builds] /\ inbox \in [Pids -> SUBSET Builds]
  BY DEF ProcInit
<1>5. holder \in {0, Stale} \cup Pids /\ socket \in {0, Stale} \cup Pids /\ wish \in BOOLEAN /\ gap \in BOOLEAN
  BY DEF ProcInit
<1> QED BY <1>2, <1>3, <1>4, <1>5 DEF ProcTyped, ProcTypeOK

-----------------------------------------------------------------------------
(* The types of the scoreboard and of the readiness window *)

\* The timer of a board that is switched on runs.  A QSO that no message has told
\* is in m_records by then, and the timer will have fired before the lull after it
\* is as long as the interval.
BoardTyped ==
    /\ boardOn \in BoardIntervals \cup {0} /\ boardTimer \in Nat /\ boardTimer <= boardOn
    /\ boardOn > 0 => boardTimer > 0
    /\ boardNews \in {"none", "held", "missed"}
    /\ boardCalm \in 0..BoardHorizon /\ boardSince \in 0..BoardHorizon
    /\ boardOn > 0 /\ boardNews # "none" =>
           boardNews = "held" /\ boardTimer + boardCalm <= boardOn

\* The waits that are counted.
LEMMA LongerWaitCounts ==
    ASSUME NEW n \in 0..BoardHorizon
    PROVE  LongerWait(n) \in 0..BoardHorizon /\ LongerWait(n) <= n + 1
<1>1. BoardHorizon \in Nat
  BY OnlineBoardAssumption DEF OnlineBoardAssumption
<1> QED BY <1>1 DEF LongerWait

\* What the board was told, and when it is told the rest (OnlineScoreboard).
LEMMA BoardTypeStep ==
    ASSUME BoardTyped, [BoardNext]_boardVars
    PROVE  BoardTyped'
<1>1. BoardIntervals \subseteq Nat \ {0} /\ BoardHorizon \in Nat /\ boardOn \in Nat
  BY OnlineBoardAssumption DEF OnlineBoardAssumption, BoardTyped
<1>2. CASE BoardQsoLogged
  BY <1>1, <1>2 DEF BoardQsoLogged, RefreshScoreboard, SetConfig, Held, BoardTyped
<1>3. CASE BoardPostNow
  BY <1>1, <1>3 DEF BoardPostNow, SetConfig, BoardTyped
<1>4. CASE BoardMinute
  <2>1. /\ boardCalm' \in 0..BoardHorizon /\ boardCalm' <= boardCalm + 1
        /\ boardSince' \in 0..BoardHorizon /\ boardCalm \in Nat /\ boardCalm' \in Nat
    BY <1>1, <1>4, LongerWaitCounts DEF BoardMinute, BoardTyped
  <2>2. CASE boardTimer = 1
    BY <1>1, <1>4, <2>1, <2>2 DEF BoardMinute, BoardTyped
  <2>3. CASE boardTimer # 1
    BY <1>1, <1>4, <2>1, <2>3 DEF BoardMinute, BoardTyped
  <2> QED BY <2>2, <2>3
<1>5. ASSUME NEW on \in BoardIntervals \cup {0}, BoardDialogSaved(on) PROVE BoardTyped'
  BY <1>1, <1>5 DEF BoardDialogSaved, RefreshScoreboard, SetConfig, Held, BoardTyped
<1>6. CASE UNCHANGED boardVars
  BY <1>6 DEF boardVars, BoardTyped
<1> QED BY <1>2, <1>3, <1>4, <1>5, <1>6 DEF BoardNext

LEMMA BoardTypeStart == ASSUME BoardInit PROVE BoardTyped
<1>1. BoardHorizon \in Nat
  BY OnlineBoardAssumption DEF OnlineBoardAssumption
<1> QED BY <1>1 DEF BoardInit, BoardTyped

LEMMA BoardTypeShows == ASSUME BoardTyped PROVE BoardTypeOK
<1>1. boardOn \in Nat
  BY OnlineBoardAssumption DEF OnlineBoardAssumption, BoardTyped
<1> QED BY <1>1 DEF BoardTyped, BoardTypeOK

\* With QSOs going on for ever, every QSO before a lull as long as the interval is
\* told in that lull, whatever restarted the timer (OnlineScoreboard::setConfig).
THEOREM EveryLullTells ==
    LiveSpec => [](part = "board" => ALullTellsEveryQso)
<1> DEFINE Inv == part = "board" => BoardTyped
<1>1. LiveInit => Inv
  BY BoardTypeStart DEF LiveInit, ScoreInit
<1>2. Inv /\ [LiveNext]_liveVars => Inv'
  BY BoardTypeStep, PartsMoveAlone
<1>3. Inv => (part = "board" => ALullTellsEveryQso)
  <2>1. ASSUME BoardTyped PROVE ALullTellsEveryQso
    <3>1. boardOn \in Nat /\ boardCalm \in Nat /\ BoardHorizon \in Nat
      BY <2>1, OnlineBoardAssumption DEF OnlineBoardAssumption, BoardTyped
    <3> QED
      BY <2>1, <3>1 DEF BoardTyped, ALullTellsEveryQso, ThereIsALull, AllIsTold
  <2> QED BY <2>1
<1> HIDE DEF Inv
<1> QED
  BY <1>1, <1>2, <1>3, PTL DEF LiveSpec

\* The readiness window shows a station there was (ClockCheck, MainWindow::refreshReadiness).
LEMMA RdyTypeStep ==
    ASSUME RdyTypeOK, [RdyNext]_rdyVars
    PROVE  RdyTypeOK'
<1>1. ClockUrls \in Nat \ {0} /\ ClockErrors \subseteq Int /\ RdyHorizon \in Nat
  BY ReadinessAssumption DEF ReadinessAssumption
<1> DEFINE Now(result) == [station |-> station, clock |-> result]
<1>2. \A result : Now(result).station = station
  OBVIOUS
<1>3. station \in StationChoices /\ rdyShown.station \in StationChoices
  BY DEF RdyTypeOK
<1>4. ASSUME NEW result, CheckFinished(result) PROVE RdyTypeOK'
  <2>1. rdyShown' = Now(result)
    BY <1>4 DEF CheckFinished
  <2>2. rdyShown'.station \in StationChoices
    BY <1>2, <1>3, <2>1
  <2>3. clockAge' \in (-RdyHorizon)..RdyHorizon /\ clockAsked' \in 0..ClockUrls
    BY <1>1, <1>4 DEF CheckFinished
  <2> QED BY <1>4, <2>2, <2>3 DEF CheckFinished, RdyTypeOK
<1>5. CASE OpenWindow
  <2>1. rdyShown' = Now(clockResult)
    BY <1>5 DEF OpenWindow
  <2>2. rdyShown'.station \in StationChoices
    BY <1>2, <1>3, <2>1
  <2>3. clockAsked' \in 0..ClockUrls /\ clockSince' \in 0..RdyHorizon /\ rdyOpen' \in BOOLEAN
    BY <1>1, <1>5 DEF OpenWindow, RdyTypeOK
  <2> QED BY <1>5, <2>2, <2>3 DEF OpenWindow, RdyTypeOK
<1>6. CASE CloseReadiness
  BY <1>6 DEF CloseReadiness, RdyTypeOK
<1>7. CASE RefreshTimer
  <2>1. rdyShown' = Now(clockResult)
    BY <1>7 DEF RefreshTimer, Refreshed
  <2>2. rdyShown'.station \in StationChoices
    BY <1>2, <1>3, <2>1
  <2>3. clockAsked' \in 0..ClockUrls /\ clockSince' \in 0..RdyHorizon
    BY <1>1, <1>7 DEF RefreshTimer, Refreshed, RdyTypeOK
  <2> QED BY <1>7, <2>2, <2>3 DEF RefreshTimer, RdyTypeOK
<1>8. CASE ServerAnswers
  BY <1>4, <1>8 DEF ServerAnswers
<1>9. CASE NoServer
  <2>1. CASE clockAsked < ClockUrls
    <3>1. clockAsked' \in 0..ClockUrls
      BY <1>1, <1>9, <2>1 DEF NoServer, RdyTypeOK
    <3>2. UNCHANGED <<rdyOpen, rdyShown, station, rdyOnline, clockAhead, clockResult, clockAge, clockSince>>
      BY <1>9, <2>1 DEF NoServer
    <3> QED BY <3>1, <3>2 DEF RdyTypeOK
  <2>2. CASE ~(clockAsked < ClockUrls)
    BY <1>4, <1>9, <2>2 DEF NoServer
  <2> QED BY <2>1, <2>2
<1>10. CASE RdyMinute
  <2>1. clockAge' \in (-RdyHorizon)..RdyHorizon /\ clockSince' \in 0..RdyHorizon
    BY <1>1, <1>10 DEF RdyMinute, RdyTypeOK
  <2> QED BY <1>10, <2>1 DEF RdyMinute, RdyTypeOK
<1>11. CASE NetworkChanges
  BY <1>11 DEF NetworkChanges, RdyTypeOK
<1>12. ASSUME NEW a \in ClockErrors, ClockSet(a) PROVE RdyTypeOK'
  BY <1>12 DEF ClockSet, RdyTypeOK
<1>13. ASSUME NEW s \in StationChoices, StationChanges(s) PROVE RdyTypeOK'
  BY <1>13 DEF StationChanges, RdyTypeOK
<1>14. CASE UNCHANGED rdyVars
  BY <1>14 DEF rdyVars, RdyTypeOK
<1> QED BY <1>5, <1>6, <1>7, <1>8, <1>9, <1>10, <1>11, <1>12, <1>13, <1>14 DEF RdyNext

LEMMA RdyTypeStart == ASSUME RdyInit PROVE RdyTypeOK
<1>1. ClockUrls \in Nat /\ RdyHorizon \in Nat
  BY ReadinessAssumption DEF ReadinessAssumption
<1> DEFINE shown == [station |-> station, clock |-> Never]
<1>2. rdyShown = shown /\ shown.station = station
  BY DEF RdyInit
<1>3. station \in StationChoices /\ rdyShown.station \in StationChoices
  BY <1>2 DEF RdyInit
<1>4. clockAsked \in 0..ClockUrls /\ clockAge \in (-RdyHorizon)..RdyHorizon /\ clockSince \in 0..RdyHorizon
  BY <1>1 DEF RdyInit
<1> QED BY <1>3, <1>4 DEF RdyInit, RdyTypeOK

-----------------------------------------------------------------------------
(* The types of the update, whatever number of dialogs is open. *)

DialogTypes == [UpdDialogs -> [step : Steps, next : 1..Blocks + 1]]
DiskTypes == [place : Programs, staging : Programs, aside : Programs]

LEMMA UpdCounted ==
    ASSUME UpdTypeOK, UpdFault \/ NoFault \/ updFaults' = updFaults
    PROVE  updFaults' \in 0..UpdMaxFaults
BY SelfUpdateAssumption DEF UpdTypeOK, UpdFault, NoFault

LEMMA ToIsTyped ==
    ASSUME UpdTypeOK, NEW d \in UpdDialogs, NEW s \in Steps, To(d, s)
    PROVE  dialog' \in DialogTypes
<1>1. [step |-> s, next |-> 1] \in [step : Steps, next : 1..Blocks + 1]
  BY BlocksArePositive
<1>2. dialog \in DialogTypes
  BY DEF UpdTypeOK, DialogTypes
<1> DEFINE new == [step |-> s, next |-> 1]
<1>3. dialog' = [dialog EXCEPT ![d] = new]
  BY DEF To
<1> HIDE DEF new
<1> QED
  BY <1>1, <1>2, <1>3 DEF DialogTypes, new

LEMMA AllClosedIsTyped == [e \in UpdDialogs |-> [step |-> "closed", next |-> 1]] \in DialogTypes
<1>1. [step |-> "closed", next |-> 1] \in [step : Steps, next : 1..Blocks + 1]
  BY BlocksArePositive DEF Steps
<1> QED
  BY <1>1 DEF DialogTypes

LEMMA PackagesAre ==
    ASSUME UpdTypeOK
    PROVE  /\ Removed \in Packages
           /\ \A blocks \in SUBSET Whole : [package EXCEPT !.blocks = blocks] \in Packages
           /\ \A open \in SUBSET UpdDialogs : [package EXCEPT !.open = open] \in Packages
           /\ package.blocks \in SUBSET Whole /\ package.open \in SUBSET UpdDialogs /\ package \in Packages
BY DEF UpdTypeOK, Packages, Removed

\* The rest of the state, of a step that ends well.
LEMMA UpdTypedFrom ==
    ASSUME UpdTypeOK, dialog' \in DialogTypes, package' \in Packages, disk' \in DiskTypes,
           release' = release \/ release' \in [newer : BOOLEAN, asset : BOOLEAN, sums : BOOLEAN],
           script' \in Scripts, up' \in BOOLEAN, stranded' \in BOOLEAN,
           kind' = kind, UpdFault \/ NoFault \/ updFaults' = updFaults
    PROVE  UpdTypeOK'
BY UpdCounted DEF UpdTypeOK, DialogTypes, DiskTypes

LEMMA UpdTypedParts ==
    ASSUME UpdTypeOK
    PROVE  /\ dialog \in DialogTypes /\ disk \in DiskTypes /\ script \in Scripts
           /\ up \in BOOLEAN /\ stranded \in BOOLEAN
           /\ release \in [newer : BOOLEAN, asset : BOOLEAN, sums : BOOLEAN]
BY DEF UpdTypeOK, DialogTypes, DiskTypes

\* A step of a dialog that leaves the disk and the process alone.
LEMMA DialogTyped ==
    ASSUME UpdTypeOK, dialog' \in DialogTypes, package' \in Packages,
           UNCHANGED <<kind, release, disk, script, up, stranded>>,
           UpdFault \/ NoFault \/ updFaults' = updFaults
    PROVE  UpdTypeOK'
BY UpdTypedFrom, UpdTypedParts

LEMMA UnpackedIsProgram == Unpacked \in Programs
BY DEF Unpacked, Programs

LEMMA DiskIs ==
    ASSUME UpdTypeOK, NEW a \in Programs, NEW b \in Programs
    PROVE  /\ [disk EXCEPT !.staging = a] \in DiskTypes
           /\ [disk EXCEPT !.aside = a, !.place = b] \in DiskTypes
           /\ [disk EXCEPT !.aside = a, !.staging = b] \in DiskTypes
           /\ [disk EXCEPT !.place = a, !.staging = b] \in DiskTypes
           /\ [place |-> a, staging |-> b, aside |-> "none"] \in DiskTypes
           /\ disk.place \in Programs /\ disk.staging \in Programs /\ disk.aside \in Programs
           /\ disk \in DiskTypes
           /\ "none" \in Programs /\ "new" \in Programs
BY DEF UpdTypeOK, DiskTypes, Programs

\* From the menu to a package that has been compared with its checksum.
LEMMA PackageTypeStep ==
    ASSUME UpdTypeOK, NEW d \in UpdDialogs,
           \/ OpenDialog(d) \/ Checked(d) \/ StartDownload(d) \/ Receive(d)
           \/ Downloaded(d) \/ CompareChecksum(d) \/ CloseDialog(d)
    PROVE  UpdTypeOK'
<1>1. package \in Packages /\ Removed \in Packages
  BY PackagesAre
<1>2. {"closed", "Checking", "UpToDate", "Offer", "Downloading", "Checksum", "Installing", "Failed"} \subseteq Steps
  BY DEF Steps
<1>3. CASE OpenDialog(d)
  BY <1>1, <1>2, <1>3, ToIsTyped, DialogTyped DEF OpenDialog
<1>4. CASE Checked(d)
  <2> DEFINE s == IF ~release.newer THEN "UpToDate"
                  ELSE IF release.asset \/ kind = "none" THEN Offered ELSE "Failed"
  <2>1. s \in Steps
    BY <1>2 DEF Offered
  <2>2. (To(d, s) /\ NoFault) \/ (To(d, "Failed") /\ UpdFault)
    BY <1>4 DEF Checked
  <2> HIDE DEF s
  <2>3. dialog' \in DialogTypes
    BY <1>2, <2>1, <2>2, ToIsTyped
  <2> QED
    BY <1>1, <1>4, <2>2, <2>3, DialogTyped DEF Checked
<1>5. CASE StartDownload(d)
  <2>1. [there |-> TRUE, blocks |-> {}, open |-> package.open \cup {d}] \in Packages
    BY <1>1 DEF Packages
  <2> QED
    BY <1>1, <1>2, <1>5, <2>1, ToIsTyped, DialogTyped DEF StartDownload
<1>6. CASE Receive(d)
  <2>1. dialog[d].next \in Whole /\ package.blocks \cup {dialog[d].next} \in SUBSET Whole
    BY <1>6, PackagesAre DEF Receive
  <2> DEFINE blocks == package.blocks \cup {dialog[d].next}
  <2> DEFINE p == [package EXCEPT !.blocks = blocks]
  <2>2. p \in Packages
    BY <2>1, PackagesAre
  <2>3. package' \in {p, package}
    BY <1>6 DEF Receive
  <2>4. dialog[d].next + 1 \in 1..Blocks + 1 /\ Blocks + 1 \in 1..Blocks + 1
    BY <2>1, BlocksArePositive DEF Whole
  <2> DEFINE n == dialog[d].next + 1
  <2> DEFINE m == Blocks + 1
  <2>5. dialog' \in {[dialog EXCEPT ![d].next = n], [dialog EXCEPT ![d].next = m]}
    BY <1>6 DEF Receive
  <2>6. dialog' \in DialogTypes
    <3>1. n \in 1..Blocks + 1 /\ m \in 1..Blocks + 1
      BY <2>4
    <3>2. dialog \in DialogTypes
      BY UpdTypedParts
    <3> DEFINE Nexts == 1..Blocks + 1
    <3>3. DialogTypes = [UpdDialogs -> [step : Steps, next : Nexts]]
      BY DEF DialogTypes
    <3>4. n \in Nexts /\ m \in Nexts
      BY <3>1
    <3> HIDE DEF n, m, Nexts
    <3> QED
      BY <2>5, <3>2, <3>3, <3>4
  <2> HIDE DEF p
  <2>7. package' \in Packages
    BY <1>1, <2>2, <2>3
  <2> QED
    BY <1>6, <2>6, <2>7, DialogTyped DEF Receive
<1>7. CASE Downloaded(d)
  <2> DEFINE p == [package EXCEPT !.open = package.open \ {d}]
  <2> DEFINE s == IF release.sums THEN "Checksum" ELSE "Installing"
  <2>1. p \in Packages
    BY PackagesAre
  <2>2. s \in Steps
    BY <1>2
  <2>3. /\ To(d, s) \/ To(d, "Failed")
        /\ package' \in {p, Removed}
        /\ UpdFault \/ NoFault
    BY <1>7 DEF Downloaded
  <2> HIDE DEF p, s
  <2>4. dialog' \in DialogTypes
    BY <1>2, <2>2, <2>3, ToIsTyped
  <2>5. package' \in Packages
    BY <1>1, <2>1, <2>3
  <2> QED
    BY <1>7, <2>3, <2>4, <2>5, DialogTyped DEF Downloaded
<1>8. CASE CompareChecksum(d)
  <2>1. /\ To(d, "Installing") \/ To(d, "Failed")
        /\ package' \in {package, Removed}
        /\ UpdFault \/ NoFault
    BY <1>8 DEF CompareChecksum
  <2>2. dialog' \in DialogTypes
    BY <1>2, <2>1, ToIsTyped
  <2> QED
    BY <1>1, <1>8, <2>1, <2>2, DialogTyped DEF CompareChecksum
<1>9. CASE CloseDialog(d)
  <2>1. package' \in {package, Removed} /\ To(d, "closed")
    BY <1>9 DEF CloseDialog
  <2>2. dialog' \in DialogTypes
    BY <1>2, <2>1, ToIsTyped
  <2> QED
    BY <1>1, <1>9, <2>1, <2>2, DialogTyped DEF CloseDialog
<1> QED
  BY <1>3, <1>4, <1>5, <1>6, <1>7, <1>8, <1>9

\* The program is swapped.
LEMMA InstallTypeStep ==
    ASSUME UpdTypeOK, NEW d \in UpdDialogs,
           CopyBeside(d) \/ WriteScript(d) \/ MoveAside(d) \/ MoveIn(d)
    PROVE  UpdTypeOK'
<1>1. package \in Packages /\ Removed \in Packages
  BY PackagesAre
<1>2. {"Copied", "Moved", "Done", "Failed"} \subseteq Steps
  BY DEF Steps
<1>3. /\ dialog \in DialogTypes /\ disk \in DiskTypes /\ script \in Scripts
      /\ up \in BOOLEAN /\ stranded \in BOOLEAN
      /\ release \in [newer : BOOLEAN, asset : BOOLEAN, sums : BOOLEAN]
  BY UpdTypedParts
<1>4. dialog' \in DialogTypes
  BY <1>2, ToIsTyped DEF CopyBeside, WriteScript, MoveAside, MoveIn
<1>5. package' \in {package, Removed} /\ kind' = kind /\ release' = release /\ up' = up
  BY DEF CopyBeside, WriteScript, MoveAside, MoveIn
<1>6. script' \in Scripts
  BY <1>3 DEF CopyBeside, WriteScript, MoveAside, MoveIn, Scripts
<1>7. stranded' \in BOOLEAN
  <2>1. stranded' = stranded \/ stranded' = TRUE
    BY DEF CopyBeside, WriteScript, MoveAside, MoveIn
  <2> QED
    BY <1>3, <2>1
<1>8. UpdFault \/ NoFault
  BY DEF CopyBeside, WriteScript, MoveAside, MoveIn
<1>9. disk' \in DiskTypes
  <2>1. "none" \in Programs /\ Unpacked \in Programs /\ disk.place \in Programs
        /\ disk.staging \in Programs /\ disk.aside \in Programs
    BY DiskIs, UnpackedIsProgram DEF Programs
  <2>2. CASE CopyBeside(d)
    BY <2>1, <2>2, DiskIs DEF CopyBeside
  <2>3. CASE WriteScript(d)
    BY <2>1, <2>3, DiskIs DEF WriteScript
  <2>4. CASE MoveAside(d)
    BY <2>1, <2>4, DiskIs DEF MoveAside
  <2>5. CASE MoveIn(d)
    BY <2>1, <2>5, DiskIs DEF MoveIn
  <2> QED
    BY <2>2, <2>3, <2>4, <2>5
<1> QED
  BY <1>1, <1>3, <1>4, <1>5, <1>6, <1>7, <1>8, <1>9, UpdTypedFrom

\* What is started in its place may be newer than what the dialog offered.
LEMMA StartIsTyped ==
    ASSUME UpdTypeOK, NEW works \in BOOLEAN, StartsInPlace(works)
    PROVE  up' \in BOOLEAN /\ release' \in [newer : BOOLEAN, asset : BOOLEAN, sums : BOOLEAN]
<1> DEFINE b == release.newer /\ disk.place # "new"
<1> DEFINE Newer == [release EXCEPT !.newer = b]
<1>1. release' = Newer
  BY DEF StartsInPlace
<1>2. b \in BOOLEAN
  OBVIOUS
<1> HIDE DEF b
<1>3. Newer \in [newer : BOOLEAN, asset : BOOLEAN, sums : BOOLEAN]
  BY <1>2, UpdTypedParts
<1> HIDE DEF Newer
<1> QED
  BY <1>1, <1>3, WholeComesUp

\* The process ends and starts.
LEMMA ProcessTypeStep ==
    ASSUME UpdTypeOK, (\E d \in UpdDialogs : RestartUpdated(d)) \/ ProgramDies \/ OperatorStarts
    PROVE  UpdTypeOK'
<1>1. /\ package \in Packages /\ [package EXCEPT !.open = {}] \in Packages
  BY PackagesAre
<1>2. "none" \in Scripts /\ "armed" \in Scripts
  BY DEF Scripts
<1>3. ASSUME NEW d \in UpdDialogs, RestartUpdated(d) PROVE UpdTypeOK'
  BY <1>1, <1>2, <1>3, UpdTypedParts, AllClosedIsTyped, UpdTypedFrom DEF RestartUpdated
<1>4. CASE ProgramDies
  <2> DEFINE b == disk.place = "none" \/ script = "copying"
  <2>1. stranded' = (stranded \/ b)
    BY <1>4 DEF ProgramDies
  <2>2. b \in BOOLEAN
    OBVIOUS
  <2> HIDE DEF b
  <2>3. stranded' \in BOOLEAN
    BY <2>1, <2>2
  <2> QED
    BY <1>1, <1>2, <1>4, <2>3, UpdTypedParts, AllClosedIsTyped, UpdTypedFrom DEF ProgramDies
<1>5. CASE OperatorStarts
  BY <1>1, <1>5, StartIsTyped, UpdTypedParts, UpdTypedFrom DEF OperatorStarts
<1> QED
  BY <1>3, <1>4, <1>5

\* The script, step by step.
LEMMA ScriptTypeStep ==
    ASSUME UpdTypeOK, ShellStarts \/ SwapBegins \/ SwapEnds \/ ScriptEnds
    PROVE  UpdTypeOK'
<1>1. package \in Packages /\ Removed \in Packages
  BY PackagesAre
<1>2. "none" \in Scripts /\ "copying" \in Scripts /\ "copied" \in Scripts
      /\ "none" \in Programs /\ "new" \in Programs /\ "torn" \in Programs
  BY DEF Scripts, Programs
<1>3. /\ \A a \in Programs : [disk EXCEPT !.staging = a] \in DiskTypes
      /\ \A a \in Programs : [disk EXCEPT !.place = a] \in DiskTypes
  BY UpdTypedParts DEF DiskTypes
<1>4. CASE ShellStarts
  <2>1. PICK works \in BOOLEAN : StartsInPlace(works)
    BY <1>4 DEF ShellStarts
  <2>2. (NoFault \/ UpdFault) /\ script' = "none" /\ UNCHANGED <<kind, dialog, package, disk, stranded>>
    BY <1>4 DEF ShellStarts
  <2> QED
    BY <1>1, <1>2, <2>1, <2>2, StartIsTyped, UpdTypedParts, UpdTypedFrom
<1>5. CASE SwapBegins
  <2>1. /\ UNCHANGED <<kind, release, dialog, package, up, stranded>> /\ script' \in Scripts
        /\ NoFault \/ UpdFault
        /\ disk' \in {disk, [disk EXCEPT !.place = "torn"]}
    BY <1>2, <1>5 DEF SwapBegins
  <2> QED
    BY <1>1, <1>2, <1>3, <2>1, UpdTypedParts, UpdTypedFrom
<1>6. CASE SwapEnds
  <2>1. /\ UNCHANGED <<kind, release, dialog, package, up>> /\ script' \in Scripts
        /\ NoFault \/ UpdFault
        /\ stranded' = stranded \/ stranded' = TRUE
        /\ disk' \in {disk, [disk EXCEPT !.place = "new"]}
    BY <1>2, <1>6 DEF SwapEnds
  <2> QED
    BY <1>1, <1>2, <1>3, <2>1, UpdTypedParts, UpdTypedFrom
<1>7. CASE ScriptEnds
  <2>1. PICK works \in BOOLEAN : StartsInPlace(works)
    BY <1>7 DEF ScriptEnds
  <2>2. /\ UNCHANGED <<kind, dialog, stranded>> /\ script' = "none"
        /\ NoFault \/ UpdFault
        /\ package' \in {package, Removed}
        /\ disk' \in {disk, [disk EXCEPT !.staging = "none"]}
    BY <1>7 DEF ScriptEnds
  <2> QED
    BY <1>1, <1>2, <1>3, <2>1, <2>2, StartIsTyped, UpdTypedParts, UpdTypedFrom
<1> QED
  BY <1>4, <1>5, <1>6, <1>7

LEMMA UpdTypeStep ==
    ASSUME UpdTypeOK, [UpdNext]_updVars
    PROVE  UpdTypeOK'
<1>1. CASE UNCHANGED updVars
  BY <1>1 DEF updVars, UpdTypeOK
<1> QED
  BY <1>1, PackageTypeStep, InstallTypeStep, ProcessTypeStep, ScriptTypeStep DEF UpdNext

LEMMA UpdTypeStart ==
    ASSUME UpdInit
    PROVE  UpdTypeOK
<1>1. dialog \in DialogTypes
  BY AllClosedIsTyped DEF UpdInit
<1>2. UpdMaxFaults \in Nat
  BY SelfUpdateAssumption
<1>3. package \in Packages /\ disk \in DiskTypes
  BY DEF UpdInit, Packages, DiskTypes, Programs, Whole
<1>4. /\ kind \in UpdKinds /\ release \in [newer : BOOLEAN, asset : BOOLEAN, sums : BOOLEAN]
      /\ script = "none" /\ up \in BOOLEAN /\ stranded \in BOOLEAN /\ updFaults = 0
  BY DEF UpdInit
<1>5. updFaults \in 0..UpdMaxFaults
  BY <1>2, <1>4
<1> QED
  BY <1>1, <1>3, <1>4, <1>5 DEF UpdTypeOK, DialogTypes, DiskTypes, Scripts

-----------------------------------------------------------------------------
(* The types of place and tiles.  That no tile is whole and half, or loaded and
   pending, needs that none is pending and whole, or pending and half: a tile
   that comes is kept as a whole one, and one that is torn was pending. *)
Apart(s) ==
    /\ s.loaded \cap s.pending = {} /\ s.whole \cap s.half = {}
    /\ s.pending \cap s.half = {} /\ s.pending \cap s.whole = {}

SameTiles(s, t) ==
    t.loaded = s.loaded /\ t.pending = s.pending /\ t.whole = s.whole /\ t.half = s.half

LEMMA SameTilesApart ==
    ASSUME NEW s, NEW t, Apart(s), SameTiles(s, t)
    PROVE  Apart(t)
BY DEF Apart, SameTiles

LEMMA FetchApart ==
    ASSUME NEW s \in States, NEW need \in SUBSET SdTiles, Apart(s)
    PROVE  Apart(Fetch(s, need))
<1> DEFINE missing == need \ (s.loaded \cup s.pending)
<1> DEFINE f == [s EXCEPT !.loaded = s.loaded \cup (missing \cap s.whole),
                          !.pending = s.pending \cup (missing \ s.whole), !.half = s.half \ missing]
<1>1. Fetch(s, need) = f
  BY DEF Fetch
<1>2. /\ f.loaded = s.loaded \cup (missing \cap s.whole) /\ f.pending = s.pending \cup (missing \ s.whole)
      /\ f.half = s.half \ missing /\ f.whole = s.whole
  BY DEF States
<1> HIDE DEF f
<1> QED
  BY <1>1, <1>2 DEF Apart

LEMMA RecomputeAllApart ==
    ASSUME NEW s \in States, Apart(s)
    PROVE  Apart(RecomputeAll(s))
<1>1. CASE s.own = NoPlace
  BY <1>1 DEF RecomputeAll
<1>2. CASE s.own # NoPlace
  <2> DEFINE f == Fetch(s, Needed(s))
  <2> DEFINE judged == {t \in f.asked : SdPaths[f.own][t] \subseteq f.loaded}
  <2> DEFINE classes == {c \in f.class : c[1] \notin judged} \cup (judged \X {f.own})
  <2> DEFINE r == [f EXCEPT !.class = classes]
  <2>1. f \in States /\ Apart(f)
    BY <1>2, PathsAreTiles, FetchBrings, FetchApart
  <2>2. RecomputeAll(s) = r
    BY <1>2 DEF RecomputeAll, Needed
  <2> HIDE DEF f, classes
  <2>3. SameTiles(f, r)
    BY <2>1 DEF States, SameTiles
  <2> QED
    BY <2>1, <2>2, <2>3, SameTilesApart
<1> QED
  BY <1>1, <1>2

LEMMA AskedApart ==
    ASSUME NEW s \in States, NEW targets \in SUBSET SdTargets, Apart(s)
    PROVE  Apart(Asked(s, targets))
<1> DEFINE a == [s EXCEPT !.asked = s.asked \cup targets]
<1>1. a \in States /\ SameTiles(s, a)
  BY DEF States, SameTiles
<1>2. Asked(s, targets) \in {s, RecomputeAll(a)}
  BY DEF Asked
<1> HIDE DEF a
<1> QED
  BY <1>1, <1>2, SameTilesApart, RecomputeAllApart

LEMMA SkylineApart ==
    ASSUME NEW s \in States, s.own # NoPlace, Apart(s)
    PROVE  Apart(Skyline(s))
<1> DEFINE f == Fetch(s, SdHorizon[s.own])
<1> DEFINE r == [f EXCEPT !.rim = SdHorizon[f.own] \cap f.loaded, !.rimOf = f.own]
<1>1. f \in States /\ f.own = s.own /\ Apart(f)
  BY PathsAreTiles, FetchBrings, FetchApart DEF SameGround
<1>2. Skyline(s) \in {s, RecomputeAll(r)}
  BY DEF Skyline
<1> HIDE DEF f
<1>3. r \in States /\ SameTiles(f, r)
  BY <1>1 DEF States, SameTiles
<1> HIDE DEF r
<1> QED
  BY <1>1, <1>2, <1>3, SameTilesApart, RecomputeAllApart

LEMMA RefreshApart ==
    ASSUME NEW s \in States, Apart(s)
    PROVE  Apart(RefreshTerrainSectors(s))
<1>1. CASE s.own = NoPlace
  <2>1. SameTiles(s, [s EXCEPT !.ring = {}])
    BY DEF States, SameTiles
  <2> QED
    BY <1>1, <2>1, SameTilesApart DEF RefreshTerrainSectors
<1>2. CASE s.own # NoPlace
  <2> DEFINE swept == Skyline(SectorSweep(s))
  <2> DEFINE ring == {c \in swept.class : c[1] \in SdSweep[s.own]}
  <2> DEFINE r == [swept EXCEPT !.ring = ring]
  <2>1. /\ SectorSweep(s) \in States /\ SectorSweep(s).own = s.own /\ PathsRight(SectorSweep(s))
        /\ Apart(SectorSweep(s))
    BY <1>2, PathsAreTiles, AskedJudges, AskedApart DEF SectorSweep, SameGround
  <2>2. swept \in States /\ Apart(swept)
    BY <1>2, <2>1, SkylineJudges, SkylineApart
  <2>3. RefreshTerrainSectors(s) = r
    BY <1>2 DEF RefreshTerrainSectors
  <2> HIDE DEF swept, ring
  <2>4. SameTiles(swept, r)
    BY <2>2 DEF States, SameTiles
  <2> QED
    BY <2>2, <2>3, <2>4, SameTilesApart
<1> QED
  BY <1>1, <1>2

LEMMA AnnouncedApart ==
    ASSUME NEW s \in States, NEW t \in States, Apart(t)
    PROVE  Apart(Announced(s, t))
BY RefreshApart DEF Announced

LEMMA TilesChangedApart ==
    ASSUME NEW s \in States, Apart(s)
    PROVE  Apart(TilesChanged(s))
BY RecomputeAllJudges, RecomputeAllApart, AnnouncedApart DEF TilesChanged

LEMMA SetOwnGridApart ==
    ASSUME NEW s \in States, Apart(s)
    PROVE  Apart(SetOwnGrid(s))
<1>1. SameTiles(s, [s EXCEPT !.site = s.own, !.inquiries = s.inquiries \cup {s.own}])
  BY DEF States, SameTiles
<1> QED
  BY <1>1, SameTilesApart DEF SetOwnGrid

LEMMA FreshApart ==
    ASSUME NEW own \in SdPlaces \cup {NoPlace}, NEW whole \in SUBSET SdTiles, NEW half \in SUBSET SdTiles,
           whole \cap half = {}
    PROVE  Apart(Fresh(own, whole, half))
<1> DEFINE blank ==
        [own |-> own, asked |-> {}, class |-> {}, ring |-> {}, loaded |-> {}, pending |-> {},
         whole |-> whole, half |-> half, rim |-> {}, rimOf |-> NoPlace,
         site |-> NoPlace, weather |-> NoPlace, inquiries |-> {}]
<1>1. blank \in States /\ Apart(blank)
  BY DEF States, Apart
<1>2. Fresh(own, whole, half) = RefreshTerrainSectors(SetOwnGrid(blank))
  BY DEF Fresh
<1> HIDE DEF blank
<1> QED
  BY <1>1, <1>2, SetOwnGridIsState, SetOwnGridApart, RefreshApart

SiteTyped ==
    /\ SiteInv /\ Apart(sd)
    /\ sdMoves \in 0..SdMaxMoves /\ sdFaults \in 0..SdMaxFaults

LEMMA SiteApartStep ==
    ASSUME sd \in States, Apart(sd), SdNext
    PROVE  Apart(sd')
<1>1. ASSUME NEW p \in SdPlaces \cup {NoPlace}, MoveTo(p)
      PROVE  Apart(sd')
  <2> DEFINE s == [sd EXCEPT !.own = p]
  <2>1. s \in States /\ SameTiles(sd, s)
    BY DEF States, SameTiles
  <2>2. sd' = RefreshTerrainSectors(SetOwnGrid(TilesChanged(s)))
    BY <1>1 DEF MoveTo
  <2> HIDE DEF s
  <2>3. TilesChanged(s) \in States /\ Apart(TilesChanged(s))
    BY <2>1, SameTilesApart, TilesChangedIsState, TilesChangedApart
  <2>4. SetOwnGrid(TilesChanged(s)) \in States /\ Apart(SetOwnGrid(TilesChanged(s)))
    BY <2>3, SetOwnGridIsState, SetOwnGridApart
  <2> QED
    BY <2>2, <2>4, RefreshApart
<1>2. ASSUME NEW t \in SdTargets, HearStation(t)
      PROVE  Apart(sd')
  BY <1>2, AskedJudges, AskedApart, AnnouncedApart DEF HearStation
<1>3. ASSUME NEW t \in SdTiles, NEW kept \in BOOLEAN, TileArrives(t, kept)
      PROVE  Apart(sd')
  <2> DEFINE saved == IF kept THEN sd.whole \cup {t} ELSE sd.whole
  <2> DEFINE s == [sd EXCEPT !.pending = sd.pending \ {t}, !.loaded = sd.loaded \cup {t}, !.whole = saved]
  <2>1. sd' = TilesChanged(s) /\ t \in sd.pending
    BY <1>3 DEF TileArrives
  <2>2. saved \subseteq sd.whole \cup {t} /\ saved \in SUBSET SdTiles
    BY DEF States
  <2> HIDE DEF saved
  <2>3. /\ s \in States /\ s.pending = sd.pending \ {t} /\ s.loaded = sd.loaded \cup {t}
        /\ s.whole = saved /\ s.half = sd.half
    BY <2>2 DEF States
  <2> HIDE DEF s
  <2>4. Apart(s)
    BY <2>1, <2>2, <2>3 DEF Apart
  <2> QED
    BY <2>1, <2>3, <2>4, TilesChangedApart
<1>4. ASSUME NEW t \in SdTiles, TileFails(t)
      PROVE  Apart(sd')
  <2> DEFINE s == [sd EXCEPT !.pending = sd.pending \ {t}]
  <2>1. sd' = TilesChanged(s)
    BY <1>4 DEF TileFails
  <2>2. /\ s \in States /\ s.pending = sd.pending \ {t} /\ s.loaded = sd.loaded
        /\ s.whole = sd.whole /\ s.half = sd.half
    BY DEF States
  <2> HIDE DEF s
  <2> QED
    BY <2>1, <2>2, TilesChangedApart DEF Apart
<1>5. ASSUME AskWeather \/ \E p \in SdPlaces : WeatherAnswers(p) \/ WeatherFails(p)
      PROVE  Apart(sd')
  <2>1. SameTiles(sd, sd')
    BY <1>5 DEF AskWeather, WeatherAnswers, WeatherFails, States, SameTiles
  <2> QED
    BY <2>1, SameTilesApart
<1>6. ASSUME NEW torn \in SUBSET sd.pending, SdRestart(torn)
      PROVE  Apart(sd')
  <2>1. /\ sd.own \in SdPlaces \cup {NoPlace} /\ sd.whole \in SUBSET SdTiles
        /\ sd.half \cup torn \in SUBSET SdTiles
    BY DEF States
  <2>2. sd.whole \cap (sd.half \cup torn) = {}
    BY DEF Apart
  <2> QED
    BY <1>6, <2>1, <2>2, FreshApart DEF SdRestart
<1> QED
  BY <1>1, <1>2, <1>3, <1>4, <1>5, <1>6 DEF SdNext

LEMMA SiteTypeStep ==
    ASSUME SiteTyped, [SdNext]_sdVars
    PROVE  SiteTyped'
<1>1. SdMaxMoves \in Nat /\ SdMaxFaults \in Nat
  BY SiteDataAssumption DEF SiteDataAssumption
<1>2. SiteInv'
  BY SiteInvStep DEF SiteTyped
<1>3. Apart(sd)'
  <2>1. CASE SdNext
    BY <2>1, SiteApartStep DEF SiteTyped, SiteInv
  <2>2. CASE UNCHANGED sdVars
    BY <2>2 DEF SiteTyped, sdVars
  <2> QED
    BY <2>1, <2>2
<1>4. sdMoves \in 0..SdMaxMoves /\ sdFaults \in 0..SdMaxFaults
  BY DEF SiteTyped
<1> DEFINE Counted ==
        /\ sdMoves' \in {sdMoves, sdMoves + 1} /\ sdFaults' \in {sdFaults, sdFaults + 1}
        /\ sdMoves' # sdMoves => sdMoves < SdMaxMoves
        /\ sdFaults' # sdFaults => sdFaults < SdMaxFaults
<1>5. Counted
  <2>1. ASSUME NEW p \in SdPlaces \cup {NoPlace}, MoveTo(p) PROVE Counted
    BY <2>1 DEF MoveTo
  <2>2. ASSUME NEW t \in SdTargets, HearStation(t) PROVE Counted
    BY <2>2 DEF HearStation
  <2>3. ASSUME NEW t \in SdTiles, NEW kept \in BOOLEAN, TileArrives(t, kept) PROVE Counted
    BY <2>3 DEF TileArrives
  <2>4. ASSUME NEW t \in SdTiles, TileFails(t) PROVE Counted
    BY <2>4 DEF TileFails
  <2>5. CASE AskWeather
    BY <2>5 DEF AskWeather
  <2>6. ASSUME NEW p \in SdPlaces, WeatherAnswers(p) \/ WeatherFails(p) PROVE Counted
    BY <2>6 DEF WeatherAnswers, WeatherFails
  <2>7. ASSUME NEW torn \in SUBSET sd.pending, SdRestart(torn) PROVE Counted
    BY <2>7 DEF SdRestart
  <2>8. CASE UNCHANGED sdVars
    BY <2>8 DEF sdVars
  <2> QED
    BY <2>1, <2>2, <2>3, <2>4, <2>5, <2>6, <2>7, <2>8 DEF SdNext
<1>6. sdMoves' \in 0..SdMaxMoves /\ sdFaults' \in 0..SdMaxFaults
  BY <1>1, <1>4, <1>5
<1> QED
  BY <1>2, <1>3, <1>6 DEF SiteTyped

LEMMA SiteTypeStart ==
    ASSUME SdInit
    PROVE  SiteTyped
<1>1. SdMaxMoves \in Nat /\ SdMaxFaults \in Nat
  BY SiteDataAssumption DEF SiteDataAssumption
<1>2. Apart(sd)
  BY FreshApart DEF SdInit
<1> QED
  BY <1>1, <1>2, SiteInvInit DEF SdInit, SiteTyped

LEMMA SiteTypeShows ==
    ASSUME SiteTyped
    PROVE  SdTypeOK
BY DEF SiteTyped, SiteInv, Apart, States, SdTypeOK

-----------------------------------------------------------------------------
(* The types of the lines, whatever arrives apart from what. *)

\* t is a slot, and in "error" only if s was.
Slotted(s, t) == t \in Slots /\ (s.state # "error" => t.state # "error")

LEMMA SupervisedIsSlot ==
    ASSUME NEW s \in Slots, NEW new \in {"off", "dialing", "on", "error"}
    PROVE  LET t == InState(s, new) IN t \in Slots /\ t.state = new
<1> DEFINE d == [s EXCEPT !.state = new]
<1>1. d \in Slots /\ d.state = new
  BY DEF Slots
<1>2. s.state = new => InState(s, new) = s
  BY DEF InState
<1>3. s.state # new => InState(s, new) = Supervised(d, new = "off")
  BY DEF InState
<1> HIDE DEF d
<1>4. LET t == Supervised(d, new = "off") IN t \in Slots /\ t.state = d.state
  BY <1>1, SupervisionFits
<1> QED
  BY <1>1, <1>2, <1>3, <1>4

\* The functions that end a line, and the one that begins one.
LEMMA RetriedIsSlot ==
    ASSUME NEW s \in Slots
    PROVE  Slotted(s, RigRetried(s)) /\ RigRetried(s).state = s.state
<1> DEFINE r == s.retry \/ s.host # "none"
<1>1. r \in BOOLEAN
  BY DEF Slots
<1>2. RigRetried(s) = [s EXCEPT !.retry = r]
  BY DEF RigRetried
<1> HIDE DEF r
<1> QED
  BY <1>1, <1>2 DEF Slots, Slotted

LEMMA ClosedIsSlot ==
    ASSUME NEW s \in Slots
    PROVE  Slotted(s, RigClosed(s))
<1> DEFINE d == [s EXCEPT !.line = "idle", !.asked = <<>>, !.coming = <<>>,
                          !.poll = FALSE, !.deadline = FALSE]
<1> DEFINE e == InState(d, "off")
<1>1. <<>> \in Seq(Queries \cup {"set"}) /\ <<>> \in Seq(Lines)
  OBVIOUS
<1>2. d \in Slots
  BY <1>1 DEF Slots
<1>3. RigClosed(s) = RigRetried(e)
  BY DEF RigClosed
<1> HIDE DEF d
<1>4. e \in Slots /\ e.state = "off"
  BY <1>2, SupervisedIsSlot
<1> HIDE DEF e
<1> QED
  BY <1>3, <1>4, RetriedIsSlot DEF Slotted

LEMMA AbortedIsSlot ==
    ASSUME NEW s \in Slots
    PROVE  Slotted(s, RigAborted(s))
<1>1. [s EXCEPT !.line = "idle"] \in Slots /\ [s EXCEPT !.line = "idle"].state = s.state
  BY DEF Slots
<1> QED
  BY <1>1, ClosedIsSlot DEF RigAborted, Slotted

LEMMA DialledIsSlot ==
    ASSUME NEW s \in Slots
    PROVE  Slotted(s, RigDialled(s))
<1> DEFINE d == [s EXCEPT !.retry = FALSE, !.line = "dialing", !.peer = s.host]
<1>1. d \in Slots
  BY DEF Slots
<1>2. RigDialled(s) \in {s, InState(d, "dialing")}
  BY DEF RigDialled
<1> HIDE DEF d
<1> QED
  BY <1>1, <1>2, SupervisedIsSlot DEF Slotted

LEMMA HungUpIsSlot ==
    ASSUME NEW s \in Slots
    PROVE  Slotted(s, RigHungUp(s))
<1> DEFINE d == [s EXCEPT !.retry = FALSE, !.poll = FALSE, !.deadline = FALSE,
                          !.queue = <<>>, !.awaiting = "none"]
<1> DEFINE e == RigAborted(d)
<1>1. <<>> \in Seq(Queries \cup {"set"})
  OBVIOUS
<1>2. d \in Slots
  BY <1>1 DEF Slots
<1>3. RigHungUp(s) = InState(e, "off")
  BY DEF RigHungUp
<1> HIDE DEF d
<1>4. e \in Slots
  BY <1>2, AbortedIsSlot DEF Slotted
<1> HIDE DEF e
<1> QED
  BY <1>3, <1>4, SupervisedIsSlot DEF Slotted

\* The functions that ask.
LEMMA PumpedIsSlot ==
    ASSUME NEW s \in Slots
    PROVE  Slotted(s, Pumped(s)) /\ Pumped(s).state = s.state
<1>1. CASE s.awaiting # "none" \/ s.queue = <<>> \/ s.line # "up"
  BY <1>1 DEF Pumped, Slotted
<1>2. CASE ~(s.awaiting # "none" \/ s.queue = <<>> \/ s.line # "up")
  <2> DEFINE q == Head(s.queue)
  <2> DEFINE rest == Tail(s.queue)
  <2> DEFINE a == Append(s.asked, q)
  <2> DEFINE t == [s EXCEPT !.buffer = <<>>, !.awaiting = q, !.queue = rest, !.asked = a, !.deadline = TRUE]
  <2>1. Pumped(s) = t
    BY <1>2 DEF Pumped
  <2>2. s.queue \in Seq(Queries \cup {"set"}) /\ s.asked \in Seq(Queries \cup {"set"})
    BY DEF Slots
  <2>3. q \in Queries \cup {"set"} /\ rest \in Seq(Queries \cup {"set"})
    BY <1>2, <2>2, HeadTailProperties
  <2>4. a \in Seq(Queries \cup {"set"}) /\ <<>> \in Seq(Lines)
    BY <2>2, <2>3
  <2> HIDE DEF q, rest, a
  <2>5. t \in Slots /\ t.state = s.state
    BY <2>3, <2>4 DEF Slots
  <2> QED
    BY <2>1, <2>5 DEF Slotted
<1> QED
  BY <1>1, <1>2

LEMMA SentIsSlot ==
    ASSUME NEW s \in Slots, NEW c \in Seq(Queries \cup {"set"})
    PROVE  Slotted(s, Sent(s, c))
<1> DEFINE d == [s EXCEPT !.queue = @ \o c]
<1>1. s.queue \o c \in Seq(Queries \cup {"set"})
  BY ConcatProperties DEF Slots
<1>2. d \in Slots /\ d.state = s.state
  BY <1>1 DEF Slots
<1>3. Sent(s, c) = Pumped(d)
  BY DEF Sent
<1> HIDE DEF d
<1> QED
  BY <1>2, <1>3, PumpedIsSlot DEF Slotted

\* Only a rotor's client shows the error a server reports.
LEMMA AnsweredIsSlot ==
    ASSUME NEW s \in Slots
    PROVE  /\ Answered(s) \in Slots
           /\ what = "rig" => Answered(s).state = s.state
<1> DEFINE q == s.awaiting
<1> DEFINE rest == SubSeq(s.buffer, Wants(q) + 1, Len(s.buffer))
<1> DEFINE d == [s EXCEPT !.buffer = rest, !.awaiting = "none", !.deadline = FALSE]
<1>1. rest \in Seq(Lines)
  <2>1. s.buffer \in Seq(Lines) /\ Wants(q) \in {1, 2}
    BY DEF Slots, Wants
  <2> QED
    BY <2>1
<1>2. Answered(s) \in {s, d, Reported(d, s.buffer[1])}
  BY DEF Answered
<1> HIDE DEF rest
<1>3. d \in Slots /\ d.state = s.state
  BY <1>1 DEF Slots
<1> HIDE DEF d
<1>4. Reported(d, s.buffer[1]) \in {d, InState(d, "error"), InState(d, "on")}
  BY DEF Reported
<1>5. what = "rig" => Reported(d, s.buffer[1]) = d
  BY DEF Reported
<1>6. InState(d, "error") \in Slots /\ InState(d, "on") \in Slots
  BY <1>3, SupervisedIsSlot
<1>7. Reported(d, s.buffer[1]) \in Slots /\ (what = "rig" => Reported(d, s.buffer[1]).state = s.state)
  BY <1>3, <1>4, <1>5, <1>6
<1> HIDE DEF q
<1> QED
  BY <1>2, <1>3, <1>7

\* The settings of a slot are saved.
LEMMA SavedIsSlot ==
    ASSUME NEW s \in Slots, NEW new \in RigSettings
    PROVE  Slotted(s, Saved(s, new))
<1> DEFINE h == IF new.enabled THEN new.host ELSE s.host
<1> DEFINE c == [s EXCEPT !.conf = new, !.host = h]
<1> DEFINE d == Supervised(c, FALSE)
<1>1. h \in RigHosts
  BY DEF RigSettings, Slots
<1>2. Saved(s, new) \in {RigDialled(d), RigHungUp(d), d}
  BY DEF Saved
<1> HIDE DEF h
<1>3. c \in Slots /\ c.state = s.state
  BY <1>1 DEF Slots
<1> HIDE DEF c
<1>4. d \in Slots /\ d.state = s.state
  BY <1>3, SupervisionFits
<1> HIDE DEF d
<1> QED
  BY <1>2, <1>4, DialledIsSlot, HungUpIsSlot DEF Slotted

\* What is left of RigTypeOK when a step leaves kind, world and histories alone.
LEMMA LineTyped ==
    ASSUME RigTypeOK, Slotted(slot, slot') \/ (slot' \in Slots /\ what # "rig"),
           UNCHANGED <<what, rigWorld, hungUp>>, misread' \in BOOLEAN,
           rigClicks' \in 0..RigMaxClicks, rigFaults' \in 0..RigMaxFaults
    PROVE  RigTypeOK'
BY DEF RigTypeOK, Slotted

LEMMA RigBounds ==
    ASSUME RigTypeOK
    PROVE  /\ RigClick => rigClicks' \in 0..RigMaxClicks
           /\ RigFault => rigFaults' \in 0..RigMaxFaults
           /\ rigClicks \in 0..RigMaxClicks /\ rigFaults \in 0..RigMaxFaults
BY HamlibAssumption DEF HamlibAssumption, RigTypeOK, RigClick, RigFault

LEMMA RigTypeStep ==
    ASSUME RigTypeOK, [RigNext]_rigVars
    PROVE  RigTypeOK'
<1>1. slot \in Slots /\ misread \in BOOLEAN /\ hungUp \in BOOLEAN
  BY DEF RigTypeOK
<1> DEFINE Counted == rigFaults' \in 0..RigMaxFaults /\ rigClicks' \in 0..RigMaxClicks
<1>2. ASSUME Slotted(slot, slot'), RigUntouched, RigFault \/ rigFaults' = rigFaults
      PROVE  RigTypeOK'
  BY <1>1, <1>2, RigBounds, LineTyped DEF RigUntouched
<1>3. ASSUME NEW new \in RigSettings, SaveSettings(new)
      PROVE  RigTypeOK'
  <2> DEFINE was == slot.state = "on"
  <2>1. Slotted(slot, slot')
    BY <1>1, <1>3, SavedIsSlot DEF SaveSettings
  <2>2. what = "rig" => ~hungUp'
    BY <1>3 DEF SaveSettings
  <2>3. hungUp' \in BOOLEAN
    <3>1. CASE new.enabled
      BY <1>3, <3>1 DEF SaveSettings
    <3>2. CASE ~new.enabled
      <4>1. hungUp' = (hungUp \/ was)
        BY <1>3, <3>2 DEF SaveSettings
      <4> HIDE DEF was
      <4> QED BY <4>1
    <3> QED BY <3>1, <3>2
  <2>4. rigClicks' \in 0..RigMaxClicks /\ rigFaults' \in 0..RigMaxFaults
    BY <1>3, RigBounds DEF SaveSettings
  <2>5. UNCHANGED <<what, rigWorld, misread>>
    BY <1>3 DEF SaveSettings
  <2> QED
    BY <2>1, <2>2, <2>3, <2>4, <2>5 DEF RigTypeOK, Slotted
<1>4. CASE RigCommand
  <2>1. <<"set">> \in Seq(Queries \cup {"set"})
    OBVIOUS
  <2>2. Slotted(slot, slot')
    BY <1>1, <1>4, <2>1, SentIsSlot DEF RigCommand
  <2> QED
    BY <1>1, <1>4, <2>2, RigBounds, LineTyped DEF RigCommand
<1>5. CASE RigLineUp
  <2> DEFINE c == [slot EXCEPT !.line = "up", !.buffer = <<>>, !.queue = <<>>,
                               !.awaiting = "none", !.poll = TRUE]
  <2> DEFINE d == InState(c, "on")
  <2>1. slot' = Sent(d, Round)
    BY <1>5 DEF RigLineUp
  <2>2. <<>> \in Seq(Queries \cup {"set"}) /\ <<>> \in Seq(Lines)
    OBVIOUS
  <2>3. c \in Slots
    BY <1>1, <2>2 DEF Slots
  <2> HIDE DEF c
  <2>4. d \in Slots /\ d.state = "on"
    BY <2>3, SupervisedIsSlot
  <2> HIDE DEF d
  <2>5. Slotted(slot, slot')
    BY <2>1, <2>4, SentIsSlot, RoundAsks DEF Slotted
  <2> QED
    BY <1>2, <1>5, <2>5 DEF RigLineUp
<1>6. CASE RigDialFails \/ RigLineDrops
  <2>1. Slotted(slot, slot')
    BY <1>1, <1>6, ClosedIsSlot DEF RigDialFails, RigLineDrops
  <2> QED
    BY <1>2, <1>6, <2>1 DEF RigDialFails, RigLineDrops
<1>7. CASE PollTimeout
  <2>1. Slotted(slot, slot')
    BY <1>1, <1>7, SentIsSlot, RoundAsks DEF PollTimeout
  <2> QED
    BY <1>2, <1>7, <2>1 DEF PollTimeout
<1>8. CASE RigRetryTimeout
  <2> DEFINE s == [slot EXCEPT !.retry = FALSE]
  <2>1. slot' \in {RigDialled(s), s}
    BY <1>8 DEF RigRetryTimeout
  <2>2. s \in Slots /\ s.state = slot.state
    BY <1>1 DEF Slots
  <2> HIDE DEF s
  <2>3. Slotted(slot, slot')
    BY <2>1, <2>2, DialledIsSlot DEF Slotted
  <2> QED
    BY <1>2, <1>8, <2>3 DEF RigRetryTimeout
<1>9. CASE ReplyTimeout
  <2> DEFINE c == [slot EXCEPT !.deadline = FALSE]
  <2> DEFINE s == RigAborted(c)
  <2> DEFINE d == [s EXCEPT !.poll = FALSE, !.queue = <<>>, !.buffer = <<>>, !.awaiting = "none"]
  <2> DEFINE e == InState(d, "off")
  <2>1. slot' \in {c, RigRetried(e)}
    BY <1>9 DEF ReplyTimeout
  <2>2. c \in Slots /\ c.state = slot.state
    BY <1>1 DEF Slots
  <2> HIDE DEF c
  <2>3. s \in Slots
    BY <2>2, AbortedIsSlot DEF Slotted
  <2> HIDE DEF s
  <2>4. <<>> \in Seq(Queries \cup {"set"}) /\ <<>> \in Seq(Lines)
    OBVIOUS
  <2>5. d \in Slots
    BY <2>3, <2>4 DEF Slots
  <2> HIDE DEF d
  <2>6. e \in Slots /\ e.state = "off"
    BY <2>5, SupervisedIsSlot
  <2> HIDE DEF e
  <2>7. Slotted(slot, slot')
    BY <2>1, <2>2, <2>6, RetriedIsSlot DEF Slotted
  <2> QED
    BY <1>2, <1>9, <2>7 DEF ReplyTimeout
<1>10. ASSUME NEW n \in 1..3, Read(n)
       PROVE  RigTypeOK'
  <2> DEFINE f == slot.buffer \o SubSeq(slot.coming, 1, n)
  <2> DEFINE g == SubSeq(slot.coming, n + 1, Len(slot.coming))
  <2> DEFINE s == [slot EXCEPT !.buffer = f, !.coming = g]
  <2> DEFINE m == Misread(s)
  <2>1. slot.buffer \in Seq(Lines) /\ slot.coming \in Seq(Lines) /\ n \in 1..Len(slot.coming)
    BY <1>1, <1>10 DEF Slots, Read
  <2>2. f \in Seq(Lines) /\ g \in Seq(Lines)
    BY <2>1
  <2>3. slot' = Pumped(Answered(s)) /\ misread' = (misread \/ m)
    BY <1>10 DEF Read
  <2>4. misread' \in BOOLEAN
    <3> HIDE DEF m
    <3> QED BY <2>3
  <2> HIDE DEF f, g
  <2>5. s \in Slots /\ s.state = slot.state
    BY <1>1, <2>2 DEF Slots
  <2> HIDE DEF s
  <2>6. Answered(s) \in Slots /\ (what = "rig" => Answered(s).state = s.state)
    BY <2>5, AnsweredIsSlot
  <2>7. slot' \in Slots /\ slot'.state = Answered(s).state
    BY <2>3, <2>6, PumpedIsSlot DEF Slotted
  <2>8. Slotted(slot, slot') \/ (slot' \in Slots /\ what # "rig")
    BY <2>5, <2>6, <2>7 DEF Slotted
  <2> QED
    BY <1>10, <2>4, <2>8, RigBounds, LineTyped DEF Read
<1>11. ASSUME NEW reply \in Replies, Answer(reply)
       PROVE  RigTypeOK'
  <2>1. reply \in Seq(Lines)
    <3>1. <<"ok">> \in Seq(Lines) /\ <<"rprt">> \in Seq(Lines) /\ "tail" \in Lines
      BY DEF Lines
    <3>2. \A q \in Queries : AnswerOf[q] \in Seq(Lines)
      BY AnswerLines
    <3>3. \A q \in Queries : Append(AnswerOf[q], "tail") \in Seq(Lines)
      BY <3>1, <3>2, AppendProperties
    <3> QED
      BY <3>1, <3>2, <3>3 DEF Replies
  <2> DEFINE a == Tail(slot.asked)
  <2> DEFINE c == slot.coming \o reply
  <2> DEFINE s == [slot EXCEPT !.asked = a, !.coming = c]
  <2>2. slot.asked \in Seq(Queries \cup {"set"}) /\ slot.coming \in Seq(Lines) /\ slot.asked # <<>>
    BY <1>1, <1>11 DEF Slots, Answer
  <2>3. a \in Seq(Queries \cup {"set"}) /\ c \in Seq(Lines)
    BY <2>1, <2>2, HeadTailProperties, ConcatProperties
  <2>4. slot' = s /\ (RigFault \/ rigFaults' = rigFaults)
    BY <1>11 DEF Answer
  <2> HIDE DEF a, c
  <2>5. s \in Slots /\ s.state = slot.state
    BY <1>1, <2>3 DEF Slots
  <2>6. Slotted(slot, slot')
    BY <2>4, <2>5 DEF Slotted
  <2> QED
    BY <1>2, <1>11, <2>4, <2>6 DEF Answer
<1>12. CASE WorldChanges
  <2> DEFINE Worlds == [servers : SUBSET {"local", "away"}, frozen : BOOLEAN, startable : BOOLEAN]
  <2>2. rigWorld \in Worlds
    BY DEF RigTypeOK
  <2>3. ASSUME NEW h \in {"local", "away"}, NEW hosts,
               hosts = IF h \in rigWorld.servers THEN rigWorld.servers \ {h} ELSE rigWorld.servers \cup {h}
        PROVE  [rigWorld EXCEPT !.servers = hosts] \in Worlds
    <3>1. hosts \in SUBSET {"local", "away"}
      BY <2>2, <2>3
    <3> QED
      BY <2>2, <3>1
  <2>4. [rigWorld EXCEPT !.frozen = ~@] \in Worlds /\ [rigWorld EXCEPT !.startable = ~@] \in Worlds
    BY <2>2
  <2>1. rigWorld' \in Worlds
    BY <1>12, <2>3, <2>4 DEF WorldChanges
  <2> QED
    BY <1>12, <2>1, RigBounds DEF WorldChanges, RigTypeOK
<1>13. CASE DaemonDies \/ CooledDown
  <2> DEFINE d == [slot EXCEPT !.daemon = 0, !.cooling = TRUE]
  <2> DEFINE e == [slot EXCEPT !.cooling = FALSE]
  <2>1. slot' \in {d, e}
    BY <1>13 DEF DaemonDies, CooledDown
  <2>2. d \in Slots /\ d.state = slot.state /\ e \in Slots /\ e.state = slot.state
    BY <1>1 DEF Slots
  <2>3. Slotted(slot, slot')
    BY <2>1, <2>2 DEF Slotted
  <2> QED
    BY <1>2, <1>13, <2>3 DEF DaemonDies, CooledDown
<1>14. CASE UNCHANGED rigVars
  BY <1>14 DEF rigVars, RigTypeOK
<1> QED
  BY <1>3, <1>4, <1>5, <1>6, <1>7, <1>8, <1>9, <1>10, <1>11, <1>12, <1>13, <1>14 DEF RigNext

LEMMA RigTypeStart ==
    ASSUME RigInit
    PROVE  RigTypeOK
<1>1. <<>> \in Seq(Queries \cup {"set"}) /\ <<>> \in Seq(Lines)
  OBVIOUS
<1>2. RigMaxClicks \in Nat /\ RigMaxFaults \in Nat
  BY HamlibAssumption DEF HamlibAssumption
<1>3. slot \in Slots
  BY <1>1 DEF RigInit, Slots, RigSettings, RigHosts
<1>4. slot.state = "off"
  BY DEF RigInit
<1>5. rigWorld \in [servers : SUBSET {"local", "away"}, frozen : BOOLEAN, startable : BOOLEAN]
  BY DEF RigInit
<1>6. /\ what \in RigKinds /\ misread \in BOOLEAN /\ hungUp \in BOOLEAN /\ ~hungUp
      /\ rigClicks = 0 /\ rigFaults = 0
  BY DEF RigInit
<1> QED
  BY <1>2, <1>3, <1>4, <1>5, <1>6 DEF RigTypeOK

-----------------------------------------------------------------------------
(* The types of all parts.  Those of the update, the readiness window and the lines
   are inductive as they stand; those of the processes, the scoreboard and the
   tiles need what was added above. *)

TypeInv ==
    /\ part \in Parts
    /\ part = "link" => RigTypeOK
    /\ part = "start" => ProcTyped
    /\ part = "update" => UpdTypeOK
    /\ part = "board" => BoardTyped
    /\ part = "ready" => RdyTypeOK
    /\ part = "site" => SiteTyped

LEMMA TypeInvInit ==
    ASSUME LiveInit
    PROVE  TypeInv
BY RigTypeStart, ProcTypeStart, UpdTypeStart, BoardTypeStart, RdyTypeStart, SiteTypeStart
   DEF LiveInit, LinkInit, StartInit, UpdateInit, ScoreInit, ReadyInit, SiteInit, TypeInv

LEMMA TypeInvStep ==
    ASSUME TypeInv, [LiveNext]_liveVars
    PROVE  TypeInv'
<1>1. part' = part /\ part \in Parts
  BY PartsMoveAlone DEF TypeInv
<1>2. part = "link" => RigTypeOK'
  BY PartsMoveAlone, RigTypeStep DEF TypeInv
<1>3. part = "start" => ProcTyped'
  BY PartsMoveAlone, ProcTypeStep DEF TypeInv
<1>4. part = "update" => UpdTypeOK'
  BY PartsMoveAlone, UpdTypeStep DEF TypeInv
<1>5. part = "board" => BoardTyped'
  BY PartsMoveAlone, BoardTypeStep DEF TypeInv
<1>6. part = "ready" => RdyTypeOK'
  BY PartsMoveAlone, RdyTypeStep DEF TypeInv
<1>7. part = "site" => SiteTyped'
  BY PartsMoveAlone, SiteTypeStep DEF TypeInv
<1> QED
  BY <1>1, <1>2, <1>3, <1>4, <1>5, <1>6, <1>7 DEF TypeInv

\* What goes on by itself stays within its types and bounds: links, starts, update,
\* scoreboard, readiness window, terrain and weather.
THEOREM LiveStaysTyped == LiveSpec => []LiveTypeOK
<1>1. LiveInit => TypeInv
  BY TypeInvInit
<1>2. TypeInv /\ [LiveNext]_liveVars => TypeInv'
  BY TypeInvStep
<1>3. TypeInv => LiveTypeOK
  BY BoardTypeShows, SiteTypeShows DEF TypeInv, LiveTypeOK, ProcTyped
<1> QED
  BY <1>1, <1>2, <1>3, PTL DEF LiveSpec
=============================================================================
