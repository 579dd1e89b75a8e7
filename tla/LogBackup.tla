----------------------------- MODULE LogBackup -----------------------------
(***************************************************************************)
(* The copies beside the log: data/LogBackup writes one every minute when  *)
(* the log changed and thins the folder with age, the operator forces one  *)
(* or goes back to one (ui/MainWindow, data/BackupRestore), and each copy  *)
(* also goes to a second folder on a stick that may have been pulled out.  *)
(*                                                                         *)
(* Time is in minutes, the precision of a copy's file name.  A second copy *)
(* within a minute gets the suffix "-2", and so on; its time is read from  *)
(* the file's date, the same minute.  A copy is the whole database: the    *)
(* log and the settings, the second folder among them.                     *)
(***************************************************************************)
EXTENDS Integers, FiniteSets

CONSTANTS
    KeepEvery,      \* kKeepEveryCopySecs: younger copies all stay
    BucketLen,      \* kThinnedBucketSecs: of the older ones, one per bucket
    KeepFiles,      \* kKeepFiles: and never more than so many
    HasStick,       \* whether there is a stick to choose as the second folder
    ClockStepsBack, \* whether the PC's clock is ever set back
    Faults,         \* subset of {"snapshot", "mirror", "copy"}: VACUUM INTO, the
                    \* copy to the second folder, the copy over the live file
    MaxClock,       \* bound: the clock
    MaxWrites,      \* bound: writes to the log
    MaxPerMinute    \* bound: copies within one minute

ASSUME LogBackupAssumption ==
    /\ KeepEvery \in Nat /\ BucketLen \in Nat \ {0} /\ KeepFiles \in Nat \ {0}
    /\ HasStick \in BOOLEAN /\ ClockStepsBack \in BOOLEAN
    /\ Faults \subseteq {"snapshot", "mirror", "copy"}
    /\ MaxClock \in Nat /\ MaxWrites \in Nat
    /\ MaxPerMinute \in 1..KeepFiles

VARIABLES
    clock,    \* QDateTime::currentDateTimeUtc(), in minutes
    db,       \* the database: which state of the log, and whether a second folder is set
    writes,   \* how many states of the log there were: a write makes a new one
    changed,  \* qsoWriteCounter() # m_counterAtLastBackup
    copies,   \* the folder "backups" beside the database
    chosen,   \* the copy picked in BackupRestoreDialog, while the question is open
    stickIn,  \* whether the stick with the second folder is plugged in
    stick,    \* the second folder as it is on the stick ...
    hole      \* ... and what lies under its path when the stick is not there

vars == <<clock, db, writes, changed, copies, chosen, stickIn, stick, hole>>

Nothing == [minute |-> -1, n |-> 0, log |-> 0, second |-> FALSE]
Empty   == [log |-> 0, second |-> FALSE]
Folder(marked, files) == [marked |-> marked, copies |-> files]

-----------------------------------------------------------------------------
(* listBackups() and pruneDirectory() *)

SameName(c, d) == c.minute = d.minute /\ c.n = d.n

\* Names in reverse order: "-2.sqlite" comes after ".sqlite", as '-' < '.'.
ListedBefore(c, d) ==
    \/ c.minute > d.minute
    \/ c.minute = d.minute /\ c.n = 1 /\ d.n > 1
    \/ c.minute = d.minute /\ d.n > 1 /\ c.n > d.n

First(F) == CHOOSE c \in F : \A d \in F \ {c} : ListedBefore(c, d)

Recent(F, c) == First(F).minute - c.minute <= KeepEvery

\* Mutant of Bucket: counted back from the copy listed first.
Bucket_Sliding(F, c) == (First(F).minute - c.minute) \div BucketLen

\* Ten minutes of the clock, the same for good.
Bucket(F, c) == c.minute \div BucketLen

\* The copies no older than KeepEvery, and the first listed of each older bucket.
Wanted(F) ==
    {c \in F : Recent(F, c) \/ \A d \in F \ {c} :
                  (~Recent(F, d) /\ Bucket(F, d) = Bucket(F, c)) => ListedBefore(c, d)}

\* Mutant of Kept: the cap counts from the wrong end.
Kept_Oldest(F) == {c \in Wanted(F) : Cardinality({d \in Wanted(F) : ListedBefore(c, d)}) < KeepFiles}

\* Mutant of Kept: one too many.
Kept_OneMore(F) == {c \in Wanted(F) : Cardinality({d \in Wanted(F) : ListedBefore(d, c)}) <= KeepFiles}

\* pruneDirectory(): of those, the KeepFiles listed first.
Kept(F) == {c \in Wanted(F) : Cardinality({d \in Wanted(F) : ListedBefore(d, c)}) < KeepFiles}

-----------------------------------------------------------------------------
(* backupNow() past its first condition: a copy under a name that is free, *)
(* prune(), mirror().  A failing VACUUM INTO changes nothing by itself.    *)

NewCopy(n) == [minute |-> clock, n |-> n, log |-> db.log, second |-> db.second]

IsFreeName(n) ==
    /\ \A c \in copies : ~SameName(c, NewCopy(n))
    /\ \A m \in 1..(n-1) : \E c \in copies : SameName(c, NewCopy(m))

\* Mutant of IsSecondFolder: a reachable folder is taken for the right one.
IsSecondFolder_Reachable(f) == TRUE

\* mirror(): a folder with the marker, or one without it that already holds copies.
IsSecondFolder(f) == f.marked \/ f.copies # {}

\* What mirror() makes of folder f: the outcomes for copy c, which prune() may
\* have removed already.
Mirrored(f, c) ==
    LET others == {d \in f.copies : ~SameName(d, c)}
        copied == IF c \in copies' THEN Kept(others \cup {c}) ELSE others
    IN  IF IsSecondFolder(f)
        THEN {Folder(TRUE, copied)} \cup (IF "mirror" \in Faults THEN {f, Folder(TRUE, others)} ELSE {})
        ELSE {f}

Mirror(c, second) ==
    IF ~second THEN UNCHANGED <<stick, hole>>
    ELSE IF stickIn THEN stick' \in Mirrored(stick, c) /\ hole' = hole
    ELSE hole' \in Mirrored(hole, c) /\ stick' = stick

TakeCopy ==
    \E n \in 1..MaxPerMinute :
        /\ IsFreeName(n)
        /\ copies' = Kept(copies \cup {NewCopy(n)})
        /\ Mirror(NewCopy(n), db.second)

\* QTimer, every minute, also while a dialog is open.
TimerBackup ==
    /\ changed
    /\ TakeCopy
    /\ changed' = FALSE
    /\ UNCHANGED <<clock, db, writes, chosen, stickIn>>

\* "Log jetzt sichern"
BackupLogNow ==
    /\ chosen = Nothing
    /\ TakeCopy
    /\ changed' = FALSE
    /\ UNCHANGED <<clock, db, writes, chosen, stickIn>>

-----------------------------------------------------------------------------
(* The log, the clock and the process *)

\* Any write of ContestDatabase that counts in qsoWriteCounter().
WriteLog ==
    /\ chosen = Nothing /\ writes < MaxWrites
    /\ writes' = writes + 1
    /\ db' = [db EXCEPT !.log = writes + 1]
    /\ changed' = TRUE
    /\ UNCHANGED <<clock, copies, chosen, stickIn, stick, hole>>

Tick ==
    /\ clock < MaxClock
    /\ clock' = clock + 1
    /\ UNCHANGED <<db, writes, changed, copies, chosen, stickIn, stick, hole>>

SetClockBack(t) ==
    /\ ClockStepsBack /\ t < clock
    /\ clock' = t
    /\ UNCHANGED <<db, writes, changed, copies, chosen, stickIn, stick, hole>>

\* Mutant of Restarted: m_counterAtLastBackup starts at 0, not at -1.
Restarted_NothingNew == changed' = FALSE /\ chosen' = Nothing

\* A new process: its counter is 0, that of the last copy -1.
Restarted == changed' = TRUE /\ chosen' = Nothing

\* ~AppController(): what changed since the last copy goes into one.
Quit ==
    /\ chosen = Nothing
    /\ IF changed THEN TakeCopy ELSE UNCHANGED <<copies, stick, hole>>
    /\ Restarted
    /\ UNCHANGED <<clock, db, writes, stickIn>>

Crash ==
    /\ Restarted
    /\ UNCHANGED <<clock, db, writes, copies, stickIn, stick, hole>>

-----------------------------------------------------------------------------
(* restoreBackup(), performRestore() and restoreDatabaseFile() *)

\* The dialog lists the copies and one is picked; until the question is
\* answered the timer runs on.
ChooseCopy(c) ==
    /\ chosen = Nothing
    /\ chosen' = c
    /\ UNCHANGED <<clock, db, writes, changed, copies, stickIn, stick, hole>>

DeclineRestore ==
    /\ chosen # Nothing
    /\ chosen' = Nothing
    /\ UNCHANGED <<clock, db, writes, changed, copies, stickIn, stick, hole>>

\* A forced copy of the present state first, then: the chosen file may be gone
\* by now ("Sicherung nicht gefunden"); the live file is removed; the copy over it
\* may fail.  The program starts anew on whatever is there.
PerformRestore ==
    /\ chosen # Nothing
    /\ TakeCopy
    /\ \/ /\ \A c \in copies' : ~SameName(c, chosen)
          /\ db' = db
       \/ \E c \in copies' : SameName(c, chosen)
                             /\ db' = [log |-> c.log, second |-> c.second]
       \/ /\ "copy" \in Faults
          /\ \E c \in copies' : SameName(c, chosen)
          /\ db' = Empty
    /\ Restarted
    /\ UNCHANGED <<clock, writes, stickIn>>

-----------------------------------------------------------------------------
(* The second folder *)

\* chooseBackupMirror(): the marker first, then the setting and a first copy,
\* which may fail.
ChooseBackupMirror ==
    /\ HasStick /\ chosen = Nothing /\ stickIn
    /\ db' = [db EXCEPT !.second = TRUE]
    /\ LET marked == [stick EXCEPT !.marked = TRUE]
       IN  \/ /\ \E n \in 1..MaxPerMinute :
                   LET c == [NewCopy(n) EXCEPT !.second = TRUE]
                   IN  /\ IsFreeName(n)
                       /\ copies' = Kept(copies \cup {c})
                       /\ stick' \in Mirrored(marked, c)
              /\ changed' = FALSE
           \/ /\ "snapshot" \in Faults
              /\ stick' = marked
              /\ UNCHANGED <<copies, changed>>
    /\ UNCHANGED <<clock, writes, chosen, stickIn, hole>>

ClearBackupMirror ==
    /\ chosen = Nothing /\ db.second
    /\ db' = [db EXCEPT !.second = FALSE]
    /\ UNCHANGED <<clock, writes, changed, copies, chosen, stickIn, stick, hole>>

\* The stick is pulled out or put back in: its path is a folder either way.
MoveStick ==
    /\ HasStick
    /\ stickIn' = ~stickIn
    /\ UNCHANGED <<clock, db, writes, changed, copies, chosen, stick, hole>>

-----------------------------------------------------------------------------
Init ==
    /\ clock = 0 /\ db = Empty /\ writes = 0 /\ changed = TRUE
    /\ copies = {} /\ chosen = Nothing
    /\ stickIn = HasStick /\ stick = Folder(FALSE, {}) /\ hole = Folder(FALSE, {})

Next ==
    \/ TimerBackup \/ BackupLogNow
    \/ WriteLog \/ Tick \/ Quit \/ Crash
    \/ \E t \in 0..MaxClock : SetClockBack(t)
    \/ \E c \in copies : ChooseCopy(c)
    \/ DeclineRestore \/ PerformRestore
    \/ ChooseBackupMirror \/ ClearBackupMirror \/ MoveStick

Spec == Init /\ [][Next]_vars

\* The timer goes off every minute for as long as the program runs.
FairSpec == Spec /\ WF_vars(TimerBackup)

-----------------------------------------------------------------------------
(* Properties *)

Copies == [minute : 0..MaxClock, n : 1..MaxPerMinute, log : 0..MaxWrites, second : BOOLEAN]

IsFolder(F) ==
    /\ F \subseteq Copies
    /\ \A c, d \in F : SameName(c, d) => c = d
    /\ Cardinality(F) <= KeepFiles

\* The shape of the state: a folder holds one file per name and never more than
\* KeepFiles of them.
TypeOK ==
    /\ clock \in 0..MaxClock /\ writes \in 0..MaxWrites
    /\ db \in [log : 0..MaxWrites, second : BOOLEAN]
    /\ changed \in BOOLEAN /\ stickIn \in BOOLEAN
    /\ chosen \in Copies \cup {Nothing}
    /\ IsFolder(copies) /\ IsFolder(stick.copies) /\ IsFolder(hole.copies)
    /\ stick.marked \in BOOLEAN /\ hole.marked \in BOOLEAN

\* When the timer has nothing to do, the log as it is lies in the folder: what
\* prune() has removed since then was not it.
UnchangedMeansSaved == ~changed => \E c \in copies : c.log = db.log

\* Whatever a restore does to the log, the state it found is in the folder
\* afterwards ("so a wrong pick can be undone the same way").
ReplacedStateIsSaved == [][PerformRestore => \E c \in copies' : c.log = db.log]_vars

\* Thinning again and again leaves no hole in the history: of ten minutes that
\* had a copy one stays, until the cap takes the oldest.
NoGapInHistory ==
    [][\A c \in copies :
         \/ \E d \in copies' : d.minute \div BucketLen = c.minute \div BucketLen
         \/ Cardinality(copies') = KeepFiles /\ \A d \in copies' : c.minute < d.minute]_vars

\* A pulled stick leaves its path behind as an empty folder on the internal
\* disk; no copy ever lands there.
InternalDiskStaysEmpty == hole.copies = {}

\* Wherever it quits, dies or goes back to a copy: once the operator leaves it
\* alone, the log is in a copy for good (as long as a name for one is free, and
\* but for the bound MaxPerMinute one always is).
LogGetsSaved ==
    <>[](\E n \in 1..MaxPerMinute : IsFreeName(n)) => <>[](\E c \in copies : c.log = db.log)

-----------------------------------------------------------------------------
(* What the program says of itself and does not keep *)

\* "Das Log wird auf den Stand dieser Sicherung zurueckgesetzt"
\* (MainWindow.cpp:5918): with no failing file operation, it is.
RestoreGoesBackToTheChosenCopy == [][PerformRestore => db'.log = chosen.log]_vars
=============================================================================
