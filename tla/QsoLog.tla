------------------------------- MODULE QsoLog -------------------------------
(***************************************************************************)
(* The contest log: the table `qsos` (data/ContestDatabase), the journal   *)
(* beside it (data/QsoJournal), the dupe rules (data/DupeChecker when a    *)
(* QSO is logged, data/DupeRescore after a correction) and the handlers of *)
(* ui/MainWindow that change them.  Everything runs on the GUI thread, so  *)
(* a handler is one action; what can come between two of its writes is a   *)
(* failing write or the end of the process.  Both leave only a part of the *)
(* handler's writes behind: `Faults` says which writes may be missing, and *)
(* Restart takes the volatile state away at any moment.                    *)
(***************************************************************************)
EXTENDS LogPlaces, Integers, Sequences, FiniteSets

CONSTANTS
    Contests,       \* the contest definitions the program knows
    Calls,          \* callsigns as they are typed ("OE5SOS", "OE5SOS/P")
    BaseCall,       \* core/CallsignPrefix baseCallsign(): Calls -> station
    Bands, Modes,
    BandsOf,        \* ContestDefinition::bands(), as a set ...
    FirstBand,      \* ... and the one that is listed first
    MaxTime,        \* times are 0..MaxTime, in seconds of a small clock ...
    MinuteLen,      \* ... with this many seconds in a minute
    DayLen,         \*     and this many in a day
    RuleSets,       \* the rules an operator may give a contest
    ShippedRules,   \* the rules each contest comes with
    DefaultContest, \* AppController::openDatabase on a fresh database
    Faults,         \* subset of FaultKinds: what may go wrong
    MaxQsos,        \* bound: rows the table may hold
    MaxJournal      \* bound: lines the journal may hold

FaultKinds == {"journal", "insert", "query", "flag", "database"}
Fields     == {"callsign", "band", "mode"}
Rules      == [dupe : {s \in SUBSET Fields : "callsign" \in s}, serial : {"band", "contest"}]

ASSUME QsoLogAssumption ==
    /\ BaseCall \in [Calls -> Calls]
    /\ MaxTime \in Nat /\ MinuteLen \in Nat \ {0} /\ DayLen \in Nat \ {0}
    /\ MaxQsos \in Nat /\ MaxJournal \in Nat
    /\ RuleSets \subseteq Rules
    /\ ShippedRules \in [Contests -> Rules]
    /\ DefaultContest \in Contests
    /\ BandsOf \in [Contests -> SUBSET Bands]
    /\ FirstBand \in [Contests -> Bands]
    /\ \A c \in Contests : FirstBand[c] \in BandsOf[c]
    /\ Faults \subseteq FaultKinds

NoQso == -1
Times == 0..MaxTime
Minute(t) == t \div MinuteLen
Day(t)    == t \div DayLen

VARIABLES
    qsos,        \* the table: row id -> row; AUTOINCREMENT, nothing is ever DELETEd
    journal,     \* the lines of <database>-journal.adi, oldest first
    active,      \* ContestSettings::activeContestId
    band,        \* MainWindow::m_currentBand
    rules,       \* the rules in force per contest (shipped or overridden)
    table,       \* LogTableModel::m_records: row id -> row as shown
    preview,     \* the own number shown in the entry row
    lastDeleted, \* MainWindow::m_lastDeletedQsoId
    announced    \* history: rows whose number an undo said is given twice

vars == <<qsos, journal, active, band, rules, table, preview, lastDeleted, announced>>

-----------------------------------------------------------------------------
(* What the database answers.  L is the table, c a contest. *)

LiveRows(L, c) == {i \in DOMAIN L : L[i].log = Live(c)}

\* qsosForContest(): the rows of a log, as LogTableModel::setRecords() takes them.
Shown(L, c) == [i \in LiveRows(L, c) |-> L[i]]

\* nextSerialForContest(): MAX(serial_sent) + 1 over the running log, on one
\* band or on all of them.  Invalid rows count, the bin and archives do not.
SerialsOf(L, c, b, scope) ==
    {L[i].serial : i \in {j \in LiveRows(L, c) : scope = "contest" \/ L[j].band = b}}

Largest(S) == CHOOSE n \in S : \A m \in S : m <= n
NextSerial(L, c, b, scope) ==
    LET S == SerialsOf(L, c, b, scope) IN IF S = {} THEN 1 ELSE Largest(S) + 1

\* What two QSOs must share for the later one to be a dupe of the earlier:
\* the base callsign, and band and mode where the rules name them.
DupeKey(q, scope) == [f \in scope |-> IF f = "callsign" THEN BaseCall[q.callsign] ELSE q[f]]

Rated(L, c) == {i \in LiveRows(L, c) : ~L[i].invalid}

\* DupeChecker::isDupe(): any rated row of the log with the same key.
IsDupe(L, c, q) ==
    \E i \in Rated(L, c) : DupeKey(L[i], rules[c].dupe) = DupeKey(q, rules[c].dupe)

-----------------------------------------------------------------------------
(* recomputeDupeFlags() and MainWindow::rescoreDupes() *)

\* Mutant of Before: the tie-breaker is forgotten.
Before_NoTie(L, j, i) == L[j].time < L[i].time

\* The sort: by time, the id as tie-breaker.
Before(L, j, i) == L[j].time < L[i].time \/ (L[j].time = L[i].time /\ j < i)

IsRepeat(L, c, i) ==
    \E j \in Rated(L, c) :
        Before(L, j, i) /\ DupeKey(L[j], rules[c].dupe) = DupeKey(L[i], rules[c].dupe)

FlagChanges(L, c) == {i \in Rated(L, c) : L[i].dupe # IsRepeat(L, c, i)}

\* Each change is an UPDATE of its own; a failing one is reported and skipped.
FlagWrites(L, c) == IF "flag" \in Faults THEN SUBSET FlagChanges(L, c) ELSE {FlagChanges(L, c)}

WithFlags(L, S) == [i \in DOMAIN L |-> IF i \in S THEN [L[i] EXCEPT !.dupe = ~@] ELSE L[i]]

-----------------------------------------------------------------------------
(* Parts the handlers share *)

Outcomes(write) == IF write \in Faults THEN BOOLEAN ELSE {TRUE}

\* refreshSentExchangePreview(): the number the next QSO would be given.
OwnNumber(L, c, b) == NextSerial(L, c, b, rules[c].serial)

\* Mutant of RefreshAfterLogChange: the line with refreshSentExchangePreview()
\* is missing, as it was before the comment there was written.
RefreshAfterLogChange_StalePreview(L) ==
    \E S \in FlagWrites(L, active) :
        /\ qsos' = WithFlags(L, S)
        /\ table' = Shown(WithFlags(L, S), active)
        /\ preview' = preview

\* refreshAfterLogChange() on a log L just written: table, own next number, dupe flags.
RefreshAfterLogChange(L) ==
    \E S \in FlagWrites(L, active) :
        /\ qsos' = WithFlags(L, S)
        /\ table' = Shown(WithFlags(L, S), active)
        /\ preview' = OwnNumber(L, active, band)

\* Mutant of Patched: only the edited row is refreshed, not those rescored with it.
Patched_OnlyEdited(M, i, S) == [table EXCEPT ![i] = M[i]]

\* LogTableModel::updateRecord() of the edited row and of the rescored ones
\* that are in the table: row by row, never a reset.
Patched(M, i, S) == [j \in DOMAIN table |-> IF j \in S \cup {i} THEN M[j] ELSE table[j]]

\* A correction of one row of the table: UPDATE, patch the row, rescoreDupes().
\* None of the three corrections touches a number or a log, so the preview stays.
Correct(i, row) ==
    LET L == [qsos EXCEPT ![i] = row]
    IN  \E S \in FlagWrites(L, active) :
          /\ qsos' = WithFlags(L, S)
          /\ table' = Patched(WithFlags(L, S), i, S)
          /\ UNCHANGED <<journal, active, band, rules, preview, lastDeleted, announced>>

-----------------------------------------------------------------------------
(* handleLogRequested(): Enter on a complete entry row *)

\* The QsoRecord before the dupe flag is put in.  The time is the PC's clock,
\* which can be set either way while the program runs (core/ClockCheck).
NewRow(x, m, t) ==
    [callsign |-> x, band |-> band, mode |-> m, time |-> t,
     serial |-> OwnNumber(qsos, active, band),
     log |-> Live(active), dupe |-> FALSE, invalid |-> FALSE, source |-> "manual"]

\* A failing query is answered "not a dupe" (and warned about).
DupeAnswers(q) == {IsDupe(qsos, active, q)} \cup (IF "query" \in Faults THEN {FALSE} ELSE {})

\* Mutant of JournalLine: the journal is written before the number is known.
JournalLine_NoNumber(q) ==
    [contest |-> q.log.contest, callsign |-> q.callsign, band |-> q.band, mode |-> q.mode,
     time |-> q.time, serial |-> 0]

\* toAdifRecord(): what of a QSO its journal line carries.
JournalLine(q) ==
    [contest |-> q.log.contest, callsign |-> q.callsign, band |-> q.band, mode |-> q.mode,
     time |-> q.time, serial |-> q.serial]

\* First the journal; a failing write is only reported.
WriteJournal(q) ==
    \E ok \in Outcomes("journal") :
        IF ok THEN /\ Len(journal) < MaxJournal
                   /\ journal' = Append(journal, JournalLine(q))
              ELSE journal' = journal

LogQso(x, m, t) ==
    LET q == NewRow(x, m, t)
    IN  /\ WriteJournal(q)
        /\ Len(qsos) < MaxQsos
        /\ \E d \in DupeAnswers(q) :
             LET L == Append(qsos, [q EXCEPT !.dupe = d])
             IN  /\ qsos' = L
                 /\ table' = Shown(L, active)
                 /\ preview' = OwnNumber(L, active, band)
        /\ UNCHANGED <<active, band, rules, lastDeleted, announced>>

\* insertQso() fails, or the process ends between the journal and the insert:
\* the handler stops there, the QSO still stands in the entry row.
LogQsoFails(x, m, t) ==
    /\ "insert" \in Faults
    /\ WriteJournal(NewRow(x, m, t))
    /\ UNCHANGED <<qsos, active, band, rules, table, preview, lastDeleted, announced>>

-----------------------------------------------------------------------------
(* Corrections in the history table *)

EditCallsign(i, x) ==
    /\ i \in DOMAIN table
    /\ x # qsos[i].callsign
    /\ Correct(i, [qsos[i] EXCEPT !.callsign = x])

EditTime(i, t) ==
    /\ i \in DOMAIN table
    /\ t # qsos[i].time
    /\ Correct(i, [qsos[i] EXCEPT !.time = t])

ToggleInvalid(i) ==
    /\ i \in DOMAIN table
    /\ Correct(i, [qsos[i] EXCEPT !.invalid = ~@])

\* handleHistoryDeleteRequested(): without a question, into the bin.
DeleteQso(i) ==
    /\ i \in DOMAIN table
    /\ qsos[i].log.part # "bin"
    /\ RefreshAfterLogChange([qsos EXCEPT ![i].log = Bin(qsos[i].log.contest)])
    /\ lastDeleted' = i
    /\ UNCHANGED <<journal, active, band, rules, announced>>

\* Other rows of the log of row i with its number on its band.
Twins(L, i) ==
    {j \in LiveRows(L, L[i].log.contest) \ {i} : L[j].band = L[i].band /\ L[j].serial = L[i].serial}

\* Mutant of UndoDelete: no look at whether the number was given out again.
UndoDelete_Silent ==
    LET i == lastDeleted
    IN  /\ i # NoQso
        /\ RefreshAfterLogChange([qsos EXCEPT ![i].log = FromBin(qsos[i].log)])
        /\ lastDeleted' = NoQso
        /\ UNCHANGED <<journal, active, band, rules, announced>>

\* Mutant of UndoDelete: the row is taken back, the slot keeps naming it.
UndoDelete_SlotStays ==
    LET i == lastDeleted
        L == [qsos EXCEPT ![i].log = FromBin(qsos[i].log)]
    IN  /\ i # NoQso
        /\ RefreshAfterLogChange(L)
        /\ announced' = IF Twins(L, i) # {} THEN announced \cup {i} ELSE announced
        /\ UNCHANGED <<journal, active, band, rules, lastDeleted>>

\* undoLastDelete(): back from the bin, into the log of the row's own contest.
\* The flags are rescored for the active contest, whichever that is by now.
UndoDelete ==
    LET i == lastDeleted
        L == [qsos EXCEPT ![i].log = FromBin(qsos[i].log)]
    IN  /\ i # NoQso
        /\ RefreshAfterLogChange(L)
        /\ lastDeleted' = NoQso
        /\ announced' = IF Twins(L, i) # {} THEN announced \cup {i} ELSE announced
        /\ UNCHANGED <<journal, active, band, rules>>

-----------------------------------------------------------------------------
(* archiveActiveContest(): "Neues Log beginnen" *)

LastDate(c) == Largest({Day(qsos[i].time) : i \in LiveRows(qsos, c)})
Taken(c, d, n) == \E i \in DOMAIN qsos : qsos[i].log = Archive(c, d, n)

\* Mutant of IsFreeArchive: a second archive on the same day gets no suffix.
IsFreeArchive_NoSuffix(c, d, n) == n = 1

\* The first of "C@date", "C@date-2", ... that no row stands under.
IsFreeArchive(c, d, n) == ~Taken(c, d, n) /\ \A m \in 1..(n-1) : Taken(c, d, m)

ArchiveActiveContest ==
    LET d == LastDate(active)
    IN  /\ LiveRows(qsos, active) # {}
        /\ \E n \in 1..(Len(qsos) + 1) :
             /\ IsFreeArchive(active, d, n)
             /\ LET L == [i \in DOMAIN qsos |-> IF i \in LiveRows(qsos, active)
                                                THEN [qsos[i] EXCEPT !.log = Archive(active, d, n)]
                                                ELSE qsos[i]]
                IN  /\ qsos' = L
                    /\ table' = Shown(L, active)
                    /\ preview' = OwnNumber(L, active, band)
        /\ UNCHANGED <<journal, active, band, rules, lastDeleted, announced>>

-----------------------------------------------------------------------------
(* restoreFromJournal() *)

\* Mutant of JournalKey: the band is left out of the key.
JournalKey_NoBand(q) == <<q.callsign, Minute(q.time)>>

\* callsign | band | time to the minute: how a line is known to stand in the log.
JournalKey(q) == <<q.callsign, q.band, Minute(q.time)>>

\* The lines whose key no row of the running log has.
Missing == {k \in DOMAIN journal :
              \A i \in LiveRows(qsos, active) : JournalKey(qsos[i]) # JournalKey(journal[k])}

\* A possible run of the loop inserts the lines pick[1], pick[2], ... : in the
\* order of the file, one line per key; the first one, unless its insert fails.
IsImport(pick, n) ==
    /\ \A a, b \in 1..n : a < b => /\ pick[a] < pick[b]
                                   /\ JournalKey(journal[pick[a]]) # JournalKey(journal[pick[b]])
    /\ "insert" \in Faults \/
       \A k \in Missing : \E a \in 1..n : /\ pick[a] <= k
                                          /\ JournalKey(journal[pick[a]]) = JournalKey(journal[k])

\* The line's CONTEST_ID is not read: every line joins the active contest.
RowOfLine(e) ==
    [callsign |-> e.callsign, band |-> e.band, mode |-> e.mode, time |-> e.time,
     serial |-> e.serial, log |-> Live(active),
     dupe |-> FALSE, invalid |-> FALSE, source |-> "journal"]

RestoreFromJournal ==
    /\ journal # <<>>
    /\ \E n \in 0..Cardinality(Missing) :
         /\ Len(qsos) + n <= MaxQsos
         /\ \E pick \in [1..n -> Missing] :
              /\ IsImport(pick, n)
              /\ RefreshAfterLogChange(qsos \o [a \in 1..n |-> RowOfLine(journal[pick[a]])])
    /\ UNCHANGED <<journal, active, band, rules, lastDeleted, announced>>

-----------------------------------------------------------------------------
(* Contest, rules, band, and the life of the process *)

\* applyActiveContestDefinition(): the band stays if contest c has it.
BandFor(c) == IF band \in BandsOf[c] THEN band ELSE FirstBand[c]

\* openContestPicker(), openSettingsDialog()
SwitchContest(c) ==
    /\ c # active
    /\ active' = c /\ band' = BandFor(c)
    /\ table' = Shown(qsos, c)
    /\ preview' = OwnNumber(qsos, c, BandFor(c))
    /\ UNCHANGED <<qsos, journal, rules, lastDeleted, announced>>

\* openContestRulesEditor(), saved: the contest edited becomes the active one.
\* Neither the flags nor the table are brought up to date.
EditRules(c, r) ==
    /\ rules' = [rules EXCEPT ![c] = r]
    /\ active' = c /\ band' = BandFor(c)
    /\ preview' = NextSerial(qsos, c, BandFor(c), r.serial)
    /\ UNCHANGED <<qsos, journal, table, lastDeleted, announced>>

\* openContestRulesEditor(), reset to the shipped rules: the active contest stays.
ResetRules(c) ==
    /\ rules' = [rules EXCEPT ![c] = ShippedRules[c]]
    /\ preview' = NextSerial(qsos, active, band, rules'[active].serial)
    /\ UNCHANGED <<qsos, journal, active, band, table, lastDeleted, announced>>

\* applyRigFrequency(), chooseBand(): a band the contest has.
ChangeBand(b) ==
    /\ b # band /\ b \in BandsOf[active]
    /\ band' = b
    /\ preview' = OwnNumber(qsos, active, b)
    /\ UNCHANGED <<qsos, journal, active, rules, table, lastDeleted, announced>>

\* The process ends, by itself or not, and is started again on the same files:
\* the settings, the rules and the two logs are on disk, the rest is not.
Restart ==
    /\ lastDeleted' = NoQso
    /\ band' = FirstBand[active]
    /\ table' = Shown(qsos, active)
    /\ preview' = OwnNumber(qsos, active, FirstBand[active])
    /\ UNCHANGED <<qsos, journal, active, rules, announced>>

\* The database file is lost; the program starts on a fresh one.  What the
\* journal is for: it lies beside the database, in a file of its own.
LoseDatabase ==
    /\ "database" \in Faults
    /\ qsos' = <<>>
    /\ active' = DefaultContest
    /\ band' = FirstBand[DefaultContest]
    /\ table' = <<>>
    /\ preview' = 1
    /\ lastDeleted' = NoQso
    /\ announced' = {}
    /\ UNCHANGED <<journal, rules>>

-----------------------------------------------------------------------------
Init ==
    /\ qsos = <<>> /\ journal = <<>>
    /\ active = DefaultContest /\ band = FirstBand[DefaultContest]
    /\ rules = ShippedRules
    /\ table = <<>> /\ preview = 1
    /\ lastDeleted = NoQso /\ announced = {}

Next ==
    \/ \E x \in Calls, m \in Modes, t \in Times : LogQso(x, m, t) \/ LogQsoFails(x, m, t)
    \/ \E i \in DOMAIN table, x \in Calls : EditCallsign(i, x)
    \/ \E i \in DOMAIN table, t \in Times : EditTime(i, t)
    \/ \E i \in DOMAIN table : ToggleInvalid(i) \/ DeleteQso(i)
    \/ UndoDelete
    \/ ArchiveActiveContest
    \/ RestoreFromJournal
    \/ \E c \in Contests : SwitchContest(c)
    \/ \E c \in Contests, r \in RuleSets : EditRules(c, r)
    \/ \E c \in Contests : ResetRules(c)
    \/ \E b \in Bands : ChangeBand(b)
    \/ Restart
    \/ LoseDatabase

Spec == Init /\ [][Next]_vars

-----------------------------------------------------------------------------
(* Properties *)

Row == [callsign : Calls, band : Bands, mode : Modes, time : Times, serial : Nat \ {0},
        log : [contest : Contests, part : {"live", "bin", "archive"}, date : Nat, n : Nat],
        dupe : BOOLEAN, invalid : BOOLEAN, source : {"manual", "journal"}]

Line == [contest : Contests, callsign : Calls, band : Bands, mode : Modes, time : Times,
         serial : Nat \ {0}]

\* The shape of the state.  The undo slot names a row that lies in the bin, so
\* Strg+Z can always do what it says, and the band is one of the contest's.
TypeOK ==
    /\ qsos \in Seq(Row)
    /\ journal \in Seq(Line)
    /\ active \in Contests /\ band \in Bands \cap BandsOf[active]
    /\ rules \in [Contests -> Rules]
    /\ DOMAIN table \subseteq DOMAIN qsos
    /\ preview \in Nat
    /\ lastDeleted \in {NoQso} \cup {i \in DOMAIN qsos : qsos[i].log = Bin(qsos[i].log.contest)}
    /\ announced \subseteq DOMAIN qsos

\* What the history table shows of a QSO is what the database holds of it: no
\* handler leaves a row of LogTableModel behind (each handler patches rows by
\* hand instead of reading the log again), whatever of its writes fails.
TableRowsAreCurrent == table = [i \in DOMAIN table |-> qsos[i]]

\* The number the entry row shows -- the one the operator says on the air -- is
\* the number insertQso() will be given, after every handler.
PreviewIsOwnNumber == preview = OwnNumber(qsos, active, band)

\* In a running log each station counts exactly once per key of the rules: of
\* the valid QSOs with it one is no dupe.  DupeChecker (by id, at logging time)
\* and DupeRescore (by time, after corrections) agree on that much.
OneCountsPerStation ==
    \A c \in Contests : \A i \in Rated(qsos, c) :
        \E j \in Rated(qsos, c) :
            /\ DupeKey(qsos[j], rules[c].dupe) = DupeKey(qsos[i], rules[c].dupe)
            /\ ~qsos[j].dupe
            /\ \A k \in Rated(qsos, c) \ {j} :
                  DupeKey(qsos[k], rules[c].dupe) = DupeKey(qsos[i], rules[c].dupe) => qsos[k].dupe

\* Two QSOs logged by hand hold the same own number, in the sequence the rules
\* number them by, only if an undo said so in the status bar.
SharedNumbersAreAnnounced ==
    \A i, j \in DOMAIN qsos :
        (/\ i # j
         /\ qsos[i].source = "manual" /\ qsos[j].source = "manual"
         /\ qsos[i].log = qsos[j].log
         /\ qsos[i].log = Live(qsos[i].log.contest)
         /\ rules[qsos[i].log.contest].serial = "contest" \/ qsos[i].band = qsos[j].band
         /\ qsos[i].serial = qsos[j].serial)
        => {i, j} \cap announced # {}

\* As long as the journal can be written, every QSO logged by hand has a line
\* with its contest, band, mode and number, whatever was corrected since.
JournalCoversLog ==
    \A i \in DOMAIN qsos : qsos[i].source = "manual" =>
        \E k \in DOMAIN journal :
            /\ journal[k].contest = qsos[i].log.contest
            /\ journal[k].band = qsos[i].band /\ journal[k].mode = qsos[i].mode
            /\ journal[k].serial = qsos[i].serial

\* After an import whose inserts all succeed, every line of the journal stands
\* in the running log under its callsign, band and minute.
ImportBringsBackEveryLine ==
    [][RestoreFromJournal =>
         \A k \in DOMAIN journal : \E i \in DOMAIN qsos' :
            /\ qsos'[i].log = Live(active)
            /\ <<qsos'[i].callsign, qsos'[i].band, Minute(qsos'[i].time)>>
                 = <<journal[k].callsign, journal[k].band, Minute(journal[k].time)>>]_vars

\* Whatever fails short of the database file itself: no QSO is deleted, the bin
\* gives back into the log it took from, archives stay as they were closed.
Book == INSTANCE Logbook WITH place <- [i \in DOMAIN qsos |-> qsos[i].log]
KeepsTheLogbook == Book!Spec
=============================================================================
