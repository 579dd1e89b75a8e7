# Contestprogramm: a verification of the log and of what surrounds it

Contestprogramm (C++20/Qt 6) is a logging program for amateur-radio contests on
VHF and up. This directory holds TLA+ specifications of its stateful parts, the
TLC configurations that check them on small instances, and TLAPS proofs of the
results that hold for every instance. Source paths below are relative to
`src/src/` unless they begin with `tests/`.

1. [The system](#1-the-system) - 2. [The modules](#2-the-modules) -
3. [The runs](#3-the-runs) - 4. [The proofs](#4-the-proofs) -
5. [Where code and words differ](#5-where-code-and-words-differ) -
6. [What is not modelled](#6-what-is-not-modelled) - 7. [Plan](#7-plan)

## 1. The system

One process, one GUI thread. Nothing in the program's own logic runs on a second
thread: sockets, child processes and timers report through Qt's event loop, and
a handler runs to its end before the next one starts. The exceptions are
handlers that open a modal dialog: its nested event loop lets timers, sockets
and the radio go on while the handler is suspended. What is hard is therefore
not data races but

- handlers that leave one of several copies of the same fact behind (database,
  table on the screen, number in the entry row, flag in a row, mark in a feed,
  needle on the map);
- writes that fail half-way, and the end of the process between two of them;
- timers and answers that arrive after what they were for;
- the same log counted at several places (panel, statistics, files, scoreboard);
- long sequences of legal operations (delete, log again, undo, archive, switch)
  whose parts were each tested alone.

### Parts with state

| Part | Sources | State it keeps | Operations |
|---|---|---|---|
| Log table | `data/ContestDatabase` | table `qsos` (SQLite), contest ids, bin, archives, counter of writes | insert, correct, invalidate, delete to the bin, undelete, archive, next number |
| Log handlers | `ui/MainWindow`, `models/LogTableModel` | active contest, band, undo slot, table and own number on the screen | Enter, corrections, delete, Ctrl+Z, "Neues Log beginnen", import, contest picker, rules editor |
| Dupe rules | `data/DupeChecker`, `data/DupeRescore`, `core/CallsignPrefix` | none (the flags stand in the log) | check at logging time, rescoring after a correction |
| Journal | `data/QsoJournal`, `data/AdifExporter`, `data/LogFileReader` | `<database>-journal.adi`, append only | one ADIF line per QSO before the insert; import of what is missing |
| Copies | `data/LogBackup`, `data/BackupRestore`, `ui/BackupRestoreDialog` | folder `backups`, second folder on a stick, marker, counter of the last copy | copy every minute, forced copy, thinning, mirroring, restore |
| Entry row | `ui/UnifiedLogWidget`, `core/EsmPlanner`, `core/CallsignLocatorLookup` | fields, what was filled in, dupe pill, debounce timer, armed Enter, requests under way | type, clear, band, mode, Enter in steps, late answers |
| Log panel | `ui/UnifiedLogWidget` | columns shown, widths, cells under them, queued rounds, open editor | resize, tick a column, correct a cell |
| Results | `data/ContestScoring`, `ContestStatistics`, `MultiplierTracker`, `EdiExporter`, `CabrilloExporter` | none (read from the log) | score, hours, multipliers, files |
| Check of the log | `data/LogCheck` | none | issues before a file is sent |
| Calendar | `data/ContestSchedule` | contest end that was typed in | windows of a rule, countdown, tests of a QSO |
| Skeds, feeds | `core/SkedList`, `models/ChatFeedModel`, `ui/*Panel` | table `skeds` and its list, lines of two sources, what of them is shown, suggestion | arrive, mark, filter, remind |
| Settings, rules | `app/ContestSettings`, `ui/SettingsDialog`, `data/ContestDefinition`, `ui/ContestRulesEditor` | table `settings`, override files | edit, save key by key, load |
| Window | `ui/PanelLayoutManager`, `LayoutProfileManager`, `RotorWidget`, `MapWidget` | places, pages, profiles, needles, cones, layers | drag, float, dock, clamp, switch, aim |
| Chat client | `core/On4kstClient` | socket, login, room, pending room, two timers, counter of attempts, flag of an intended end | dial, retry, login, change of room, reconnect now |
| DX cluster, bandmap | `core/DxClusterClient`, `core/BandmapModel` | socket, buffer, login, spots | dial, retry, login prompt, parse, age |
| Waterfall | `core/SpectrumClient`, `ui/WaterfallWidget` | socket, retry timer, order for points, scale, picture | change of address, retry, resize |
| Rig and rotor | `core/RigctldClient`, `core/RotctldClient`, `app/AppController` | socket, queue of queries, what answer is awaited, watchdog; child processes `rigctld`, `rotctld` | poll, set, retry, time out; start, stop, cool-down of 30 s |
| Place | `core/terrain`, `core/WeatherClient` | tiles on disk and under way, classes of paths, ring, weather | move, fetch, fail |
| Scoreboard | `core/OnlineScoreboard` | timer, records | post, refresh |
| Readiness | `data/ReadinessCheck`, `core/ClockCheck` | rows shown, check under way | ask servers in turn |
| Single instance | `app/SingleInstanceGuard` | lock file, local socket | be the first, or tell the first and end |
| Self-update | `app/SelfUpdater`, `ui/UpdateDialog` | download, unpacked folder, old folder | download, check, unpack, swap, restart |
| Audio | `core/QsoAudioRecorder`, `QsoAudioCapture` | rolling WAV files, index of QSOs | append, roll, patch the header |

### How they interact

`MainWindow` owns the log's operations and calls `ContestDatabase`, `QsoJournal`
and `LogTableModel` directly, in one handler; the same handler refreshes
scores, feeds, skeds, scoreboard and suggestion, each with a call of its own, and
which handler makes which of these calls is where the models look hardest.
`AppController` owns the clients, the daemons and the minute timer of the copies;
it reads `ContestDatabase::qsoWriteCounter()` to know whether there is anything to
copy. The rig reports a frequency, `MainWindow` derives the band, the band changes
the own number in the entry row, the dupe pill, the bandmap and the room of the
chat. The chat's `loggedIn()` signal comes back into `MainWindow`, which may change
the room again. A rotor's position turns its dial, and the dial's signal the
map. Settings go from the dialog through `AppController::setSettings()`, which
measures the running log anew, into the table `settings` and to every client. A
restore writes over the database file and restarts the process.

### What makes each part correct

- Log: nothing an operator entered is ever deleted; one QSO per station counts;
  a number is given out once; the screen shows what the database holds.
- Journal: whatever was logged can be brought back from it.
- Copies: the present log is in a copy within a minute; thinning removes only
  what is covered; a restore can be undone; no copy lands on the wrong disk.
- Entry row: the pill is the log's answer for what stands there; a locator that
  was filled in belongs to the callsign it was filled in for.
- Results: every panel and file makes the same of one log, and a file claims no
  more than its lines hold.
- Line clients: what the client believes of its line is so; it is never left
  without a next attempt; it comes back; an answer is credited to its query.
- Displays: what is shown is of the log, the contest, the place and the settings
  as they are now.
- Processes and files (single instance, update, audio, rules, settings): a failure
  or a crash between any two steps leaves something that works. Two exceptions the
  code has are named in section 5: files copied over a program on Windows, and a
  recording whose header the disk refused.

`PROJECT.json` lists every component with its status, and under `hazards`, each
at its line, what could go wrong where a test would hardly reach. Hazards with
no property of a run carry the reason.

## 2. The modules

| Module | What it is | Checked in |
|---|---|---|
| `LogPlaces` | where a QSO can stand: running log, bin, archive | with `QsoLog` |
| `Logbook` | the abstract promise: entered QSOs are never deleted, and how they may move | `contests` |
| `QsoLog` | log table, handlers, dupe rules, journal; refines `Logbook` | `dupes`, `journal`, `contests` |
| `MCQsoLog`, `MCDupes` | instances of `QsoLog`; the second with a station under two callsigns, whose exchange is a symmetry since only base callsigns are compared | |
| `LogBackup` | the copies, the stick, the restore | `thinning`, `stick` |
| `ChatLink`, `MCChatLink` | the chat client with its timers, and what the window asks of it | `chat_line` |
| `EntryRow` | the entry row with its late lookups, ESM and the dupe pill | `desk_log` |
| `LogTable` | the log panel: columns, cells under them, keys, correction of a cell | `desk_log` |
| `Results` | score, statistics, multipliers, EDI and Cabrillo, rate panel, scoreboard message | `desk_log` |
| `LogCheck` | the check before a log is sent in | `desk_log` |
| `ContestCalendar` | windows of a contest's rule and who asks for them | `desk_log` |
| `Skeds` | the skeds, in the table and on the screen | `desk_log` |
| `ChatFeed` | lines of chat and cluster, what of them is shown, map stations, suggestion | `desk_log` |
| `PanelLayout` | panels, pages, windows, layout profiles | `desk_station` |
| `RotorPanel` | the dials and the headings on the map | `desk_station` |
| `MapView` | layers, opening angles, open stations in the beam | `desk_station` |
| `Settings` | the settings dialog, the running log measured anew, writes one by one | `desk_station` |
| `RuleBook` | shipped and overridden rules, the editor, the picker | `desk_station` |
| `AudioRoll` | the recording that runs for hours | `desk_station` |
| `SpotLink` | DX cluster line, reading in chunks, spots, bandmap | `desk_station` |
| `Waterfall` | the spectrum's line and the panel | `desk_station` |
| `HamlibLink` | lines to `rigctld` and `rotctld`, and their supervision | `desk_live` |
| `SingleInstance` | the lock and the local socket of two starts | `desk_live` |
| `SelfUpdate` | download, check, swap, restart | `desk_live` |
| `OnlineBoard` | the public scoreboard, minute by minute | `desk_live` |
| `Readiness` | the readiness window and the check of the clock | `desk_live` |
| `SiteData` | tiles, classes of paths, ring, rim, weather | `desk_live` |
| `MCDeskLog`, `MCDeskStation`, `MCDeskLive` | instances of the modules above, several in one run | |
| `QsoLogProofs`, `ResultsProofs`, `DeskLogProofs`, `ChatLinkProofs`, `LogBackupProofs`, `LiveProofs`, `InstrumentProofs`, `WindowProofs` | theorems, see section 4 | |

**How several modules share a run.** The parts around the log share no state with
one another as they are modelled: each takes what it needs of the log, of the
settings or of a line as an input of its own. Their interleavings would therefore
say nothing about any of them. A behaviour of `MCDeskLog`, `MCDeskStation` or
`MCDeskLive` is one of a single part: `part` is chosen at the start from
`Parts`, the other parts' variables lie at a value that means nothing, and
every property has the form "in the behaviours of this part". The state
space is the sum of the parts, not their product, and a run with `Parts`
reduced to one is a run of that module alone. Where several parts' invariants
are of one kind they are one property of the run; each conjunct has a mutant of
its own that breaks it (section 3).

### QsoLog

| Variable | In the code |
|---|---|
| `qsos` | the table `qsos`; row ids are positions, since nothing is ever `DELETE`d |
| `journal` | the lines of the ADIF journal |
| `active`, `band` | `ContestSettings::activeContestId`, `m_currentBand` |
| `rules` | per contest, dupe scope and scope of the numbering: shipped, or saved by the rules editor |
| `table` | `LogTableModel::m_records` |
| `preview` | the own number in the entry row |
| `lastDeleted` | `m_lastDeletedQsoId` |
| `announced` | history only: rows whose number an undo said, in the status bar, is given twice |

One action per handler: `LogQso`, `LogQsoFails` (journal written, insert not, or
the process ends in between), `EditCallsign`, `EditTime`, `ToggleInvalid`,
`DeleteQso`, `UndoDelete`, `ArchiveActiveContest`, `RestoreFromJournal`,
`SwitchContest`, `EditRules`, `ResetRules`, `ChangeBand`, `Restart`,
`LoseDatabase`. `refreshAfterLogChange()` is `RefreshAfterLogChange`, part of the
handlers that call it and of no others. `rescoreDupes()` is a series of single
UPDATEs: with `"flag"` in `Faults` any subset of them may be missing
afterwards. A row's log is a place (`LogPlaces`) where the code has a string
with a suffix. A callsign is a value with a base callsign; times are seconds of
a clock with small minutes and days and may go either way, as the PC's clock
may. Every contest has its bands and a first one among them: entering a contest
keeps the band if the contest has it (`BandFor`). That the rules editor may also
change a contest's bands is left out.

The log's handlers that change nothing in the database when their first write
fails are not given an action of their own: that is a stutter.

### LogBackup

Time is in minutes, the precision of a copy's name; `BucketLen` and `KeepEvery`
stand for ten minutes and two hours, `KeepFiles` for the cap of 400. `copies` is the
folder, `db` the state of the live database with the setting of the second folder
in it (a copy holds it too, so a restore brings an old setting back), `changed`
the comparison of the two counters, `chosen` the copy picked while the question
of the restore is open (the minute timer runs on meanwhile). `stick` and `hole`
are the two folders that one path can mean: the one on the stick, and the empty
mount point it leaves on the internal disk. `TakeCopy` is `backupNow()` past its
first condition with prune and mirror; it is a part of `TimerBackup`,
`BackupLogNow`, `Quit`, `PerformRestore`, never an action of its own.
`Kept` is `pruneDirectory()` as an operator on sets of files.

### ChatLink

The client is one record `chat`; each of its functions is an operator from record
to record (`Dialled` is `connectAndLogin()`, `HungUp` `disconnectFromServer()`,
`Scheduled` `scheduleReconnect()`, `PendingLogin` `startPendingRoomLogin()`,
`Lost` `onDisconnected()`, `ReconnectedNow`, `Switched`, and `Synced` for
`syncOn4kstRoomForCurrentBand()`), because handlers call one another and a
handler is one step. Actions are what the event loop delivers: clicks, the
socket, the server, the two timers, the call queued with `singleShot(0)`.

Of Qt's socket it uses what the code relies on: `abort()` reports
`disconnected()` only if the line was up; `disconnectFromHost()` on a socket still
connecting closes it once it is through (`hangUp`); `connectToHost()` on a socket
that is not idle is refused; a line with `/QUIT` still to be written closes
later, one without closes at once.

Delays are computed as the code computes them: in an `int` of 32 bits that is
shifted before it is capped. All delays are multiples of 8 ms, so in units of
8 ms the wrap is modulo 2^29. Signed overflow is undefined in C++; the model
takes the wrap every build of this program for x86-64 and ARM produces there. A
negative interval does not start a `QTimer` (Qt before 6.10; the project builds
with 6.8.3; from 6.10 on it fires after 1 ms).

`wish` is a history variable: the room last picked by hand.

### Around the log

`EntryRow`: `erTimer` is the debounce timer, `erAsked` the requests under way at
the callbook, each with the session (`erAccount`) it was asked in; `erGridAuto`
and `erRstAuto` say that a field was filled in and not typed; `erArmed` is
`m_incompleteExchangeEnterArmed`. Typing, clearing, band, mode, Enter in the
steps of `EsmPlanner`, a corrected row, a changed account and the callbook's
two kinds of answer are actions. The warning that a typed locator does not fit
the callsign is left out.

`LogTable`: widths are numbers of pixels as in the code, three widths of the
viewport stand for the steps at which columns give way. A received exchange is
the set of the kinds of field in it; the round trip through the text of a cell
is modelled by what survives it. The status column's own width, row heights and
failing writes are left out.

`Results` is a module of operators: `ContestScore`, `HourRows`, `AirTime`,
`WorkedMultipliers`, `EdiFile`, `CabrilloFile`, `RateBreakdown`, `ScoreMessage`
are what those parts compute from the rows, each translated from its own file,
and the properties relate them. `LogCheck` instantiates it to know what a row is
worth. `ContestCalendar` works on days and minutes (0 is 1 January 2000), with
`QDate` as the arithmetic of the Gregorian calendar for 2000..2099; the
properties compare the program's way of counting with a search through the days
of the month (`StatedStart`).

`Skeds` and `ChatFeed` keep both copies of their data (table and list, lines and
what is shown of them) because handlers refresh one and not always the other.
In `ChatFeed` a line's score is one of three classes; bonuses of time and
propagation are left out.

### Around the station

`PanelLayout` has one axis for two; a rectangle is a place and a length, a canvas
is wide or narrow. `pnPut` (history) is where the operator put a panel.
`RotorPanel` takes the client of `HamlibLink` as up or down with a position;
`MapView` the map's stored text as the set of layers and the angles in it.
`Settings` writes the settings one by one in `saveTo()`'s order and may end
between any two; a QSO remembers the locator it was measured from. `RuleBook`
reduces a definition to what decides something. `AudioRoll` counts frames in
seconds; `ArWrap` stands for the 2^32 bytes of a WAV's size field. Wherever a file is
closed, its header may be refused by the disk (`taken`), which goes unnoticed there as in
the code; `cut` remembers it, and that a crash ended a file. `SpotLink`
reads in chunks, a line may come in pieces, `SpDay` units make a day in UTC.
`Waterfall` has a picture as the set of the palettes painted into it.

### What goes on by itself

`HamlibLink` covers `RigctldClient` and `RotctldClient`, one design twice, with
their daemons: one slot is a record, each function an operator on it, as in
`ChatLink`. An answer is a sequence of lines and a line is named for what it says,
so that an answer read as another's is visible (`misread`). `TailApart` says
whether the rest of an answer may arrive in a packet of its own; the runs
have FALSE, since the clients count on it (hazard list).
`SingleInstance` has processes of two builds, the lock file, the socket's name and
the messages under way. `SelfUpdate` has three ways to install (two renames on macOS and
Linux, a batch file for a portable copy on Windows, a setup program there) and a
build that cannot replace itself. The renames go one by one, and so does the batch
file (`script`): it waits for the program to end; robocopy or the setup replaces a
first file and then the last one (`SwapBegins`, `SwapEnds`; in between the program is
`torn`); it removes what was unpacked and the package, and starts the program
(`ScriptEnds`). Each of these, and the start of the script itself, may fail, and the power
may go between them. The operator starts nothing by hand while the script is at work.

`OnlineBoard` has no counters: what matters of the log is whether it has a QSO no
message has told, and whether `m_records` has all of those (`boardNews`). QSOs may
therefore go on for ever. Two waits are history, counted up to a bound larger than
any interval: since the last QSO or dialog, and since the last message.

`SiteData` models a class of terrain by the place it was
worked out for, so that a class of an old place is visible.

## 3. The runs

| Run | Question | Bounds | Distinct states |
|---|---|---|---|
| `dupes` | Does exactly one QSO per station count, though logging checks by id and corrections rescore by time? | 1 contest, 2 stations under 3 callsigns, 3 QSOs, 2 times | 2,552,173 |
| `journal` | Does the journal cover the log, and does an import bring it all back? | 1 call, 2 bands, 2 minutes and 2 days (3 times), 2 QSOs, 2 lines, the database may be lost | 1,074,218 |
| `contests` | Do table, own number and archives stay right over contests, bands and rules, every write failing? | 2 contests (one of them without 144 MHz), 2 bands, 2 rule sets, 2 QSOs, 1 line, all write faults | 329,064 |
| `thinning` | Is the log always in a copy, and the history without holes? | clock 0..5, cap 4, 2 writes, 2 copies a minute, clock forward | 109,146 |
| `stick` | Can a copy land in an empty mount point? | stick in and out at any time, every file operation may fail, clock 0..2, both ways | 27,108 |
| `chat_line` | Is the client's belief true, does it always have a next attempt, does it come back in the right room? | 3 rooms, 3 bands (one without a room), 4 clicks, 16 failed attempts in a row | 162,159 |
| `desk_log` | Do entry row, log panel, results, check, calendar, skeds and feeds say what the log says? | see below | 1,147,374 |
| `desk_station` | Do window, settings, rules, recording and displays stay as they were chosen, and true? | see below | 2,631,525 |
| `desk_live` | Do the lines come back, does a start or an update leave one whole program, does what is fetched arrive? | see below | 297,855 |
| `undo_elsewhere` | counterexample: Ctrl+Z after a change of contest | 2 contests, 1 call | - |
| `chat_backoff` | counterexample: the delay overflows | unbounded attempts | - |
| `zone_lost` | counterexample: a cell opened and left changes the row | the part `table` of `desk_log` | - |

Bounds of the parts that share a run, with the distinct states each has alone:

| Part | Bounds | States |
|---|---|---|
| entry | 2 callsigns (one begins with the other), 2 bands, 1 QSO, 1 request under way at a time, account changed once | 657,984 |
| table | 3 widths (nothing, one and both columns give way), 4 contests (locator, zone, free text, one band), 1 QSO, 1 cell opened | 14,208 |
| results | 3 QSOs with 5 stations at 3 times, 1 struck out: same station twice, two in one square, without a number, with four characters, on a foreign band | about 14,000 |
| check | 3 rows with 4 stations, numbers 0..3, 1 struck out | 17,185 |
| calendar | 5 rules, 2 years, 2 QSOs, looked at on every edge of a window | about 6,000 |
| skeds | 2 contests, 2 skeds, clock 0..6 (due at 1, missed at 5), 1 failing write | 208,376 |
| feed | 3 lines (chat and cluster, one a beacon, one without a band), 2 contests, 2 bands, 2 places | 229,280 |
| panels | 2 panels, one of them compact, 2 profiles, 3 operations after a start | 87,458 |
| rotors | 2 slots, 4 directions, 6 operations | 145,604 |
| map | 2 rotors and the fixed antenna, 2 angles, 3 stations, 2 headings, 5 operations | 77,210 |
| settings | 2 locators, 2 contests, 1 QSO, 1 edit in a dialog, 1 crash or failing write | 1,193,280 |
| rules | 2 shipped contests and an own one, 3 edits, 2 broken files | 340,429 |
| audio | rolls never or at 2 frames, wrap at 4, 2 reads, 2 files, 1 failure (of the device, a file, a write, a header) or crash | 113,288 |
| spots | 1 station on 2 bands, buffer of 2, 3 pieces, 1 event | 661,608 |
| waterfall | 2 hosts, 2 widths, 3 lines, 5 events | 12,648 |
| link | rig and rotor, daemon started or not, 3 clicks, 2 faults | 237,950 |
| start | 3 processes of 2 builds, 2 faults | 19,229 |
| update | 5 kinds of installation, 1 dialog, 2 blocks, 3 faults | 2,491 |
| board | intervals 2 and 3, any number of QSOs and minutes, waits counted up to 6 | 65 |
| ready | 3 servers, clock ahead by 0, 1 or 3 minutes | 24,288 |
| site | 2 places, 3 targets, 2 tiles, 2 moves, 2 failures | 13,832 |

**Why the bounds are enough.** A dupe relation needs two QSOs of one station; that
rescoring and checking go by different orders needs two times; that a third QSO
is affected by a change between the first two needs a third. Two stations are
needed for a callsign correction that moves a QSO from one key to another, and a
second callsign of one of them for a correction that does not. Undo
and archive hazards need two QSOs and two contests: a second archive on the same
day is reached with one QSO each. The import needs two lines for one key, and
minutes longer than a second, for a line to find its QSO although the
time differs. Thinning needs a cap larger than one bucket's copies, at least two
buckets older than `KeepEvery`, and more than one copy a minute. Four clicks
cross a change of room with a change of band, a reconnect and a save of the
settings, in any order with any failure. Sixteen failed attempts are the most
for which the delays are right (see `chat_backoff`); with them the run shows
that the overflow is the only way to be forgotten, and
`OnlyTheDelayForgets` proves it.

In the shared runs each part has the smallest instance in which two copies of a
fact can differ and be mended or not: two contests, bands, places, locators or
hosts, so that "of the other one" exists; one thing under way and a change before
it arrives; one fault and the operations after it. A late answer of the callbook
needs a second callsign and a second session. An EDI file that counts a square
twice needs a dupe from another square and a third QSO in that square, hence three
QSOs. The longest ascending run of numbers differs from the naive one with
three rows. `CalYears` holds a year whose month ends on a Saturday, so that the
last Saturday does not begin the last full weekend, and one whose forbidden
date falls on the start. A second tile makes a path half loaded; a second move
lets an answer of the first place come after it. Three processes are the one that
runs, the one that starts and one that starts meanwhile. Three clicks on a link
cross a change of settings with a disconnect and a command. Three faults of an update let
the swap fail, its way back or its restart fail with it, and the power go besides. The
scoreboard's part is small because nothing in it is bounded but the waits: its
behaviours are infinite, with a QSO between any two minutes.

**What each passing run shows.**

- `dupes`: `OneCountsPerStation`. A station that was logged, corrected, marked
  invalid, deleted, recovered, archived or imported in any order counts once.
  All flag writes succeed here: when one fails the handler reports it, and the
  flags are wrong until the next rescoring; the property is not claimed then.
- `journal`: `TypeOK`, `JournalCoversLog`, `ImportBringsBackEveryLine`.
- `contests`: `TableRowsAreCurrent`, `PreviewIsOwnNumber`,
  `SharedNumbersAreAnnounced`, and `KeepsTheLogbook`: `QsoLog` implements
  `Logbook` under the mapping that takes a row to the place it stands in.
- `thinning`: `UnchangedMeansSaved`, `ReplacedStateIsSaved`, `NoGapInHistory` and,
  under fairness, `LogGetsSaved`.
- `stick`: `TypeOK`, `InternalDiskStaysEmpty`.
- `chat_line`: `TypeOK`, `BeliefIsTrue`, `NeverForgotten`,
  `IntentionHasAReason` and, under fairness, `ComesBack`.
- `desk_log`: the DUPE pill is the log's answer (`DupePillIsTrue`), a locator is,
  at the moment it is filled in, known of the callsign that stands there
  (`RowIsFilledForTheCall`), entry row
  and table are one grid (`LogPanelIsTrue`), files claim what their lines hold
  and all readers of a log agree (`ClaimsMatchLines`, `OneResult`), a needed
  multiplier counts when worked (`NeededCountsWhenWorked`), nothing scores zero
  unreported and as few numbers as possible are blamed (`NoSilentZero`,
  `OrderBlamesFewest`), a running contest is known to all who ask
  (`RunningContestIsKnown`), skeds and feeds follow log and clock
  (`SkedListIsCurrent`, `FeedFollowsTheLog`).
- `desk_station`: panels come back when the canvas does (`CanvasComesBack`), the map
  follows the dials and keeps its word (`MapFollowsDial`, `MapKeepsItsWord`), the
  running log is measured from the own locator and bands are routed to rotors that
  are on (`SettingsAgree`), the active contest has rules (`RulesStayUsable`),
  recordings stay, and can be
  played unless a crash or the disk cut them off (`SoundIsKept`), bandmap and waterfall claim
  what their lines carry (`BandmapIsTrue`, `WaterfallIsHonest`).
- `desk_live`: `LinkIsSound`, `LinkComesBack` (rig and rotor come back while there
  is a server or one can be started), `OneWholeProgram` (on Windows: but for a copying
  that failed or was cut off half-way), `WhatWasAskedForEnds` (a
  start and a check of the clock end), `TerrainMatchesTiles`.
  `EveryQsoIsTold`: while QSOs go on for ever, all of them are told again and again
  if there is a lull as long as the interval again and again; and if they end, the last one
  is told. Without lulls nothing is told, see `PostsEveryInterval` in section 5.
  `SiteComesToRest`: in a place that is not left any more the weather becomes that of the
  place, even if a tile's download stalls; and if none does, each path is judged from
  there.

**Mutants.** Each property of a passing run has a mutant in `PROJECT.json`, a
definition changed the way a plausible bug would change the code, under which TLC
finds the property violated in that very run. Where a property joins several
statements, the others have these mutants; each breaks the property named, in the
run named:

| Mutant | Property | Run |
|---|---|---|
| `EntryRow.BandBecomes_Unchecked` | `RowsAreTrue` | `desk_log` |
| `Results.HourRows_DupesToo` | `LogHasOneResult` | `desk_log` |
| `LogCheck.RowIssues_AnyLocator` | `LogCheckIsRight` | `desk_log` |
| `ChatFeed.RefreshFeeds_OnlyCounts` | `ChatPanelsAreCurrent` | `desk_log` |
| `RotorPanel.LinkHeading_OfTheClient`, `MapView.Kept_DialsOnly` | `WindowIsAsChosen` | `desk_station` |
| `RuleBook.AfterDelete_Keeps` | `SettingsHold` | `desk_station` |
| `Waterfall.LineGone_KeepsScale` | `DisplaysAreTrue` | `desk_station` |
| `HamlibLink.Pumped_KeepsBuffer`, `HamlibLink.Supervised_Lazy` | `LinkIsSound` | `desk_live` |
| `SingleInstance.Listen_NotRemoved`, `SelfUpdate.SizeIsRight_Unchecked` | `OneWholeProgram` | `desk_live` |
| `Readiness.NoServer_StaysRunning` | `WhatWasAskedForEnds` | `desk_live` |

**Fairness.** `LogBackup`: weak fairness of `TimerBackup` only. It is a `QTimer` of
one minute that runs for as long as the program does, also under modal dialogs
(`app/AppController.cpp:293`). A process that is never started again would
not copy anything; a restart is part of `Quit` and `Crash`. `ChatLink`: weak
fairness for what Qt's event loop delivers by itself (the two timers, the queued
call, a closing socket that closes), strong fairness for the network and the
server letting an attempt through: if the client dials again and again one
attempt comes up, and if it logs in again and again one login is accepted.
Without the latter nothing could be said of a server that stays down.

`HamlibLink`: weak fairness of its timers, of a dial ending one way or the other,
of the socket delivering what has arrived, and of a server that is not frozen
answering. `MCDeskLive` states the first two by what they take away: an action
that makes its own guard false, and whose guard only it or a handler that
cancels the timer can make false, is treated fairly exactly if the guard is false
again and again. `SingleInstance`: a process that is not hung goes on
(`ProcStep`, `ReadLines`); a hung one does not, and `WhatWasAskedForEnds`
excepts faults. `OnlineBoard`: minutes pass. `Readiness`: a request to a server
ends (it has a transfer timeout, `core/ClockCheck.cpp:25`), and the window's timer fires.
`SiteData`: a request for the weather ends, in success or failure, for the same reason
(`core/WeatherClient.cpp:79`), and the weather is asked for again by its timer. The download
of a tile has no timeout (`core/terrain/SrtmTileLoader.cpp:228`), so nothing is
assumed of it: `SiteComesToRest` has the condition that no download stalls where it
needs it, and claims the weather without. The failures themselves are bounded, which is what "the network answers in the end"
means there. Nothing is assumed of the operator anywhere.

**Deadlock** is checked in the runs of the log and of the copies. In the runs of
the chat and in the shared ones it is not: their clicks, events and clocks are
bounded, and an instance that has used them up stops; a client whose line
failed after it had been told to hang up really stops (section 5).

## 4. The proofs

TLC's results are for the instances above. The following hold for any number of
contests, callsigns, bands, rooms, QSOs, lines, copies, processes, tiles and
attempts, under the named assumptions the modules make on their constants
(`QsoLogAssumption`, `ChatLinkAssumption`, `LogBackupAssumption` and those of the
modules `MCDeskLog`, `MCDeskLive` and `MCDeskStation` extend), which TLC evaluates in every run
of theirs. A
theorem that needs more says so in its own `ASSUME`.

### QsoLogProofs

1. `TypeCorrect`: `Spec => []TypeOK`. `TypeOK` is inductive as it stands. It
   needs that the next own number is a positive number, i.e. that a non-empty
   finite set of numbers has a largest one (`LargestIsMaximum`, by a least
   counterexample on prefixes, `BoundExists`), and that the undo slot keeps
   naming a row in the bin: nothing but the undo takes a row out of there.
2. `TableStaysCurrent`, `PreviewStaysOwnNumber`: one invariant for both
   (`ShownStep`), one step per handler. It holds for every subset of the faults:
   the handlers show what was written, not what they meant to write.
3. `NumbersAreSharedKnowingly`: where every contest numbers per band, a number
   stands twice in a running log only if an undo announced it. The invariant
   adds that the rules keep numbering per band (`RulesStep`); the case that
   carries it is that a new number is larger than all of its band
   (`NoNewShare`), and that deletion and archiving only take rows away.
4. `JournalKeepsCoveringTheLog`: with `"journal" \notin Faults`. Corrections
   change callsign and time only, and the journal is never rewritten
   (`LinesStay`).
5. `ImportBringsAllBack`: with `"insert" \notin Faults`, `Spec =>
   ImportBringsBackEveryLine`. A line either has its key in the running log
   already, or the loop inserts a row with that key (`ImportMakesRows`); the rescore
   after it changes flags only.
6. `LogbookIsKept`: with `"database" \notin Faults`, `Spec => KeepsTheLogbook`.
   Initial states map to the empty book; each step maps to `Enter`, `Trash`,
   `Recover`, `CloseLog` or a stutter (`BookStep`). Needed on the way: the table
   shows only rows of running logs (`TableIsLiveStep`), or a deletion
   could move a row out of an archive.
7. `OneCountsForGood`: `Spec /\ [][UndoneAtHome]_vars => []OneCountsPerStation`. Two
   orders meet here, that of logging, where the new QSO is a dupe if its key
   is in the log already (`LogQsoCounts`), and that of time, in which a rescore lets
   the first of each key count. Time and id order the rows of a log strictly, so
   each key has a first row (`SomeIsFirstRow`), and a rescore leaves
   it as the only one that counts (`RescoredCounts`). The rest says which log a
   handler touches: the table shows rows of the active contest only
   (`TableOfActive`), so corrections and deletions concern the log that is rescored
   after them. What the theorem assumes is what it needs:

   - `FlagsAreWritten`: no dupe flag fails to be written, no question about a dupe
     fails, and no rules are edited while the log runs (section 5: saving rules
     rescores nothing).
   - `UndoneAtHome`: a deleted QSO is taken back while its own contest is active. The
     run `undo_elsewhere` is the behaviour that violates it, and what follows.

### ChatLinkProofs

One lemma per function of the client, then one step per action. `Clean` (types,
and the client's picture of the line) and `Reasoned` (a stop has a room that
waits) are kept apart, because `startPendingRoomLogin()` lacks the reason for
the length of one call. From the invariant `IInv`: `TypeCorrect`,
`BeliefStaysTrue`, `IntentionKeepsItsReason`. `OnlyTheDelayForgets` assumes that
every delay computed starts its timer (`DelaysStart`) and proves
`[]NeverForgotten`: the overflow at `core/On4kstClient.cpp:287` is the only
way the client is ever left with nothing to come.

### LogBackupProofs

About `Kept` (`pruneDirectory()`) first. In a folder whose names are unique the
list is a strict total order (`ListOrder`), and the place of a copy is the number of
copies listed before it (`PlaceIsNumber`). From that: never more than the cap is
kept (`KeptWithinCap`); the copy just made is (`NewestIsKept`: listed before it
are only others of its minute, fewer than a minute has names and so fewer than
the cap); each bucket keeps one unless the cap takes the oldest (`NoHole`,
`CapIsReached`). The buckets count from a fixed time, so a copy never moves
to another one (`BucketsAscend` is about their order only).

1. `TypeCorrect`, with `ShapeOK` as the invariant: both folders are finite.
2. `DiskStaysEmpty`: the marker is looked for before anything is written
   (`NothingIsMirrored`), and an empty mount point never has one.
3. `HistoryHasNoGap`: `Spec => NoGapInHistory`, an action property; one lemma says
   which steps change the folder at all (`FolderStep`).
4. `UnchangedIsSaved`, `ReplacedIsSaved`: with `~ClockStepsBack`. The invariant adds
   that no copy bears a later minute than the clock's (`NoneFromAhead`), so
   that the copy just made is the newest by name. With the clock set back it need
   not be, and the pruning may take the copy that was made a moment before.

### LiveProofs

`OneProgramIsLeft`: `LiveSpec => []OneWholeProgram`, in two halves.

- *Starts.* Whoever is at work holds the lock, and its holder listens from its
  window on (`LockRules`). This stops being so in one situation only, a start that
  met the holder between its lock and its window and went on after waiting; the
  model remembers it in `gap`, and the property excepts it.
- *Updates.* What a dialog has done so far shows in the package and on the disk
  (`PackageFits`, `DiskFits`); so what is moved into place, or copied over it, is a whole
  program. Which program lies in its place says `PlaceFits`: on Windows there always is
  one, and it is not whole only while the batch file copies, or if it failed or was
  cut off in the middle of that (`stranded`); elsewhere a place is empty only between
  the two renames, or if the way back failed. It assumes `OneDialog`: dialogs share one download path (section 5), and
  what one has checked another may be overwriting.

`TerrainStaysTrue`: `LiveSpec => []TerrainMatchesTiles`, without further
assumptions. Every function of the module's state is described once, by what it
leaves alone and what holds of what it returns; `recomputeAll()`, with which all
of them end, makes the paths right whatever they were before
(`RecomputeAllJudges`), and the tiles it still needs are on their way
(`FetchBrings`). Each action is then a composition of these.

`LinkStaysSound`: with `~TailApart`, `LiveSpec => []LinkIsSound`. Answers carry no
name, so `AnswersBelong` is not inductive: of a line that is up the invariant
says what is under way on it (`Wire`). Either the one query is on its way and the
buffer is empty, or its answer is, a part of it in the buffer already
(`IsReply`: an error, or the lines asked for and perhaps one more). A read moves
lines from one to the other (`MovedOver`); when a whole answer is in the buffer,
what is left can only be the line too many (`OnlyATailIsLeft`), and that comes with
its answer. Without `~TailApart` it may not, and the next answer is misread
(section 5). `LineOK` and `Fits` are the other two parts of the property for
any record, since each function of the client is described once, on records.

`EveryLullTells`: `LiveSpec => [](part = "board" => ALullTellsEveryQso)`, the safety half of
`EveryQsoIsTold`, for any intervals and QSOs without end. A lull is at least as long as the
interval, and the timer, which only a QSO, a dialog or a message sent by hand sets back,
fires within it: `BoardTyped` carries that the minutes until the timer fires and the
minutes of the lull so far add up to no more than the interval while a QSO is untold, and that no QSO is
missing from `m_records`.

`LiveStaysTyped`: `LiveSpec => []LiveTypeOK`, for any number of dialogs, processes,
tiles and faults, without `OneDialog` and without `~TailApart`. Four of the six
types are not inductive alone. A process that runs has a build, or its restart
would start none (`ProcTyped`); the scoreboard's timer runs while it is switched
on (`BoardTyped`); a tile is never both pending and whole or half
(`Apart`, in `SiteTyped`); and the radio's client never reaches the state "error",
to which only a refused turn leads: `Slotted` carries that through each function.

### InstrumentProofs

One inductive invariant per part; a behaviour of `MCDeskStation` is one of a
single part, so the theorems at the end of the module follow part by part.

`DisplaysStayTrue`: `DeskSpec => []DisplaysAreTrue`. A spot's age is not in it: that is
`SpotsAgeOut`, which the code does not keep (section 5).

- *The cluster's line* (`SpInv`). A spot that arrives in two chunks is one spot,
  because a head that waits in the buffer is followed on the wire by its tail, or
  by nothing yet (`LineOfTheCluster`, `PairsOnTheWire`, `HalfALine`); hanging up
  empties both. Of the bandmap the invariant says what is shown is known and struck
  out by the log as it is, unless a redraw is due (`spStale`).
- *The waterfall* (`WfInv`). What a client remembers of its server belongs to the
  line it has now (`Honest`: panel and client agree on link and scale, a scale is
  of the line that is up, and the order is the width the panel last reported), and
  a line that is wanted is up, being dialled, or its timer runs (`Driven`).

`SettingsStayRight`: `DeskSpec => []SettingsHold`.

- *Settings* (`StInv`). The property speaks of the active contest; what is kept
  from step to step is about all of them, since any may become the active one
  (`EvenIsEven`: the QSOs of each contest in the history `stEven` are measured from the
  locator in force). A death while the settings are written one by one may bring
  back the old locator after the log was measured from the new one, and takes the
  contest out of `stEven`. Bands go to rotors that are switched on (`RoutesHold`)
  unless a write broke off.
- *Rules* (`RbInv`). Every file of the operator's own is absent, half of one, or
  names its contest and countable rules (`FilesOK`); the list has what a start
  would load, and no other but for contests whose file broke since (`ListOK`); and
  the active contest can be loaded, or its file broke while it was in use.

`SoundStaysKept`: `DeskSpec => SoundIsKept`, an action property. The header of a file
is written when it is closed unless the disk refuses it, and then the file counts as
cut off, as after a crash; nothing is claimed of the header of such a file, everything
of the other files and of the index. The invariant says that every file but the open one
is closed (`RollOK`, `ClosedFile`), and that no index line points behind
a file's end (`Indexed`). Each step is shown to lead to files that hold all that was
there before (`Holds`).

### WindowProofs

`WindowStaysAsChosen`: `DeskSpec => []WindowIsAsChosen`.

- *Panels* (`PnInv`). `CanvasComesBack` speaks of the wide canvas only and is not
  inductive: on the narrow one a panel stands elsewhere. The invariant says of every
  panel that was put somewhere and not taken away since that it is shown,
  unlocked and on the canvas, that the place wanted for it is the one it was put to,
  and that it stands where the canvas of this moment lets it (`Stands`). Each
  function of the layout is described by whom it touches (`Touches`: one panel,
  pages and profiles left alone; `Shifts`, `Moves`: it may leave or enter the side
  area). Loops over panels and pages are folds in an order that is not given
  (`AllPanels`); what one step preserves, the fold preserves (`FoldExists`,
  `FoldEnds`), and after the loop of clamps every panel that can be clamped was
  (`ClampPanelsStand`).
- *Dials* (`RpInv`, slot by slot `SlotOK`). A dial turns by itself only without a
  link and knows whether it has one (`DialOK`); the map shows the heading, the link and
  the second antenna of each dial there is, and nothing for a slot without one
  (`Shows`).
- *Map* (`MvInv`). While it is up, what is stored is what is shown, and the cones
  have the angles of the antennas that are there (`MvAgree`). Clicks hand out the
  open stations in the beam from a cursor: `InTurn` says which ones a round has
  handed out, counted back from the cursor (`Back`), so a whole round hands out
  each of them once (`RoundGoesOn`).

`StationStaysTyped`: `DeskSpec => []DeskTypeOK`, from the invariants of all eight
parts together (`StationInv`). The pages of the side area are the panels in it, and one
of them is the active one (`Paged`): `takePage()` makes the first page that is
left the active one, and a list with one entry per panel stays one
(`OneIsAdded`, `OneIsRemoved`).

### ResultsProofs

About `Results`, for every log, definition and scoring. The invariant is that rows
are contacts with stations of the contest (`ResInv`); the work is that every reader
adds up the same rows, parted in another way.

- *Adding up.* A sum over a finite set does not depend on the order in which it is
  taken (`SumsAgree`: of two ways to add up, look at a smallest set on which they
  differ); a union of disjoint sets, groups, sets renamed, and the gaps of a list add up
  to what they should (`SumOfUnion`, `SumOfGroups`, `SumRenamed`, `SumOfGaps`). A list in
  an order has each of its rows once (`PlacesAreTaken`, `InTimeOrderLists`).
- *Claims* (`ClaimsAreRight`: `ClaimsMatchLines`). The claimed points are the sum over the
  lines (`EdiFileHas`), and the lines with an N are as many as there are squares
  (`SquaresAreNew`: each square has one line that is the first to count with it, and
  only that one bears it).
- *One result* (`ResultIsOne`: `OneResult`). Every valid row is on one band that is
  listed (`BandsAre`) and in one hour that is shown (`HourRowsAre`), so bands, hours and
  the message of the scoreboard add up to the score of the log; the longest list holds
  the longest distances (`LongestAreLongest`), the best hour is the best
  (`BestHourIsBest`), and time on the air and breaks make up the span of the log
  (`AirTimeIs`).

`DeskLogProofs` takes both into every behaviour of the log's parts: `LogResultIsOne`.

### DeskLogProofs

`LogRowsAreTrue`: `DeskSpec => []RowsAreTrue`, from two invariants.

- *Entry row* (`ErInv`). The pill is DUPE exactly when the row's callsign and band are
  in the log; every handler that touches either asks again. The invariant adds
  the types and that a locator marked as filled in is one. `RowFillsForTheCall` is the
  action property that goes with it: a locator that the program fills in goes into an
  empty field and is one known of the callsign that stands in the row at that moment.
  It says nothing of number and report, nor of a callsign changed afterwards: that the
  locator then goes with it is what the code does not keep (section 5).
- *Log panel* (`LtInv`). "No column tells of another row" is not inductive:
  the cells lie right only because the columns they were laid under are still the
  columns. `IsRight` says that the columns shown are those the view wants less
  those that gave way (`FitsWell`), that they gave way in the order of
  `applyColumnFit` and no more of them than had to (`GaveRightly`), that the
  cells are those of the columns (`IsBuilt`) and lie where the columns start
  (`LinedUp`). Between two of a handler's calls only some of this holds
  (`IsHalfway`), and before the first layout, when the widget still has Qt's initial
  width, only that no column has given way and those that are
  hidden on no view's account are right (`IsNearly`). On the way:
  whatever the pixels, columns shaved to their floors take no more than the view
  has or stand at their floors; the parts of a received exchange fill its cell to the
  pixel for every contest's fields (`FieldsFill`); Tab finds the next cell that is
  there (`OnwardIs`).

`NeededCounts`: `DeskSpec => NeededCountsWhenWorked`. A square called needed raises the
count of multipliers when a QSO with it is logged. The only invariant is that a row is
that of one of the stations (`ResInv`); the work is that two passes over
the log, one for the panel and one for the score, agree on what was worked.

`ChatPanelsFollow`: `DeskSpec => []ChatPanelsAreCurrent`.

- *Feeds* (`FdInv`). Each line is marked by the log of the contest (`LinesAre`),
  each list shows of its lines what the settings ask for (`ShownIs`), and the map
  marks the callsigns worked (`MapIs`). A change of the log goes through
  every line and then through every list (`AfterLogChangeIs`).
- *Skeds* (`SkInv`). The list is the table's skeds of this contest in the order
  of their times (`ListFor`), each behind its row only by what could not be
  written (`AllNotBehind`); once the timer has been through it, each is judged by
  the clock and the log (`AllSettled`).

`LogCheckHolds`: `DeskSpec => []LogCheckIsRight`. Steps matter little here (`ChkInv`
says that the log holds rows); the proof is about `checkLog` itself.

- The first pass goes backwards: what it finds at a row is between 1 and the rows left,
  one more than the longest that can follow, or 1 (`RunLengthsAre`), so no ascending set
  of rows that starts there is longer (`NoRunIsLonger`).
- The second goes forwards and takes a row whose number is exactly what is still
  needed. `OnTheWay` is its invariant: what was taken ascends, and with what is needed
  makes a longest run; and if something is needed, a row further on has a run of just
  that length and a number above the last one taken. Hence the pass never
  stops short (`PassEnds`), and the rows kept are as many as can be (`InRunIsLongest`).
- Instead of induction, which the prover cannot do: the first row (or the last) at which
  a claim fails is looked at, and there is none.

`CalendarIsRight`: `DeskSpec => []CalendarKnowsTheContest`, for every schedule of
`OrdinaryContests` and any of the years 2000 to 2099. That is an assumption of
`ContestCalendar`, which TLC evaluates on the rules of the instance; the 21 schedules
the program ships satisfy it in all those years. What it adds to what
`ContestSchedule::fromJson` checks is so of contests: a date set for one year lies
around the rule's month, no contest runs into the next year, the dry run is at
most a quarter ahead. Section 5 says what happens otherwise.

- The nth full weekend is defined by counting the days of a month, the program's by
  arithmetic from the first or the last day. Full weekends lie whole weeks apart
  (`WholeWeeks`), so counting them gives the place of one in the row
  (`SaturdaysBetween`), and that is the one worked out (`NthIsCounted`); with the
  weekday, the forbidden date and the exceptions `windowIn()` gives what is stated
  (`StatedIsWindowIn`).
- Whatever the year, a window lies around the first of its month (`WindowNear`), and
  months of different years are 364 days apart (`MonthAgain`). Hence a running
  contest is the upcoming one (`RunningIsUpcoming`) and from its dry run on the nearest
  one (`ContestIsNearest`), also where it, or the dry run, begins in December for a
  contest of January (`ContestsYear`).

`DeskLogTyped`: `DeskSpec => []DeskTypeOK`, from the invariants of all seven parts.
Most is in those above. Two are new: of the calendar (`CalInv`) that the clock goes from
one edge of a window to a later one, which needs that every window of a rule
starts and ends at a number of minutes, whatever its weekday and exceptions; of the
feeds (`FeedTyped`) that what is shown are lines of the feed even while
these are replaced, so that the suggestion is a station that was heard, or none: among the
callable lines there is one that goes before all others (`OneIsAhead`).

### What the proofs changed in the models

- `LogTable`: its assumption says what the table needs of a contest's fields (one to three
  different ones, the report first), which is so in all shipped definitions;
  the total of the widths is a sum of named parts, and the loops that shave columns
  and sum cells are recursive functions instead of recursive operators.
- `Results`: sums are sums over sets (`SumFunctionOnSet`), and a list in an order is stated
  by ranks: the nth row is the one with n - 1 rows before it (`InOrder`).
- `EntryRow`, `Skeds`: loops that sort or collect are stated by what they yield:
  the places at which a callsign was worked, rows in the order of what
  they are read by (`ReadSkeds`).
- `LogCheck`: a row's number is its place in time, so the sequence in the code is a set of
  rows here, and the two passes are recursive functions over rows. What can be
  reported is a list of codes (`Codes`), where the type invariant had any string.
- `ContestCalendar`: the days before a month are a table (`DaysBefore`) where there was
  a fold over the months; the days are the same from 1999 to 2101. The assumption names
  the weekdays and the ranges that the rules are read with (`ContestSchedule::fromJson`).
  For arbitrary rules `RunningContestIsKnown` is false; `OrdinaryContests` says for which it
  holds.
- `ChatFeed`: its assumption says that there is a site to work from.
- `Settings`: the history of a death while the settings are written counted a
  contest as even in states in which it need not be. No behaviour of the instance
  got there, but the invariant was not inductive.
- Three modules assumed less of their constants than they use: `RuleBook`
  that each shipped definition is countable and there is a first one,
  `AudioRoll` that its clock has a first minute, `RotorPanel` that there is a label.
- `MapView` sorted the stations with a library operator whose definition the
  prover cannot express. The list is stated by what it is, the farthest first
  (`FarthestFirst`), and `MapAssumption` says what makes it one: stations are
  finitely many and no two are equally far.
- `PanelLayout` gave each loop body as an expression inside a fold; each is an
  operator of its own now (`ApplyRows`, `DesignPanel`, `Dock`), so that a lemma
  can speak of it. The page restored as the active one has to be there
  (`MainWindow::restoreSideAreaState`), as in the code. Its type invariant says that no
  profile is listed twice.

### Only model-checked

Every invariant and every action property of a passing run is stated by a theorem, some
under an assumption named above. What is left to TLC:

- `LeavingACellKeepsTheRow`, which the code breaks (`zone_lost`).
- Liveness under fairness, which the prover cannot do: `LogGetsSaved`, `ComesBack`,
  `LinkComesBack`, `WhatWasAskedForEnds`, `EveryQsoIsTold`, `SiteComesToRest`.

## 5. Where code and words differ

Three runs show a difference, as a counterexample TLC finds:

- `undo_elsewhere` (`ui/MainWindow.cpp:4704`, 4757-4778): Ctrl+Z takes a QSO back
  into the contest it was deleted from, and then rescores the active one. Delete
  the first QSO with a station, log it again, switch the contest, undo: both
  count, against `data/DupeRescore.h:22`.
- `chat_backoff` (`core/On4kstClient.cpp:287`, and the same line at
  `core/DxClusterClient.cpp:146`): `start * (1 << shiftBits)` is an `int`, capped
  after the shift. After 19 failed attempts 5000 ms becomes negative and the timer
  does not start. A dial that was refused is rescued once more by the connect
  timeout still running; one that timed out is not. With 60000 ms (rejected
  login) it is 16.
- `zone_lost` (`ui/MainWindow.cpp:4616`): the cell of the received exchange shows
  number and locator, and what is not one of the two when there is neither. In a
  contest with a zone, opening that cell and leaving it untouched writes the
  exchange anew without the zone, against the comment that positional parsing
  "lost data in the operator's own log".

The following differences have a property in a module, which TLC finds violated on
instances as small as those of the runs, and no run of their own:

| Property (module) | The code | Against |
|---|---|---|
| `RestoreGoesBackToTheChosenCopy` (`LogBackup`) | the forced copy before a restore thins the folder and may remove the copy picked (`ui/MainWindow.cpp:5932`, `data/LogBackup.cpp:193`); nothing is lost, the restore fails with "Sicherung nicht gefunden" | the dialog's offer |
| `PickedRoomStays` (`ChatLink`) | every login compares the room with the band's only (`ui/MainWindow.cpp:1528`, 3777-3783) | comment at 3420-3421 |
| `HungUpStaysDown` (`HamlibLink`) | `disconnectFromRotor()` stops the retry timer first; `abort()` comes back through `disconnected()`, which starts it again (`core/RotctldClient.cpp:157`, 85-93) | comment at 150; "A disabled slot is never dialed" (`app/AppController.cpp:520`) |
| `PostsEveryInterval` (`OnlineBoard`) | every logged QSO restarts the timer (`core/OnlineScoreboard.cpp:44`): without a lull as long as the interval no message is sent at all | "every few minutes one HTTP POST" (`core/OnlineScoreboard.h:18`) |
| `ClockAskedEveryMinute` (`Readiness`) | with the PC's clock set back the age is negative (`ui/MainWindow.cpp:6567-6569`) | comment at 6564 |
| `EditDisarmsEnter` (`EntryRow`) | `formChanged` is emitted by the callsign field only (`ui/UnifiedLogWidget.cpp:1094`) | "cleared by any edit" (`ui/MainWindow.cpp:4040`) |
| `FilledLocatorIsOfTheCall` (`EntryRow`) | a locator filled in stays when the callsign is typed on (`ui/UnifiedLogWidget.cpp:1094`, 2274-2302) | `ui/MainWindow.cpp:4376` |
| `ActivePageIsShown` (`PanelLayout`) | the active page may be a hidden panel after a restart or a switch of profile | `ui/MainWindow.cpp:1114` |
| `TargetIsTheSlotsOwn` (`RotorPanel`) | the map's disc keeps the number a dial had when it was made (`ui/MainWindow.cpp:2877`) | comment at 2865 |
| `FixedConeFollows` (`MapView`) | `setFixedAntennaBeamwidthDeg()` tells nobody (`ui/MapWidget.cpp:635-643`) | `ui/MainWindow.cpp:2698-2700` |
| `SuggestionIsOpen` (`ChatFeed`) | the suggestion is worked out before the entry row is cleared, and returns early (`ui/MainWindow.cpp:4190`, 3317) | `ui/MainWindow.h:305-308` |
| `EverySkedIsAnnounced` (`Skeds`) | only the next open sked is looked at (`ui/MainWindow.cpp:6104`) | "One alarm per sked" at 6102 |
| `TableShowsActiveContest` (`RuleBook`) | after the editor dropped the active contest the table stays (`ui/MainWindow.cpp:5042-5046`) | 5090-5093 |
| `FreshStartIsAContest` (`RuleBook`) | saving rules never writes `everyday_log` (`data/ContestDefinition.cpp:355-413`) | `data/ContestDefinition.h:106-114` |
| `ButtonDoesWhatItSays` (`AudioRoll`) | the text follows the recorder, the click toggles the setting (`ui/MainWindow.cpp:1314`) | 1297-1301 |
| `SpotsAgeOut` (`SpotLink`) | a spot of the last hour of a day gets the next day's date (`core/DxClusterClient.cpp:304-312`) | `core/BandmapModel.h:15-17` |
| `NoWaterfallWhenOff`, `OnePalette` (`Waterfall`) | the panel comes back by the layout (`ui/MainWindow.cpp:2019-2032`); rescaling keeps the old palette (`ui/WaterfallWidget.cpp:94-102`) | `ui/MainWindow.cpp:4963-4965`; `ui/WaterfallWidget.cpp:33-42` |
| `RimFollowsTheTiles` (`SiteData`) | a skyline is kept per position though it was worked out before its tiles came (`ui/MainWindow.cpp:2769`) | `ui/MainWindow.cpp:1603-1605` |

Noted while modelling. **Log and copies.**

- Saving other rules rescores nothing (`ui/MainWindow.cpp:5012-5047`, 2414-2493):
  flags stay those of the old scope until the next correction. The run `dupes`
  therefore keeps one set of rules.
- The warning at an undo compares the band although the rules may number the
  whole contest in one sequence (`ui/MainWindow.cpp:4727-4737`).
  `NumbersAreSharedKnowingly` therefore assumes numbering per band.
- An undo after "Neues Log beginnen" puts the QSO into the new log: archiving leaves
  the undo slot (`ui/MainWindow.cpp:5572`).
- An import adds every QSO "das noch nicht im Log steht"
  (`ui/MainWindow.cpp:5789-5790`), known by callsign, band and minute
  (5824-5840): a QSO whose callsign or minute was corrected does not answer to its
  journal line any more, and the line is put beside it as it was first entered.
- A restore removes the live database before it copies
  (`data/BackupRestore.cpp:49`), so the program starts with an empty log if the copying
  fails, yet a failure is reported as "nichts geändert"
  (`ui/MainWindow.cpp:5928`). The state is in the forced copy
  (`ReplacedStateIsSaved`).
- With the PC's clock set back the newest copy is not the one listed first, and
  what a restore replaces may be thinned away (`data/LogBackup.cpp:195-204`).
  The run `thinning` therefore lets the clock go forward only.
- `setSettings()` measures the log before it writes the settings; the single writes
  have no transaction and their failures are ignored; a locator changed while
  last weekend's contest is still active measures that log anew
  (`app/AppController.cpp:360-362`). The settings dialog opened and confirmed is
  not always a stutter: an unplugged sound device or a disabled rotor falls to
  the first choice.

**Lines.**

- A room changed while the line is being dialled, and the attempt failing, leaves
  the flag of an intended end set: the client does not dial again until the
  operator does something (`core/On4kstClient.cpp:168`, 277). This is the state
  `ComesBack` excepts.
- A login rejected again and again is retried every minute and never more slowly
  (`core/On4kstClient.cpp:222` resets the counter; the comment at 283-284
  says up to ten).
- Saving the settings while the chat is down dials the default room
  (`app/AppController.cpp:551-553`); the band puts it right at the login.
- `reconnectNow()` during a change of room goes back to the old room
  (`core/On4kstClient.cpp:129`).
- Every drop of a rig's line asks for the daemon, not only a refused dial
  (`app/AppController.h:193-198`). A refused turn puts the rotor into Error, and only
  a new connection ends it (`core/RotctldClient.cpp:309`). An answer whose surplus
  line arrives in a packet of its own would be read as the next one's
  (`TailApart`). A new address saved while connected leaves the old line up.
- A changed or cleared cluster host does not reach a line that is up or being
  dialled; a correction of the log reaches the bandmap with its timer, 15 s later.
- Empty hosts or spaces make every saved setting drop the spectrum's line
  (`setEndpunkt()` differs).
- A failed tile is asked for again at once, without a delay; after a move a
  path keeps its old class until the tiles are there.

**Displays and files.**

- The statistics' longest list shows a kilometre more than the EDI file's ODX; the
  tracker counts dupes' squares, EDI does not.
- Corrections and deletions do not refresh the scoreboard's records; a failed POST
  waits for the next interval.
- A fifth weekend of a month without one spills into the next month, though full
  weekends are promised (`data/ContestSchedule.h:40-42`); "Beendet" stays until the
  settings are applied again.
- `windowUpcoming()` looks at this year and the next (`data/ContestSchedule.cpp:187`): a
  contest that runs over New Year would from midnight on not be "still running"
  (`data/ContestSchedule.h:93`). A date set for a year in which the month has no such
  weekend counted from the end is not looked at, since the function has returned before
  (`data/ContestSchedule.cpp:117`), though it "schlägt alles darüber" (134). No shipped
  schedule is of either kind.
- A mode set by the radio or by a click on a spot does not ask again whether the
  callsign is a dupe.
- Any earlier QSO with the station closes a sked; a proposal accepted more than
  ten minutes late is missed at once; done skeds never reopen.
- A hidden panel that was clamped on a small canvas keeps that place; a
  locked panel is clamped at the next resize only; the snapshot of a profile may
  store clamped places (`saveLayout()`).
- "Offen in Richtung" turns the rotor with its first click, which changes what is
  open in the direction; after a QSO with the station just handed, the next is
  not the farthest.
- A recording whose start failed begins at any later saved setting; the free space
  is looked at at the start and at a roll only; without a roll a file can pass
  2^32 bytes.
- A listening process that hangs still accepts a start, and that start is lost. Two
  update dialogs share one download path (`ui/MainWindow.cpp:1281`, 2100). When
  renaming in and renaming back both fail, the next attempt's "remove old"
  deletes the only copy; `ProgramStays` excepts that (`stranded`).
- On Windows "ist eingesetzt" is shown when the batch file is written
  (`ui/UpdateDialog.cpp:183`), before anything is replaced. The batch file looks at nothing
  robocopy or the setup reports: it removes the unpacked folder and the package and
  starts what is there (`app/SelfUpdater.cpp:542-547`). If a file stays locked for ten
  tries, or the power goes meanwhile, the program is part old, part new, and
  nothing is left to repair it with. `OnlyWholePrograms` says that this is the only
  way to get there. `restart()` quits even if the script could not be started
  (`app/SelfUpdater.cpp:603`, 616).
- `patchWavHeader()` takes no notice of a failed seek, write or flush
  (`core/QsoAudioRecorder.cpp:215-233`), and it is called just after a failed write (259-267):
  on a full or pulled disk a closed file can keep sizes of zero, though "die
  Groessenfelder jeder abgeschlossenen Datei schon stimmen" (`core/QsoAudioRecorder.h:51`).
  `FinishedIsPlayable` excepts that file (`cut`).
- A tile's download that stalls has no timeout (`core/terrain/SrtmTileLoader.cpp:228`): the tile
  stays pending, is not asked for again, and its paths stay unjudged until a restart.

## 6. What is not modelled

- Painting, wording, and the layout of the windows apart from where panels stand
  and how wide the log's columns are.
- Numerical geometry and the contents of fetched data: projections, great circles,
  elevations along a path, sun, propagation, weather values. `SiteData` models
  whose they are and when they arrive.
- Contents of ADIF, EDI and Cabrillo and of chat and cluster lines: a line is a
  record of the fields something depends on; how it is written and read is
  left out, but for a corrected cell (`LogTable`), where a loss was found.
- The SQLite engine: a statement succeeds or fails as a whole.
- The order in which overlapping panels are stacked, the rest of the map's mouse
  handling, Morse macros beyond what Enter sends, and the UDP broadcast, which is
  sent and forgotten.
- The bands of a definition changed by the rules editor while a log runs.
- `core/HamlibInstaller`, tools, translations, packaging.
- Components with the status "partly" in `PROJECT.json` name what is missing.

## 7. Plan

What is left, in the order of its worth:

1. Composition: `QsoLog` with `EntryRow` (the row's pill and locator from the log's
   actions instead of an own small log) and with `Settings` (the own locator
   changed during a handler's dialog).
2. `HamlibLink` with `RotorPanel`, in place of a client that is up or down.
3. An abstract "line that comes back" which `ChatLink`, `SpotLink`, `HamlibLink` and
   `Waterfall` implement.
4. Bounds: two settings edits in one dialog, a third rotor operation between two
   maps' clicks, two update dialogs.
