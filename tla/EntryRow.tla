------------------------------ MODULE EntryRow ------------------------------
(***************************************************************************)
(* The entry row while a QSO is typed: ui/UnifiedLogWidget with the        *)
(* handlers of the main window, the locator that is filled in from the     *)
(* log, from earlier contests, from the imported list or from a callbook   *)
(* on the net (core/CallsignLocatorLookup), and Enter, which sends a Morse *)
(* text, asks for what is missing, or logs (core/EsmPlanner).              *)
(***************************************************************************)
EXTENDS Integers, Sequences, FiniteSets, SequencesExt

CONSTANTS
    ErCalls,     \* callsigns
    ErEarlier,   \* [ErCalls -> Locators]: from earlier contests of the database
    ErCallbook,  \* [ErCalls -> Locators]: what the callbook knows
    ErBands,     \* bands of the contest
    ErEsm,       \* settings of Enter: "off", "run" or "sp"
    ErMaxQsos,   \* bound: QSOs logged
    ErMaxAsked,  \* bound: questions on the net at a time
    ErMaxLogins  \* bound: changes of the callbook account

\* A locator is known by the station whose square it is, and by its length.
NoLocator == [of |-> "", six |-> FALSE]
Locators == [of : ErCalls, six : BOOLEAN] \cup {NoLocator}
SixOf(call) == [of |-> call, six |-> TRUE]

EntryAssumption ==
    /\ "" \notin ErCalls /\ "14045" \notin ErCalls
    /\ ErEarlier \in [ErCalls -> Locators] /\ ErCallbook \in [ErCalls -> Locators]
    /\ ErMaxQsos \in Nat /\ ErMaxAsked \in Nat /\ ErMaxLogins \in Nat
ASSUME EntryAssumption

VARIABLES
    erCall,      \* the callsign field; "14045" stands for a frequency typed there
    erGrid,      \* the locator field
    erGridAuto,  \* it shows what the program filled in
    erNumber,    \* the received number is typed in
    erRst,       \* the received report
    erRstAuto,   \* it is the default
    erBand,      \* m_currentBand
    erMode,      \* m_currentMode
    erPill,      \* the row says DUPE
    erTimer,     \* the debounce timer of the lookup runs
    erArmed,     \* m_incompleteExchangeEnterArmed
    erLog,       \* the log of the contest, in its order
    erTable,     \* imported_locators
    erAsked,     \* questions under way: [call, step, retry, account]
    erKey,       \* m_sessionKey, by the account it belongs to; 0 is none
    erAccount,   \* m_settingsGeneration
    erSettings   \* [esm: "off", "run" or "sp", callbook: a provider is set up]

fields == <<erCall, erGrid, erGridAuto, erNumber, erRst, erRstAuto>>
marks == <<erPill, erTimer, erArmed>>
net == <<erTable, erAsked, erKey, erAccount>>
erVars == <<fields, erBand, erMode, marks, erLog, net, erSettings>>

-----------------------------------------------------------------------------
(* What the program knows about a callsign *)

Worked(call) == {i \in DOMAIN erLog : erLog[i].call = call}

\* knownExchangeForCallsign(): the last QSO with it, with a locator or without.
IsKnown(call) == Worked(call) # {}
KnownExchange(call) == erLog[Max(Worked(call))].grid

\* The order of the sources, for the check and for Enter.
KnownGrid(call) ==
    IF IsKnown(call) /\ KnownExchange(call) # NoLocator THEN KnownExchange(call)
    ELSE IF ErEarlier[call] # NoLocator THEN ErEarlier[call] ELSE erTable[call]

\* recheckDupeIndicator(), for a contest that counts a station once per band.
DupeIn(log, call, band) == \E i \in DOMAIN log : log[i].call = call /\ log[i].band = band

DefaultRst(mode) == IF mode = "CW" THEN "599" ELSE "59"
ExchangeComplete(grid, number) == grid # NoLocator /\ number

\* Mutant of RstFor: the report the program filled in stays as it is.
RstFor_Stays(mode) == UNCHANGED <<erRst, erRstAuto>>

\* setCurrentMode(): an empty report, or one the program filled in.
RstFor(mode) ==
    IF erRst = "" \/ erRstAuto THEN erRst' = DefaultRst(mode) /\ erRstAuto' = TRUE
    ELSE UNCHANGED <<erRst, erRstAuto>>

\* applyKnownExchange(): only a full locator, and only into an empty field.
Fills(grid) == grid # NoLocator /\ grid.six /\ erGrid = NoLocator
FillIn(grid) ==
    IF Fills(grid)
    THEN erGrid' = grid /\ erGridAuto' = TRUE
    ELSE UNCHANGED <<erGrid, erGridAuto>>

-----------------------------------------------------------------------------
(* Typing.  Another callsign disarms Enter, checks for a dupe and starts the   *)
(* lookup's timer anew; what stands in the other fields stays.                 *)

CallBecomes(call) ==
    /\ erCall' = call
    /\ IF call # erCall
       THEN /\ erArmed' = FALSE /\ erTimer' = TRUE
            /\ erPill' = DupeIn(erLog, call, erBand)
       ELSE UNCHANGED <<erArmed, erTimer, erPill>>

TypeCall(call) ==
    /\ call # erCall /\ CallBecomes(call)
    /\ UNCHANGED <<erGrid, erGridAuto, erNumber, erRst, erRstAuto, erBand, erMode, erLog, net, erSettings>>

\* The locator the station sends, or the field cleared.
TypeGrid(grid) ==
    /\ grid # erGrid /\ erGrid' = grid /\ erGridAuto' = FALSE
    /\ UNCHANGED <<erCall, erNumber, erRst, erRstAuto, erBand, erMode, erPill, erTimer, erArmed, erLog, net, erSettings>>

TypeNumber ==
    /\ erNumber' = ~erNumber
    /\ UNCHANGED <<erCall, erGrid, erGridAuto, erRst, erRstAuto, erBand, erMode, erPill, erTimer, erArmed, erLog, net, erSettings>>

TypeRst(rst) ==
    /\ rst # erRst /\ erRst' = rst /\ erRstAuto' = FALSE
    /\ UNCHANGED <<erCall, erGrid, erGridAuto, erNumber, erBand, erMode, erPill, erTimer, erArmed, erLog, net, erSettings>>

\* A click on a station of the chat, the map or the bandmap.  A guessed place,
\* or none, only clears the distance and the warning.
Candidate(call, grid, guessed) ==
    /\ CallBecomes(call) /\ erPill' = DupeIn(erLog, call, erBand)
    /\ erGrid' = IF grid # NoLocator /\ ~guessed THEN grid ELSE erGrid
    /\ UNCHANGED <<erGridAuto, erNumber, erRst, erRstAuto, erBand, erMode, erLog, net, erSettings>>

-----------------------------------------------------------------------------
(* Band and mode, by hand and by the radio *)

\* In Run the radio does not change a QSO that is being typed.
RunHolds == erSettings.esm = "run" /\ erCall # ""

\* Mutant of BandBecomes: the pill is left as it was.
BandBecomes_Unchecked(band) ==
    /\ erBand' = band
    /\ UNCHANGED <<fields, erMode, erPill, erTimer, erArmed, erLog, net, erSettings>>

BandBecomes(band) ==
    /\ erBand' = band /\ erPill' = DupeIn(erLog, erCall, band)
    /\ UNCHANGED <<erCall, erGrid, erGridAuto, erNumber, erRst, erRstAuto, erMode, erTimer, erArmed, erLog, net, erSettings>>

ApplyRigFrequency(band) == ~RunHolds /\ band # erBand /\ BandBecomes(band)
ChooseBand(band) == band # erBand /\ BandBecomes(band)

ModeBecomes(mode) ==
    /\ mode # erMode /\ erMode' = mode /\ RstFor(mode)
    /\ UNCHANGED <<erCall, erGrid, erGridAuto, erNumber, erBand, erTimer, erArmed, erLog, net, erSettings>>

\* The radio's mode is taken over without a look at the dupes.
RigModeChanged(mode) == ~RunHolds /\ ModeBecomes(mode) /\ UNCHANGED erPill
ChooseMode(mode) == ModeBecomes(mode) /\ erPill' = DupeIn(erLog, erCall, erBand)

-----------------------------------------------------------------------------
(* The lookup *)

Question(call, step, retry) == [call |-> call, step |-> step, retry |-> retry, account |-> erAccount]

\* handleCallsignLookupRequested(): the first source that has the callsign, a
\* QSO of this contest without a locator included; the net when none has.
LookupTimer ==
    /\ erTimer /\ erTimer' = FALSE
    /\ IF erCall \notin ErCalls THEN UNCHANGED <<erGrid, erGridAuto, erAsked>>
       ELSE IF IsKnown(erCall) \/ ErEarlier[erCall] # NoLocator \/ erTable[erCall] # NoLocator
       THEN /\ FillIn(IF IsKnown(erCall) THEN KnownExchange(erCall) ELSE KnownGrid(erCall))
            /\ UNCHANGED erAsked
       ELSE /\ erSettings.callbook => Cardinality(erAsked) < ErMaxAsked
            /\ erAsked' = IF erSettings.callbook
                          THEN erAsked \cup {Question(erCall, IF erKey = 0 THEN "login" ELSE "lookup", FALSE)}
                          ELSE erAsked
            /\ UNCHANGED <<erGrid, erGridAuto>>
    /\ UNCHANGED <<erCall, erNumber, erRst, erRstAuto, erBand, erMode, erPill, erArmed, erLog, erTable,
                   erKey, erAccount, erSettings>>

\* handleExternalCallsignLookupFinished(): the callsign may have changed since.
ExternalFinished_AnyCall(call, grid) == FillIn(grid)
ExternalFinished(call, grid) ==
    IF erCall = call THEN FillIn(grid) ELSE UNCHANGED <<erGrid, erGridAuto>>

NothingFound(q) ==
    /\ erAsked' = erAsked \ {q} /\ UNCHANGED <<erGrid, erGridAuto, erTable, erKey>>

\* An answer to an account that is no longer set up is thrown away; a network
\* error, the timeout and a refused login find nothing.
Answered(q, ok) ==
    IF q.account # erAccount \/ ~ok THEN NothingFound(q)
    ELSE IF q.step = "login"
    THEN /\ erKey' = erAccount /\ erAsked' = (erAsked \ {q}) \cup {Question(q.call, "lookup", q.retry)}
         /\ UNCHANGED <<erGrid, erGridAuto, erTable>>
    ELSE IF ErCallbook[q.call] = NoLocator THEN NothingFound(q)
    ELSE /\ erTable' = [erTable EXCEPT ![q.call] = ErCallbook[q.call]]
         /\ ExternalFinished(q.call, ErCallbook[q.call])
         /\ erAsked' = erAsked \ {q} /\ UNCHANGED erKey

\* A session that has run out is opened once more for the same question.
SessionInvalid(q) ==
    /\ q.step = "lookup"
    /\ IF q.account # erAccount \/ q.retry THEN NothingFound(q)
       ELSE /\ erKey' = 0 /\ erAsked' = (erAsked \ {q}) \cup {Question(q.call, "login", TRUE)}
            /\ UNCHANGED <<erGrid, erGridAuto, erTable>>

ReplyArrives ==
    /\ \E q \in erAsked : SessionInvalid(q) \/ \E ok \in BOOLEAN : Answered(q, ok)
    /\ UNCHANGED <<erCall, erNumber, erRst, erRstAuto, erBand, erMode, erPill, erTimer, erArmed, erLog,
                   erAccount, erSettings>>

\* setProviderSettings() with another name, password or provider.
AccountChanges ==
    /\ erAccount < ErMaxLogins /\ erAccount' = erAccount + 1 /\ erKey' = 0
    /\ \E on \in BOOLEAN : erSettings' = [erSettings EXCEPT !.callbook = on]
    /\ UNCHANGED <<fields, erBand, erMode, marks, erLog, erTable, erAsked>>

-----------------------------------------------------------------------------
(* Enter *)

\* planEnter(): with ESM Enter keys a text that fits, left out here, and logs only
\* a complete QSO.
EsmApplies == erSettings.esm # "off" /\ erMode = "CW"
PlanEnter == [log |-> erCall # "" /\ ExchangeComplete(erGrid, erNumber)]
MayLog == erCall \in ErCalls /\ (EsmApplies => PlanEnter.log)

\* A number in the callsign field is a frequency: the radio goes there.
TuneTyped(band, mode) ==
    /\ erCall = "14045" /\ CallBecomes("") /\ erBand' = band /\ erMode' = mode /\ RstFor(mode)
    /\ UNCHANGED <<erGrid, erGridAuto, erNumber, erLog, net, erSettings>>

\* Something is missing: a known locator is filled in, and the next Enter logs.
EnterAsks ==
    /\ MayLog /\ ~ExchangeComplete(erGrid, erNumber) /\ ~erArmed
    /\ erArmed' = TRUE
    /\ FillIn(KnownGrid(erCall))
    /\ UNCHANGED <<erCall, erNumber, erRst, erRstAuto, erBand, erMode, erPill, erTimer, erLog, net, erSettings>>

\* resetForNextEntry()
Reset ==
    /\ CallBecomes("") /\ erGrid' = NoLocator /\ erGridAuto' = FALSE /\ erNumber' = FALSE
    /\ erRst' = DefaultRst(erMode) /\ erRstAuto' = TRUE

EnterLogs ==
    /\ MayLog /\ (ExchangeComplete(erGrid, erNumber) \/ erArmed)
    /\ Len(erLog) < ErMaxQsos
    /\ erLog' = Append(erLog, [call |-> erCall, band |-> erBand, grid |-> erGrid])
    /\ Reset /\ UNCHANGED <<erBand, erMode, net, erSettings>>

\* The database refuses the row: the entry stays.
EnterFails ==
    /\ MayLog /\ (ExchangeComplete(erGrid, erNumber) \/ erArmed)
    /\ erArmed' = FALSE
    /\ UNCHANGED <<fields, erBand, erMode, erPill, erTimer, erLog, net, erSettings>>

\* A QSO deleted in the table, see refreshAfterLogChange().
ErDeleted ==
    /\ \E i \in DOMAIN erLog : erLog' = RemoveAt(erLog, i)
    /\ erPill' = DupeIn(erLog', erCall, erBand)
    /\ UNCHANGED <<fields, erBand, erMode, erTimer, erArmed, net, erSettings>>

-----------------------------------------------------------------------------
ErInit ==
    /\ erCall = "" /\ erGrid = NoLocator /\ erGridAuto = FALSE /\ erNumber = FALSE
    /\ erMode = "SSB" /\ erRst = "59" /\ erRstAuto = TRUE /\ erBand \in ErBands
    /\ erPill = FALSE /\ erTimer = FALSE /\ erArmed = FALSE
    /\ erLog = <<>> /\ erTable = [c \in ErCalls |-> NoLocator] /\ erAsked = {}
    /\ erKey = 0 /\ erAccount = 1
    /\ erSettings \in [esm : ErEsm, callbook : BOOLEAN]

ErNext ==
    \/ \E c \in ErCalls \cup {"", "14045"} : TypeCall(c)
    \/ erCall \in ErCalls /\ \E g \in {NoLocator, SixOf(erCall)} : TypeGrid(g)
    \/ TypeNumber \/ TypeRst("41")
    \/ \E c \in ErCalls, guessed \in BOOLEAN : \E g \in {NoLocator, SixOf(c)} : Candidate(c, g, guessed)
    \/ \E b \in ErBands : ApplyRigFrequency(b) \/ ChooseBand(b) \/ \E m \in {"SSB", "CW"} : TuneTyped(b, m)
    \/ \E m \in {"SSB", "CW"} : RigModeChanged(m) \/ ChooseMode(m)
    \/ LookupTimer \/ ReplyArrives \/ AccountChanges
    \/ EnterAsks \/ EnterLogs \/ EnterFails \/ ErDeleted

ErSpec == ErInit /\ [][ErNext]_erVars

-----------------------------------------------------------------------------
(* Properties *)

\* Type invariant; a session key is of the account that is set up, and the
\* report is the default of the mode as long as nobody typed one.
ErTypeOK ==
    /\ erCall \in ErCalls \cup {"", "14045"} /\ erGrid \in Locators /\ erTable \in [ErCalls -> Locators]
    /\ {erGridAuto, erNumber, erRstAuto, erPill, erTimer, erArmed} \subseteq BOOLEAN
    /\ erBand \in ErBands /\ erMode \in {"SSB", "CW"} /\ Len(erLog) <= ErMaxQsos
    /\ Cardinality(erAsked) <= ErMaxAsked /\ erKey \in {0, erAccount}
    /\ erRstAuto => erRst = DefaultRst(erMode)

\* The row says DUPE exactly when the QSO, logged now, would be one, whichever
\* of typing, a click, the radio, a correction or a logged QSO came last.
DupePillIsTrue == erPill <=> DupeIn(erLog, erCall, erBand)

\* The program fills in a locator only from what it knows of the callsign that
\* stands there at that moment, however late the callbook answers, and never
\* over what was typed.
KnownOf(call) == {erLog[i].grid : i \in {j \in DOMAIN erLog : erLog[j].call = call}}
                 \cup {ErEarlier[call], ErCallbook[call], erTable[call]}
FilledForTheCall ==
    (erGridAuto' /\ ~erGridAuto) \/ (erGridAuto' /\ erGrid' # erGrid /\ erGrid = NoLocator)
        => erGrid = NoLocator /\ erCall' \in ErCalls /\ erGrid' \in KnownOf(erCall')
FillsForTheCall == [][FilledForTheCall]_erVars

\* "applying a grid for a callsign no longer in the field would be actively
\* wrong" (ui/MainWindow.cpp:4376): a locator the program filled in is of the
\* callsign that is logged with it.
FilledLocatorIsOfTheCall == erGridAuto /\ erGrid # NoLocator /\ erCall \in ErCalls => erGrid.of = erCall

\* "m_incompleteExchangeEnterArmed is cleared by any edit to the entry row"
\* (ui/MainWindow.cpp:4040): after an Enter that asked for what is missing, the
\* QSO is not logged without it once something else was typed.
EditDisarmsEnter ==
    [][erNumber' # erNumber \/ (erRst' # erRst /\ ~erRstAuto') => ~erArmed']_erVars
=============================================================================
