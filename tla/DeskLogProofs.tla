----------------------------- MODULE DeskLogProofs -----------------------------
(***************************************************************************)
(* Proofs about what stands around the log (MCDeskLog): the entry row      *)
(* (EntryRow), the log panel (LogTable), what is needed and what it scores *)
(* (Results), the check of the log (LogCheck), the calendar of the         *)
(* contests (ContestCalendar), the chat feeds (ChatFeed) and the skeds     *)
(* (Skeds).  Each has an inductive invariant: of the row, that what it     *)
(* shows is of its callsign and its log (ErInv); of the panel, that its    *)
(* columns are fitted to the view and the width last seen and its cells    *)
(* laid under them, even before the first layout, when no column is fitted *)
(* yet (LtInv); of the results, that a row is a station of the contest     *)
(* (ResInv, in ResultsProofs); of the feeds, that each line is marked by   *)
(* the log and each list shows what the settings ask for (FdInv); of the   *)
(* skeds, that the list is the table's in the order of times, behind it    *)
(* only by what could not be written (SkInv).  The check looks at each log *)
(* for itself: there the proof is about its two passes, the first          *)
(* backwards over the lengths of ascending runs, the second forwards along *)
(* a longest one (OnTheWay).                                               *)
(***************************************************************************)
EXTENDS MCDeskLog, ResultsProofs

-----------------------------------------------------------------------------
(* Facts that several parts need *)

\* A set of places has a last one.
LEMMA LastPlace ==
    ASSUME NEW n \in Nat, NEW S \in SUBSET (1..n), S # {}
    PROVE  Max(S) \in S /\ \A i \in S : Max(S) >= i
<1>1. IsFiniteSet(S) /\ S \in SUBSET Nat
  <2> DEFINE I == 1..n
  <2>1. IsFiniteSet(I) /\ I \in SUBSET Nat /\ S \in SUBSET I
    BY FS_Interval
  <2> HIDE DEF I
  <2> QED
    BY <2>1, FS_Subset
<1> QED
  BY <1>1, MaxIsGreatest

-----------------------------------------------------------------------------
(* The entry row *)

ErRows == [call : ErCalls, band : ErBands, grid : Locators]
ErInv ==
    /\ ErTypeOK /\ DupePillIsTrue
    /\ erLog \in Seq(ErRows)
    /\ erGridAuto => erGrid # NoLocator
    /\ erAccount \in Nat \ {0}
    /\ IsFiniteSet(erAsked) /\ \A q \in erAsked : q.call \in ErCalls

\* What the program knows of a callsign is known of it.
LEMMA KnownGridIsKnown ==
    ASSUME EntryAssumption, ErInv, NEW call \in ErCalls
    PROVE  /\ KnownGrid(call) \in KnownOf(call) /\ KnownGrid(call) \in Locators
           /\ IsKnown(call) => KnownExchange(call) \in KnownOf(call) /\ KnownExchange(call) \in Locators
<1>1. erLog \in Seq(ErRows) /\ erTable \in [ErCalls -> Locators] /\ ErEarlier \in [ErCalls -> Locators]
  BY DEF ErInv, ErTypeOK, EntryAssumption
<1>2. DOMAIN erLog = 1..Len(erLog) /\ Len(erLog) \in Nat /\ \A i \in DOMAIN erLog : erLog[i] \in ErRows
  BY <1>1, LenProperties, ElementOfSeq
<1>3. ASSUME IsKnown(call)
      PROVE  KnownExchange(call) \in KnownOf(call) /\ KnownExchange(call) \in Locators
  <2> DEFINE i == Max(Worked(call))
  <2>1. Worked(call) \in SUBSET (1..Len(erLog)) /\ Worked(call) # {}
    BY <1>2, <1>3 DEF Worked, IsKnown
  <2>2. i \in Worked(call)
    BY <1>2, <2>1, LastPlace
  <2> HIDE DEF i
  <2>3. i \in DOMAIN erLog /\ erLog[i].call = call
    BY <2>2 DEF Worked
  <2>4. erLog[i].grid \in Locators
    BY <1>2, <2>3 DEF ErRows
  <2>5. KnownExchange(call) = erLog[i].grid
    BY DEF KnownExchange, i
  <2> QED
    BY <2>3, <2>4, <2>5 DEF KnownOf
<1>4. KnownGrid(call) \in {ErEarlier[call], erTable[call]} \/ (IsKnown(call) /\ KnownGrid(call) = KnownExchange(call))
  BY DEF KnownGrid
<1>5. {ErEarlier[call], erTable[call]} \subseteq KnownOf(call) /\ {ErEarlier[call], erTable[call]} \subseteq Locators
  BY <1>1 DEF KnownOf
<1> QED
  BY <1>3, <1>4, <1>5

\* A station without a callsign is in no log.
LEMMA NobodyIsNoDupe ==
    ASSUME EntryAssumption, NEW log \in Seq(ErRows), NEW band
    PROVE  DupeIn(log, "", band) = FALSE
<1>1. ASSUME NEW i \in DOMAIN log
      PROVE  log[i].call \in ErCalls
  <2>1. log[i] \in ErRows
    BY ElementOfSeq, LenProperties
  <2> QED
    BY <2>1 DEF ErRows
<1> QED
  BY <1>1 DEF EntryAssumption, DupeIn

\* One question takes the place of another, or is done with.
LEMMA QuestionsStayFew ==
    ASSUME NEW S, IsFiniteSet(S), NEW q \in S, NEW r
    PROVE  /\ IsFiniteSet(S \ {q}) /\ IsFiniteSet((S \ {q}) \cup {r})
           /\ Cardinality(S \ {q}) \in Nat /\ Cardinality((S \ {q}) \cup {r}) \in Nat /\ Cardinality(S) \in Nat
           /\ Cardinality(S \ {q}) <= Cardinality(S) /\ Cardinality((S \ {q}) \cup {r}) <= Cardinality(S)
<1>1. IsFiniteSet(S \ {q}) /\ Cardinality(S \ {q}) = Cardinality(S) - 1
  BY FS_RemoveElement
<1>2. IsFiniteSet((S \ {q}) \cup {r})
      /\ Cardinality((S \ {q}) \cup {r}) = IF r \in S \ {q} THEN Cardinality(S \ {q}) ELSE Cardinality(S \ {q}) + 1
  BY <1>1, FS_AddElement
<1>3. Cardinality(S) \in Nat /\ Cardinality(S \ {q}) \in Nat /\ Cardinality((S \ {q}) \cup {r}) \in Nat
  BY <1>1, <1>2, FS_CardinalityType
<1> QED
  BY <1>1, <1>2, <1>3

\* What the invariant says of the values, so that the steps need not take it apart.
LEMMA RowTypes ==
    ASSUME ErInv
    PROVE  /\ erCall \in ErCalls \cup {"", "14045"} /\ erGrid \in Locators /\ erTable \in [ErCalls -> Locators]
           /\ erGridAuto \in BOOLEAN /\ erNumber \in BOOLEAN /\ erRstAuto \in BOOLEAN
           /\ erPill \in BOOLEAN /\ erTimer \in BOOLEAN /\ erArmed \in BOOLEAN
           /\ erBand \in ErBands /\ erMode \in {"SSB", "CW"} /\ Len(erLog) <= ErMaxQsos
           /\ Cardinality(erAsked) <= ErMaxAsked /\ erKey \in {0, erAccount}
           /\ erRstAuto => erRst = DefaultRst(erMode)
BY DEF ErInv, ErTypeOK

\* And the other way round, now and after a step.
LEMMA RowIsTyped ==
    ASSUME erCall \in ErCalls \cup {"", "14045"}, erGrid \in Locators, erTable \in [ErCalls -> Locators],
           erGridAuto \in BOOLEAN, erNumber \in BOOLEAN, erRstAuto \in BOOLEAN,
           erPill \in BOOLEAN, erTimer \in BOOLEAN, erArmed \in BOOLEAN,
           erBand \in ErBands, erMode \in {"SSB", "CW"}, Len(erLog) <= ErMaxQsos,
           Cardinality(erAsked) <= ErMaxAsked, erKey \in {0, erAccount},
           erRstAuto => erRst = DefaultRst(erMode)
    PROVE  ErTypeOK
BY DEF ErTypeOK

\* Every value has its type after a step.
LEMMA RowWillBeTyped ==
    ASSUME erCall' \in ErCalls \cup {"", "14045"}, erGrid' \in Locators, erTable' \in [ErCalls -> Locators],
           erGridAuto' \in BOOLEAN, erNumber' \in BOOLEAN, erRstAuto' \in BOOLEAN,
           erPill' \in BOOLEAN, erTimer' \in BOOLEAN, erArmed' \in BOOLEAN,
           erBand' \in ErBands, erMode' \in {"SSB", "CW"}, Len(erLog') <= ErMaxQsos,
           Cardinality(erAsked') <= ErMaxAsked, erKey' \in {0, erAccount'},
           erRstAuto' => erRst' = DefaultRst(erMode')
    PROVE  ErTypeOK'
BY DEF ErTypeOK

\* The pill is a Boolean, whichever of its places is written.
LEMMA DupeIsBoolean == \A log, call, band : DupeIn(log, call, band) \in BOOLEAN
BY DEF DupeIn

\* A step that leaves the log, the questions and the account alone, and neither
\* marks the locator as filled in nor puts one into an empty field that is so marked.
LEMMA EntryStays ==
    ASSUME ErInv, UNCHANGED <<erLog, erAsked, erAccount, erTable>>,
           erCall' \in ErCalls \cup {"", "14045"}, erGrid' \in Locators,
           erGridAuto' \in BOOLEAN, erNumber' \in BOOLEAN, erRstAuto' \in BOOLEAN,
           erTimer' \in BOOLEAN, erArmed' \in BOOLEAN, erBand' \in ErBands, erMode' \in {"SSB", "CW"},
           erKey' \in {0, erAccount}, erRstAuto' => erRst' = DefaultRst(erMode'),
           erPill' = DupeIn(erLog, erCall', erBand'),
           erGridAuto' => erGrid' # NoLocator
    PROVE  ErInv'
<1>1. erPill' \in BOOLEAN /\ (erPill' <=> DupeIn(erLog', erCall', erBand'))
  BY DupeIsBoolean
<1>2. ErTypeOK'
  BY <1>1, RowTypes DEF ErTypeOK
<1>3. DupePillIsTrue'
  BY <1>1 DEF DupePillIsTrue
<1> QED
  BY <1>2, <1>3 DEF ErInv

\* Typing.
LEMMA CallBecomesKnows ==
    ASSUME ErInv, NEW call, CallBecomes(call)
    PROVE  /\ erCall' = call /\ erPill' = DupeIn(erLog, call, erBand)
           /\ erArmed' \in BOOLEAN /\ erTimer' \in BOOLEAN
<1>1. erPill = DupeIn(erLog, erCall, erBand)
  BY RowTypes, DupeIsBoolean DEF ErInv, DupePillIsTrue
<1> QED
  BY <1>1, RowTypes DEF CallBecomes

\* Another callsign is looked at for a dupe as it is typed.
LEMMA TypeCallIsRight ==
    ASSUME ErInv, NEW call \in ErCalls \cup {"", "14045"}, TypeCall(call)
    PROVE  ErInv' /\ FilledForTheCall
<1>1. erCall' = call /\ erPill' = DupeIn(erLog, call, erBand) /\ erArmed' \in BOOLEAN /\ erTimer' \in BOOLEAN
  BY CallBecomesKnows DEF TypeCall
<1>2. UNCHANGED <<erGrid, erGridAuto, erNumber, erRst, erRstAuto, erBand, erMode, erLog, erTable, erAsked, erKey,
                  erAccount, erSettings>>
  BY DEF TypeCall, net
<1>3. erGridAuto => erGrid # NoLocator
  BY DEF ErInv
<1>4. ErInv'
  BY <1>1, <1>2, <1>3, RowTypes, EntryStays
<1> QED
  BY <1>2, <1>4 DEF FilledForTheCall

\* The locators there are to fill in.
LEMMA SixIsLocator == \A call \in ErCalls : SixOf(call) \in Locators /\ NoLocator \in Locators /\ SixOf(call).six
BY DEF SixOf, Locators, NoLocator

\* The pill is the log's answer.
LEMMA PillNow == ASSUME ErInv PROVE erPill = DupeIn(erLog, erCall, erBand)
BY RowTypes, DupeIsBoolean DEF ErInv, DupePillIsTrue

\* The other fields, as they are typed.
LEMMA TypingIsRight ==
    ASSUME ErInv,
           \/ erCall \in ErCalls /\ \E g \in {NoLocator, SixOf(erCall)} : TypeGrid(g)
           \/ TypeNumber
           \/ TypeRst("41")
    PROVE  ErInv' /\ FilledForTheCall
<1>1. erGridAuto => erGrid # NoLocator
  BY DEF ErInv
<1>2. CASE erCall \in ErCalls /\ \E g \in {NoLocator, SixOf(erCall)} : TypeGrid(g)
  <2>1. PICK g \in {NoLocator, SixOf(erCall)} : TypeGrid(g)
    BY <1>2
  <2>2. g \in Locators
    BY <1>2, SixIsLocator
  <2>3. erGrid' = g /\ erGridAuto' = FALSE
        /\ UNCHANGED <<erCall, erNumber, erRst, erRstAuto, erBand, erMode, erPill, erTimer, erArmed, erLog, erTable,
                       erAsked, erKey, erAccount>>
    BY <2>1 DEF TypeGrid, net
  <2>4. ErInv'
    BY <2>2, <2>3, PillNow, RowTypes, EntryStays
  <2> QED
    BY <2>3, <2>4 DEF FilledForTheCall
<1>3. CASE TypeNumber
  <2>1. erNumber' = ~erNumber
        /\ UNCHANGED <<erCall, erGrid, erGridAuto, erRst, erRstAuto, erBand, erMode, erPill, erTimer, erArmed, erLog,
                       erTable, erAsked, erKey, erAccount>>
    BY <1>3 DEF TypeNumber, net
  <2>2. erNumber' \in BOOLEAN
    BY <2>1
  <2>3. ErInv'
    BY <1>1, <2>1, <2>2, PillNow, RowTypes, EntryStays
  <2> QED
    BY <2>1, <2>3 DEF FilledForTheCall
<1>4. CASE TypeRst("41")
  <2>1. erRstAuto' = FALSE
        /\ UNCHANGED <<erCall, erGrid, erGridAuto, erNumber, erBand, erMode, erPill, erTimer, erArmed, erLog,
                       erTable, erAsked, erKey, erAccount>>
    BY <1>4 DEF TypeRst, net
  <2>2. ErInv'
    BY <1>1, <2>1, PillNow, RowTypes, EntryStays
  <2> QED
    BY <2>1, <2>2 DEF FilledForTheCall
<1> QED
  BY <1>2, <1>3, <1>4

\* A click on a station.
LEMMA CandidateIsRight ==
    ASSUME ErInv, NEW call \in ErCalls, NEW guessed \in BOOLEAN, NEW g \in {NoLocator, SixOf(call)},
           Candidate(call, g, guessed)
    PROVE  ErInv' /\ FilledForTheCall
<1>1. erCall' = call /\ erPill' = DupeIn(erLog, call, erBand) /\ erArmed' \in BOOLEAN /\ erTimer' \in BOOLEAN
  BY CallBecomesKnows DEF Candidate
<1>2. UNCHANGED <<erGridAuto, erNumber, erRst, erRstAuto, erBand, erMode, erLog, erTable, erAsked, erKey, erAccount>>
  BY DEF Candidate, net
<1>3. erGridAuto => erGrid # NoLocator
  BY DEF ErInv
<1>4. erGrid' \in Locators /\ (erGrid # NoLocator => erGrid' # NoLocator)
  BY SixIsLocator, RowTypes DEF Candidate
<1>5. ErInv'
  BY <1>1, <1>2, <1>3, <1>4, RowTypes, EntryStays
<1> QED
  BY <1>2, <1>3, <1>5 DEF FilledForTheCall

\* The report of a mode is its default, or was typed.
LEMMA RstForIsDefault ==
    ASSUME ErInv, NEW mode \in {"SSB", "CW"}, RstFor(mode)
    PROVE  erRstAuto' \in BOOLEAN /\ ((erRst = "" \/ erRstAuto) => erRst' = DefaultRst(mode))
           /\ (erRstAuto' => erRst' = DefaultRst(mode))
BY RowTypes DEF RstFor

\* Band and mode.
LEMMA BandIsRight ==
    ASSUME ErInv, NEW band \in ErBands, BandBecomes(band)
    PROVE  ErInv' /\ FilledForTheCall
<1>1. erBand' = band /\ erPill' = DupeIn(erLog, erCall, band)
      /\ UNCHANGED <<erCall, erGrid, erGridAuto, erNumber, erRst, erRstAuto, erMode, erTimer, erArmed, erLog, erTable,
                     erAsked, erKey, erAccount>>
  BY DEF BandBecomes, net
<1>2. erGridAuto => erGrid # NoLocator
  BY DEF ErInv
<1>3. ErInv'
  BY <1>1, <1>2, RowTypes, EntryStays
<1> QED
  BY <1>1, <1>3 DEF FilledForTheCall

\* The mode, by the radio and by hand.
LEMMA ModeIsRight ==
    ASSUME ErInv, NEW mode \in {"SSB", "CW"}, RigModeChanged(mode) \/ ChooseMode(mode)
    PROVE  ErInv' /\ FilledForTheCall
<1>1. erMode' = mode /\ erRstAuto' \in BOOLEAN /\ (erRstAuto' => erRst' = DefaultRst(mode))
      /\ UNCHANGED <<erCall, erGrid, erGridAuto, erNumber, erBand, erTimer, erArmed, erLog, erTable,
                     erAsked, erKey, erAccount>>
  <2>1. ModeBecomes(mode)
    BY DEF RigModeChanged, ChooseMode
  <2> QED
    BY <2>1, RstForIsDefault DEF ModeBecomes, net
<1>2. erPill' = DupeIn(erLog, erCall, erBand)
  BY PillNow DEF RigModeChanged, ChooseMode
<1>3. erGridAuto => erGrid # NoLocator
  BY DEF ErInv
<1>4. ErInv'
  BY <1>1, <1>2, <1>3, RowTypes, EntryStays
<1> QED
  BY <1>1, <1>4 DEF FilledForTheCall

\* A frequency typed into the callsign field.
LEMMA TuneTypedIsRight ==
    ASSUME EntryAssumption, ErInv, NEW band \in ErBands, NEW mode \in {"SSB", "CW"}, TuneTyped(band, mode)
    PROVE  ErInv' /\ FilledForTheCall
<1>1. erCall' = "" /\ erPill' = DupeIn(erLog, "", erBand) /\ erArmed' \in BOOLEAN /\ erTimer' \in BOOLEAN
  BY CallBecomesKnows DEF TuneTyped
<1>2. erMode' = mode /\ erBand' = band /\ erRstAuto' \in BOOLEAN /\ (erRstAuto' => erRst' = DefaultRst(mode))
      /\ UNCHANGED <<erGrid, erGridAuto, erNumber, erLog, erTable, erAsked, erKey, erAccount>>
  BY RstForIsDefault DEF TuneTyped, net
<1>3. DupeIn(erLog, "", erBand) = FALSE /\ DupeIn(erLog, "", band) = FALSE
  BY NobodyIsNoDupe DEF ErInv
<1>4. erGridAuto => erGrid # NoLocator
  BY DEF ErInv
<1>5. erPill' = DupeIn(erLog, erCall', erBand')
  BY <1>1, <1>2, <1>3
<1>6. ErInv'
  BY <1>1, <1>2, <1>4, <1>5, RowTypes, EntryStays
<1> QED
  BY <1>2, <1>6 DEF FilledForTheCall

\* What is filled in is a full locator and goes into an empty field.
LEMMA FillInKeeps ==
    ASSUME ErInv, NEW grid \in Locators, FillIn(grid), erCall' = erCall
    PROVE  /\ erGrid' \in Locators /\ erGridAuto' \in BOOLEAN /\ (erGridAuto' => erGrid' # NoLocator)
           /\ erCall \in ErCalls /\ grid \in KnownOf(erCall) => FilledForTheCall
<1>1. erGridAuto => erGrid # NoLocator
  BY DEF ErInv
<1>2. CASE Fills(grid)
  <2>1. erGrid' = grid /\ erGridAuto' = TRUE /\ grid # NoLocator /\ erGrid = NoLocator
    BY <1>2 DEF FillIn, Fills
  <2> QED
    BY <2>1 DEF FilledForTheCall
<1>3. CASE ~Fills(grid)
  <2>1. erGrid' = erGrid /\ erGridAuto' = erGridAuto
    BY <1>3 DEF FillIn
  <2> QED
    BY <1>1, <2>1, RowTypes DEF FilledForTheCall
<1> QED
  BY <1>2, <1>3

\* The lookup: the questions under way are few and about callsigns.
LEMMA LookupTimerIsRight ==
    ASSUME EntryAssumption, ErInv, LookupTimer
    PROVE  ErInv' /\ FilledForTheCall
<1>1. erTimer' = FALSE
      /\ UNCHANGED <<erCall, erNumber, erRst, erRstAuto, erBand, erMode, erPill, erArmed, erLog, erTable, erKey,
                     erAccount>>
  BY DEF LookupTimer
<1>2. erGridAuto => erGrid # NoLocator
  BY DEF ErInv
<1> DEFINE local == erCall \in ErCalls
                    /\ (IsKnown(erCall) \/ ErEarlier[erCall] # NoLocator \/ erTable[erCall] # NoLocator)
<1>3. CASE local
  <2> DEFINE grid == IF IsKnown(erCall) THEN KnownExchange(erCall) ELSE KnownGrid(erCall)
  <2>1. FillIn(grid) /\ erAsked' = erAsked
    BY <1>3 DEF LookupTimer
  <2>2. grid \in Locators /\ grid \in KnownOf(erCall)
    BY <1>3, KnownGridIsKnown
  <2> HIDE DEF grid
  <2>3. /\ erGrid' \in Locators /\ erGridAuto' \in BOOLEAN /\ (erGridAuto' => erGrid' # NoLocator)
        /\ FilledForTheCall
    BY <1>1, <1>3, <2>1, <2>2, FillInKeeps
  <2>4. ErInv'
    BY <1>1, <2>1, <2>3, PillNow, RowTypes, EntryStays
  <2> QED
    BY <2>3, <2>4
<1>4. CASE ~local
  <2>1. erGrid' = erGrid /\ erGridAuto' = erGridAuto
    BY <1>4 DEF LookupTimer
  <2>2. CASE erAsked' = erAsked
    <3>1. ErInv'
      BY <1>1, <1>2, <2>1, <2>2, PillNow, RowTypes, EntryStays
    <3> QED
      BY <2>1, <3>1 DEF FilledForTheCall
  <2>3. CASE erAsked' # erAsked
    <3> DEFINE q == Question(erCall, IF erKey = 0 THEN "login" ELSE "lookup", FALSE)
    <3>1. erCall \in ErCalls /\ erAsked' = erAsked \cup {q} /\ Cardinality(erAsked) < ErMaxAsked
      BY <1>4, <2>3 DEF LookupTimer
    <3>2. IsFiniteSet(erAsked) /\ (\A r \in erAsked : r.call \in ErCalls) /\ ErMaxAsked \in Nat
      BY DEF ErInv, EntryAssumption
    <3>3. q.call = erCall
      BY DEF Question
    <3> HIDE DEF q
    <3>4. IsFiniteSet(erAsked') /\ Cardinality(erAsked') <= ErMaxAsked
      <4>1. IsFiniteSet(erAsked \cup {q}) /\ Cardinality(erAsked) \in Nat
            /\ (Cardinality(erAsked \cup {q}) = Cardinality(erAsked) \/ Cardinality(erAsked \cup {q})
                    = Cardinality(erAsked) + 1)
        BY <3>2, FS_AddElement, FS_CardinalityType
      <4> DEFINE before == Cardinality(erAsked)
                 after == Cardinality(erAsked \cup {q})
      <4>2. before \in Nat /\ before < ErMaxAsked /\ ErMaxAsked \in Nat /\ (after = before \/ after = before + 1)
        BY <3>1, <3>2, <4>1
      <4> HIDE DEF before, after
      <4>3. after <= ErMaxAsked
        BY <4>2
      <4> QED
        BY <3>1, <4>1, <4>3 DEF after
    <3>5. \A r \in erAsked' : r.call \in ErCalls
      BY <3>1, <3>2, <3>3
    <3>6. ErTypeOK'
      BY <1>1, <2>1, <3>4, RowTypes DEF ErTypeOK
    <3>7. DupePillIsTrue'
      BY <1>1, PillNow DEF DupePillIsTrue
    <3>8. ErInv'
      BY <1>1, <1>2, <2>1, <3>4, <3>5, <3>6, <3>7 DEF ErInv
    <3> QED
      BY <2>1, <3>8 DEF FilledForTheCall
  <2> QED
    BY <2>2, <2>3
<1> QED
  BY <1>3, <1>4

\* One step of the answer: what came of the question q.
LEMMA AnswerIsRight ==
    ASSUME EntryAssumption, ErInv, NEW q \in erAsked, NEW r,
           UNCHANGED <<erCall, erNumber, erRst, erRstAuto, erBand, erMode, erPill, erTimer, erArmed, erLog,
                       erAccount, erSettings>>,
           erAsked' = erAsked \ {q} \/ (erAsked' = (erAsked \ {q}) \cup {r} /\ r.call = q.call),
           erGrid' \in Locators, erGridAuto' \in BOOLEAN, erGridAuto' => erGrid' # NoLocator,
           erTable' \in [ErCalls -> Locators], erKey' \in {0, erAccount}
    PROVE  ErInv'
<1>1. IsFiniteSet(erAsked) /\ (\A p \in erAsked : p.call \in ErCalls) /\ ErMaxAsked \in Nat
      /\ Cardinality(erAsked) <= ErMaxAsked
  BY RowTypes DEF ErInv, EntryAssumption
<1>2. IsFiniteSet(erAsked') /\ Cardinality(erAsked') <= ErMaxAsked
  <2>1. /\ IsFiniteSet(erAsked \ {q}) /\ IsFiniteSet((erAsked \ {q}) \cup {r})
        /\ Cardinality(erAsked \ {q}) \in Nat /\ Cardinality((erAsked \ {q}) \cup {r}) \in Nat
        /\ Cardinality(erAsked) \in Nat
        /\ Cardinality(erAsked \ {q}) <= Cardinality(erAsked)
        /\ Cardinality((erAsked \ {q}) \cup {r}) <= Cardinality(erAsked)
    BY <1>1, QuestionsStayFew
  <2>2. CASE erAsked' = erAsked \ {q}
    BY <1>1, <2>1, <2>2
  <2>3. CASE erAsked' = (erAsked \ {q}) \cup {r}
    BY <1>1, <2>1, <2>3
  <2> QED
    BY <2>2, <2>3
<1>3. \A p \in erAsked' : p.call \in ErCalls
  BY <1>1
<1>4. ErTypeOK'
  BY <1>2, RowTypes DEF ErTypeOK
<1>5. DupePillIsTrue'
  BY PillNow DEF DupePillIsTrue
<1> QED
  BY <1>2, <1>3, <1>4, <1>5 DEF ErInv

\* An answer from the net, or none.
LEMMA ReplyIsRight ==
    ASSUME EntryAssumption, ErInv, ReplyArrives
    PROVE  ErInv' /\ FilledForTheCall
<1>1. UNCHANGED <<erCall, erNumber, erRst, erRstAuto, erBand, erMode, erPill, erTimer, erArmed, erLog,
                  erAccount, erSettings>>
  BY DEF ReplyArrives
<1>2. PICK q \in erAsked : SessionInvalid(q) \/ \E ok \in BOOLEAN : Answered(q, ok)
  BY DEF ReplyArrives
<1>3. erGridAuto => erGrid # NoLocator
  BY DEF ErInv
<1>4. q.call \in ErCalls
  BY DEF ErInv
<1>5. ASSUME UNCHANGED <<erGrid, erGridAuto, erTable>>, erKey' \in {0, erAccount}, NEW r,
             erAsked' = erAsked \ {q} \/ (erAsked' = (erAsked \ {q}) \cup {r} /\ r.call = q.call)
      PROVE  ErInv' /\ FilledForTheCall
  <2>1. erGrid' \in Locators /\ erGridAuto' \in BOOLEAN /\ (erGridAuto' => erGrid' # NoLocator)
        /\ erTable' \in [ErCalls -> Locators]
    BY <1>3, <1>5, RowTypes
  <2>2. ErInv'
    BY <1>1, <1>5, <2>1, AnswerIsRight
  <2> QED
    BY <1>5, <2>2 DEF FilledForTheCall
<1>6. CASE NothingFound(q)
  BY <1>5, <1>6, RowTypes DEF NothingFound
<1>7. CASE SessionInvalid(q) /\ ~NothingFound(q)
  <2> DEFINE r == Question(q.call, "login", TRUE)
  <2>1. erKey' = 0 /\ erAsked' = (erAsked \ {q}) \cup {r} /\ UNCHANGED <<erGrid, erGridAuto, erTable>>
    BY <1>7 DEF SessionInvalid
  <2>2. r.call = q.call
    BY DEF Question
  <2> HIDE DEF r
  <2> QED
    BY <1>5, <2>1, <2>2
<1>8. ASSUME NEW ok \in BOOLEAN, Answered(q, ok), ~NothingFound(q)
      PROVE  ErInv' /\ FilledForTheCall
  <2>1. CASE q.step = "login"
    <3> DEFINE r == Question(q.call, "lookup", q.retry)
    <3>1. erKey' = erAccount /\ erAsked' = (erAsked \ {q}) \cup {r} /\ UNCHANGED <<erGrid, erGridAuto, erTable>>
      BY <1>8, <2>1 DEF Answered
    <3>2. r.call = q.call
      BY DEF Question
    <3> HIDE DEF r
    <3> QED
      BY <1>5, <3>1, <3>2
  <2>2. CASE q.step # "login"
    <3>1. erTable' = [erTable EXCEPT ![q.call] = ErCallbook[q.call]] /\ erAsked' = erAsked \ {q} /\ erKey' = erKey
          /\ ExternalFinished(q.call, ErCallbook[q.call])
      BY <1>8, <2>2 DEF Answered
    <3>2. ErCallbook[q.call] \in Locators
      BY <1>4 DEF EntryAssumption
    <3>3. erTable' \in [ErCalls -> Locators] /\ erKey' \in {0, erAccount}
      BY <1>4, <3>1, <3>2, RowTypes
    <3>4. /\ erGrid' \in Locators /\ erGridAuto' \in BOOLEAN /\ (erGridAuto' => erGrid' # NoLocator)
          /\ FilledForTheCall
      <4>1. CASE erCall = q.call
        <5>1. FillIn(ErCallbook[q.call])
          BY <3>1, <4>1 DEF ExternalFinished
        <5>2. ErCallbook[q.call] \in KnownOf(erCall)
          BY <4>1 DEF KnownOf
        <5> QED
          BY <1>1, <1>4, <3>2, <4>1, <5>1, <5>2, FillInKeeps
      <4>2. CASE erCall # q.call
        <5>1. UNCHANGED <<erGrid, erGridAuto>>
          BY <3>1, <4>2 DEF ExternalFinished
        <5> QED
          BY <1>3, <5>1, RowTypes DEF FilledForTheCall
      <4> QED
        BY <4>1, <4>2
    <3>5. ErInv'
      BY <1>1, <3>1, <3>3, <3>4, AnswerIsRight
    <3> QED
      BY <3>4, <3>5
  <2> QED
    BY <2>1, <2>2
<1> QED
  BY <1>2, <1>6, <1>7, <1>8

\* Another account: its questions, its key.
LEMMA AccountIsRight ==
    ASSUME ErInv, AccountChanges
    PROVE  ErInv' /\ FilledForTheCall
<1>1. erAccount' = erAccount + 1 /\ erKey' = 0
      /\ UNCHANGED <<erCall, erGrid, erGridAuto, erNumber, erRst, erRstAuto, erBand, erMode, erPill, erTimer,
                     erArmed, erLog, erTable, erAsked>>
  BY DEF AccountChanges, fields, marks
<1>2. erAccount' \in Nat \ {0}
  BY <1>1 DEF ErInv
<1>3. ErTypeOK' /\ DupePillIsTrue'
  BY <1>1, PillNow, RowTypes DEF ErTypeOK, DupePillIsTrue
<1>4. ErInv'
  BY <1>1, <1>2, <1>3 DEF ErInv
<1> QED
  BY <1>1, <1>4 DEF FilledForTheCall

\* Enter.
LEMMA EnterAsksIsRight ==
    ASSUME EntryAssumption, ErInv, EnterAsks
    PROVE  ErInv' /\ FilledForTheCall
<1>1. erCall \in ErCalls /\ erArmed' = TRUE /\ FillIn(KnownGrid(erCall))
      /\ UNCHANGED <<erCall, erNumber, erRst, erRstAuto, erBand, erMode, erPill, erTimer, erLog, erTable, erAsked,
                     erKey, erAccount>>
  BY DEF EnterAsks, MayLog, net
<1>2. KnownGrid(erCall) \in Locators /\ KnownGrid(erCall) \in KnownOf(erCall)
  BY <1>1, KnownGridIsKnown
<1>3. /\ erGrid' \in Locators /\ erGridAuto' \in BOOLEAN /\ (erGridAuto' => erGrid' # NoLocator)
      /\ FilledForTheCall
  BY <1>1, <1>2, FillInKeeps
<1>4. ErInv'
  BY <1>1, <1>3, PillNow, RowTypes, EntryStays
<1> QED
  BY <1>3, <1>4

\* Enter logs, and the row is made ready for the next QSO.
LEMMA EnterLogsIsRight ==
    ASSUME EntryAssumption, ErInv, EnterLogs
    PROVE  ErInv' /\ FilledForTheCall
<1> DEFINE row == [call |-> erCall, band |-> erBand, grid |-> erGrid]
<1>1. erCall \in ErCalls /\ Len(erLog) < ErMaxQsos /\ erLog' = Append(erLog, row)
      /\ UNCHANGED <<erBand, erMode, erTable, erAsked, erKey, erAccount>>
  BY DEF EnterLogs, MayLog, net
<1>2. erCall' = "" /\ erPill' = DupeIn(erLog, "", erBand) /\ erArmed' \in BOOLEAN /\ erTimer' \in BOOLEAN
  BY CallBecomesKnows DEF EnterLogs, Reset
<1>3. erGrid' = NoLocator /\ erGridAuto' = FALSE /\ erNumber' = FALSE /\ erRst' = DefaultRst(erMode)
      /\ erRstAuto' = TRUE
  BY DEF EnterLogs, Reset
<1>4. erLog \in Seq(ErRows) /\ row \in ErRows /\ NoLocator \in Locators /\ ErMaxQsos \in Nat
  BY <1>1, RowTypes DEF ErInv, ErRows, Locators, EntryAssumption
<1> HIDE DEF row
<1>5. erLog' \in Seq(ErRows) /\ Len(erLog') = Len(erLog) + 1 /\ Len(erLog) \in Nat
  BY <1>1, <1>4, AppendProperties, LenProperties
<1>6. DupeIn(erLog, "", erBand) = FALSE /\ DupeIn(erLog', "", erBand) = FALSE
  BY <1>4, <1>5, NobodyIsNoDupe
<1>7. ErTypeOK'
  <2>1. erCall' \in ErCalls \cup {"", "14045"} /\ erGrid' \in Locators /\ erTable' \in [ErCalls -> Locators]
        /\ erBand' \in ErBands /\ erMode' \in {"SSB", "CW"} /\ erKey' \in {0, erAccount'}
        /\ (erRstAuto' => erRst' = DefaultRst(erMode'))
    BY <1>1, <1>2, <1>3, <1>4, RowTypes
  <2>2. erGridAuto' \in BOOLEAN /\ erNumber' \in BOOLEAN /\ erRstAuto' \in BOOLEAN
    BY <1>3
  <2>3. erPill' \in BOOLEAN
    BY <1>2, DupeIsBoolean
  <2>4. Len(erLog') <= ErMaxQsos
    BY <1>1, <1>4, <1>5
  <2>5. Cardinality(erAsked') <= ErMaxAsked
    BY <1>1, RowTypes
  <2> QED
    BY <1>2, <2>1, <2>2, <2>3, <2>4, <2>5, RowWillBeTyped
<1>8. DupePillIsTrue'
  BY <1>1, <1>2, <1>6 DEF DupePillIsTrue
<1>9. ErInv'
  BY <1>1, <1>3, <1>5, <1>7, <1>8 DEF ErInv
<1> QED
  BY <1>3, <1>9 DEF FilledForTheCall

\* Enter, when the database refuses the row.
LEMMA EnterFailsIsRight ==
    ASSUME ErInv, EnterFails
    PROVE  ErInv' /\ FilledForTheCall
<1>1. erArmed' = FALSE
      /\ UNCHANGED <<erCall, erGrid, erGridAuto, erNumber, erRst, erRstAuto, erBand, erMode, erPill, erTimer, erLog,
                     erTable, erAsked, erKey, erAccount>>
  BY DEF EnterFails, fields, net
<1>2. erGridAuto => erGrid # NoLocator
  BY DEF ErInv
<1>3. ErInv'
  BY <1>1, <1>2, PillNow, RowTypes, EntryStays
<1> QED
  BY <1>1, <1>3 DEF FilledForTheCall

\* The log without one of its rows.
LEMMA RowRemoved ==
    ASSUME NEW S, NEW log \in Seq(S), NEW i \in DOMAIN log
    PROVE  RemoveAt(log, i) \in Seq(S) /\ Len(RemoveAt(log, i)) <= Len(log) /\ Len(RemoveAt(log, i)) \in Nat
<1>1. Len(log) \in Nat /\ i \in 1..Len(log)
  BY LenProperties
<1>2. SubSeq(log, 1, i - 1) \in Seq(S) /\ Len(SubSeq(log, 1, i - 1)) = i - 1
  BY <1>1, SubSeqProperties
<1>3. SubSeq(log, i + 1, Len(log)) \in Seq(S) /\ Len(SubSeq(log, i + 1, Len(log))) = Len(log) - i
  BY <1>1, SubSeqProperties
<1>4. RemoveAt(log, i) \in Seq(S) /\ Len(RemoveAt(log, i)) = (i - 1) + (Len(log) - i)
  BY <1>2, <1>3, ConcatProperties DEF RemoveAt
<1> QED
  BY <1>1, <1>4

\* A QSO is deleted, and the row looked at again.
LEMMA DeletedIsRight ==
    ASSUME ErInv, ErDeleted, EntryAssumption
    PROVE  ErInv' /\ FilledForTheCall
<1>1. PICK i \in DOMAIN erLog : erLog' = RemoveAt(erLog, i)
  BY DEF ErDeleted
<1>2. erPill' = DupeIn(erLog', erCall, erBand)
      /\ UNCHANGED <<erCall, erGrid, erGridAuto, erNumber, erRst, erRstAuto, erBand, erMode, erTimer, erArmed,
                     erTable, erAsked, erKey, erAccount>>
  BY DEF ErDeleted, fields, net
<1>3. erLog \in Seq(ErRows) /\ (erGridAuto => erGrid # NoLocator) /\ ErMaxQsos \in Nat
  BY DEF ErInv, EntryAssumption
<1>4. erLog' \in Seq(ErRows) /\ Len(erLog') <= Len(erLog) /\ Len(erLog') \in Nat /\ Len(erLog) \in Nat
  BY <1>1, <1>3, RowRemoved, LenProperties
<1>5. erPill' \in BOOLEAN
  BY <1>2, DupeIsBoolean
<1>6. ErTypeOK'
  <2>1. Len(erLog') <= ErMaxQsos
    <3>1. Len(erLog) <= ErMaxQsos
      BY RowTypes
    <3> QED
      BY <1>3, <1>4, <3>1
  <2> QED
    BY <1>2, <1>5, <2>1, RowTypes, RowWillBeTyped
<1>7. DupePillIsTrue'
  BY <1>2 DEF DupePillIsTrue
<1>8. ErInv'
  BY <1>2, <1>3, <1>4, <1>6, <1>7 DEF ErInv
<1> QED
  BY <1>2, <1>8 DEF FilledForTheCall

\* Every step of the entry row.
LEMMA ErStep ==
    ASSUME EntryAssumption, ErInv, [ErNext]_erVars
    PROVE  ErInv' /\ FilledForTheCall
<1>1. CASE UNCHANGED erVars
  <2>1. UNCHANGED <<erCall, erGrid, erGridAuto, erNumber, erRst, erRstAuto, erBand, erMode, erPill, erTimer, erArmed,
                    erLog, erTable, erAsked, erKey, erAccount>>
    BY <1>1 DEF erVars, fields, marks, net
  <2>2. erGridAuto => erGrid # NoLocator
    BY DEF ErInv
  <2>3. ErInv'
    BY <2>1, <2>2, PillNow, RowTypes, EntryStays
  <2> QED
    BY <2>1, <2>3 DEF FilledForTheCall
<1>2. CASE \E c \in ErCalls \cup {"", "14045"} : TypeCall(c)
  BY <1>2, TypeCallIsRight
<1>3. CASE \/ erCall \in ErCalls /\ \E g \in {NoLocator, SixOf(erCall)} : TypeGrid(g)
           \/ TypeNumber
           \/ TypeRst("41")
  BY <1>3, TypingIsRight
<1>4. CASE \E c \in ErCalls, guessed \in BOOLEAN : \E g \in {NoLocator, SixOf(c)} : Candidate(c, g, guessed)
  BY <1>4, CandidateIsRight
<1>5. CASE \E b \in ErBands : ApplyRigFrequency(b) \/ ChooseBand(b)
  BY <1>5, BandIsRight DEF ApplyRigFrequency, ChooseBand
<1>6. CASE \E b \in ErBands, m \in {"SSB", "CW"} : TuneTyped(b, m)
  BY <1>6, TuneTypedIsRight
<1>7. CASE \E m \in {"SSB", "CW"} : RigModeChanged(m) \/ ChooseMode(m)
  BY <1>7, ModeIsRight
<1>8. CASE LookupTimer \/ ReplyArrives \/ AccountChanges
  BY <1>8, LookupTimerIsRight, ReplyIsRight, AccountIsRight
<1>9. CASE EnterAsks \/ EnterLogs \/ EnterFails \/ ErDeleted
  BY <1>9, EnterAsksIsRight, EnterLogsIsRight, EnterFailsIsRight, DeletedIsRight
<1> QED
  BY <1>1, <1>2, <1>3, <1>4, <1>5, <1>6, <1>7, <1>8, <1>9 DEF ErNext

\* The empty row.
LEMMA ErStarts == ASSUME EntryAssumption, ErInit PROVE ErInv
<1>1. erLog \in Seq(ErRows) /\ Len(erLog) = 0
  BY EmptySeq DEF ErInit
<1>2. IsFiniteSet(erAsked) /\ Cardinality(erAsked) = 0 /\ erAsked = {}
  BY FS_EmptySet DEF ErInit
<1>3. NoLocator \in Locators
  BY DEF Locators
<1>4. ErTypeOK
  <2>1. erCall \in ErCalls \cup {"", "14045"} /\ erGrid \in Locators /\ erTable \in [ErCalls -> Locators]
        /\ erBand \in ErBands /\ erMode \in {"SSB", "CW"} /\ erKey \in {0, erAccount}
        /\ erRst = DefaultRst(erMode)
    BY <1>3 DEF ErInit, DefaultRst
  <2>2. /\ erGridAuto \in BOOLEAN /\ erNumber \in BOOLEAN /\ erRstAuto \in BOOLEAN
        /\ erPill \in BOOLEAN /\ erTimer \in BOOLEAN /\ erArmed \in BOOLEAN
    BY DEF ErInit
  <2>3. Len(erLog) <= ErMaxQsos /\ Cardinality(erAsked) <= ErMaxAsked
    <3>1. ErMaxQsos \in Nat /\ ErMaxAsked \in Nat
      BY DEF EntryAssumption
    <3> QED
      BY <1>1, <1>2, <3>1
  <2> QED
    BY <2>1, <2>2, <2>3, RowIsTyped
<1>5. DupePillIsTrue
  <2>1. DupeIn(erLog, erCall, erBand) = FALSE
    BY <1>1, NobodyIsNoDupe DEF ErInit
  <2> QED
    BY <2>1 DEF ErInit, DupePillIsTrue
<1> QED
  <2>1. erGridAuto => erGrid # NoLocator
    BY DEF ErInit
  <2>2. erAccount \in Nat \ {0} /\ \A q \in erAsked : q.call \in ErCalls
    <3>1. erAccount = 1
      BY DEF ErInit
    <3> QED
      BY <1>2, <3>1
  <2> QED
    BY <1>1, <1>2, <1>4, <1>5, <2>1, <2>2 DEF ErInv

-----------------------------------------------------------------------------
(* Chat feed: what the readings look at *)

WorkedOf(rows, bands, spot) ==
    IF spot.band # "" THEN \E q \in rows : q.call = spot.call /\ q.band = spot.band
    ELSE IF bands = {} THEN \E b \in FdBands : \E q \in rows : q.call = spot.call /\ q.band = b
    ELSE \A b \in bands : \E q \in rows : q.call = spot.call /\ q.band = b

Survivors(lines, bands) ==
    {i \in DOMAIN lines : /\ lines[i].geo /\ ~lines[i].worked
                          /\ lines[i].spot.band = "" \/ bands = {} \/ lines[i].spot.band \in bands}
VisibleOf(lines, bands, raw, busy) ==
    LET survivors == Survivors(lines, bands)
        keep == IF Cardinality(survivors) = 0 THEN 0 ELSE (3 * Cardinality(survivors) + 9) \div 10
        better(i) == {j \in survivors : lines[j].score > lines[i].score}
    IN IF raw THEN DOMAIN lines
       ELSE IF busy THEN {i \in survivors : Cardinality(better(i)) < keep}
       ELSE survivors

PanelOf(lines, shown, all) ==
    UNION {{[feed |-> f, line |-> lines[f][i]] : i \in IF all THEN DOMAIN lines[f] ELSE shown[f]} : f \in Feeds}

CallsOf(rows) == {q.call : q \in rows}

\* What is worked is so by the rows of the contest and its bands.
LEMMA WorkedIs == ASSUME NEW d, NEW spot PROVE FeedWorked(d, spot) = WorkedOf(d.log[d.contest], d.bands, spot)
  BY Zenon DEF FeedWorked, WorkedOf

\* What is visible is so by the lines of the feed, the bands and two settings.
LEMMA VisibleIs == ASSUME NEW d, NEW f PROVE VisibleRows(d, f) = VisibleOf(d.lines[f], d.bands, d.raw, d.busy)
  BY Zenon DEF VisibleRows, VisibleOf, Survivors, OnContestBand

\* What the panel shows is so by the lines, the visible ones and its switch.
LEMMA PanelIs == ASSUME NEW d PROVE PanelRows(d) = PanelOf(d.lines, d.shown, d.all)
  BY Zenon DEF PanelRows, PanelOf

\* Worked or not: it is the one or the other.
LEMMA WorkedIsBoolean == ASSUME NEW rows, NEW bands, NEW spot PROVE WorkedOf(rows, bands, spot) \in BOOLEAN
<1>1. CASE spot.band # ""
  BY <1>1, Zenon DEF WorkedOf
<1>2. CASE ~(spot.band # "") /\ bands = {}
  BY <1>2, Zenon DEF WorkedOf
<1>3. CASE ~(spot.band # "") /\ bands # {}
  BY <1>3, Zenon DEF WorkedOf
<1> QED
  BY <1>1, <1>2, <1>3

FdLine == [spot : FdSpots, geo : BOOLEAN, worked : BOOLEAN, score : 0..2, at : Nat]

\* A state of the feeds has these fields.
IsFeed(d) ==
    /\ d = [contest |-> d.contest, rules |-> d.rules, site |-> d.site, bands |-> d.bands, log |-> d.log,
            counted |-> d.counted, lines |-> d.lines, shown |-> d.shown, panel |-> d.panel, map |-> d.map,
            suggestion |-> d.suggestion, typed |-> d.typed, raw |-> d.raw, all |-> d.all, busy |-> d.busy,
            arrived |-> d.arrived, handled |-> d.handled]
    /\ d.lines = [f \in Feeds |-> d.lines[f]] /\ d.shown = [f \in Feeds |-> d.shown[f]]
    /\ d.log = [c \in FdContests |-> d.log[c]] /\ d.rules = [c \in FdContests |-> d.rules[c]]

\* All but the lines and what is drawn from them, and the squares counted.
SameCore(d, e) ==
    /\ e.contest = d.contest /\ e.rules = d.rules /\ e.site = d.site /\ e.bands = d.bands /\ e.log = d.log
    /\ e.typed = d.typed /\ e.raw = d.raw /\ e.all = d.all /\ e.busy = d.busy
    /\ e.arrived = d.arrived /\ e.handled = d.handled
SameCounted(d, e) == e.counted = d.counted

\* What is drawn.
LEMMA DrawMapIs ==
    ASSUME NEW d, IsFeed(d)
    PROVE  /\ IsFeed(DrawMap(d)) /\ SameCore(d, DrawMap(d)) /\ SameCounted(d, DrawMap(d))
           /\ DrawMap(d).lines = d.lines /\ DrawMap(d).shown = d.shown /\ DrawMap(d).panel = d.panel
           /\ DrawMap(d).map.worked = CallsOf(d.log[d.contest]) /\ DrawMap(d).suggestion = d.suggestion
<1> DEFINE m == MapStations(d)
<1>1. DrawMap(d) = [d EXCEPT !.map = m]
  BY DEF DrawMap
<1>2. m.worked = CallsOf(d.log[d.contest])
  BY DEF MapStations, CallsOf
<1> HIDE DEF m
<1> QED
  BY <1>1, <1>2 DEF IsFeed, SameCore, SameCounted

\* A suggestion changes that one field.
LEMMA SuggestIs ==
    ASSUME NEW d, IsFeed(d)
    PROVE  /\ IsFeed(Suggest(d)) /\ SameCore(d, Suggest(d)) /\ SameCounted(d, Suggest(d))
           /\ Suggest(d).lines = d.lines /\ Suggest(d).shown = d.shown /\ Suggest(d).panel = d.panel
           /\ Suggest(d).map = d.map
           /\ Suggest(d).suggestion \in {d.suggestion, NextTarget(d)}
<1> DEFINE n == NextTarget(d)
<1>1. Suggest(d) = IF d.typed # "" THEN d ELSE [d EXCEPT !.suggestion = n]
  BY DEF Suggest
<1> HIDE DEF n
<1>2. CASE d.typed # ""
  <2>1. Suggest(d) = d
    BY <1>1, <1>2
  <2> QED
    BY <2>1, Zenon DEF SameCore, SameCounted
<1>3. CASE d.typed = ""
  <2>1. Suggest(d) = [d EXCEPT !.suggestion = n]
    BY <1>1, <1>3
  <2>2. /\ IsFeed(Suggest(d)) /\ SameCore(d, Suggest(d)) /\ SameCounted(d, Suggest(d))
        /\ Suggest(d).lines = d.lines /\ Suggest(d).shown = d.shown /\ Suggest(d).panel = d.panel
        /\ Suggest(d).map = d.map /\ Suggest(d).suggestion = n
    BY <2>1 DEF IsFeed, SameCore, SameCounted
  <2> QED
    BY <2>2 DEF n
<1> QED
  BY <1>2, <1>3

\* A square counted changes that one field.
LEMMA CountedIs ==
    ASSUME NEW d, IsFeed(d)
    PROVE  /\ IsFeed(Counted(d)) /\ SameCore(d, Counted(d))
           /\ Counted(d).lines = d.lines /\ Counted(d).shown = d.shown /\ Counted(d).panel = d.panel
           /\ Counted(d).map = d.map /\ Counted(d).suggestion = d.suggestion
<1> DEFINE n == {<<q.band, SquareOf(q.call)>> : q \in d.log[d.contest]}
<1>1. Counted(d) = [d EXCEPT !.counted = n]
  BY DEF Counted
<1> HIDE DEF n
<1> QED
  BY <1>1 DEF IsFeed, SameCore

\* The lines of one feed are looked at again.
LEMMA RebuildIs ==
    ASSUME NEW d, IsFeed(d), NEW f \in Feeds
    PROVE  LET e == RebuildRows(d, f)
           IN  /\ IsFeed(e) /\ SameCore(d, e) /\ SameCounted(d, e) /\ e.lines = d.lines
               /\ e.shown[f] = VisibleRows(d, f) /\ \A g \in Feeds \ {f} : e.shown[g] = d.shown[g]
               /\ e.panel = PanelRows(e)
               /\ e.map.worked \in {d.map.worked, CallsOf(d.log[d.contest])}
<1> DEFINE v == VisibleRows(d, f)
<1>1. CASE v = d.shown[f]
  <2> DEFINE p == PanelRows(d)
             e == [d EXCEPT !.panel = p]
  <2>1. RebuildRows(d, f) = e
    BY <1>1 DEF RebuildRows
  <2> HIDE DEF p
  <2>2. /\ IsFeed(e) /\ SameCore(d, e) /\ SameCounted(d, e) /\ e.lines = d.lines /\ e.shown = d.shown
        /\ e.panel = p /\ e.map = d.map
    BY DEF IsFeed, SameCore, SameCounted
  <2> HIDE DEF e
  <2>3. PanelRows(e) = p
    BY <2>2, PanelIs DEF p, SameCore
  <2> QED
    BY <1>1, <2>1, <2>2, <2>3
<1>2. CASE v # d.shown[f]
  <2> DEFINE e == [d EXCEPT !.shown[f] = v]
             p == PanelRows(e)
             g == [e EXCEPT !.panel = p]
             h == DrawMap(g)
  <2>1. RebuildRows(d, f) = Suggest(h)
    BY <1>2 DEF RebuildRows
  <2> HIDE DEF v
  <2>2. /\ IsFeed(e) /\ SameCore(d, e) /\ SameCounted(d, e) /\ e.lines = d.lines
        /\ e.shown[f] = v /\ \A k \in Feeds \ {f} : e.shown[k] = d.shown[k]
    BY DEF IsFeed, SameCore, SameCounted
  <2> HIDE DEF e, p
  <2>3. /\ IsFeed(g) /\ SameCore(e, g) /\ SameCounted(e, g) /\ g.lines = e.lines /\ g.shown = e.shown /\ g.panel = p
    BY <2>2 DEF IsFeed, SameCore, SameCounted
  <2> HIDE DEF g
  <2>4. /\ IsFeed(h) /\ SameCore(g, h) /\ SameCounted(g, h) /\ h.lines = g.lines /\ h.shown = g.shown
        /\ h.panel = g.panel /\ h.map.worked = CallsOf(g.log[g.contest])
    BY <2>3, DrawMapIs
  <2> HIDE DEF h
  <2> DEFINE r == Suggest(h)
  <2>5. /\ IsFeed(r) /\ SameCore(h, r) /\ SameCounted(h, r) /\ r.lines = h.lines /\ r.shown = h.shown
        /\ r.panel = h.panel /\ r.map = h.map
    BY <2>4, SuggestIs
  <2> HIDE DEF r
  <2>6. SameCore(d, r) /\ SameCounted(d, r)
    BY <2>2, <2>3, <2>4, <2>5, Zenon DEF SameCore, SameCounted
  <2>7. r.panel = PanelRows(r)
    <3>1. r.panel = PanelOf(e.lines, e.shown, e.all)
      BY <2>3, <2>4, <2>5, PanelIs DEF p
    <3>2. r.lines = e.lines /\ r.shown = e.shown /\ r.all = e.all
      BY <2>3, <2>4, <2>5 DEF SameCore
    <3> QED
      BY <3>1, <3>2, PanelIs
  <2>8. r.map.worked = CallsOf(d.log[d.contest])
    BY <2>2, <2>3, <2>4, <2>5 DEF SameCore
  <2>9. r.lines = d.lines /\ r.shown[f] = v /\ \A k \in Feeds \ {f} : r.shown[k] = d.shown[k]
    BY <2>2, <2>3, <2>4, <2>5
  <2>10. RebuildRows(d, f) = r
    BY <2>1 DEF r
  <2> QED
    BY <2>5, <2>6, <2>7, <2>8, <2>9, <2>10 DEF v
<1> QED
  BY <1>1, <1>2

LineAgain(d, spot, geo, when) == [Line(d, spot, geo) EXCEPT !.at = when]
\* A line as it is marked by the log.
MarkedLine(d, spot, l) ==
    /\ l \in FdLine /\ l.spot = spot
    /\ l.worked = WorkedOf(d.log[d.contest], d.bands, spot)

\* A line is worked when the log says so.
LEMMA LineIs ==
    ASSUME NEW d, NEW spot \in FdSpots, NEW geo \in BOOLEAN, NEW when \in Nat, d.arrived \in Nat
    PROVE  MarkedLine(d, spot, Line(d, spot, geo)) /\ MarkedLine(d, spot, LineAgain(d, spot, geo, when))
<1>1. PICK w \in BOOLEAN : w = FeedWorked(d, spot)
  BY WorkedIs, WorkedIsBoolean
<1> DEFINE n == Score(d, spot, FeedWorked(d, spot))
<1>2. n \in 0..2
  <2>1. n \in {0, 1, 2}
    BY Zenon DEF Score
  <2> QED
    BY <2>1
<1> HIDE DEF n
<1>3. Line(d, spot, geo) = [spot |-> spot, geo |-> geo, worked |-> w, score |-> n, at |-> d.arrived]
  BY <1>1, Zenon DEF Line, n
<1>4. Line(d, spot, geo) \in FdLine /\ Line(d, spot, geo).spot = spot /\ Line(d, spot, geo).worked = w
  BY <1>2, <1>3 DEF FdLine
<1>5. /\ [Line(d, spot, geo) EXCEPT !.at = when] \in FdLine
      /\ [Line(d, spot, geo) EXCEPT !.at = when].spot = spot
      /\ [Line(d, spot, geo) EXCEPT !.at = when].worked = w
  BY <1>2, <1>3 DEF FdLine
<1> QED
  BY <1>1, <1>4, <1>5, WorkedIs, Zenon DEF MarkedLine, LineAgain

\* A feed with other lines.
LEMMA OtherLinesAre ==
    ASSUME NEW d, IsFeed(d), NEW f \in Feeds, NEW M
    PROVE  LET c == [d EXCEPT !.lines[f] = M]
           IN  /\ IsFeed(c) /\ SameCore(d, c) /\ SameCounted(d, c) /\ c.lines[f] = M
               /\ \A g \in Feeds \ {f} : c.lines[g] = d.lines[g]
               /\ c.shown = d.shown /\ c.map = d.map /\ c.panel = d.panel /\ c.suggestion = d.suggestion
  BY DEF IsFeed, SameCore, SameCounted

\* The lines, each marked as the log has it.
LinesAre(d, e, f) ==
    /\ e.lines[f] \in Seq(FdLine) /\ Len(e.lines[f]) <= FdMaxLines
    /\ \A i \in DOMAIN e.lines[f] :
          e.lines[f][i].worked = WorkedOf(d.log[d.contest], d.bands, e.lines[f][i].spot)

\* What is drawn of one feed.
ShownIs(e, f) == e.shown[f] = VisibleOf(e.lines[f], e.bands, e.raw, e.busy)

\* Every line of a feed is marked and scored again.
LEMMA ReworkedIs ==
    ASSUME NEW d, IsFeed(d), NEW f \in Feeds, d.lines[f] \in Seq(FdLine), Len(d.lines[f]) <= FdMaxLines, d.arrived \in Nat
    PROVE  LET e == Reworked(d, f)
           IN  /\ IsFeed(e) /\ SameCore(d, e) /\ SameCounted(d, e)
               /\ LinesAre(d, e, f) /\ ShownIs(e, f)
               /\ \A g \in Feeds \ {f} : e.lines[g] = d.lines[g] /\ e.shown[g] = d.shown[g]
               /\ e.panel = PanelRows(e)
               /\ e.map.worked \in {d.map.worked, CallsOf(d.log[d.contest])}
<1> DEFINE L == d.lines[f]
           again(i) == [Line(d, L[i].spot, L[i].geo) EXCEPT !.at = L[i].at]
           M == [i \in DOMAIN L |-> again(i)]
           c == [d EXCEPT !.lines[f] = M]
           e == RebuildRows(c, f)
<1>1. Reworked(d, f) = e
  BY DEF Reworked
<1>2. ASSUME NEW i \in DOMAIN L
      PROVE  /\ again(i) \in FdLine
             /\ again(i).worked = WorkedOf(d.log[d.contest], d.bands, again(i).spot)
  <2>1. L[i] \in FdLine
    BY ElementOfSeq, LenProperties
  <2>2. L[i].spot \in FdSpots /\ L[i].geo \in BOOLEAN /\ L[i].at \in Nat
    BY <2>1 DEF FdLine
  <2> DEFINE spot == L[i].spot
             geo == L[i].geo
             when == L[i].at
  <2>3. again(i) = [Line(d, spot, geo) EXCEPT !.at = when]
    OBVIOUS
  <2> HIDE DEF spot, geo, when, again, L
  <2>4. spot \in FdSpots /\ geo \in BOOLEAN /\ when \in Nat
    BY <2>2 DEF spot, geo, when
  <2> DEFINE l == LineAgain(d, spot, geo, when)
  <2>5. l \in FdLine /\ l.spot = spot /\ l.worked = WorkedOf(d.log[d.contest], d.bands, spot)
    BY <2>4, LineIs DEF MarkedLine
  <2>6. again(i) = l
    BY <2>3 DEF LineAgain
  <2> HIDE DEF l
  <2>7. again(i) \in FdLine
    BY <2>5, <2>6
  <2>8. again(i).spot = spot
    BY <2>5, <2>6
  <2>9. again(i).worked = WorkedOf(d.log[d.contest], d.bands, again(i).spot)
    BY <2>5, <2>6, <2>8, Zenon
  <2> QED
    BY <2>7, <2>9
<1>3. /\ M \in Seq(FdLine) /\ Len(M) = Len(L) /\ DOMAIN M = DOMAIN L
      /\ \A i \in DOMAIN M : M[i].worked = WorkedOf(d.log[d.contest], d.bands, M[i].spot)
  <2>1. DOMAIN L = 1..Len(L) /\ Len(L) \in Nat
    BY LenProperties
  <2> HIDE DEF L, again
  <2>2. M \in [1..Len(L) -> FdLine]
    BY <1>2, <2>1
  <2>3. M \in Seq(FdLine) /\ Len(M) = Len(L)
    BY <2>1, <2>2, SeqDef, LenProperties
  <2> QED
    BY <1>2, <2>3
<1> HIDE DEF M, L, again, e
<1>4. /\ IsFeed(c) /\ SameCore(d, c) /\ SameCounted(d, c) /\ c.lines[f] = M
      /\ \A g \in Feeds \ {f} : c.lines[g] = d.lines[g]
      /\ c.shown = d.shown /\ c.map = d.map
  BY OtherLinesAre
<1> HIDE DEF c
<1> USE DEF e
<1>5. /\ IsFeed(e) /\ SameCore(c, e) /\ SameCounted(c, e) /\ e.lines = c.lines
      /\ e.shown[f] = VisibleRows(c, f) /\ \A g \in Feeds \ {f} : e.shown[g] = c.shown[g]
      /\ e.panel = PanelRows(e)
      /\ e.map.worked \in {c.map.worked, CallsOf(c.log[c.contest])}
  BY <1>4, RebuildIs
<1> HIDE DEF e
<1>6. SameCore(d, e) /\ SameCounted(d, e)
  BY <1>4, <1>5, Zenon DEF SameCore, SameCounted
<1>7. LinesAre(d, e, f)
  BY <1>3, <1>4, <1>5 DEF LinesAre, L
<1>8. ShownIs(e, f)
  <2>1. VisibleRows(c, f) = VisibleOf(c.lines[f], c.bands, c.raw, c.busy)
    BY VisibleIs
  <2>2. e.bands = c.bands /\ e.raw = c.raw /\ e.busy = c.busy /\ e.lines = c.lines
    BY <1>5, Zenon DEF SameCore
  <2> QED
    BY <1>5, <2>1, <2>2, Zenon DEF ShownIs
<1>9. e.map.worked \in {d.map.worked, CallsOf(d.log[d.contest])}
  <2>1. c.log = d.log /\ c.contest = d.contest /\ c.map = d.map
    BY <1>4 DEF SameCore
  <2> QED
    BY <1>5, <2>1
<1>10. \A g \in Feeds \ {f} : e.lines[g] = d.lines[g] /\ e.shown[g] = d.shown[g]
  BY <1>4, <1>5
<1> QED
  BY <1>1, <1>5, <1>6, <1>7, <1>8, <1>9, <1>10

\* Both feeds.
LEMMA BothReworkedIs ==
    ASSUME NEW d, IsFeed(d), \A f \in Feeds : d.lines[f] \in Seq(FdLine) /\ Len(d.lines[f]) <= FdMaxLines, d.arrived \in Nat
    PROVE  LET e == Reworked(Reworked(d, "kst"), "cluster")
           IN  /\ IsFeed(e) /\ SameCore(d, e) /\ SameCounted(d, e)
               /\ \A f \in Feeds : LinesAre(e, e, f) /\ ShownIs(e, f)
               /\ e.panel = PanelRows(e)
               /\ e.map.worked \in {d.map.worked, CallsOf(d.log[d.contest])}
<1> DEFINE c == Reworked(d, "kst")
           e == Reworked(c, "cluster")
<1>0. Feeds = {"kst", "cluster"} /\ "kst" # "cluster"
  BY DEF Feeds
<1>1. /\ IsFeed(c) /\ SameCore(d, c) /\ SameCounted(d, c)
      /\ LinesAre(d, c, "kst") /\ ShownIs(c, "kst")
      /\ c.lines["cluster"] = d.lines["cluster"]
      /\ c.map.worked \in {d.map.worked, CallsOf(d.log[d.contest])}
  BY <1>0, ReworkedIs
<1> HIDE DEF c
<1>2. /\ c.lines["cluster"] \in Seq(FdLine) /\ Len(c.lines["cluster"]) <= FdMaxLines
      /\ c.arrived \in Nat /\ c.log = d.log /\ c.contest = d.contest /\ c.bands = d.bands
      /\ c.raw = d.raw /\ c.busy = d.busy
  BY <1>0, <1>1, Zenon DEF SameCore
<1>3. /\ IsFeed(e) /\ SameCore(c, e) /\ SameCounted(c, e)
      /\ LinesAre(c, e, "cluster") /\ ShownIs(e, "cluster")
      /\ e.lines["kst"] = c.lines["kst"] /\ e.shown["kst"] = c.shown["kst"]
      /\ e.panel = PanelRows(e)
      /\ e.map.worked \in {c.map.worked, CallsOf(c.log[c.contest])}
  BY <1>0, <1>1, <1>2, ReworkedIs
<1> HIDE DEF e
<1>4. SameCore(d, e) /\ SameCounted(d, e)
  BY <1>1, <1>3, Zenon DEF SameCore, SameCounted
<1>5. e.log = d.log /\ e.contest = d.contest /\ e.bands = d.bands /\ e.raw = c.raw /\ e.busy = c.busy /\ e.bands = c.bands
  BY <1>2, <1>3, Zenon DEF SameCore
<1>6. LinesAre(e, e, "kst") /\ LinesAre(e, e, "cluster")
  BY <1>1, <1>2, <1>3, <1>5 DEF LinesAre
<1>7. ShownIs(e, "kst")
  BY <1>1, <1>3, <1>5, Zenon DEF ShownIs
<1>8. e.map.worked \in {d.map.worked, CallsOf(d.log[d.contest])}
  BY <1>1, <1>2, <1>3
<1> QED
  BY <1>0, <1>3, <1>4, <1>6, <1>7, <1>8 DEF e, c

\* Lines marked, what is visible of them, and the panel are right; the map too.
FeedsAre(e) ==
    /\ IsFeed(e) /\ e.contest \in FdContests /\ e.arrived \in Nat
    /\ \A f \in Feeds : LinesAre(e, e, f) /\ ShownIs(e, f)
    /\ e.panel = PanelRows(e)
MapIs(e) == e.map.worked = CallsOf(e.log[e.contest])
FdInv == FeedsAre(fd) /\ MapIs(fd)

\* What the readings of the feeds look at is the same.
SameReadings(d, e) ==
    /\ e.contest = d.contest /\ e.log = d.log /\ e.bands = d.bands /\ e.raw = d.raw /\ e.busy = d.busy
    /\ e.all = d.all /\ e.lines = d.lines /\ e.shown = d.shown /\ e.panel = d.panel

\* The feeds stay right as long as nothing they go by is changed.
LEMMA FeedsStay ==
    ASSUME NEW d, NEW e, FeedsAre(d), SameReadings(d, e), IsFeed(e), e.arrived \in Nat
    PROVE  FeedsAre(e) /\ (e.map.worked = d.map.worked /\ MapIs(d) => MapIs(e))
<1>1. ASSUME NEW f \in Feeds
      PROVE  LinesAre(e, e, f) /\ ShownIs(e, f)
  <2>1. LinesAre(d, d, f) /\ ShownIs(d, f)
    BY DEF FeedsAre
  <2>2. e.log = d.log /\ e.contest = d.contest /\ e.bands = d.bands /\ e.lines = d.lines
    BY Zenon DEF SameReadings
  <2>3. LinesAre(e, e, f)
    BY <2>1, <2>2 DEF LinesAre
  <2>4. ShownIs(e, f)
    BY <2>1, Zenon DEF ShownIs, SameReadings
  <2> QED
    BY <2>3, <2>4
<1>2. e.panel = PanelRows(e)
  BY PanelIs, Zenon DEF FeedsAre, SameReadings
<1>3. e.contest \in FdContests /\ (e.map.worked = d.map.worked /\ MapIs(d) => MapIs(e))
  BY Zenon DEF FeedsAre, SameReadings, MapIs
<1> QED
  BY <1>1, <1>2, <1>3 DEF FeedsAre

\* After the map and the suggestion are drawn.
LEMMA DrawnIs ==
    ASSUME NEW d, FeedsAre(d)
    PROVE  FeedsAre(Suggest(DrawMap(d))) /\ MapIs(Suggest(DrawMap(d)))
<1> DEFINE m == DrawMap(d)
           s == Suggest(m)
<1>0. IsFeed(d) /\ d.arrived \in Nat
  BY DEF FeedsAre
<1>1. /\ IsFeed(m) /\ SameCore(d, m) /\ m.lines = d.lines /\ m.shown = d.shown /\ m.panel = d.panel
      /\ m.map.worked = CallsOf(d.log[d.contest])
  BY <1>0, DrawMapIs
<1> HIDE DEF m
<1>2. IsFeed(s) /\ SameCore(m, s) /\ s.lines = m.lines /\ s.shown = m.shown /\ s.panel = m.panel /\ s.map = m.map
  BY <1>1, SuggestIs
<1> HIDE DEF s
<1>3. SameReadings(d, s) /\ s.arrived = d.arrived
  BY <1>1, <1>2, Zenon DEF SameCore, SameReadings
<1>4. FeedsAre(s)
  BY <1>0, <1>2, <1>3, FeedsStay
<1>5. s.map.worked = CallsOf(s.log[s.contest])
  <2>1. s.log = d.log /\ s.contest = d.contest
    BY <1>3, Zenon DEF SameReadings
  <2> QED
    BY <1>1, <1>2, <2>1
<1> QED
  BY <1>4, <1>5 DEF MapIs, m, s

\* Whatever the log, the contest or the bands, feeds marked again are right.
LEMMA MarkedAgain ==
    ASSUME NEW d, IsFeed(d), \A f \in Feeds : d.lines[f] \in Seq(FdLine) /\ Len(d.lines[f]) <= FdMaxLines,
           d.arrived \in Nat, d.contest \in FdContests
    PROVE  LET e == Reworked(Reworked(d, "kst"), "cluster")
           IN  FeedsAre(e) /\ SameCore(d, e)
<1> DEFINE e == Reworked(Reworked(d, "kst"), "cluster")
<1>1. IsFeed(e) /\ SameCore(d, e) /\ (\A f \in Feeds : LinesAre(e, e, f) /\ ShownIs(e, f)) /\ e.panel = PanelRows(e)
  BY BothReworkedIs
<1> HIDE DEF e
<1>2. e.contest \in FdContests /\ e.arrived \in Nat
  BY <1>1, Zenon DEF SameCore
<1>3. FeedsAre(e)
  BY <1>1, <1>2 DEF FeedsAre
<1> QED
  BY <1>1, <1>3 DEF e

\* After a change of the log: lines marked anew, and all that is shown of them.
LEMMA AfterLogChangeIs ==
    ASSUME NEW d, IsFeed(d), \A f \in Feeds : d.lines[f] \in Seq(FdLine) /\ Len(d.lines[f]) <= FdMaxLines,
           d.arrived \in Nat, d.contest \in FdContests
    PROVE  FeedsAre(AfterLogChange(d)) /\ MapIs(AfterLogChange(d))
<1> DEFINE c == Counted(d)
           e == Reworked(Reworked(c, "kst"), "cluster")
<1>1. AfterLogChange(d) = Suggest(DrawMap(e))
  BY DEF AfterLogChange, RefreshFeeds
<1>2. IsFeed(c) /\ SameCore(d, c) /\ c.lines = d.lines
  BY CountedIs
<1> HIDE DEF c
<1>3. c.arrived \in Nat /\ c.contest \in FdContests
  BY <1>2, Zenon DEF SameCore
<1>4. FeedsAre(e)
  BY <1>2, <1>3, MarkedAgain
<1> HIDE DEF e
<1> QED
  BY <1>1, <1>4, DrawnIs

\* Both feeds are looked at again after a setting.
LEMMA BothRebuiltIs ==
    ASSUME NEW d, IsFeed(d), d.contest \in FdContests, d.arrived \in Nat, \A f \in Feeds : LinesAre(d, d, f), MapIs(d)
    PROVE  LET e == RebuildRows(RebuildRows(d, "kst"), "cluster") IN FeedsAre(e) /\ MapIs(e)
<1> DEFINE c == RebuildRows(d, "kst")
           e == RebuildRows(c, "cluster")
<1>0. Feeds = {"kst", "cluster"} /\ "kst" # "cluster"
  BY DEF Feeds
<1>1. /\ IsFeed(c) /\ SameCore(d, c) /\ c.lines = d.lines
      /\ c.shown["kst"] = VisibleRows(d, "kst")
      /\ c.map.worked \in {d.map.worked, CallsOf(d.log[d.contest])}
  BY <1>0, RebuildIs
<1> HIDE DEF c
<1>2. /\ IsFeed(e) /\ SameCore(c, e) /\ e.lines = c.lines
      /\ e.shown["cluster"] = VisibleRows(c, "cluster") /\ e.shown["kst"] = c.shown["kst"]
      /\ e.panel = PanelRows(e)
      /\ e.map.worked \in {c.map.worked, CallsOf(c.log[c.contest])}
  BY <1>0, <1>1, RebuildIs
<1> HIDE DEF e
<1>3. /\ e.log = d.log /\ e.contest = d.contest /\ e.bands = d.bands /\ e.raw = d.raw /\ e.busy = d.busy
      /\ c.log = d.log /\ c.contest = d.contest /\ c.bands = d.bands /\ c.raw = d.raw /\ c.busy = d.busy
      /\ e.lines = d.lines /\ e.arrived = d.arrived
  BY <1>1, <1>2, Zenon DEF SameCore
<1>4. ShownIs(e, "kst") /\ ShownIs(e, "cluster")
  <2>1. e.shown["kst"] = VisibleOf(d.lines["kst"], d.bands, d.raw, d.busy)
    BY <1>1, <1>2, VisibleIs
  <2>2. e.shown["cluster"] = VisibleOf(c.lines["cluster"], c.bands, c.raw, c.busy)
    BY <1>2, VisibleIs
  <2> QED
    BY <1>1, <1>3, <2>1, <2>2, Zenon DEF ShownIs
<1>5. \A f \in Feeds : LinesAre(e, e, f)
  BY <1>3 DEF LinesAre
<1>6. e.map.worked = CallsOf(e.log[e.contest])
  BY <1>1, <1>2, <1>3 DEF MapIs
<1> QED
  BY <1>0, <1>2, <1>3, <1>4, <1>5, <1>6 DEF FeedsAre, MapIs, e, c

\* What the invariant says of the lines alone.
LEMMA FeedFacts ==
    ASSUME NEW d, FeedsAre(d)
    PROVE  /\ IsFeed(d) /\ d.contest \in FdContests /\ d.arrived \in Nat
           /\ \A f \in Feeds : LinesAre(d, d, f) /\ d.lines[f] \in Seq(FdLine) /\ Len(d.lines[f]) <= FdMaxLines
           /\ d.log = [c \in FdContests |-> d.log[c]]
  BY DEF FeedsAre, LinesAre, IsFeed

\* One field changes.
LEMMA FieldsAre ==
    ASSUME NEW d, IsFeed(d), NEW n
    PROVE  /\ LET e == [d EXCEPT !.arrived = n]
              IN IsFeed(e) /\ SameReadings(d, e) /\ e.map = d.map /\ e.arrived = n
           /\ LET e == [d EXCEPT !.typed = n]
              IN IsFeed(e) /\ SameReadings(d, e) /\ e.map = d.map /\ e.arrived = d.arrived
  BY DEF IsFeed, SameReadings

\* A line arrives in one feed.
LEMMA ArriveIsRight ==
    ASSUME FeedAssumption, FdInv, NEW f \in Feeds, NEW spot \in FdSpots, Arrive(f, spot)
    PROVE  FdInv'
<1> DEFINE d == [fd EXCEPT !.arrived = @ + 1]
<1>0. FeedsAre(fd) /\ MapIs(fd)
  BY DEF FdInv
<1>1. /\ IsFeed(fd) /\ fd.contest \in FdContests /\ fd.arrived \in Nat
      /\ \A g \in Feeds : LinesAre(fd, fd, g) /\ fd.lines[g] \in Seq(FdLine) /\ Len(fd.lines[g]) <= FdMaxLines
  BY <1>0, FeedFacts
<1>2. IsFeed(d) /\ SameReadings(fd, d) /\ d.map = fd.map /\ d.arrived = fd.arrived + 1
  BY <1>1, FieldsAre
<1> DEFINE new == Line(d, spot, d.site \in spot.near)
           lines == Append(d.lines[f], new)
           kept == IF Len(lines) > FdMaxLines THEN Tail(lines) ELSE lines
           c == [d EXCEPT !.lines[f] = kept]
           e == RebuildRows(c, f)
<1>3. fd' = e
  BY DEF Arrive
<1> HIDE DEF d
<1>4. /\ d.arrived \in Nat /\ d.contest \in FdContests /\ d.log = fd.log /\ d.contest = fd.contest /\ d.bands = fd.bands
      /\ d.lines = fd.lines /\ d.shown = fd.shown /\ d.raw = fd.raw /\ d.busy = fd.busy
  <2>1. /\ d.contest = fd.contest /\ d.log = fd.log /\ d.bands = fd.bands
        /\ d.lines = fd.lines /\ d.shown = fd.shown /\ d.raw = fd.raw /\ d.busy = fd.busy
    BY <1>2, Zenon DEF SameReadings
  <2>2. d.arrived \in Nat
    BY <1>1, <1>2
  <2> QED
    BY <1>1, <2>1, <2>2, Zenon
<1>5. new \in FdLine /\ new.spot = spot /\ new.worked = WorkedOf(d.log[d.contest], d.bands, spot)
  <2>1. PICK geo \in BOOLEAN : geo = (d.site \in spot.near)
    <3>1. CASE d.site \in spot.near
      <4> PICK yes \in BOOLEAN : yes = TRUE
        OBVIOUS
      <4>1. yes = (d.site \in spot.near)
        BY <3>1
      <4> QED
        BY <4>1
    <3>2. CASE d.site \notin spot.near
      <4> PICK no \in BOOLEAN : no = FALSE
        OBVIOUS
      <4>1. no = (d.site \in spot.near)
        BY <3>2
      <4> QED
        BY <4>1
    <3> QED
      BY <3>1, <3>2
  <2>2. new = Line(d, spot, geo)
    BY <2>1, Zenon
  <2>3. MarkedLine(d, spot, Line(d, spot, geo))
    BY <1>4, LineIs, 0 \in Nat
  <2> HIDE DEF new
  <2> QED
    BY <2>2, <2>3 DEF MarkedLine
<1> HIDE DEF new
<1>6. /\ kept \in Seq(FdLine) /\ Len(kept) <= FdMaxLines
      /\ \A i \in DOMAIN kept : kept[i].worked = WorkedOf(d.log[d.contest], d.bands, kept[i].spot)
  <2> DEFINE old == d.lines[f]
  <2>1. old \in Seq(FdLine) /\ Len(old) <= FdMaxLines /\ FdMaxLines \in Nat \ {0}
        /\ \A i \in DOMAIN old : old[i].worked = WorkedOf(d.log[d.contest], d.bands, old[i].spot)
    <3>1. LinesAre(fd, fd, f) /\ fd.lines[f] \in Seq(FdLine) /\ Len(fd.lines[f]) <= FdMaxLines
      BY <1>1
    <3>2. \A i \in DOMAIN fd.lines[f] :
            fd.lines[f][i].worked = WorkedOf(fd.log[fd.contest], fd.bands, fd.lines[f][i].spot)
      BY <3>1 DEF LinesAre
    <3> QED
      BY <1>4, <3>1, <3>2 DEF FeedAssumption
  <2> HIDE DEF old
  <2>2. lines = Append(old, new)
    BY DEF old
  <2> HIDE DEF lines
  <2>3. /\ lines \in Seq(FdLine) /\ Len(lines) = Len(old) + 1 /\ lines[Len(old) + 1] = new
        /\ \A i \in 1..Len(old) : lines[i] = old[i]
    BY <1>5, <2>1, <2>2, AppendProperties
  <2>4. Len(old) \in Nat /\ DOMAIN old = 1..Len(old) /\ DOMAIN lines = 1..(Len(old) + 1)
    BY <2>1, <2>3, LenProperties
  <2>5. \A i \in DOMAIN lines : lines[i].worked = WorkedOf(d.log[d.contest], d.bands, lines[i].spot)
    <3>1. ASSUME NEW i \in DOMAIN lines
          PROVE  lines[i].worked = WorkedOf(d.log[d.contest], d.bands, lines[i].spot)
      <4>1. CASE i = Len(old) + 1
        BY <1>5, <2>3, <4>1, Zenon
      <4>2. CASE i # Len(old) + 1
        <5>1. i \in 1..Len(old)
          BY <2>4, <4>2
        <5>2. lines[i] = old[i] /\ i \in DOMAIN old
          BY <2>3, <2>4, <5>1
        <5> QED
          BY <2>1, <5>2, Zenon
      <4> QED
        BY <4>1, <4>2
    <3> QED
      BY <3>1
  <2>6. CASE Len(lines) > FdMaxLines
    <3>1. kept = Tail(lines)
      BY <2>6
    <3> HIDE DEF kept
    <3>2. lines # <<>>
      BY <2>3, <2>4, EmptySeq
    <3>3. /\ kept \in Seq(FdLine) /\ Len(kept) = Len(lines) - 1
          /\ \A i \in 1..Len(kept) : kept[i] = lines[i + 1]
      BY <2>3, <3>1, <3>2, HeadTailProperties
    <3>4. Len(kept) = Len(old) /\ DOMAIN kept = 1..Len(old)
      BY <2>3, <2>4, <3>3, LenProperties
    <3>5. \A i \in DOMAIN kept : kept[i] = lines[i + 1] /\ i + 1 \in DOMAIN lines
      BY <2>4, <3>3, <3>4
    <3>6. \A i \in DOMAIN kept : kept[i].worked = WorkedOf(d.log[d.contest], d.bands, kept[i].spot)
      BY <2>5, <3>5, Zenon
    <3> QED
      BY <2>1, <3>3, <3>4, <3>6
  <2>7. CASE ~(Len(lines) > FdMaxLines)
    <3>1. kept = lines /\ Len(lines) <= FdMaxLines
      BY <2>1, <2>3, <2>4, <2>7
    <3> HIDE DEF kept
    <3> QED
      BY <2>3, <2>5, <3>1, Zenon
  <2> QED
    BY <2>6, <2>7
<1> HIDE DEF kept
<1>7. /\ IsFeed(c) /\ SameCore(d, c) /\ c.lines[f] = kept
      /\ \A g \in Feeds \ {f} : c.lines[g] = d.lines[g]
      /\ c.shown = d.shown /\ c.map = d.map
  BY <1>2, OtherLinesAre
<1> HIDE DEF c
<1>8. /\ IsFeed(e) /\ SameCore(c, e) /\ e.lines = c.lines
      /\ e.shown[f] = VisibleRows(c, f) /\ \A g \in Feeds \ {f} : e.shown[g] = c.shown[g]
      /\ e.panel = PanelRows(e)
      /\ e.map.worked \in {c.map.worked, CallsOf(c.log[c.contest])}
  BY <1>7, RebuildIs
<1> HIDE DEF e
<1>9. /\ e.log = fd.log /\ e.contest = fd.contest /\ e.bands = fd.bands /\ e.raw = fd.raw /\ e.busy = fd.busy
      /\ c.log = fd.log /\ c.contest = fd.contest /\ c.bands = fd.bands /\ c.raw = fd.raw /\ c.busy = fd.busy
      /\ e.arrived = d.arrived
  BY <1>4, <1>7, <1>8, Zenon DEF SameCore
<1>10. ASSUME NEW g \in Feeds
       PROVE  LinesAre(e, e, g) /\ ShownIs(e, g)
  <2>1. CASE g = f
    <3>1. e.lines[g] = kept
      BY <1>7, <1>8, <2>1
    <3>2. e.shown[g] = VisibleOf(c.lines[g], c.bands, c.raw, c.busy)
      BY <1>8, <2>1, VisibleIs
    <3>3. ShownIs(e, g)
      BY <1>8, <1>9, <3>2, Zenon DEF ShownIs
    <3>4. LinesAre(e, e, g)
      BY <1>4, <1>6, <1>9, <3>1 DEF LinesAre
    <3> QED
      BY <3>3, <3>4
  <2>2. CASE g # f
    <3>1. e.lines[g] = fd.lines[g] /\ e.shown[g] = fd.shown[g]
      BY <1>4, <1>7, <1>8, <2>2
    <3>2. LinesAre(fd, fd, g) /\ ShownIs(fd, g)
      BY <1>0 DEF FeedsAre
    <3>3. LinesAre(e, e, g)
      BY <1>9, <3>1, <3>2 DEF LinesAre
    <3>4. ShownIs(e, g)
      BY <1>9, <3>1, <3>2, Zenon DEF ShownIs
    <3> QED
      BY <3>3, <3>4
  <2> QED
    BY <2>1, <2>2
<1>11. MapIs(e)
  BY <1>0, <1>2, <1>7, <1>8, <1>9 DEF MapIs
<1>12. e.contest \in FdContests /\ e.arrived \in Nat
  BY <1>1, <1>4, <1>9
<1> QED
  BY <1>3, <1>8, <1>10, <1>11, <1>12 DEF FdInv, FeedsAre

\* A state of the feeds has its fields after any one of them changed.
LEMMA FieldsStay ==
    ASSUME NEW d, IsFeed(d), NEW n
    PROVE  /\ IsFeed([d EXCEPT !.handled = n]) /\ IsFeed([d EXCEPT !.bands = n])
           /\ IsFeed([d EXCEPT !.contest = n]) /\ IsFeed([d EXCEPT !.site = n])
           /\ \A k : IsFeed([d EXCEPT !.log[k] = n]) /\ IsFeed([d EXCEPT !.rules[k] = n])
<1>1. IsFeed([d EXCEPT !.handled = n]) /\ IsFeed([d EXCEPT !.bands = n])
  BY DEF IsFeed
<1>2. IsFeed([d EXCEPT !.contest = n]) /\ IsFeed([d EXCEPT !.site = n])
  BY DEF IsFeed
<1>3. ASSUME NEW k
      PROVE  IsFeed([d EXCEPT !.log[k] = n])
  BY DEF IsFeed
<1>4. ASSUME NEW k
      PROVE  IsFeed([d EXCEPT !.rules[k] = n])
  BY DEF IsFeed
<1> QED
  BY <1>1, <1>2, <1>3, <1>4

\* A callsign is put into the entry row, which the feeds do not look at.
LEMMA TypedIsRight ==
    ASSUME NEW d, FeedsAre(d), MapIs(d), NEW call
    PROVE  FeedsAre([d EXCEPT !.typed = call]) /\ MapIs([d EXCEPT !.typed = call])
<1> DEFINE e == [d EXCEPT !.typed = call]
<1>1. IsFeed(d) /\ d.arrived \in Nat
  BY FeedFacts
<1>2. IsFeed(e) /\ SameReadings(d, e) /\ e.map = d.map /\ e.arrived = d.arrived
  BY <1>1, FieldsAre
<1> HIDE DEF e
<1>3. e.map.worked = d.map.worked /\ e.arrived \in Nat
  BY <1>1, <1>2
<1>4. FeedsAre(e) /\ MapIs(e)
  BY <1>2, <1>3, FeedsStay
<1> QED
  BY <1>4 DEF e

\* The log changes, and everything is drawn again.
LEMMA LogChangeIsRight ==
    ASSUME NEW d, FeedsAre(d), NEW n, NEW m
    PROVE  LET e == AfterLogChange([d EXCEPT !.log[d.contest] = n, !.handled = m]) IN FeedsAre(e) /\ MapIs(e)
<1> DEFINE c == [d EXCEPT !.log[d.contest] = n, !.handled = m]
<1>1. /\ IsFeed(d) /\ d.contest \in FdContests /\ d.arrived \in Nat
      /\ \A f \in Feeds : d.lines[f] \in Seq(FdLine) /\ Len(d.lines[f]) <= FdMaxLines
  BY FeedFacts
<1>2. IsFeed(c) /\ c.lines = d.lines /\ c.arrived = d.arrived /\ c.contest = d.contest
  <2> DEFINE k == d.contest
             b == [d EXCEPT !.log[k] = n]
             a == [b EXCEPT !.handled = m]
  <2>1. IsFeed(b) /\ b.lines = d.lines /\ b.arrived = d.arrived /\ b.contest = d.contest
    <3>1. IsFeed(b)
      BY <1>1, FieldsStay
    <3>2. b.lines = d.lines /\ b.arrived = d.arrived /\ b.contest = d.contest
      BY <1>1 DEF IsFeed
    <3> QED
      BY <3>1, <3>2
  <2>2. c = a
    BY Zenon
  <2> HIDE DEF b
  <2>3. IsFeed(a)
    BY <2>1, FieldsStay
  <2>4. a.lines = b.lines /\ a.arrived = b.arrived /\ a.contest = b.contest
    BY <2>1 DEF IsFeed
  <2> HIDE DEF a, c
  <2> QED
    BY <2>1, <2>2, <2>3, <2>4
<1> HIDE DEF c
<1>3. FeedsAre(AfterLogChange(c)) /\ MapIs(AfterLogChange(c))
  BY <1>1, <1>2, AfterLogChangeIs
<1> QED
  BY <1>3 DEF c

\* Another contest or another place: all feeds are marked, with the bands it had
\* and again when they are others.
LEMMA ApplySettingsIsRight ==
    ASSUME FdInv, NEW contest \in FdContests, NEW site, ApplyFeedSettings(contest, site)
    PROVE  FdInv'
<1> DEFINE d == [fd EXCEPT !.contest = contest, !.site = site, !.handled = @ + 1]
           r == Reworked(Reworked(d, "kst"), "cluster")
           marked == Counted(r)
           e == [marked EXCEPT !.bands = d.rules[contest]]
           z == IF e.bands = d.bands THEN e ELSE Reworked(Reworked(e, "kst"), "cluster")
<1>1. /\ IsFeed(fd) /\ fd.contest \in FdContests /\ fd.arrived \in Nat
      /\ \A f \in Feeds : fd.lines[f] \in Seq(FdLine) /\ Len(fd.lines[f]) <= FdMaxLines
  BY FeedFacts DEF FdInv
<1>2. IsFeed(d) /\ d.lines = fd.lines /\ d.arrived = fd.arrived /\ d.contest = contest
  <2> DEFINE m == fd.handled + 1
  <2>1. d = [fd EXCEPT !.contest = contest, !.site = site, !.handled = m]
    OBVIOUS
  <2> HIDE DEF m, d
  <2> QED
    BY <1>1, <2>1 DEF IsFeed
<1>3. fd' = Suggest(DrawMap(z))
  BY DEF ApplyFeedSettings
<1> HIDE DEF d
<1>4. FeedsAre(r) /\ SameCore(d, r)
  BY <1>1, <1>2, MarkedAgain
<1> HIDE DEF r
<1>5. IsFeed(r) /\ r.arrived \in Nat
  BY <1>4, FeedFacts
<1>6. /\ IsFeed(marked) /\ SameCore(r, marked) /\ marked.lines = r.lines /\ marked.shown = r.shown
      /\ marked.panel = r.panel
  BY <1>5, CountedIs
<1> HIDE DEF marked
<1>7. FeedsAre(marked)
  <2>1. SameReadings(r, marked) /\ marked.arrived = r.arrived
    BY <1>6, Zenon DEF SameReadings, SameCore
  <2> QED
    BY <1>4, <1>5, <1>6, <2>1, FeedsStay
<1>8. /\ IsFeed(marked) /\ marked.contest \in FdContests /\ marked.arrived \in Nat
      /\ \A f \in Feeds : marked.lines[f] \in Seq(FdLine) /\ Len(marked.lines[f]) <= FdMaxLines
  BY <1>7, FeedFacts
<1>9. marked.bands = d.bands
  BY <1>4, <1>6, Zenon DEF SameCore
<1>10. /\ IsFeed(e) /\ e.lines = marked.lines /\ e.arrived = marked.arrived /\ e.contest = marked.contest
       /\ (e.bands = d.bands => SameReadings(marked, e))
  <2> DEFINE n == d.rules[contest]
  <2> HIDE DEF n
  <2>1. e = [marked EXCEPT !.bands = n]
    BY DEF n
  <2> QED
    <3>1. IsFeed(e)
      BY <1>8, <2>1, FieldsStay
    <3>2. /\ e.lines = marked.lines /\ e.arrived = marked.arrived /\ e.contest = marked.contest
          /\ e.log = marked.log /\ e.raw = marked.raw /\ e.busy = marked.busy /\ e.all = marked.all
          /\ e.shown = marked.shown /\ e.panel = marked.panel
      BY <1>8, <2>1 DEF IsFeed
    <3> HIDE DEF e
    <3>3. e.bands = d.bands => SameReadings(marked, e)
      BY <1>9, <3>2, Zenon DEF SameReadings
    <3> QED
      BY <3>1, <3>2, <3>3
<1> HIDE DEF e
<1>11. FeedsAre(z)
  <2>1. CASE e.bands = d.bands
    <3>1. z = e /\ FeedsAre(e)
      BY <1>7, <1>8, <1>10, <2>1, FeedsStay
    <3> QED
      BY <3>1, Zenon
  <2>2. CASE e.bands # d.bands
    <3> DEFINE y == Reworked(Reworked(e, "kst"), "cluster")
    <3>1. FeedsAre(y)
      BY <1>8, <1>10, MarkedAgain
    <3>2. z = y
      BY <2>2
    <3> QED
      BY <3>1, <3>2, Zenon
  <2> QED
    BY <2>1, <2>2
<1> HIDE DEF z
<1>12. FeedsAre(fd') /\ MapIs(fd')
  BY <1>3, <1>11, DrawnIs
<1> QED
  BY <1>12 DEF FdInv, FeedsAre, MapIs

\* The rules of a contest change: the squares are counted again.
LEMMA EditRulesIsRight ==
    ASSUME FdInv, NEW contest, NEW bands, EditFeedRules(contest, bands)
    PROVE  FdInv'
<1> DEFINE m == fd.handled + 1
           d == [fd EXCEPT !.rules[contest] = bands, !.handled = m]
           e == Counted(d)
<1>1. fd' = e
  BY DEF EditFeedRules
<1>2. IsFeed(fd) /\ fd.arrived \in Nat /\ FeedsAre(fd) /\ MapIs(fd)
  BY FeedFacts DEF FdInv
<1> HIDE DEF m
<1>3. IsFeed(d) /\ SameReadings(fd, d) /\ d.map = fd.map /\ d.arrived = fd.arrived
  <2> DEFINE b == [fd EXCEPT !.rules[contest] = bands]
             a == [b EXCEPT !.handled = m]
  <2>1. IsFeed(b)
    BY <1>2, FieldsStay
  <2>2. SameReadings(fd, b) /\ b.map = fd.map /\ b.arrived = fd.arrived
    BY <1>2 DEF IsFeed, SameReadings
  <2>3. d = a
    BY Zenon
  <2> HIDE DEF b
  <2>4. IsFeed(a)
    BY <2>1, FieldsStay
  <2>5. SameReadings(b, a) /\ a.map = b.map /\ a.arrived = b.arrived
    BY <2>1 DEF IsFeed, SameReadings
  <2> HIDE DEF a, d
  <2>6. SameReadings(fd, a)
    BY <2>2, <2>5, Zenon DEF SameReadings
  <2> QED
    BY <2>2, <2>3, <2>4, <2>5, <2>6
<1> HIDE DEF d
<1>4. IsFeed(e) /\ SameCore(d, e) /\ e.lines = d.lines /\ e.shown = d.shown /\ e.panel = d.panel /\ e.map = d.map
  BY <1>3, CountedIs
<1> HIDE DEF e
<1>5. SameReadings(fd, e) /\ e.arrived = fd.arrived /\ e.map.worked = fd.map.worked
  BY <1>3, <1>4, Zenon DEF SameReadings, SameCore
<1>6. e.arrived \in Nat
  BY <1>2, <1>5
<1>7. FeedsAre(e) /\ MapIs(e)
  BY <1>2, <1>4, <1>5, <1>6, FeedsStay
<1> QED
  BY <1>1, <1>7 DEF FdInv, FeedsAre, MapIs

\* A setting of the readings changes.
LEMMA SwitchOf ==
    ASSUME NEW d, FeedsAre(d), MapIs(d), NEW b
    PROVE  /\ LET c == [d EXCEPT !.busy = b]
                  e == RebuildRows(RebuildRows(c, "kst"), "cluster") IN FeedsAre(e) /\ MapIs(e)
           /\ LET c == [d EXCEPT !.raw = b]
                  e == RebuildRows(RebuildRows(c, "kst"), "cluster") IN FeedsAre(e) /\ MapIs(e)
<1>1. /\ IsFeed(d) /\ d.contest \in FdContests /\ d.arrived \in Nat
      /\ \A f \in Feeds : LinesAre(d, d, f)
  BY FeedFacts
<1> DEFINE c == [d EXCEPT !.busy = b]
           g == [d EXCEPT !.raw = b]
<1>2. /\ IsFeed(c) /\ c.contest = d.contest /\ c.arrived = d.arrived /\ c.lines = d.lines /\ c.map = d.map
      /\ c.log = d.log /\ c.bands = d.bands
  BY <1>1 DEF IsFeed
<1>3. /\ IsFeed(g) /\ g.contest = d.contest /\ g.arrived = d.arrived /\ g.lines = d.lines /\ g.map = d.map
      /\ g.log = d.log /\ g.bands = d.bands
  BY <1>1 DEF IsFeed
<1> HIDE DEF c, g
<1>4. (\A f \in Feeds : LinesAre(c, c, f)) /\ MapIs(c)
  BY <1>1, <1>2 DEF LinesAre, MapIs
<1>5. (\A f \in Feeds : LinesAre(g, g, f)) /\ MapIs(g)
  BY <1>1, <1>3 DEF LinesAre, MapIs
<1> DEFINE e == RebuildRows(RebuildRows(c, "kst"), "cluster")
           h == RebuildRows(RebuildRows(g, "kst"), "cluster")
<1>6. FeedsAre(e) /\ MapIs(e)
  BY <1>1, <1>2, <1>4, BothRebuiltIs
<1>7. FeedsAre(h) /\ MapIs(h)
  BY <1>1, <1>3, <1>5, BothRebuiltIs
<1> QED
  BY <1>6, <1>7 DEF c, g

\* Every line or only the visible ones: the panel is drawn again.
LEMMA ShowAllIsRight ==
    ASSUME NEW d, FeedsAre(d), MapIs(d), NEW b
    PROVE  LET c == [d EXCEPT !.all = b]
               e == [c EXCEPT !.panel = PanelRows(c)] IN FeedsAre(e) /\ MapIs(e)
<1> DEFINE c == [d EXCEPT !.all = b]
           p == PanelRows(c)
           e == [c EXCEPT !.panel = p]
<1>1. IsFeed(d) /\ d.contest \in FdContests /\ d.arrived \in Nat
  BY FeedFacts
<1>2. /\ IsFeed(c) /\ c.contest = d.contest /\ c.arrived = d.arrived /\ c.lines = d.lines /\ c.map = d.map
      /\ c.log = d.log /\ c.bands = d.bands /\ c.raw = d.raw /\ c.busy = d.busy /\ c.shown = d.shown
  BY <1>1 DEF IsFeed
<1> HIDE DEF c, p
<1>3. /\ IsFeed(e) /\ e.contest = d.contest /\ e.arrived = d.arrived /\ e.lines = d.lines /\ e.map = d.map
      /\ e.log = d.log /\ e.bands = d.bands /\ e.raw = d.raw /\ e.busy = d.busy /\ e.shown = d.shown
      /\ e.panel = p /\ e.all = c.all
  BY <1>2 DEF IsFeed
<1> HIDE DEF e
<1>4. \A f \in Feeds : LinesAre(e, e, f)
  BY <1>3 DEF FeedsAre, LinesAre
<1>5. \A f \in Feeds : ShownIs(e, f)
  BY <1>3, Zenon DEF FeedsAre, ShownIs
<1>6. MapIs(e)
  BY <1>3 DEF MapIs
<1>7. e.panel = PanelRows(e)
  <2>1. p = PanelOf(c.lines, c.shown, c.all)
    BY PanelIs DEF p
  <2>2. PanelRows(e) = PanelOf(e.lines, e.shown, e.all)
    BY PanelIs
  <2> QED
    BY <1>2, <1>3, <2>1, <2>2, Zenon
<1>8. FeedsAre(e)
  BY <1>1, <1>3, <1>4, <1>5, <1>7 DEF FeedsAre
<1> QED
  BY <1>6, <1>8 DEF e, p, c

\* The invariant at the state after a step.
LEMMA FdInvAt == ASSUME FeedsAre(fd'), MapIs(fd') PROVE FdInv'
  BY DEF FdInv, FeedsAre, MapIs

\* The log, as a QSO is logged or corrected.
LEMMA LogFeedIsRight ==
    ASSUME FdInv, NEW band, LogFeedQso(band)
    PROVE  FdInv'
<1> DEFINE n == fd.log[fd.contest] \cup {[call |-> fd.typed, band |-> band]}
           m == fd.handled + 1
           c == [fd EXCEPT !.log[fd.contest] = n, !.handled = m]
           e == AfterLogChange(c)
<1>1. fd' = [e EXCEPT !.typed = ""]
  BY DEF LogFeedQso
<1> HIDE DEF n, m
<1>2. FeedsAre(fd) /\ MapIs(fd)
  BY DEF FdInv
<1>3. FeedsAre(e) /\ MapIs(e)
  BY <1>2, LogChangeIsRight
<1> HIDE DEF e
<1>4. FeedsAre([e EXCEPT !.typed = ""]) /\ MapIs([e EXCEPT !.typed = ""])
  BY <1>3, TypedIsRight
<1>5. FeedsAre(fd') /\ MapIs(fd')
  BY <1>1, <1>4
<1> QED
  BY <1>5, FdInvAt

\* A QSO taken out of the log, or another in its place.
LEMMA CorrectFeedIsRight ==
    ASSUME FdInv, NEW q, NEW p, CorrectFeedQso(q, p)
    PROVE  FdInv'
<1> DEFINE n == (fd.log[fd.contest] \ {q}) \cup p
           m == fd.handled + 1
           c == [fd EXCEPT !.log[fd.contest] = n, !.handled = m]
           e == AfterLogChange(c)
<1>1. fd' = e
  BY DEF CorrectFeedQso
<1> HIDE DEF n, m
<1>2. FeedsAre(fd) /\ MapIs(fd)
  BY DEF FdInv
<1>3. FeedsAre(e) /\ MapIs(e)
  BY <1>2, LogChangeIsRight
<1> HIDE DEF e
<1>4. FeedsAre(fd') /\ MapIs(fd')
  BY <1>1, <1>3
<1> QED
  BY <1>4, FdInvAt

\* A line arrives, or the operator does something.
LEMMA FdStep ==
    ASSUME FeedAssumption, FdInv, [FeedNext]_feedVars
    PROVE  FdInv'
<1>0. FeedsAre(fd) /\ MapIs(fd)
  BY DEF FdInv
<1>1. CASE UNCHANGED feedVars
  <2>1. fd' = fd
    BY <1>1 DEF feedVars
  <2>2. FeedsAre(fd') /\ MapIs(fd')
    BY <1>0, <2>1
  <2> QED
    BY <2>2, FdInvAt
<1>2. CASE \E f \in Feeds, s \in FdSpots : Arrive(f, s)
  BY <1>2, ArriveIsRight
<1>3. ASSUME NEW call, PutCallsign(call)
      PROVE  FdInv'
  <2>1. fd' = [fd EXCEPT !.typed = call]
    BY <1>3 DEF PutCallsign
  <2>2. FeedsAre([fd EXCEPT !.typed = call]) /\ MapIs([fd EXCEPT !.typed = call])
    BY <1>0, TypedIsRight
  <2>3. FeedsAre(fd') /\ MapIs(fd')
    BY <2>1, <2>2
  <2> QED
    BY <2>3, FdInvAt
<1>4. CASE \E b \in fd.rules[fd.contest] : LogFeedQso(b)
  BY <1>4, LogFeedIsRight
<1>5. CASE \E q \in fd.log[fd.contest] : \E p \in {{}} \cup {{[q EXCEPT !.call = c]} : c \in Heard} : CorrectFeedQso(q, p)
  BY <1>5, CorrectFeedIsRight
<1>6. CASE \E c \in FdContests, s \in FdSites : ApplyFeedSettings(c, s)
  BY <1>6, ApplySettingsIsRight
<1>7. CASE \E c \in FdContests, bands \in (SUBSET FdBands) \ {{}} : EditFeedRules(c, bands)
  BY <1>7, EditRulesIsRight
<1>8. CASE PaceChanges
  <2> DEFINE b == ~fd.busy
             c == [fd EXCEPT !.busy = b]
             e == RebuildRows(RebuildRows(c, "kst"), "cluster")
  <2>1. fd' = e
    BY <1>8 DEF PaceChanges
  <2> HIDE DEF b
  <2>2. FeedsAre(e) /\ MapIs(e)
    BY <1>0, SwitchOf
  <2> HIDE DEF e
  <2>3. FeedsAre(fd') /\ MapIs(fd')
    BY <2>1, <2>2
  <2> QED
    BY <2>3, FdInvAt
<1>9. CASE ToggleRawFeed
  <2> DEFINE b == ~fd.raw
             c == [fd EXCEPT !.raw = b]
             e == RebuildRows(RebuildRows(c, "kst"), "cluster")
  <2>1. fd' = e
    BY <1>9 DEF ToggleRawFeed
  <2> HIDE DEF b
  <2>2. FeedsAre(e) /\ MapIs(e)
    BY <1>0, SwitchOf
  <2> HIDE DEF e
  <2>3. FeedsAre(fd') /\ MapIs(fd')
    BY <2>1, <2>2
  <2> QED
    BY <2>3, FdInvAt
<1>10. CASE ToggleShowAll
  <2> DEFINE b == ~fd.all
             c == [fd EXCEPT !.all = b]
             e == [c EXCEPT !.panel = PanelRows(c)]
  <2>1. fd' = e
    BY <1>10 DEF ToggleShowAll
  <2> HIDE DEF b
  <2>2. FeedsAre(e) /\ MapIs(e)
    BY <1>0, ShowAllIsRight
  <2> HIDE DEF e
  <2>3. FeedsAre(fd') /\ MapIs(fd')
    BY <2>1, <2>2
  <2> QED
    BY <2>3, FdInvAt
<1> QED
  BY <1>1, <1>2, <1>3, <1>4, <1>5, <1>6, <1>7, <1>8, <1>9, <1>10 DEF FeedNext

\* The empty feeds.
LEMMA FdStarts == ASSUME FeedAssumption, FeedInit PROVE FdInv
<1>1. IsFeed(fd)
  BY DEF FeedInit, IsFeed
<1>2. /\ fd.arrived = 0 /\ fd.panel = {} /\ fd.map.worked = {} /\ fd.log[fd.contest] = {}
      /\ fd.contest \in FdContests
  BY DEF FeedInit
<1>3. \A f \in Feeds : fd.lines[f] = <<>> /\ fd.shown[f] = {}
  BY DEF FeedInit
<1>4. ASSUME NEW f \in Feeds
      PROVE  LinesAre(fd, fd, f)
  <2> DEFINE l == fd.lines[f]
  <2>1. l \in Seq(FdLine) /\ Len(l) = 0 /\ DOMAIN l = {}
    <3>1. l = <<>>
      BY <1>3
    <3> HIDE DEF l
    <3>2. l \in Seq(FdLine) /\ Len(l) = 0
      BY <3>1, EmptySeq
    <3>3. DOMAIN l = 1..Len(l)
      BY <3>2, LenProperties
    <3> QED
      BY <3>2, <3>3
  <2>2. FdMaxLines \in Nat
    BY DEF FeedAssumption
  <2> HIDE DEF l
  <2>3. Len(l) <= FdMaxLines
    BY <2>1, <2>2
  <2> QED
    BY <2>1, <2>3 DEF LinesAre, l
<1>5. ASSUME NEW f \in Feeds
      PROVE  ShownIs(fd, f)
  <2> DEFINE s == Survivors(fd.lines[f], fd.bands)
  <2>1. s = {} /\ DOMAIN fd.lines[f] = {}
    <3> DEFINE l == fd.lines[f]
    <3>1. DOMAIN l = {}
      BY <1>3, EmptySeq
    <3> HIDE DEF l
    <3>2. Survivors(l, fd.bands) = {}
      BY <3>1, Zenon DEF Survivors
    <3> QED
      BY <3>1, <3>2 DEF l
  <2> DEFINE v == VisibleOf(fd.lines[f], fd.bands, fd.raw, fd.busy)
  <2>2. CASE fd.raw
    <3>1. v = DOMAIN fd.lines[f]
      BY <2>2, Zenon DEF VisibleOf
    <3> HIDE DEF v
    <3>2. v = {}
      BY <2>1, <3>1
    <3> QED
      BY <1>3, <3>2 DEF ShownIs, v
  <2>3. CASE ~fd.raw
    <3>1. v \subseteq s
      BY <2>3, Zenon DEF VisibleOf
    <3> HIDE DEF v
    <3>2. v = {}
      BY <2>1, <3>1
    <3> QED
      BY <1>3, <3>2 DEF ShownIs, v
  <2> QED
    BY <2>2, <2>3
<1>6. fd.panel = PanelRows(fd)
  <2>1. \A f \in Feeds : DOMAIN fd.lines[f] = {} /\ fd.shown[f] = {}
    BY <1>3, EmptySeq
  <2> DEFINE rows(f) == IF fd.all THEN DOMAIN fd.lines[f] ELSE fd.shown[f]
             p == UNION {{[feed |-> f, line |-> fd.lines[f][i]] : i \in rows(f)} : f \in Feeds}
  <2>a. PanelOf(fd.lines, fd.shown, fd.all) = p
    BY DEF PanelOf
  <2>b. \A f \in Feeds : rows(f) = {}
    BY <2>1
  <2> HIDE DEF rows
  <2>c. p = {}
    BY <2>b
  <2> HIDE DEF p
  <2>2. PanelOf(fd.lines, fd.shown, fd.all) = {}
    BY <2>a, <2>c
  <2> QED
    BY <1>2, <2>2, PanelIs
<1>7. MapIs(fd)
  BY <1>2 DEF MapIs, CallsOf
<1> QED
  BY <1>1, <1>2, <1>4, <1>5, <1>6, <1>7 DEF FdInv, FeedsAre

\* Lines marked and shown as the log has it are what the operator reads.
LEMMA FdShows == ASSUME FdInv PROVE FeedFollowsTheLog
<1>0. FeedsAre(fd) /\ MapIs(fd)
  BY DEF FdInv
<1>1. ASSUME NEW f \in Feeds, NEW i \in DOMAIN fd.lines[f]
      PROVE  LET l == fd.lines[f][i]
             IN /\ l.worked = FeedWorked(fd, l.spot)
                /\ ~fd.raw /\ l.worked => i \notin fd.shown[f]
                /\ l.geo /\ ~l.worked /\ OnContestBand(fd, l.spot) /\ ~fd.busy => i \in fd.shown[f]
  <2> DEFINE l == fd.lines[f][i]
             s == Survivors(fd.lines[f], fd.bands)
  <2>1. fd.shown[f] = VisibleOf(fd.lines[f], fd.bands, fd.raw, fd.busy)
    BY <1>0 DEF FeedsAre, ShownIs
  <2>2. ~fd.raw => fd.shown[f] \subseteq s
    BY <2>1, Zenon DEF VisibleOf
  <2>3. ~fd.raw /\ ~fd.busy => fd.shown[f] = s
    BY <2>1, Zenon DEF VisibleOf
  <2>4. fd.raw => fd.shown[f] = DOMAIN fd.lines[f]
    BY <2>1, Zenon DEF VisibleOf
  <2>5. l.worked => i \notin s
    BY Zenon DEF Survivors
  <2>6. l.geo /\ ~l.worked /\ OnContestBand(fd, l.spot) => i \in s
    BY Zenon DEF Survivors, OnContestBand
  <2>7. l.worked = FeedWorked(fd, l.spot)
    <3>1. l.worked = WorkedOf(fd.log[fd.contest], fd.bands, l.spot)
      BY <1>0, Zenon DEF FeedsAre, LinesAre
    <3> QED
      BY <3>1, WorkedIs, Zenon
  <2> HIDE DEF s, l
  <2> SUFFICES /\ l.worked = FeedWorked(fd, l.spot)
               /\ ~fd.raw /\ l.worked => i \notin fd.shown[f]
               /\ l.geo /\ ~l.worked /\ OnContestBand(fd, l.spot) /\ ~fd.busy => i \in fd.shown[f]
    BY DEF l
  <2>8. ~fd.raw /\ l.worked => i \notin fd.shown[f]
    BY <2>2, <2>5, Zenon
  <2>9. l.geo /\ ~l.worked /\ OnContestBand(fd, l.spot) /\ ~fd.busy => i \in fd.shown[f]
    BY <2>3, <2>4, <2>6, Zenon
  <2> QED
    BY <2>7, <2>8, <2>9, Zenon
<1>2. fd.panel = PanelRows(fd)
  BY <1>0 DEF FeedsAre
<1>3. fd.map.worked = {q.call : q \in fd.log[fd.contest]}
  BY <1>0 DEF MapIs, CallsOf
<1> QED
  BY <1>1, <1>2, <1>3, Zenon DEF FeedFollowsTheLog

-----------------------------------------------------------------------------
(* Skeds *)

SkRow == [id : Nat, contest : SkContests, call : SkCalls, band : SkBands, time : Nat, state : SkedStates]

\* The table: a sked at its id, or none.
SkTableIs(table) ==
    /\ table \in Seq(SkRow \cup {NoSked})
    /\ \A i \in DOMAIN table : table[i] # NoSked => table[i] \in SkRow /\ table[i].id = i

SkedsOf(table, contest) == {j \in DOMAIN table : table[j] # NoSked /\ table[j].contest = contest}
EarlierOf(table, contest, i) == {j \in SkedsOf(table, contest) : EarlierSked(table[j], table[i])}
SkedAt(table, contest, n) ==
    CHOOSE i \in SkedsOf(table, contest) : Cardinality(EarlierOf(table, contest, i)) = n - 1
HowMany(table, contest) == Cardinality(SkedsOf(table, contest))

\* The rows of a contest are listed by their minutes, each once.
LEMMA SkedsAreOrdered ==
    ASSUME NEW table, SkTableIs(table), NEW contest
    PROVE  /\ HowMany(table, contest) \in Nat
           /\ \A n \in 1..HowMany(table, contest) : SkedAt(table, contest, n) \in SkedsOf(table, contest)
           /\ \A n, m \in 1..HowMany(table, contest) : SkedAt(table, contest, n) = SkedAt(table, contest, m) => n = m
           /\ \A i \in SkedsOf(table, contest) : \E n \in 1..HowMany(table, contest) : SkedAt(table, contest, n) = i
<1> DEFINE S == SkedsOf(table, contest)
           R == {p \in S \X S : EarlierSked(table[p[1]], table[p[2]])}
           c == HowMany(table, contest)
           At(n) == SkedAt(table, contest, n)
           Rank(i) == Cardinality(EarlierOf(table, contest, i))
<1>1. \A i \in S : i \in Nat /\ table[i].time \in Nat /\ table[i].id = i /\ i \in DOMAIN table
  <2>1. \A i \in DOMAIN table : i \in Nat
    BY LenProperties DEF SkTableIs
  <2>2. \A r \in SkRow : r.time \in Nat
    BY DEF SkRow
  <2> QED
    BY <2>1, <2>2 DEF SkTableIs, SkedsOf
<1>2. IsFiniteSet(S)
  <2>1. table \in Seq(SkRow \cup {NoSked}) /\ S \subseteq DOMAIN table
    BY DEF SkTableIs, SkedsOf
  <2>2. IsFiniteSet(DOMAIN table)
    BY <2>1, LenProperties, FS_Interval, 1 \in Int
  <2> HIDE DEF S
  <2> QED
    BY <2>1, <2>2, FS_Subset
<1>3. \A i, j \in S : <<j, i>> \in R <=> EarlierSked(table[j], table[i])
  OBVIOUS
<1> HIDE DEF R
<1>4. \A i \in S : <<i, i>> \notin R
  BY <1>1, <1>3 DEF EarlierSked
<1>5. \A i, j, k \in S : <<i, j>> \in R /\ <<j, k>> \in R => <<i, k>> \in R
  <2> HIDE DEF S
  <2> SUFFICES ASSUME NEW i \in S, NEW j \in S, NEW k \in S, <<i, j>> \in R, <<j, k>> \in R
               PROVE  <<i, k>> \in R
    OBVIOUS
  <2> DEFINE a == table[i].time
             b == table[j].time
             e == table[k].time
  <2>1. a \in Nat /\ b \in Nat /\ e \in Nat /\ i \in Nat /\ j \in Nat /\ k \in Nat
    BY <1>1
  <2>2. (a < b \/ (a = b /\ i < j)) /\ (b < e \/ (b = e /\ j < k))
    BY <1>1, <1>3 DEF EarlierSked
  <2> HIDE DEF a, b, e
  <2>3. a < e \/ (a = e /\ i < k)
    BY <2>1, <2>2
  <2> QED
    BY <1>1, <1>3, <2>3 DEF EarlierSked, a, e
<1>6. \A i, j \in S : i = j \/ <<i, j>> \in R \/ <<j, i>> \in R
  <2> HIDE DEF S
  <2> SUFFICES ASSUME NEW i \in S, NEW j \in S
               PROVE  i = j \/ <<i, j>> \in R \/ <<j, i>> \in R
    OBVIOUS
  <2> DEFINE a == table[i].time
             b == table[j].time
  <2>1. a \in Nat /\ b \in Nat /\ i \in Nat /\ j \in Nat
    BY <1>1
  <2> HIDE DEF a, b
  <2>2. i = j \/ (a < b \/ (a = b /\ i < j)) \/ (b < a \/ (b = a /\ j < i))
    BY <2>1
  <2> QED
    BY <1>1, <1>3, <2>2 DEF EarlierSked, a, b
<1>7. EachHasItsPlace(S, R)
  BY <1>2, <1>4, <1>5, <1>6, PlacesAreTaken
<1>8. \A i \in S : Ahead(S, R, i) = EarlierOf(table, contest, i)
  BY <1>3 DEF Ahead, EarlierOf
<1>9. c = Cardinality(S)
  BY DEF HowMany
<1>10. \A n : At(n) = CHOOSE i \in S : Rank(i) = n - 1
  BY DEF SkedAt
<1> HIDE DEF S, c, At, Rank
<1>11. \A i \in S : Cardinality(Ahead(S, R, i)) = Rank(i)
  BY <1>8 DEF Rank
<1>12. /\ c \in Nat /\ (\A i \in S : Rank(i) \in Nat /\ Rank(i) + 1 \in 1..c)
       /\ (\A i, j \in S : Rank(i) = Rank(j) => i = j)
       /\ (\A n \in 1..c : \E i \in S : Rank(i) = n - 1)
  BY <1>7, <1>9, <1>11 DEF EachHasItsPlace
<1>13. \A n \in 1..c : At(n) \in S /\ Rank(At(n)) = n - 1
  BY <1>10, <1>12
<1>14. \A n, m \in 1..c : At(n) = At(m) => n = m
  <2> SUFFICES ASSUME NEW n \in 1..c, NEW m \in 1..c, At(n) = At(m)
               PROVE  n = m
    OBVIOUS
  <2>1. n - 1 = m - 1 /\ n \in Nat /\ m \in Nat
    BY <1>12, <1>13
  <2> QED
    BY <2>1
<1>15. ASSUME NEW i \in S
       PROVE  \E n \in 1..c : At(n) = i
  <2> DEFINE n == Rank(i) + 1
  <2>1. n \in 1..c /\ n - 1 = Rank(i)
    BY <1>12
  <2>2. At(n) \in S /\ Rank(At(n)) = Rank(i)
    BY <1>13, <2>1
  <2>3. At(n) = i
    BY <1>12, <2>2
  <2> QED
    BY <2>1, <2>3
<1> QED
  BY <1>12, <1>13, <1>14, <1>15 DEF S, c, At

\* What is read: the rows, in that order.
LEMMA SkedsRead ==
    ASSUME NEW table, SkTableIs(table), NEW contest
    PROVE  /\ DOMAIN ReadSkeds(table, contest) = 1..HowMany(table, contest)
           /\ \A n \in 1..HowMany(table, contest) :
                 /\ ReadSkeds(table, contest)[n] = table[SkedAt(table, contest, n)]
                 /\ ReadSkeds(table, contest)[n].id = SkedAt(table, contest, n)
                 /\ ReadSkeds(table, contest)[n] \in SkRow
<1>1. ReadSkeds(table, contest) = [n \in 1..HowMany(table, contest) |-> table[SkedAt(table, contest, n)]]
  BY DEF ReadSkeds, HowMany, SkedAt, EarlierOf, SkedsOf
<1>2. \A n \in 1..HowMany(table, contest) : SkedAt(table, contest, n) \in SkedsOf(table, contest)
  BY SkedsAreOrdered
<1>3. \A i \in SkedsOf(table, contest) : table[i] \in SkRow /\ table[i].id = i
  BY DEF SkedsOf, SkTableIs
<1> QED
  BY <1>1, <1>2, <1>3

\* The order is that of the minutes: states do not change it.
LEMMA SameOrder ==
    ASSUME NEW table, NEW other, SkTableIs(table), SkTableIs(other), NEW contest,
           SkedsOf(other, contest) = SkedsOf(table, contest),
           \A i \in SkedsOf(table, contest) : other[i].time = table[i].time
    PROVE  /\ HowMany(other, contest) = HowMany(table, contest)
           /\ \A n : SkedAt(other, contest, n) = SkedAt(table, contest, n)
<1> DEFINE S == SkedsOf(table, contest)
<1>1. \A i \in S : table[i].id = i /\ other[i].id = i
  <2>1. \A i \in S : table[i].id = i
    BY DEF SkedsOf, SkTableIs
  <2>2. \A i \in SkedsOf(other, contest) : other[i].id = i
    BY DEF SkedsOf, SkTableIs
  <2> QED
    BY <2>1, <2>2
<1> HIDE DEF S
<1>2. \A i \in S : EarlierOf(other, contest, i) = EarlierOf(table, contest, i)
  BY <1>1 DEF EarlierOf, EarlierSked, S
<1>3. \A n : (CHOOSE i \in S : Cardinality(EarlierOf(other, contest, i)) = n - 1)
             = (CHOOSE i \in S : Cardinality(EarlierOf(table, contest, i)) = n - 1)
  BY <1>2
<1> QED
  BY <1>3 DEF HowMany, SkedAt, S

\* Judge() in the contest that is active then.
JudgeAt(contest, sked, log, now) ==
    IF sked.state # "open" THEN sked
    ELSE IF <<contest, sked.call, sked.band>> \in log THEN [sked EXCEPT !.state = "done"]
    ELSE IF IsOverdue(sked, now) THEN [sked EXCEPT !.state = "missed"] ELSE sked

SameSked(s, t) == s.id = t.id /\ s.time = t.time /\ s.call = t.call /\ s.band = t.band /\ s.contest = t.contest
\* A sked on the list is the table's, or ahead of it after a failed write.
NotBehind(s, t, faults) ==
    s.state # t.state => t.state = "open" /\ s.state \in {"done", "missed"} /\ faults > 0
IsSettled(s, contest, log, now) ==
    s.state = "open" => <<contest, s.call, s.band>> \notin log /\ ~IsOverdue(s, now)

\* A sked judged is itself, closed or not, and open only when nothing closes it.
LEMMA JudgedIs ==
    ASSUME NEW s \in SkRow, NEW contest, NEW log, NEW now
    PROVE  LET j == JudgeAt(contest, s, log, now)
           IN  /\ j \in SkRow /\ SameSked(j, s) /\ IsSettled(j, contest, log, now)
               /\ (j.state = s.state \/ (s.state = "open" /\ j.state \in {"done", "missed"}))
<1> DEFINE j == JudgeAt(contest, s, log, now)
           d == [s EXCEPT !.state = "done"]
           m == [s EXCEPT !.state = "missed"]
<1>1. d \in SkRow /\ SameSked(d, s) /\ d.state = "done" /\ m \in SkRow /\ SameSked(m, s) /\ m.state = "missed"
  BY DEF SkRow, SkedStates, SameSked
<1>2. CASE s.state # "open"
  <2>1. j = s
    BY <1>2 DEF JudgeAt
  <2> QED
    BY <1>2, <2>1 DEF SameSked, IsSettled
<1>3. CASE s.state = "open" /\ <<contest, s.call, s.band>> \in log
  <2>1. j = d
    BY <1>3 DEF JudgeAt
  <2> HIDE DEF j, d, m
  <2> QED
    BY <1>1, <1>3, <2>1 DEF IsSettled, j
<1>4. CASE s.state = "open" /\ <<contest, s.call, s.band>> \notin log /\ IsOverdue(s, now)
  <2>1. j = m
    BY <1>4 DEF JudgeAt
  <2> HIDE DEF j, d, m
  <2> QED
    BY <1>1, <1>4, <2>1 DEF IsSettled, j
<1>5. CASE s.state = "open" /\ <<contest, s.call, s.band>> \notin log /\ ~IsOverdue(s, now)
  <2>1. j = s
    BY <1>5 DEF JudgeAt
  <2> QED
    BY <1>5, <2>1 DEF SameSked, IsSettled
<1> QED
  BY <1>2, <1>3, <1>4, <1>5

\* The list shows the rows of the table in their order.
ListFor(table, contest, list) ==
    /\ DOMAIN list = 1..HowMany(table, contest)
    /\ \A n \in DOMAIN list : /\ list[n] \in SkRow /\ list[n].id = SkedAt(table, contest, n)
                              /\ SameSked(list[n], table[SkedAt(table, contest, n)])

\* Skeds of the list are written where they stand in the table.
LEMMA WrittenIs ==
    ASSUME NEW table, SkTableIs(table), NEW contest, NEW list, ListFor(table, contest, list), NEW fails \in BOOLEAN
    PROVE  LET other == Written(table, list, fails)
           IN  /\ SkTableIs(other) /\ DOMAIN other = DOMAIN table
               /\ SkedsOf(other, contest) = SkedsOf(table, contest)
               /\ \A i \in SkedsOf(table, contest) : SameSked(other[i], table[i])
               /\ (fails => \A i \in DOMAIN table : other[i] = table[i])
               /\ (~fails => \A n \in DOMAIN list : other[list[n].id].state = list[n].state)
<1> DEFINE other == Written(table, list, fails)
           S == SkedsOf(table, contest)
           Of(i) == CHOOSE s \in ToSet(list) : s.id = i
<1>1. \A s \in ToSet(list) : s \in SkRow /\ s.id \in S /\ \A t \in ToSet(list) : s.id = t.id => s = t
  <2>1. \A n \in DOMAIN list : list[n] \in SkRow /\ list[n].id \in S
    BY SkedsAreOrdered DEF ListFor
  <2>2. \A n, m \in DOMAIN list : list[n].id = list[m].id => n = m
    BY SkedsAreOrdered DEF ListFor
  <2> QED
    BY <2>1, <2>2 DEF ToSet
<1>2. \A i \in S : i \in DOMAIN table /\ table[i] # NoSked /\ table[i] \in SkRow /\ table[i].id = i
        /\ table[i].contest = contest
  BY DEF SkedsOf, SkTableIs
<1>3. other = [i \in DOMAIN table |->
                  IF fails \/ \A s \in ToSet(list) : s.id # i THEN table[i] ELSE [table[i] EXCEPT !.state = Of(i).state]]
  BY DEF Written
<1> HIDE DEF other
<1>4. \A i \in DOMAIN table \ S : other[i] = table[i]
  BY <1>1, <1>3
<1>5. fails => \A i \in DOMAIN table : other[i] = table[i]
  BY <1>3
<1>6. ASSUME NEW i \in S
      PROVE  /\ other[i] \in SkRow /\ SameSked(other[i], table[i])
             /\ (~fails => \A s \in ToSet(list) : s.id = i => other[i].state = s.state)
  <2>1. CASE fails \/ \A s \in ToSet(list) : s.id # i
    <3>1. other[i] = table[i]
      BY <1>2, <1>3, <2>1
    <3> QED
      BY <1>2, <2>1, <3>1 DEF SameSked
  <2>2. CASE ~fails /\ \E s \in ToSet(list) : s.id = i
    <3> PICK s \in ToSet(list) : s.id = i
      BY <2>2
    <3>1. Of(i) = s
      BY <1>1
    <3>2. other[i] = [table[i] EXCEPT !.state = s.state]
      <4>1. other[i] = [table[i] EXCEPT !.state = Of(i).state]
        BY <1>2, <1>3, <2>2
      <4> HIDE DEF Of
      <4> QED
        BY <3>1, <4>1
    <3>3. s.state \in SkedStates
      BY <1>1 DEF SkRow
    <3>4. other[i] \in SkRow /\ SameSked(other[i], table[i]) /\ other[i].state = s.state
      BY <1>2, <3>2, <3>3 DEF SkRow, SameSked
    <3> QED
      BY <1>1, <3>4
  <2> QED
    BY <2>1, <2>2
<1> HIDE DEF Of
<1>7. DOMAIN other = DOMAIN table
  BY <1>3
<1>8. \A r \in SkRow : r # NoSked
  <2>1. \A r \in SkRow : "id" \in DOMAIN r
    BY DEF SkRow
  <2>2. "id" \notin DOMAIN NoSked
    BY DEF NoSked
  <2> QED
    BY <2>1, <2>2
<1>9. SkTableIs(other)
  <2>1. table \in Seq(SkRow \cup {NoSked})
    BY DEF SkTableIs
  <2>2. DOMAIN table = 1..Len(table) /\ Len(table) \in Nat /\ \A i \in DOMAIN table : table[i] \in SkRow \cup {NoSked}
    BY <2>1, LenProperties, ElementOfSeq
  <2>3. \A i \in DOMAIN table : other[i] \in SkRow \cup {NoSked}
    BY <1>4, <1>6, <2>2
  <2>4. other \in [1..Len(table) -> SkRow \cup {NoSked}]
    BY <1>3, <2>2, <2>3
  <2>5. other \in Seq(SkRow \cup {NoSked})
    BY <2>2, <2>4, SeqDef
  <2>6. \A i \in DOMAIN other : other[i] # NoSked => other[i] \in SkRow /\ other[i].id = i
    <3>1. \A i \in S : other[i].id = i
      BY <1>2, <1>6 DEF SameSked
    <3>2. \A i \in DOMAIN table : table[i] # NoSked => table[i] \in SkRow /\ table[i].id = i
      BY DEF SkTableIs
    <3> HIDE DEF S
    <3> QED
      BY <1>4, <1>6, <1>7, <3>1, <3>2
  <2> QED
    BY <2>5, <2>6 DEF SkTableIs
<1>10. SkedsOf(other, contest) = S
  <2>1. \A i \in S : other[i] # NoSked /\ other[i].contest = contest
    BY <1>2, <1>6, <1>8 DEF SameSked
  <2>2. \A i \in DOMAIN table : i \in S <=> table[i] # NoSked /\ table[i].contest = contest
    BY DEF SkedsOf
  <2>3. S \subseteq DOMAIN table
    BY DEF SkedsOf
  <2> HIDE DEF S
  <2> QED
    BY <1>4, <1>7, <2>1, <2>2, <2>3 DEF SkedsOf
<1>11. ~fails => \A n \in DOMAIN list : other[list[n].id].state = list[n].state
  <2>1. \A n \in DOMAIN list : list[n] \in ToSet(list) /\ list[n].id \in S
    BY <1>1 DEF ToSet
  <2> QED
    BY <1>6, <2>1
<1> QED
  BY <1>5, <1>6, <1>7, <1>9, <1>10, <1>11 DEF other

AllNotBehind(table, list, faults) == \A n \in DOMAIN list : NotBehind(list[n], table[list[n].id], faults)
AllSettled(list, contest, log, now) == \A n \in DOMAIN list : IsSettled(list[n], contest, log, now)

\* The list judged, and written: it stays that of the table, settled, never behind.
LEMMA RefreshedIs ==
    ASSUME NEW table, SkTableIs(table), NEW contest, NEW list, ListFor(table, contest, list), NEW fails \in BOOLEAN,
           NEW faults \in Nat, AllNotBehind(table, list, faults), NEW log, NEW now
    PROVE  LET judged == [i \in DOMAIN list |-> JudgeAt(contest, list[i], log, now)]
               other == Written(table, judged, fails)
               more == faults + (IF fails THEN 1 ELSE 0)
           IN  /\ SkTableIs(other) /\ ListFor(other, contest, judged) /\ DOMAIN other = DOMAIN table
               /\ AllNotBehind(other, judged, more) /\ AllSettled(judged, contest, log, now) /\ more \in Nat
<1> DEFINE j(i) == JudgeAt(contest, list[i], log, now)
           judged == [i \in DOMAIN list |-> j(i)]
           other == Written(table, judged, fails)
           more == faults + (IF fails THEN 1 ELSE 0)
           S == SkedsOf(table, contest)
<1>1. \A n \in DOMAIN list :
         /\ j(n) \in SkRow /\ SameSked(j(n), list[n]) /\ IsSettled(j(n), contest, log, now)
         /\ (j(n).state = list[n].state \/ (list[n].state = "open" /\ j(n).state \in {"done", "missed"}))
  BY JudgedIs DEF ListFor
<1> HIDE DEF j
<1>2. DOMAIN judged = DOMAIN list /\ \A n \in DOMAIN list : judged[n] = j(n)
  OBVIOUS
<1> HIDE DEF judged
<1>3. ListFor(table, contest, judged)
  BY <1>1, <1>2 DEF ListFor, SameSked
<1>4. /\ SkTableIs(other) /\ DOMAIN other = DOMAIN table
      /\ SkedsOf(other, contest) = S
      /\ \A i \in S : SameSked(other[i], table[i])
      /\ (fails => \A i \in DOMAIN table : other[i] = table[i])
      /\ (~fails => \A n \in DOMAIN judged : other[judged[n].id].state = judged[n].state)
  BY <1>3, WrittenIs
<1> HIDE DEF other
<1>5. HowMany(other, contest) = HowMany(table, contest) /\ \A n : SkedAt(other, contest, n) = SkedAt(table, contest, n)
  <2>1. \A i \in S : other[i].time = table[i].time
    BY <1>4 DEF SameSked
  <2> QED
    BY <1>4, <2>1, SameOrder
<1>6. \A n \in DOMAIN judged : SkedAt(table, contest, n) \in S
  BY <1>3, SkedsAreOrdered DEF ListFor
<1>7. ListFor(other, contest, judged)
  BY <1>3, <1>4, <1>5, <1>6 DEF ListFor, SameSked
<1>8. AllSettled(judged, contest, log, now)
  BY <1>1, <1>2 DEF AllSettled
<1>9. more \in Nat /\ (fails => more > 0)
  OBVIOUS
<1> HIDE DEF more
<1>10. ASSUME NEW n \in DOMAIN judged
       PROVE  NotBehind(judged[n], other[judged[n].id], more)
  <2>1. judged[n].id = list[n].id /\ judged[n].id \in DOMAIN table
    <3>1. judged[n].id \in S
      BY <1>3, <1>6 DEF ListFor
    <3>2. S \subseteq DOMAIN table
      BY DEF SkedsOf
    <3> QED
      BY <1>1, <1>2, <3>1, <3>2 DEF SameSked
  <2>2. CASE fails
    <3>1. other[judged[n].id] = table[list[n].id]
      BY <1>4, <2>1, <2>2
    <3>2. NotBehind(list[n], table[list[n].id], faults)
      BY <1>2 DEF AllNotBehind
    <3> QED
      BY <1>1, <1>2, <1>9, <2>2, <3>1, <3>2 DEF NotBehind
  <2>3. CASE ~fails
    BY <1>4, <2>3 DEF NotBehind
  <2> QED
    BY <2>2, <2>3
<1>11. AllNotBehind(other, judged, more)
  BY <1>10 DEF AllNotBehind
<1> QED
  BY <1>4, <1>7, <1>8, <1>9, <1>11 DEF judged, other, more, j

\* A list just read is the table's.
LEMMA ReadIs ==
    ASSUME NEW table, SkTableIs(table), NEW contest, NEW faults
    PROVE  LET list == ReadSkeds(table, contest)
           IN  ListFor(table, contest, list) /\ AllNotBehind(table, list, faults)
<1> DEFINE list == ReadSkeds(table, contest)
<1>1. /\ DOMAIN list = 1..HowMany(table, contest)
      /\ \A n \in DOMAIN list : /\ list[n] = table[SkedAt(table, contest, n)] /\ list[n].id = SkedAt(table, contest, n)
                                /\ list[n] \in SkRow
  BY SkedsRead
<1> HIDE DEF list
<1>2. ListFor(table, contest, list)
  BY <1>1 DEF ListFor, SameSked
<1>3. AllNotBehind(table, list, faults)
  BY <1>1 DEF AllNotBehind, NotBehind
<1> QED
  BY <1>2, <1>3 DEF list

\* Only skeds of the table are announced.
LEMMA AlarmedAre ==
    ASSUME NEW table, SkTableIs(table), NEW contest, NEW list, ListFor(table, contest, list), NEW now,
           NEW due, due \subseteq NextOpen(list, now)
    PROVE  {s.id : s \in due} \subseteq DOMAIN table
<1>1. NextOpen(list, now) \subseteq ToSet(list)
  BY DEF NextOpen
<1>2. \A n \in DOMAIN list : list[n].id \in DOMAIN table
  BY SkedsAreOrdered DEF ListFor, SkedsOf
<1>3. \A s \in ToSet(list) : s.id \in DOMAIN table
  BY <1>2 DEF ToSet
<1> QED
  BY <1>1, <1>3

SkInv ==
    /\ SkTableIs(skTable) /\ skFaults \in Nat /\ skContest \in SkContests /\ skNow \in 0..SkHorizon
    /\ skAlarmed \subseteq DOMAIN skTable
    /\ ListFor(skTable, skContest, skList) /\ AllNotBehind(skTable, skList, skFaults)
    /\ (skSettled => AllSettled(skList, skContest, skLog, skNow))

\* The parts of the invariant at the state after a step.
LEMMA SkInvAt ==
    ASSUME SkTableIs(skTable'), skFaults' \in Nat, skContest' \in SkContests, skNow' \in 0..SkHorizon,
           skAlarmed' \subseteq DOMAIN skTable',
           ListFor(skTable', skContest', skList'), AllNotBehind(skTable', skList', skFaults'),
           skSettled' => AllSettled(skList', skContest', skLog', skNow')
    PROVE  SkInv'
  BY DEF SkInv

\* refreshSkeds(), whatever the list and the table it was called with.
LEMMA RefreshIsRight ==
    ASSUME NEW table, SkTableIs(table), NEW list, ListFor(table, skContest', list), skFaults \in Nat,
           AllNotBehind(table, list, skFaults), skAlarmed \subseteq DOMAIN table, NEW fails \in BOOLEAN,
           skContest' \in SkContests, skNow' \in 0..SkHorizon, RefreshSkeds(table, list, fails)
    PROVE  SkInv'
<1> DEFINE judged == [i \in DOMAIN list |-> JudgeAt(skContest', list[i], skLog', skNow')]
           other == Written(table, judged, fails)
           more == skFaults + (IF fails THEN 1 ELSE 0)
           due == {s \in NextOpen(judged, skNow') : skNow' >= s.time - DueBefore}
<1>1. \A s : Judge(s, skLog', skNow') = JudgeAt(skContest', s, skLog', skNow')
  BY DEF Judge, JudgeAt
<1>2. [i \in DOMAIN list |-> Judge(list[i], skLog', skNow')] = judged
  BY <1>1
<1>3. /\ skList' = judged /\ skTable' = other /\ skAlarmed' = skAlarmed \cup {s.id : s \in due}
      /\ skFaults' = more
  BY <1>2 DEF RefreshSkeds
<1>4. /\ SkTableIs(other) /\ ListFor(other, skContest', judged) /\ DOMAIN other = DOMAIN table
      /\ AllNotBehind(other, judged, more) /\ AllSettled(judged, skContest', skLog', skNow') /\ more \in Nat
  BY RefreshedIs
<1> HIDE DEF judged, other, more
<1>5. skAlarmed' \subseteq DOMAIN other
  <2>1. due \subseteq NextOpen(judged, skNow')
    OBVIOUS
  <2> HIDE DEF due
  <2>2. {s.id : s \in due} \subseteq DOMAIN other
    BY <1>4, <2>1, AlarmedAre
  <2> QED
    BY <1>3, <1>4, <2>2
<1> QED
  BY <1>3, <1>4, <1>5, SkInvAt

\* reloadSkeds(): read, and refreshed.
LEMMA ReloadIsRight ==
    ASSUME NEW table, SkTableIs(table), skFaults \in Nat, skAlarmed \subseteq DOMAIN table, NEW fails \in BOOLEAN,
           skContest' \in SkContests, skNow' \in 0..SkHorizon, ReloadSkeds(table, fails)
    PROVE  SkInv'
<1> DEFINE list == ReadSkeds(table, skContest')
<1>1. ListFor(table, skContest', list) /\ AllNotBehind(table, list, skFaults)
  BY ReadIs
<1>2. RefreshSkeds(table, list, fails)
  BY DEF ReloadSkeds
<1> HIDE DEF list
<1> QED
  BY <1>1, <1>2, RefreshIsRight

\* One more sked in the table.
LEMMA MadeIs ==
    ASSUME SkedAssumption, SkInv, NEW call \in SkCalls, NEW band \in SkBands, NEW lead \in SkLeads,
           NEW state \in SkedStates
    PROVE  LET table == Append(skTable, MadeSked(call, band, skNow + lead, state))
           IN  SkTableIs(table) /\ skAlarmed \subseteq DOMAIN table
<1> DEFINE new == MadeSked(call, band, skNow + lead, state)
           table == Append(skTable, new)
<1>1. skTable \in Seq(SkRow \cup {NoSked}) /\ Len(skTable) \in Nat /\ DOMAIN skTable = 1..Len(skTable)
  BY LenProperties DEF SkInv, SkTableIs
<1>2. new \in SkRow /\ new.id = Len(skTable) + 1
  <2>1. skNow + lead \in Nat
    <3>1. skNow \in Nat /\ lead \in Nat
      BY DEF SkInv, SkedAssumption
    <3> QED
      BY <3>1
  <2>2. skContest \in SkContests
    BY DEF SkInv
  <2> QED
    BY <1>1, <2>1, <2>2 DEF MadeSked, SkRow
<1> HIDE DEF new
<1>3. /\ table \in Seq(SkRow \cup {NoSked}) /\ Len(table) = Len(skTable) + 1
      /\ table[Len(skTable) + 1] = new /\ \A i \in 1..Len(skTable) : table[i] = skTable[i]
  BY <1>1, <1>2, AppendProperties
<1>4. DOMAIN table = 1..(Len(skTable) + 1)
  BY <1>3, LenProperties
<1> HIDE DEF table
<1>5. ASSUME NEW i \in DOMAIN table, table[i] # NoSked
      PROVE  table[i] \in SkRow /\ table[i].id = i
  <2>1. CASE i = Len(skTable) + 1
    BY <1>2, <1>3, <2>1
  <2>2. CASE i # Len(skTable) + 1
    <3>1. i \in 1..Len(skTable) /\ table[i] = skTable[i]
      BY <1>1, <1>3, <1>4, <2>2
    <3> QED
      BY <1>1, <1>5, <3>1 DEF SkInv, SkTableIs
  <2> QED
    BY <2>1, <2>2
<1>6. skAlarmed \subseteq DOMAIN table
  BY <1>1, <1>4 DEF SkInv
<1> QED
  BY <1>3, <1>5, <1>6 DEF SkTableIs, table, new

\* A sked of the list stands in the table.
LEMMA ListedIs ==
    ASSUME SkInv, NEW i \in DOMAIN skList
    PROVE  skList[i].id \in DOMAIN skTable /\ skTable[skList[i].id] \in SkRow /\ skTable[skList[i].id].id = skList[i].id
<1>1. SkTableIs(skTable) /\ ListFor(skTable, skContest, skList)
  BY DEF SkInv
<1>2. skList[i].id \in SkedsOf(skTable, skContest)
  BY <1>1, SkedsAreOrdered DEF ListFor
<1> QED
  BY <1>1, <1>2 DEF SkedsOf, SkTableIs

\* One row of the table changes.
LEMMA ChangedRowIs ==
    ASSUME SkInv, NEW k \in DOMAIN skTable, NEW row, row \in SkRow => row.id = k, row \in SkRow \cup {NoSked}
    PROVE  SkTableIs([skTable EXCEPT ![k] = row]) /\ skAlarmed \subseteq DOMAIN [skTable EXCEPT ![k] = row]
<1> DEFINE table == [skTable EXCEPT ![k] = row]
<1>1. skTable \in Seq(SkRow \cup {NoSked}) /\ DOMAIN skTable = 1..Len(skTable)
      /\ \A i \in DOMAIN skTable : skTable[i] # NoSked => skTable[i] \in SkRow /\ skTable[i].id = i
  BY LenProperties DEF SkInv, SkTableIs
<1>2. /\ table \in Seq(SkRow \cup {NoSked}) /\ Len(table) = Len(skTable)
      /\ \A i \in 1..Len(skTable) : table[i] = IF i = k THEN row ELSE skTable[i]
  BY <1>1, ExceptSeq
<1>3. DOMAIN table = DOMAIN skTable
  BY <1>1, <1>2, LenProperties
<1> HIDE DEF table
<1>4. \A i \in DOMAIN table : table[i] # NoSked => table[i] \in SkRow /\ table[i].id = i
  BY <1>1, <1>2, <1>3
<1>5. skAlarmed \subseteq DOMAIN table
  BY <1>3 DEF SkInv
<1> QED
  BY <1>2, <1>4, <1>5 DEF SkTableIs, table

\* What the invariant gives every handler.
LEMMA SkFacts ==
    ASSUME SkInv
    PROVE  /\ SkTableIs(skTable) /\ skFaults \in Nat /\ skContest \in SkContests /\ skNow \in 0..SkHorizon
           /\ skAlarmed \subseteq DOMAIN skTable /\ ListFor(skTable, skContest, skList)
           /\ AllNotBehind(skTable, skList, skFaults) /\ MayFail \subseteq BOOLEAN
  BY DEF SkInv, MayFail

\* Handlers that read the table again.
LEMMA MakingIsRight ==
    ASSUME SkedAssumption, SkInv, NEW call \in SkCalls, NEW band \in SkBands, NEW lead \in SkLeads,
           AddSkedFromEntry(call, band, lead) \/ ChatProposesSked(call, band, lead)
    PROVE  SkInv'
<1>1. CASE AddSkedFromEntry(call, band, lead)
  <2> DEFINE table == Append(skTable, MadeSked(call, band, skNow + lead, "open"))
  <2>1. PICK f \in MayFail : ReloadSkeds(table, f)
    BY <1>1 DEF AddSkedFromEntry
  <2>2. skContest' = skContest /\ skNow' = skNow
    BY <1>1 DEF AddSkedFromEntry
  <2>3. SkTableIs(table) /\ skAlarmed \subseteq DOMAIN table
    BY MadeIs DEF SkedStates
  <2> HIDE DEF table
  <2> QED
    BY <2>1, <2>2, <2>3, SkFacts, ReloadIsRight
<1>2. CASE ChatProposesSked(call, band, lead)
  <2> DEFINE table == Append(skTable, MadeSked(call, band, skNow + lead, "suggested"))
  <2>1. PICK f \in MayFail : ReloadSkeds(table, f)
    BY <1>2 DEF ChatProposesSked
  <2>2. skContest' = skContest /\ skNow' = skNow
    BY <1>2 DEF ChatProposesSked
  <2>3. SkTableIs(table) /\ skAlarmed \subseteq DOMAIN table
    BY MadeIs DEF SkedStates
  <2> HIDE DEF table
  <2> QED
    BY <2>1, <2>2, <2>3, SkFacts, ReloadIsRight
<1> QED
  BY <1>1, <1>2

\* A sked accepted, in the table and in the list.
LEMMA AcceptIsRight ==
    ASSUME SkInv, NEW i \in DOMAIN skList, AcceptSuggestion(i)
    PROVE  SkInv'
<1> DEFINE k == skList[i].id
           row == [skTable[k] EXCEPT !.state = "open"]
           table(f) == IF f THEN skTable ELSE [skTable EXCEPT ![k] = row]
<1>1. PICK f \in MayFail : ReloadSkeds(IF f THEN skTable ELSE [skTable EXCEPT ![k].state = "open"], f)
  BY DEF AcceptSuggestion
<1>2. k \in DOMAIN skTable /\ skTable[k] \in SkRow /\ skTable[k].id = k
  BY ListedIs
<1>3. row \in SkRow /\ row.id = k
  BY <1>2 DEF SkRow, SkedStates
<1>4. [skTable EXCEPT ![k].state = "open"] = [skTable EXCEPT ![k] = row]
  OBVIOUS
<1>5. ReloadSkeds(table(f), f)
  BY <1>1, <1>4
<1> HIDE DEF k, row
<1>6. SkTableIs(table(f)) /\ skAlarmed \subseteq DOMAIN table(f)
  <2>1. CASE f
    <3>1. table(f) = skTable
      BY <2>1
    <3> QED
      BY <3>1, SkFacts
  <2>2. CASE ~f
    <3>1. table(f) = [skTable EXCEPT ![k] = row]
      BY <2>2
    <3> HIDE DEF table
    <3>2. SkTableIs([skTable EXCEPT ![k] = row]) /\ skAlarmed \subseteq DOMAIN [skTable EXCEPT ![k] = row]
      BY <1>2, <1>3, ChangedRowIs
    <3> QED
      BY <3>1, <3>2
  <2> QED
    BY <2>1, <2>2
<1>7. skContest' = skContest /\ skNow' = skNow /\ f \in BOOLEAN
  BY SkFacts DEF AcceptSuggestion
<1> HIDE DEF table
<1> QED
  BY <1>5, <1>6, <1>7, SkFacts, ReloadIsRight

\* A sked deleted, from the table and from the list.
LEMMA DeleteIsRight ==
    ASSUME SkInv, NEW i \in DOMAIN skList, DeleteSked(i)
    PROVE  SkInv'
<1> DEFINE k == skList[i].id
           table == [skTable EXCEPT ![k] = NoSked]
<1>1. ReloadSkeds(table, FALSE) /\ skContest' = skContest /\ skNow' = skNow
  BY DEF DeleteSked
<1>2. k \in DOMAIN skTable
  BY ListedIs
<1>3. NoSked \notin SkRow
  <2>1. \A r \in SkRow : "id" \in DOMAIN r
    BY DEF SkRow
  <2>2. "id" \notin DOMAIN NoSked
    BY DEF NoSked
  <2> QED
    BY <2>1, <2>2
<1> HIDE DEF k
<1>4. SkTableIs(table) /\ skAlarmed \subseteq DOMAIN table
  BY <1>2, <1>3, ChangedRowIs
<1> HIDE DEF table
<1> QED
  BY <1>1, <1>4, SkFacts, ReloadIsRight

\* Handlers that judge the list they have.
LEMMA RefreshingIsRight ==
    ASSUME SkInv, SkedTimer \/ \E c \in SkCalls, b \in SkBands : LogSkedQso(c, b)
    PROVE  SkInv'
<1>1. PICK f \in MayFail : RefreshSkeds(skTable, skList, f)
  BY DEF SkedTimer, LogSkedQso
<1>2. skContest' = skContest /\ skNow' = skNow
  BY DEF SkedTimer, LogSkedQso
<1> QED
  BY <1>1, <1>2, SkFacts, RefreshIsRight

\* Another contest: its skeds are read.
LEMMA SwitchIsRight ==
    ASSUME SkInv, NEW contest \in SkContests, SwitchSkedContest(contest)
    PROVE  SkInv'
<1>1. PICK f \in MayFail : ReloadSkeds(skTable, f)
  BY DEF SwitchSkedContest
<1>2. skContest' = contest /\ skNow' = skNow
  BY DEF SwitchSkedContest
<1> QED
  BY <1>1, <1>2, SkFacts, ReloadIsRight

\* A restart reads the table and judges it, and announces again.
LEMMA RestartIsRight ==
    ASSUME SkInv, RestartSkeds
    PROVE  SkInv'
<1> PICK no \in BOOLEAN : no = FALSE
  OBVIOUS
<1> DEFINE list == ReadSkeds(skTable, skContest)
           judged == [i \in DOMAIN list |-> JudgeAt(skContest, list[i], skLog, skNow)]
           other == Written(skTable, judged, no)
           due == {s \in NextOpen(judged, skNow) : skNow >= s.time - DueBefore}
<1>1. skContest' = skContest /\ skLog' = skLog /\ skNow' = skNow /\ skFaults' = skFaults
  BY DEF RestartSkeds
<1>2. \A s : Judge(s, skLog, skNow) = JudgeAt(skContest, s, skLog, skNow)
  BY <1>1 DEF Judge, JudgeAt
<1>3. [i \in DOMAIN list |-> Judge(list[i], skLog, skNow)] = judged
  BY <1>2
<1>4. skList' = judged /\ skTable' = other /\ skAlarmed' = {s.id : s \in due}
  <2>1. /\ skList' = judged /\ skTable' = Written(skTable, judged, FALSE)
        /\ skAlarmed' = {s.id : s \in due}
    BY <1>3 DEF RestartSkeds
  <2> HIDE DEF judged, due
  <2>2. skTable' = other
    BY <2>1, Zenon
  <2> QED
    BY <2>1, <2>2
<1>5. SkTableIs(skTable) /\ skFaults \in Nat /\ skContest \in SkContests /\ skNow \in 0..SkHorizon
  BY SkFacts
<1>6. ListFor(skTable, skContest, list) /\ AllNotBehind(skTable, list, skFaults)
  BY <1>5, ReadIs
<1> HIDE DEF list
<1> DEFINE more == skFaults + (IF no THEN 1 ELSE 0)
<1>7. /\ SkTableIs(other) /\ ListFor(other, skContest, judged)
      /\ AllNotBehind(other, judged, more) /\ AllSettled(judged, skContest, skLog, skNow)
  BY <1>5, <1>6, RefreshedIs
<1>8. more = skFaults
  BY <1>5
<1> HIDE DEF judged, other, more
<1>9. {s.id : s \in due} \subseteq DOMAIN other
  <2>1. due \subseteq NextOpen(judged, skNow)
    OBVIOUS
  <2> HIDE DEF due
  <2> QED
    BY <1>7, <2>1, AlarmedAre
<1> HIDE DEF due
<1> QED
  BY <1>1, <1>4, <1>5, <1>7, <1>8, <1>9, SkInvAt

\* The clock, or a row taken out of the log: nobody refreshes the list.
LEMMA UnsettledIsRight ==
    ASSUME SkInv, UNCHANGED <<skTable, skList, skAlarmed, skContest, skFaults>>, skSettled' = FALSE, skNow' \in 0..SkHorizon
    PROVE  SkInv'
  BY SkFacts, SkInvAt

\* Whatever happens to the skeds.
LEMMA SkStep ==
    ASSUME SkedAssumption, SkInv, [SkedNext]_skVars
    PROVE  SkInv'
<1>1. CASE UNCHANGED skVars
  <2>1. /\ skTable' = skTable /\ skList' = skList /\ skAlarmed' = skAlarmed /\ skContest' = skContest /\ skLog' = skLog
        /\ skNow' = skNow /\ skSettled' = skSettled /\ skFaults' = skFaults
    BY <1>1 DEF skVars
  <2>2. skSettled' => AllSettled(skList', skContest', skLog', skNow')
    BY <2>1 DEF SkInv
  <2> QED
    BY <2>1, <2>2, SkFacts, SkInvAt
<1>2. CASE \E c \in SkCalls, b \in SkBands, l \in SkLeads : AddSkedFromEntry(c, b, l) \/ ChatProposesSked(c, b, l)
  BY <1>2, MakingIsRight
<1>3. CASE \E i \in DOMAIN skList : AcceptSuggestion(i) \/ DeleteSked(i)
  BY <1>3, AcceptIsRight, DeleteIsRight
<1>4. CASE SkedTimer
  BY <1>4, RefreshingIsRight
<1>5. CASE \E c \in SkCalls, b \in SkBands : LogSkedQso(c, b)
  BY <1>5, RefreshingIsRight
<1>6. CASE \E q \in skLog : RemoveSkedQso(q)
  BY <1>6, UnsettledIsRight, SkFacts DEF RemoveSkedQso
<1>7. CASE \E c \in SkContests : SwitchSkedContest(c)
  BY <1>7, SwitchIsRight
<1>8. CASE RestartSkeds
  BY <1>8, RestartIsRight
<1>9. CASE SkedClockTicks
  <2>1. skNow' \in 0..SkHorizon
    <3>1. skNow \in 0..SkHorizon /\ skNow' = skNow + 1 /\ skNow < SkHorizon /\ SkHorizon \in Nat
      BY <1>9, SkFacts DEF SkedClockTicks, SkedAssumption
    <3> QED
      BY <3>1
  <2> QED
    BY <1>9, <2>1, UnsettledIsRight DEF SkedClockTicks
<1> QED
  BY <1>1, <1>2, <1>3, <1>4, <1>5, <1>6, <1>7, <1>8, <1>9 DEF SkedNext

\* The empty table.
LEMMA SkStarts == ASSUME SkedAssumption, SkedInit PROVE SkInv
<1>1. skTable = <<>> /\ skList = <<>> /\ skAlarmed = {} /\ skNow = 0 /\ skContest \in SkContests /\ skFaults = 0
        /\ 0 \in 0..SkHorizon
  BY DEF SkedInit, SkedAssumption
<1>2. skTable \in Seq(SkRow \cup {NoSked}) /\ DOMAIN skTable = {} /\ DOMAIN skList = {}
  BY <1>1, EmptySeq
<1>3. SkTableIs(skTable)
  BY <1>2 DEF SkTableIs
<1>4. HowMany(skTable, skContest) = 0
  <2>1. SkedsOf(skTable, skContest) = {}
    BY <1>2 DEF SkedsOf
  <2> QED
    BY <2>1, FS_EmptySet DEF HowMany
<1>5. ListFor(skTable, skContest, skList) /\ AllNotBehind(skTable, skList, skFaults)
      /\ AllSettled(skList, skContest, skLog, skNow)
  BY <1>2, <1>4 DEF ListFor, AllNotBehind, AllSettled
<1> QED
  BY <1>1, <1>3, <1>5 DEF SkInv

\* The list on the screen, from its places in the table.
LEMMA SkShows == ASSUME SkInv PROVE SkedListIsCurrent
<1> DEFINE list == ReadSkeds(skTable, skContest)
<1>1. SkTableIs(skTable) /\ ListFor(skTable, skContest, skList) /\ AllNotBehind(skTable, skList, skFaults)
  BY SkFacts
<1>2. DOMAIN list = DOMAIN skList /\ \A n \in DOMAIN skList : list[n].id = skList[n].id
  BY <1>1, SkedsRead DEF ListFor
<1> HIDE DEF list
<1>3. [i \in DOMAIN skList |-> skList[i].id] = [i \in DOMAIN list |-> list[i].id]
  BY <1>2
<1>4. ASSUME skSettled, NEW s \in ToSet(skList)
      PROVE  s.state = "open" => <<skContest, s.call, s.band>> \notin skLog /\ ~IsOverdue(s, skNow)
  <2>1. PICK n \in DOMAIN skList : s = skList[n]
    BY DEF ToSet
  <2>2. AllSettled(skList, skContest, skLog, skNow)
    BY <1>4 DEF SkInv
  <2> QED
    BY <2>1, <2>2 DEF AllSettled, IsSettled
<1>5. ASSUME NEW s \in ToSet(skList)
      PROVE  s.state # skTable[s.id].state => skTable[s.id].state = "open" /\ s.state \in {"done", "missed"} /\ skFaults > 0
  <2>1. PICK n \in DOMAIN skList : s = skList[n]
    BY DEF ToSet
  <2> QED
    BY <1>1, <2>1 DEF AllNotBehind, NotBehind
<1> QED
  BY <1>3, <1>4, <1>5 DEF SkedListIsCurrent, list

\* The invariant has the types.
LEMMA SkTyped == ASSUME SkInv PROVE SkedTypeOK
<1>1. \A i \in DOMAIN skTable : skTable[i] # NoSked => skTable[i].id = i /\ skTable[i].state \in SkedStates
  BY SkFacts DEF SkTableIs, SkRow
<1>2. \A n \in DOMAIN skList : skTable[skList[n].id] # NoSked
  BY SkFacts, SkedsAreOrdered DEF ListFor, SkedsOf
<1>3. \A s \in ToSet(skList) : skTable[s.id] # NoSked
  BY <1>2 DEF ToSet
<1> QED
  BY <1>1, <1>3, SkFacts DEF SkedTypeOK

-----------------------------------------------------------------------------
(* Log panel: columns and their widths *)

Wants == [dx : BOOLEAN, number : BOOLEAN, distance : BOOLEAN, bands : BOOLEAN]

\* The columns there are.
LEMMA ColumnsAre ==
    Columns = {"serial", "time", "call", "exchSent", "exchRcvd", "km", "deg", "status", "band", "rstSent", "serialSent",
               "rstRcvd", "serialGrid"}
BY DEF Columns, ColumnWidths

\* Which of them a view asks for.
LEMMA WantedIs ==
    ASSUME NEW want \in Wants
    PROVE  LET wanted == WantedColumns(want)
           IN /\ "serial" \in wanted <=> want.number
              /\ "rstSent" \in wanted <=> want.dx
              /\ "serialSent" \in wanted <=> want.dx
              /\ "band" \in wanted <=> want.dx \/ want.bands
              /\ "exchSent" \in wanted <=> ~want.dx
              /\ "exchRcvd" \notin wanted
              /\ "km" \in wanted <=> want.distance
              /\ "deg" \in wanted <=> want.distance
              /\ {"time", "call", "status", "rstRcvd", "serialGrid"} \subseteq wanted
              /\ wanted \subseteq Columns
<1>1. want.dx \in BOOLEAN /\ want.number \in BOOLEAN /\ want.distance \in BOOLEAN /\ want.bands \in BOOLEAN
  BY DEF Wants
<1>2. PICK dx \in BOOLEAN, number \in BOOLEAN, distance \in BOOLEAN, bands \in BOOLEAN :
         want.dx = dx /\ want.number = number /\ want.distance = distance /\ want.bands = bands
  BY <1>1
<1> QED
  BY <1>2, ColumnsAre DEF WantedColumns

\* The widths added up, column by column.
PartOf(cols, widths, col) == IF col \in cols THEN widths[col] ELSE 0
\* The total, as a sum of parts.
LEMMA TotalIs ==
    ASSUME NEW cols, NEW widths
    PROVE  TotalWidth(cols, widths) =
               PartOf(cols, widths, "serial") + PartOf(cols, widths, "time") + PartOf(cols, widths, "call")
               + PartOf(cols, widths, "exchSent") + PartOf(cols, widths, "exchRcvd") + PartOf(cols, widths, "km")
               + PartOf(cols, widths, "deg") + PartOf(cols, widths, "status") + PartOf(cols, widths, "band")
               + PartOf(cols, widths, "rstSent") + PartOf(cols, widths, "serialSent") + PartOf(cols, widths, "rstRcvd")
               + PartOf(cols, widths, "serialGrid")
BY Zenon DEF TotalWidth, PartOf

\* The parts are numbers.
LEMMA PartsAreNat ==
    ASSUME NEW cols, NEW widths, \A col \in Columns : widths[col] \in Nat
    PROVE  \A col \in Columns : PartOf(cols, widths, col) \in Nat
BY DEF PartOf

\* Numbers of two rows added up.
LEMMA Thirteen ==
    ASSUME NEW a1 \in Nat, NEW a2 \in Nat, NEW a3 \in Nat, NEW a4 \in Nat, NEW a5 \in Nat, NEW a6 \in Nat, NEW a7 \in Nat,
           NEW a8 \in Nat, NEW a9 \in Nat, NEW a10 \in Nat, NEW a11 \in Nat, NEW a12 \in Nat, NEW a13 \in Nat,
           NEW b1 \in Nat, NEW b2 \in Nat, NEW b3 \in Nat, NEW b4 \in Nat, NEW b5 \in Nat, NEW b6 \in Nat, NEW b7 \in Nat,
           NEW b8 \in Nat, NEW b9 \in Nat, NEW b10 \in Nat, NEW b11 \in Nat, NEW b12 \in Nat, NEW b13 \in Nat,
           a1 <= b1, a2 <= b2, a3 <= b3, a4 <= b4, a5 <= b5, a6 <= b6, a7 <= b7,
           a8 <= b8, a9 <= b9, a10 <= b10, a11 <= b11, a12 <= b12, a13 <= b13
    PROVE  a1 + a2 + a3 + a4 + a5 + a6 + a7 + a8 + a9 + a10 + a11 + a12 + a13
           <= b1 + b2 + b3 + b4 + b5 + b6 + b7 + b8 + b9 + b10 + b11 + b12 + b13
OBVIOUS

\* So is their total.
LEMMA TotalIsNat ==
    ASSUME NEW cols, NEW widths, \A col \in Columns : widths[col] \in Nat
    PROVE  TotalWidth(cols, widths) \in Nat
<1> DEFINE w(col) == PartOf(cols, widths, col)
<1>1. \A col \in Columns : w(col) \in Nat
  BY PartsAreNat
<1>2. TotalWidth(cols, widths) = w("serial") + w("time") + w("call") + w("exchSent") + w("exchRcvd") + w("km")
        + w("deg") + w("status") + w("band") + w("rstSent") + w("serialSent") + w("rstRcvd") + w("serialGrid")
  BY TotalIs
<1> HIDE DEF w
<1>3. /\ w("serial") \in Nat /\ w("time") \in Nat /\ w("call") \in Nat /\ w("exchSent") \in Nat
      /\ w("exchRcvd") \in Nat /\ w("km") \in Nat /\ w("deg") \in Nat /\ w("status") \in Nat
      /\ w("band") \in Nat /\ w("rstSent") \in Nat /\ w("serialSent") \in Nat /\ w("rstRcvd") \in Nat
      /\ w("serialGrid") \in Nat
  BY <1>1, ColumnsAre
<1>4. w("serial") + w("time") + w("call") + w("exchSent") \in Nat
  BY <1>3
<1>5. w("serial") + w("time") + w("call") + w("exchSent") + w("exchRcvd") + w("km") + w("deg") \in Nat
  BY <1>3, <1>4
<1>6. w("serial") + w("time") + w("call") + w("exchSent") + w("exchRcvd") + w("km") + w("deg") + w("status") + w("band")
      + w("rstSent") \in Nat
  BY <1>3, <1>5
<1> QED
  BY <1>2, <1>3, <1>6

\* Wider columns take no less room.
LEMMA TotalMonotonic ==
    ASSUME NEW cols, NEW some, NEW widths, NEW others, \A col \in Columns : widths[col] \in Nat /\ others[col] \in Nat,
           \A col \in Columns \cap some : col \in cols /\ others[col] <= widths[col]
    PROVE  TotalWidth(some, others) <= TotalWidth(cols, widths)
<1>1. \A col \in Columns : /\ PartOf(cols, widths, col) \in Nat /\ PartOf(some, others, col) \in Nat
                           /\ PartOf(some, others, col) <= PartOf(cols, widths, col)
  BY DEF PartOf
<1> DEFINE w(col) == PartOf(cols, widths, col)
           o(col) == PartOf(some, others, col)
<1>2. \A col \in Columns : w(col) \in Nat /\ o(col) \in Nat /\ o(col) <= w(col)
  BY <1>1
<1>3. TotalWidth(cols, widths) = w("serial") + w("time") + w("call") + w("exchSent") + w("exchRcvd") + w("km")
        + w("deg") + w("status") + w("band") + w("rstSent") + w("serialSent") + w("rstRcvd") + w("serialGrid")
  BY TotalIs
<1>4. TotalWidth(some, others) = o("serial") + o("time") + o("call") + o("exchSent") + o("exchRcvd") + o("km")
        + o("deg") + o("status") + o("band") + o("rstSent") + o("serialSent") + o("rstRcvd") + o("serialGrid")
  BY TotalIs
<1> HIDE DEF w, o
<1>5. w("serial") \in Nat /\ o("serial") \in Nat /\ o("serial") <= w("serial")
  BY <1>2, ColumnsAre
<1>6. w("time") \in Nat /\ o("time") \in Nat /\ o("time") <= w("time")
  BY <1>2, ColumnsAre
<1>7. w("call") \in Nat /\ o("call") \in Nat /\ o("call") <= w("call")
  BY <1>2, ColumnsAre
<1>8. w("exchSent") \in Nat /\ o("exchSent") \in Nat /\ o("exchSent") <= w("exchSent")
  BY <1>2, ColumnsAre
<1>9. w("exchRcvd") \in Nat /\ o("exchRcvd") \in Nat /\ o("exchRcvd") <= w("exchRcvd")
  BY <1>2, ColumnsAre
<1>10. w("km") \in Nat /\ o("km") \in Nat /\ o("km") <= w("km")
  BY <1>2, ColumnsAre
<1>11. w("deg") \in Nat /\ o("deg") \in Nat /\ o("deg") <= w("deg")
  BY <1>2, ColumnsAre
<1>12. w("status") \in Nat /\ o("status") \in Nat /\ o("status") <= w("status")
  BY <1>2, ColumnsAre
<1>13. w("band") \in Nat /\ o("band") \in Nat /\ o("band") <= w("band")
  BY <1>2, ColumnsAre
<1>14. w("rstSent") \in Nat /\ o("rstSent") \in Nat /\ o("rstSent") <= w("rstSent")
  BY <1>2, ColumnsAre
<1>15. w("serialSent") \in Nat /\ o("serialSent") \in Nat /\ o("serialSent") <= w("serialSent")
  BY <1>2, ColumnsAre
<1>16. w("rstRcvd") \in Nat /\ o("rstRcvd") \in Nat /\ o("rstRcvd") <= w("rstRcvd")
  BY <1>2, ColumnsAre
<1>17. w("serialGrid") \in Nat /\ o("serialGrid") \in Nat /\ o("serialGrid") <= w("serialGrid")
  BY <1>2, ColumnsAre
<1> QED
  BY <1>3, <1>4, <1>5, <1>6, <1>7, <1>8, <1>9, <1>10, <1>11, <1>12, <1>13, <1>14, <1>15, <1>16, <1>17, Thirteen

\* No floor lies above the width a column is made with.
LEMMA FloorsAreLower ==
    /\ \A col \in Columns : MinColumnWidths[col] \in Nat /\ ColumnWidths[col] \in Nat
                            /\ MinColumnWidths[col] <= ColumnWidths[col] /\ MinColumnWidths[col] > 40
    /\ DOMAIN MinColumnWidths = Columns
BY ColumnsAre DEF MinColumnWidths, ColumnWidths, Columns

\* One of them one less.
LEMMA OneLess ==
    ASSUME NEW a1 \in Int, NEW a2 \in Int, NEW a3 \in Int, NEW a4 \in Int, NEW a5 \in Int, NEW a6 \in Int, NEW a7 \in Int,
           NEW a8 \in Int, NEW a9 \in Int, NEW a10 \in Int, NEW a11 \in Int, NEW a12 \in Int, NEW a13 \in Int,
           NEW d1 \in Int, NEW d2 \in Int, NEW d3 \in Int, NEW d4 \in Int, NEW d5 \in Int, NEW d6 \in Int, NEW d7 \in Int,
           NEW d8 \in Int, NEW d9 \in Int, NEW d10 \in Int, NEW d11 \in Int, NEW d12 \in Int, NEW d13 \in Int,
           d1 + d2 + d3 + d4 + d5 + d6 + d7 + d8 + d9 + d10 + d11 + d12 + d13 = 1
    PROVE  (a1 - d1) + (a2 - d2) + (a3 - d3) + (a4 - d4) + (a5 - d5) + (a6 - d6) + (a7 - d7)
           + (a8 - d8) + (a9 - d9) + (a10 - d10) + (a11 - d11) + (a12 - d12) + (a13 - d13)
           = a1 + a2 + a3 + a4 + a5 + a6 + a7 + a8 + a9 + a10 + a11 + a12 + a13 - 1
OBVIOUS

\* A column one px narrower makes the table one px narrower.
LEMMA TotalOneLess ==
    ASSUME NEW cols \in SUBSET Columns, NEW widths \in [Columns -> Nat], NEW c \in cols
    PROVE  TotalWidth(cols, [widths EXCEPT ![c] = widths[c] - 1]) = TotalWidth(cols, widths) - 1
<1> DEFINE v == [widths EXCEPT ![c] = widths[c] - 1]
           w(col) == PartOf(cols, widths, col)
           d(col) == IF col = c THEN 1 ELSE 0
<1>1. \A col \in Columns : w(col) \in Int /\ d(col) \in Int
  BY DEF PartOf
<1>2. \A col \in Columns : PartOf(cols, v, col) = w(col) - d(col)
  BY DEF PartOf
<1>3. d("serial") + d("time") + d("call") + d("exchSent") + d("exchRcvd") + d("km") + d("deg") + d("status")
        + d("band") + d("rstSent") + d("serialSent") + d("rstRcvd") + d("serialGrid") = 1
  BY ColumnsAre
<1>4. TotalWidth(cols, widths) = w("serial") + w("time") + w("call") + w("exchSent") + w("exchRcvd") + w("km")
        + w("deg") + w("status") + w("band") + w("rstSent") + w("serialSent") + w("rstRcvd") + w("serialGrid")
  BY TotalIs
<1> HIDE DEF w, d
<1>5. TotalWidth(cols, v) = (w("serial") - d("serial")) + (w("time") - d("time")) + (w("call") - d("call"))
        + (w("exchSent") - d("exchSent")) + (w("exchRcvd") - d("exchRcvd")) + (w("km") - d("km"))
        + (w("deg") - d("deg")) + (w("status") - d("status")) + (w("band") - d("band"))
        + (w("rstSent") - d("rstSent")) + (w("serialSent") - d("serialSent")) + (w("rstRcvd") - d("rstRcvd"))
        + (w("serialGrid") - d("serialGrid"))
  BY <1>2, TotalIs, ColumnsAre
<1>6. /\ w("serial") \in Int /\ d("serial") \in Int /\ w("time") \in Int /\ d("time") \in Int /\ w("call") \in Int
        /\ d("call") \in Int
      /\ w("exchSent") \in Int /\ d("exchSent") \in Int /\ w("exchRcvd") \in Int /\ d("exchRcvd") \in Int
              /\ w("km") \in Int /\ d("km") \in Int
      /\ w("deg") \in Int /\ d("deg") \in Int /\ w("status") \in Int /\ d("status") \in Int /\ w("band") \in Int
              /\ d("band") \in Int
      /\ w("rstSent") \in Int /\ d("rstSent") \in Int /\ w("serialSent") \in Int /\ d("serialSent") \in Int
              /\ w("rstRcvd") \in Int /\ d("rstRcvd") \in Int
      /\ w("serialGrid") \in Int /\ d("serialGrid") \in Int
  BY <1>1, ColumnsAre
<1>7. TotalWidth(cols, v) = TotalWidth(cols, widths) - 1
  BY <1>3, <1>4, <1>5, <1>6, OneLess
<1> QED
  BY <1>7

\* Widths between the floors and what the columns are made with.
IsWidths(widths, cols) ==
    /\ widths \in [Columns -> Nat]
    /\ \A col \in Columns : widths[col] <= ColumnWidths[col]
    /\ \A col \in Columns : (IF col \in cols THEN MinColumnWidths[col] ELSE ColumnWidths[col]) <= widths[col]

\* A column gives a px as long as the columns are wider than their floors.
LEMMA SlimmerIs ==
    ASSUME NEW cols \in SUBSET Columns, NEW widths, IsWidths(widths, cols),
           TotalWidth(cols, widths) > TotalWidth(cols, MinColumnWidths)
    PROVE  /\ IsWidths(Slimmer(widths, cols), cols)
           /\ TotalWidth(cols, Slimmer(widths, cols)) = TotalWidth(cols, widths) - 1
<1> DEFINE slack(col) == widths[col] - MinColumnWidths[col]
           widest == CHOOSE col \in cols : \A other \in cols : slack(other) <= slack(col)
<1>1. /\ widths \in [Columns -> Nat]
      /\ \A col \in Columns : widths[col] \in Nat /\ MinColumnWidths[col] \in Nat /\ ColumnWidths[col] \in Nat
  BY FloorsAreLower DEF IsWidths
<1>2. PICK wide \in cols : widths[wide] > MinColumnWidths[wide]
  <2>1. SUFFICES ASSUME \A col \in cols : widths[col] <= MinColumnWidths[col]
                 PROVE  FALSE
    BY <1>1
  <2>2. TotalWidth(cols, widths) <= TotalWidth(cols, MinColumnWidths)
    BY <1>1, <2>1, TotalMonotonic
  <2> QED
    BY <2>2, <1>1, TotalIsNat
<1>3. \E col \in cols : \A other \in cols : slack(other) <= slack(col)
  <2> DEFINE S == {200 - slack(col) : col \in cols}
  <2>1. \A col \in Columns : ColumnWidths[col] <= 175
    BY ColumnsAre DEF ColumnWidths
  <2>2. \A col \in cols : slack(col) \in Int /\ slack(col) <= 175
    BY <1>1, <2>1 DEF IsWidths
  <2>3. S \in SUBSET Nat /\ S # {}
    BY <1>2, <2>2
  <2>4. PICK n \in S : \A m \in S : n <= m
    BY <2>3, LeastExists
  <2>5. PICK col \in cols : n = 200 - slack(col)
    BY <2>4
  <2> QED
    BY <2>2, <2>4, <2>5
<1>4. widest \in cols /\ \A other \in cols : slack(other) <= slack(widest)
  BY <1>3
<1>5. Slimmer(widths, cols) = [widths EXCEPT ![widest] = widths[widest] - 1]
  BY DEF Slimmer
<1> HIDE DEF widest
<1>6. widths[widest] > MinColumnWidths[widest]
  BY <1>1, <1>2, <1>4
<1>7. IsWidths([widths EXCEPT ![widest] = widths[widest] - 1], cols)
  <2> DEFINE v == [widths EXCEPT ![widest] = widths[widest] - 1]
  <2>1. v \in [Columns -> Nat]
    BY <1>1, <1>4, <1>6
  <2>2. ASSUME NEW col \in Columns
        PROVE  /\ v[col] <= ColumnWidths[col]
               /\ (IF col \in cols THEN MinColumnWidths[col] ELSE ColumnWidths[col]) <= v[col]
    <3>1. CASE col = widest
      BY <1>1, <1>4, <1>6, <3>1 DEF IsWidths
    <3>2. CASE col # widest
      BY <1>1, <3>2 DEF IsWidths
    <3> QED
      BY <3>1, <3>2
  <2> QED
    BY <2>1, <2>2 DEF IsWidths
<1> QED
  BY <1>1, <1>4, <1>5, <1>7, TotalOneLess

\* The widths after each px, as a function of the pixels taken.
ShavedFrom(widths, cols, n, f) == f = [i \in 0..n |-> IF i = 0 THEN widths ELSE Slimmer(f[i - 1], cols)]
\* There is such a row of widths, however many px come off.
LEMMA ShavedExists ==
    ASSUME NEW widths, NEW cols, NEW n \in Nat
    PROVE  \E f : ShavedFrom(widths, cols, n, f)
<1> DEFINE bad == {m \in Nat : ~\E f : ShavedFrom(widths, cols, m, f)}
<1>1. SUFFICES ASSUME bad # {}
               PROVE  FALSE
  OBVIOUS
<1>2. PICK m \in bad : \A k \in bad : m <= k
  BY <1>1, LeastExists
<1>3. m # 0
  <2>1. ShavedFrom(widths, cols, 0, [i \in 0..0 |-> widths])
    BY DEF ShavedFrom
  <2> QED
    BY <1>2, <2>1
<1>4. m - 1 \in Nat /\ m - 1 \notin bad
  BY <1>2, <1>3
<1>5. PICK f : ShavedFrom(widths, cols, m - 1, f)
  BY <1>4
<1> DEFINE g == [i \in 0..m |-> IF i = m THEN Slimmer(f[m - 1], cols) ELSE f[i]]
<1>6. ASSUME NEW i \in 0..m
      PROVE  g[i] = IF i = 0 THEN widths ELSE Slimmer(g[i - 1], cols)
  <2>1. m \in Nat /\ i \in Nat /\ i <= m
    BY <1>2
  <2>2. CASE i = m
    <3>1. g[i] = Slimmer(f[m - 1], cols) /\ g[i - 1] = f[m - 1]
      BY <1>3, <2>1, <2>2
    <3> QED
      BY <3>1, <1>3, <2>2
  <2>3. CASE i # m
    <3>1. i \in 0..(m - 1) /\ (i # 0 => i - 1 \in 0..m /\ i - 1 # m)
      BY <2>1, <2>3, <1>4
    <3>2. g[i] = f[i] /\ (i # 0 => g[i - 1] = f[i - 1])
      BY <2>3, <3>1
    <3>3. f[i] = IF i = 0 THEN widths ELSE Slimmer(f[i - 1], cols)
      BY <1>5, <3>1, Zenon DEF ShavedFrom
    <3> QED
      BY <3>2, <3>3
  <2> QED
    BY <2>2, <2>3
<1>7. ShavedFrom(widths, cols, m, g)
  <2>1. g = [i \in 0..m |-> g[i]]
    OBVIOUS
  <2> HIDE DEF g
  <2>2. [i \in 0..m |-> g[i]] = [i \in 0..m |-> IF i = 0 THEN widths ELSE Slimmer(g[i - 1], cols)]
    BY <1>6
  <2> QED
    BY <2>1, <2>2, Zenon DEF ShavedFrom
<1> QED
  BY <1>2, <1>7

\* Each px comes off between the floors and what there was.
LEMMA ShavedIs ==
    ASSUME NEW cols \in SUBSET Columns, NEW widths, IsWidths(widths, cols), NEW n \in Nat,
           n <= TotalWidth(cols, widths) - TotalWidth(cols, MinColumnWidths),
           NEW f, ShavedFrom(widths, cols, n, f)
    PROVE  \A i \in 0..n : IsWidths(f[i], cols) /\ TotalWidth(cols, f[i]) = TotalWidth(cols, widths) - i
<1> DEFINE fine(i) == IsWidths(f[i], cols) /\ TotalWidth(cols, f[i]) = TotalWidth(cols, widths) - i
           bad == {i \in 0..n : ~fine(i)}
<1>1. SUFFICES ASSUME bad # {}
               PROVE  FALSE
  OBVIOUS
<1>2. PICK i \in bad : \A k \in bad : i <= k
  <2>1. bad \in SUBSET Nat
    OBVIOUS
  <2> QED
    BY <1>1, <2>1, LeastExists
<1>3. \A k \in 0..n : f[k] = IF k = 0 THEN widths ELSE Slimmer(f[k - 1], cols)
  BY Zenon DEF ShavedFrom
<1>4. TotalWidth(cols, widths) \in Nat /\ TotalWidth(cols, MinColumnWidths) \in Nat
  <2>1. \A col \in Columns : widths[col] \in Nat /\ MinColumnWidths[col] \in Nat
    BY FloorsAreLower DEF IsWidths
  <2> QED
    BY <2>1, TotalIsNat
<1>5. i \in 0..n /\ i # 0
  <2>1. CASE i = 0
    <3>1. f[0] = widths
      BY <1>3
    <3> QED
      BY <1>2, <1>4, <2>1, <3>1
  <2> QED
    BY <1>2, <2>1
<1>6. fine(i - 1)
  BY <1>2, <1>5
<1>7. f[i] = Slimmer(f[i - 1], cols)
  BY <1>3, <1>5
<1>8. TotalWidth(cols, f[i - 1]) > TotalWidth(cols, MinColumnWidths)
  BY <1>4, <1>5, <1>6
<1>9. IsWidths(f[i], cols) /\ TotalWidth(cols, f[i]) = TotalWidth(cols, f[i - 1]) - 1
  BY <1>6, <1>7, <1>8, SlimmerIs
<1> QED
  BY <1>2, <1>4, <1>5, <1>6, <1>9

\* The overhang comes off, or all there is above the floors.
LEMMA TrimmedIs ==
    ASSUME NEW cols \in SUBSET Columns, NEW widths, IsWidths(widths, cols), NEW width \in Int,
           TotalWidth(cols, ColumnWidths) <= Available(width) => TotalWidth(cols, widths) <= Available(width)
    PROVE  /\ IsWidths(Trimmed(widths, cols, width), cols)
           /\ \/ TotalWidth(cols, Trimmed(widths, cols, width)) <= Available(width)
              \/ TotalWidth(cols, MinColumnWidths) > Available(width)
<1> DEFINE overhang == TotalWidth(cols, widths) - Available(width)
           room == TotalWidth(cols, widths) - TotalWidth(cols, MinColumnWidths)
           after == CHOOSE f : ShavedFrom(widths, cols, room, f)
           taken == Min({overhang, room})
<1>1. /\ TotalWidth(cols, widths) \in Nat /\ TotalWidth(cols, MinColumnWidths) \in Nat
      /\ TotalWidth(cols, MinColumnWidths) <= TotalWidth(cols, widths)
      /\ TotalWidth(cols, ColumnWidths) \in Nat
  <2>1. \A col \in Columns : widths[col] \in Nat /\ MinColumnWidths[col] \in Nat /\ ColumnWidths[col] \in Nat
    BY FloorsAreLower DEF IsWidths
  <2>2. \A col \in Columns \cap cols : MinColumnWidths[col] <= widths[col]
    BY DEF IsWidths
  <2>3. TotalWidth(cols, MinColumnWidths) <= TotalWidth(cols, widths)
    BY <2>1, <2>2, TotalMonotonic
  <2> QED
    BY <2>1, <2>3, TotalIsNat
<1>2. Available(width) \in Int
  BY DEF Available, ColumnWidths
<1>3. Trimmed(widths, cols, width) =
         IF overhang <= 0 \/ TotalWidth(cols, ColumnWidths) <= Available(width) THEN widths ELSE after[taken]
  BY Zenon DEF Trimmed, ShavedFrom
<1>4. CASE overhang <= 0 \/ TotalWidth(cols, ColumnWidths) <= Available(width)
  <2>1. Trimmed(widths, cols, width) = widths
    BY <1>3, <1>4
  <2>2. TotalWidth(cols, widths) <= Available(width)
    BY <1>1, <1>2, <1>4
  <2> QED
    BY <2>1, <2>2
<1>5. CASE ~(overhang <= 0 \/ TotalWidth(cols, ColumnWidths) <= Available(width))
  <2>1. Trimmed(widths, cols, width) = after[taken]
    BY <1>3, <1>5
  <2>2. overhang \in Nat /\ room \in Nat
    BY <1>1, <1>2, <1>5
  <2>3. taken = IF overhang <= room THEN overhang ELSE room
    <3> HIDE DEF overhang, room
    <3> QED
      BY <2>2 DEF Min
  <2>4. ShavedFrom(widths, cols, room, after)
    BY <2>2, ShavedExists
  <2> HIDE DEF after, taken
  <2>5. taken \in 0..room
    BY <2>2, <2>3
  <2>6. IsWidths(after[taken], cols) /\ TotalWidth(cols, after[taken]) = TotalWidth(cols, widths) - taken
    BY <2>2, <2>4, <2>5, <1>1, ShavedIs
  <2> QED
    BY <1>1, <1>2, <2>1, <2>2, <2>3, <2>6
<1> QED
  BY <1>4, <1>5

\* A part of a width, rounded, is no more than the width.
LEMMA RoundedPart ==
    ASSUME NEW w \in Nat, NEW room \in Nat, NEW natural \in Nat, room < natural
    PROVE  (2 * w * room + natural) \div (2 * natural) \in Nat /\ (2 * w * room + natural) \div (2 * natural) <= w
<1> DEFINE q == (2 * w * room + natural) \div (2 * natural)
           p == w * room
           t == w * natural
<1>1. p \in Nat /\ t \in Nat /\ p <= t
  <2>1. t = p + w * (natural - room) /\ w * (natural - room) \in Nat
    BY SMT
  <2> QED
    BY <2>1
<1>2. 2 * w * room + natural = 2 * p + natural
  BY SMT
<1>3. q \in Nat /\ 2 * natural * q <= 2 * p + natural
  <2> DEFINE a == 2 * p + natural
             d == 2 * natural
  <2>1. a \in Nat /\ d \in Nat /\ d > 0
    BY <1>1
  <2>2. q = a \div d
    BY <1>2
  <2> HIDE DEF a, d, q
  <2>3. a \div d \in Nat /\ d * (a \div d) <= a
    BY <2>1
  <2> QED
    BY <2>2, <2>3 DEF a, d
<1>4. q <= w
  <2>1. SUFFICES ASSUME q >= w + 1
                 PROVE  FALSE
    BY <1>3
  <2> HIDE DEF q
  <2>2. natural * q >= natural * (w + 1)
    BY <1>3, <2>1
  <2>3. natural * (w + 1) = t + natural /\ 2 * natural * q = 2 * (natural * q) /\ natural * q \in Nat
    BY <1>3
  <2> HIDE DEF t, p
  <2> QED
    BY <1>1, <1>3, <2>2, <2>3
<1> QED
  BY <1>3, <1>4

\* Every column between its floor and the width it is made with.
LEMMA ScaledIs ==
    ASSUME NEW cols \in SUBSET Columns, NEW width \in Nat, width >= 200
    PROVE  /\ IsWidths(Scaled(cols, width), cols)
           /\ TotalWidth(cols, ColumnWidths) <= Available(width)
                 => TotalWidth(cols, Scaled(cols, width)) <= Available(width)
<1> DEFINE natural == TotalWidth(cols, ColumnWidths)
           room == Available(width)
           round(w) == IF room >= natural THEN w
                       ELSE IF 10 * room >= 8 * natural THEN (2 * w * room + natural) \div (2 * natural)
                       ELSE (8 * w + 5) \div 10
           v == Scaled(cols, width)
<1>1. v = [col \in Columns |->
              IF col \in cols THEN IF round(ColumnWidths[col]) < MinColumnWidths[col] THEN MinColumnWidths[col]
                                   ELSE round(ColumnWidths[col])
              ELSE ColumnWidths[col]]
  BY Zenon DEF Scaled
<1>2. natural \in Nat /\ room \in Nat
  BY FloorsAreLower, TotalIsNat DEF Available, ColumnWidths
<1>3. ASSUME NEW w \in Nat
      PROVE  round(w) \in Nat /\ round(w) <= w
  <2>1. CASE room >= natural
    BY <2>1
  <2>2. CASE room < natural /\ 10 * room >= 8 * natural
    <3> HIDE DEF natural, room
    <3>1. (2 * w * room + natural) \div (2 * natural) \in Nat /\ (2 * w * room + natural) \div (2 * natural) <= w
      BY <1>2, <2>2, RoundedPart
    <3>2. round(w) = (2 * w * room + natural) \div (2 * natural)
      BY <1>2, <2>2
    <3> QED
      BY <3>1, <3>2
  <2>3. CASE room < natural /\ ~(10 * room >= 8 * natural)
    <3>1. (8 * w + 5) \div 10 \in Nat /\ (8 * w + 5) \div 10 <= w
      OBVIOUS
    <3> HIDE DEF natural, room
    <3>2. round(w) = (8 * w + 5) \div 10
      BY <1>2, <2>3
    <3> QED
      BY <3>1, <3>2
  <2> HIDE DEF natural, room, round
  <2> QED
    BY <1>2, <2>1, <2>2, <2>3
<1> HIDE DEF round, v
<1>4. ASSUME NEW col \in Columns
      PROVE  /\ v[col] \in Nat /\ v[col] <= ColumnWidths[col]
             /\ (IF col \in cols THEN MinColumnWidths[col] ELSE ColumnWidths[col]) <= v[col]
  <2>1. MinColumnWidths[col] \in Nat /\ ColumnWidths[col] \in Nat /\ MinColumnWidths[col] <= ColumnWidths[col]
    BY FloorsAreLower
  <2>2. round(ColumnWidths[col]) \in Nat /\ round(ColumnWidths[col]) <= ColumnWidths[col]
    BY <1>3, <2>1
  <2> QED
    BY <1>1, <2>1, <2>2
<1>5. IsWidths(v, cols)
  BY <1>1, <1>4 DEF IsWidths
<1>6. ASSUME natural <= room
      PROVE  TotalWidth(cols, v) <= room
  <2>1. \A col \in Columns : v[col] \in Nat /\ ColumnWidths[col] \in Nat /\ v[col] <= ColumnWidths[col]
    BY <1>4, FloorsAreLower
  <2>2. TotalWidth(cols, v) <= natural
    BY <2>1, TotalMonotonic
  <2>3. TotalWidth(cols, v) \in Nat
    BY <2>1, TotalIsNat
  <2> HIDE DEF natural, room
  <2> QED
    BY <1>2, <1>6, <2>2, <2>3
<1> QED
  BY <1>5, <1>6 DEF v

Yielding == {"deg", "exchSent"}
\* Of the columns given way, the last.
LastOf(gave) == IF "exchSent" \in gave THEN "exchSent" ELSE "deg"
Floors(cols) == TotalWidth(cols, MinColumnWidths)

\* No more columns give way than have to.
GaveRightly(want, width, gave) ==
    LET grid == WantedColumns(want) \ {"status"}
    IN  /\ gave \subseteq Yielding /\ gave \subseteq WantedColumns(want)
        /\ gave # {} => Floors((grid \ gave) \cup {LastOf(gave)}) > Available(width)
        /\ \/ Floors(grid \ gave) <= Available(width)
           \/ gave = WantedColumns(want) \cap Yielding

\* The columns that give way are the fewest, in their order.
LEMMA GivenWayIs ==
    ASSUME NEW want \in Wants, NEW width \in Nat
    PROVE  GaveRightly(want, width, GivenWay(want, width))
<1> DEFINE first(n) == {GiveWayOrder[i] : i \in 1..n}
           grid == WantedColumns(want) \ {"status"}
           fits(n) == Floors(grid \ first(n)) <= Available(width)
           tried == {n \in 0..Len(GiveWayOrder) : fits(n) \/ n = Len(GiveWayOrder)}
           least == Min(tried)
           gave == WantedColumns(want) \cap first(least)
<1>1. GivenWay(want, width) = gave
  BY Zenon DEF GivenWay, Floors
<1>2. Len(GiveWayOrder) = 2 /\ first(0) = {} /\ first(1) = {"deg"} /\ first(2) = Yielding
  <2>1. Len(GiveWayOrder) = 2 /\ GiveWayOrder[1] = "deg" /\ GiveWayOrder[2] = "exchSent"
    BY DEF GiveWayOrder
  <2>2. 1..0 = {} /\ 1..1 = {1} /\ 1..2 = {1, 2}
    OBVIOUS
  <2> QED
    BY <2>1, <2>2 DEF Yielding
<1>3. \A S : Floors(S) \in Nat
  BY FloorsAreLower, TotalIsNat DEF Floors
<1>4. Available(width) \in Int
  BY DEF Available, ColumnWidths
<1>5. least \in 0..2 /\ (fits(least) \/ least = 2) /\ \A n \in 0..2 : n < least => ~fits(n)
  <2> HIDE DEF fits
  <2>1. tried \in SUBSET Nat /\ tried # {} /\ tried \subseteq 0..2
    BY <1>2
  <2>2. PICK m \in tried : \A k \in tried : m <= k
    BY <2>1, LeastExists
  <2>3. least \in tried /\ \A k \in tried : least <= k
    BY <2>2 DEF Min
  <2> HIDE DEF least
  <2> QED
    BY <1>2, <2>1, <2>3
<1> HIDE DEF least, first
<1>6. CASE least = 0
  <2>1. gave = {} /\ grid \ gave = grid \ first(0)
    BY <1>2, <1>6
  <2>2. fits(0)
    BY <1>5, <1>6
  <2>3. gave \subseteq Yielding
    BY <2>1
  <2> QED
    BY <1>1, <2>1, <2>2, <2>3, Zenon DEF GaveRightly
<1>7. CASE least = 1
  <2>1. gave = WantedColumns(want) \cap {"deg"} /\ gave \subseteq Yielding
    BY <1>2, <1>7 DEF Yielding
  <2>2. grid \ gave = grid \ first(1)
    BY <1>2, <2>1
  <2>3. fits(1) /\ ~fits(0)
    BY <1>5, <1>7
  <2>4. ASSUME gave # {}
        PROVE  Floors((grid \ gave) \cup {LastOf(gave)}) > Available(width)
    <3>1. "deg" \in WantedColumns(want) /\ LastOf(gave) = "deg"
      BY <2>1, <2>4 DEF LastOf
    <3>2. (grid \ gave) \cup {LastOf(gave)} = grid \ first(0)
      BY <1>2, <2>1, <3>1
    <3> QED
      BY <1>3, <1>4, <2>3, <3>2
  <2>5. Floors(grid \ gave) <= Available(width)
    BY <2>2, <2>3
  <2> QED
    BY <1>1, <2>1, <2>4, <2>5 DEF GaveRightly
<1>8. CASE least = 2
  <2>1. gave = WantedColumns(want) \cap Yielding
    BY <1>2, <1>8
  <2>2. ~fits(0) /\ ~fits(1)
    BY <1>5, <1>8
  <2>3. ASSUME gave # {}
        PROVE  Floors((grid \ gave) \cup {LastOf(gave)}) > Available(width)
    <3>1. CASE "exchSent" \in gave
      <4>1. LastOf(gave) = "exchSent"
        BY <3>1 DEF LastOf
      <4>2. (grid \ gave) \cup {LastOf(gave)} = grid \ first(1)
        BY <1>2, <2>1, <3>1, <4>1 DEF Yielding
      <4> QED
        BY <1>3, <1>4, <2>2, <4>2
    <3>2. CASE "exchSent" \notin gave
      <4>1. "deg" \in gave /\ LastOf(gave) = "deg" /\ gave = {"deg"}
        BY <2>1, <2>3, <3>2 DEF LastOf, Yielding
      <4>2. (grid \ gave) \cup {LastOf(gave)} = grid \ first(0)
        BY <1>2, <2>1, <4>1
      <4> QED
        BY <1>3, <1>4, <2>2, <4>2
    <3> QED
      BY <3>1, <3>2
  <2> QED
    BY <1>1, <2>1, <2>3 DEF GaveRightly
<1> QED
  BY <1>5, <1>6, <1>7, <1>8

\* The last to give way, as the order of giving way has it.
LEMMA LastGivenIs ==
    ASSUME NEW gave \in SUBSET Yielding, gave # {}
    PROVE  GiveWayOrder[Max({i \in 1..Len(GiveWayOrder) : GiveWayOrder[i] \in gave})] = LastOf(gave)
<1> DEFINE S == {i \in 1..Len(GiveWayOrder) : GiveWayOrder[i] \in gave}
<1>1. Len(GiveWayOrder) = 2 /\ GiveWayOrder[1] = "deg" /\ GiveWayOrder[2] = "exchSent"
  BY DEF GiveWayOrder
<1>2. \A n \in 1..2 : n \in S <=> GiveWayOrder[n] \in gave
  BY <1>1
<1>3. S \subseteq 1..2
  BY <1>1
<1> HIDE DEF S
<1>4. ASSUME NEW n \in S, \A m \in S : n >= m
      PROVE  Max(S) = n
  <2>1. Max(S) \in S /\ \A m \in S : Max(S) >= m
    BY <1>4 DEF Max
  <2>2. Max(S) >= n /\ n >= Max(S) /\ n \in 1..2 /\ Max(S) \in 1..2
    BY <1>3, <1>4, <2>1
  <2> QED
    BY <2>2
<1>5. CASE "exchSent" \in gave
  <2>1. 2 \in S /\ \A m \in S : 2 >= m
    BY <1>1, <1>2, <1>3, <1>5
  <2>2. Max(S) = 2
    BY <1>4, <2>1
  <2> QED
    BY <1>1, <1>5, <2>2 DEF LastOf, S
<1>6. CASE "exchSent" \notin gave
  <2>1. "deg" \in gave
    BY <1>6 DEF Yielding
  <2>2. 1 \in S /\ 2 \notin S
    BY <1>1, <1>2, <1>6, <2>1
  <2>3. \A m \in S : 1 >= m
    BY <1>3, <2>2
  <2>4. Max(S) = 1
    BY <1>4, <2>2, <2>3
  <2> QED
    BY <1>1, <1>6, <2>4 DEF LastOf, S
<1> QED
  BY <1>5, <1>6

-----------------------------------------------------------------------------
(* Log panel: the table is fitted *)

\* A state of the table has these fields.
IsPanel(t) ==
    t = [want |-> t.want, width |-> t.width, hidden |-> t.hidden, gave |-> t.gave, widths |-> t.widths,
         cells |-> t.cells, built |-> t.built, queued |-> t.queued]

SameBut(t, u) == u.width = t.width /\ u.cells = t.cells /\ u.built = t.built /\ u.queued = t.queued

\* One member of the panel set, the others as they were.
LEMMA WantSet ==
    ASSUME NEW t, IsPanel(t), NEW x
    PROVE  LET u == [t EXCEPT !.want = x]
           IN  IsPanel(u) /\ u.want = x /\ u.width = t.width /\ u.hidden = t.hidden /\ u.gave = t.gave
               /\ u.widths = t.widths /\ u.cells = t.cells /\ u.built = t.built /\ u.queued = t.queued
BY DEF IsPanel

\* The columns hidden.
LEMMA HiddenSet ==
    ASSUME NEW t, IsPanel(t), NEW x
    PROVE  LET u == [t EXCEPT !.hidden = x]
           IN  IsPanel(u) /\ u.want = t.want /\ u.width = t.width /\ u.hidden = x /\ u.gave = t.gave
               /\ u.widths = t.widths /\ u.cells = t.cells /\ u.built = t.built /\ u.queued = t.queued
BY DEF IsPanel

\* The columns given way.
LEMMA GaveSet ==
    ASSUME NEW t, IsPanel(t), NEW x
    PROVE  LET u == [t EXCEPT !.gave = x]
           IN  IsPanel(u) /\ u.want = t.want /\ u.width = t.width /\ u.hidden = t.hidden /\ u.gave = x
               /\ u.widths = t.widths /\ u.cells = t.cells /\ u.built = t.built /\ u.queued = t.queued
BY DEF IsPanel

\* The widths of the columns.
LEMMA WidthsSet ==
    ASSUME NEW t, IsPanel(t), NEW x
    PROVE  LET u == [t EXCEPT !.widths = x]
           IN  IsPanel(u) /\ u.want = t.want /\ u.width = t.width /\ u.hidden = t.hidden /\ u.gave = t.gave
               /\ u.widths = x /\ u.cells = t.cells /\ u.built = t.built /\ u.queued = t.queued
BY DEF IsPanel

\* The width of the viewport.
LEMMA WidthSet ==
    ASSUME NEW t, IsPanel(t), NEW x
    PROVE  LET u == [t EXCEPT !.width = x]
           IN  IsPanel(u) /\ u.want = t.want /\ u.width = x /\ u.hidden = t.hidden /\ u.gave = t.gave
               /\ u.widths = t.widths /\ u.cells = t.cells /\ u.built = t.built /\ u.queued = t.queued
BY DEF IsPanel

\* The cells of the entry row.
LEMMA CellsSet ==
    ASSUME NEW t, IsPanel(t), NEW x
    PROVE  LET u == [t EXCEPT !.cells = x]
           IN  IsPanel(u) /\ u.want = t.want /\ u.width = t.width /\ u.hidden = t.hidden /\ u.gave = t.gave
               /\ u.widths = t.widths /\ u.cells = x /\ u.built = t.built /\ u.queued = t.queued
BY DEF IsPanel

\* The cells there are.
LEMMA BuiltSet ==
    ASSUME NEW t, IsPanel(t), NEW x
    PROVE  LET u == [t EXCEPT !.built = x]
           IN  IsPanel(u) /\ u.want = t.want /\ u.width = t.width /\ u.hidden = t.hidden /\ u.gave = t.gave
               /\ u.widths = t.widths /\ u.cells = t.cells /\ u.built = x /\ u.queued = t.queued
BY DEF IsPanel

\* The second look that is queued.
LEMMA QueuedSet ==
    ASSUME NEW t, IsPanel(t), NEW x
    PROVE  LET u == [t EXCEPT !.queued = x]
           IN  IsPanel(u) /\ u.want = t.want /\ u.width = t.width /\ u.hidden = t.hidden /\ u.gave = t.gave
               /\ u.widths = t.widths /\ u.cells = t.cells /\ u.built = t.built /\ u.queued = x
BY DEF IsPanel

\* What is asked for and what is hidden, together.
LEMMA WantedSet ==
    ASSUME NEW t, IsPanel(t), NEW w, NEW h
    PROVE  LET u == [t EXCEPT !.want = w, !.hidden = h]
           IN  IsPanel(u) /\ u.want = w /\ u.hidden = h /\ u.gave = t.gave /\ u.widths = t.widths /\ SameBut(t, u)
<1> DEFINE a == [t EXCEPT !.want = w]
           b == [a EXCEPT !.hidden = h]
<1>1. [t EXCEPT !.want = w, !.hidden = h] = b
  BY Zenon
<1>2. IsPanel(a) /\ a.want = w /\ a.hidden = t.hidden /\ a.gave = t.gave /\ a.widths = t.widths /\ SameBut(t, a)
  BY WantSet DEF SameBut
<1> HIDE DEF a
<1>3. IsPanel(b) /\ b.want = a.want /\ b.hidden = h /\ b.gave = a.gave /\ b.widths = a.widths /\ SameBut(a, b)
  BY <1>2, HiddenSet DEF SameBut
<1> HIDE DEF b
<1>4. SameBut(t, b)
  BY <1>2, <1>3 DEF SameBut
<1> QED
  BY <1>1, <1>2, <1>3, <1>4

\* What fitting sets, together.
LEMMA FitSet ==
    ASSUME NEW t, IsPanel(t), NEW g, NEW h, NEW w
    PROVE  LET u == [t EXCEPT !.gave = g, !.hidden = h, !.widths = w]
           IN  IsPanel(u) /\ u.want = t.want /\ u.hidden = h /\ u.gave = g /\ u.widths = w /\ SameBut(t, u)
<1> DEFINE a == [t EXCEPT !.gave = g]
           b == [a EXCEPT !.hidden = h]
           c == [b EXCEPT !.widths = w]
<1>1. [t EXCEPT !.gave = g, !.hidden = h, !.widths = w] = c
  BY Zenon
<1>2. IsPanel(a) /\ a.want = t.want /\ a.hidden = t.hidden /\ a.gave = g /\ SameBut(t, a)
  BY GaveSet DEF SameBut
<1> HIDE DEF a
<1>3. IsPanel(b) /\ b.want = a.want /\ b.hidden = h /\ b.gave = a.gave /\ SameBut(a, b)
  BY <1>2, HiddenSet DEF SameBut
<1> HIDE DEF b
<1>4. IsPanel(c) /\ c.want = b.want /\ c.hidden = b.hidden /\ c.gave = b.gave /\ c.widths = w /\ SameBut(b, c)
  BY <1>3, WidthsSet DEF SameBut
<1> HIDE DEF c
<1>5. SameBut(t, c)
  BY <1>2, <1>3, <1>4 DEF SameBut
<1> QED
  BY <1>1, <1>2, <1>3, <1>4, <1>5

Grid(want, gave) == (WantedColumns(want) \ gave) \ {"status"}
HiddenFor(want, gave) == Columns \ (WantedColumns(want) \ gave)
Widthy(t) == t.want \in Wants /\ t.width \in LtWidths \cup {LtFirstWidth}

\* What is fitted shows the columns that are wanted, as wide as there is room.
FitsWell(t) ==
    /\ t.gave \subseteq Yielding /\ t.hidden = HiddenFor(t.want, t.gave)
    /\ IsWidths(t.widths, Grid(t.want, t.gave))
    /\ t.width < 200 => t.gave = {} /\ t.widths = ColumnWidths
    /\ t.width >= 200 =>
          /\ GaveRightly(t.want, t.width, t.gave)
          /\ \/ TotalWidth(Grid(t.want, t.gave), t.widths) <= Available(t.width)
             \/ Floors(Grid(t.want, t.gave)) > Available(t.width)

\* The width of the viewport is a number.
LEMMA WidthIs ==
    ASSUME LogTableAssumption, NEW t, Widthy(t)
    PROVE  t.want \in Wants /\ t.width \in Nat
<1>1. \A w \in LtWidths : w \in Nat
  BY DEF LogTableAssumption
<1>2. LtFirstWidth \in Nat
  BY DEF LogTableAssumption
<1> QED
  BY <1>1, <1>2 DEF Widthy

\* Fitted, or too narrow yet to be.
LEMMA FittedFits ==
    ASSUME LogTableAssumption, NEW t, IsPanel(t), Widthy(t), t.width < 200 => FitsWell(t)
    PROVE  LET u == Fitted(t, t.width)
           IN  IsPanel(u) /\ FitsWell(u) /\ u.want = t.want /\ SameBut(t, u)
<1>1. t.width \in Nat /\ t.want \in Wants
  BY WidthIs
<1>2. CASE t.width < 200
  <2>1. Fitted(t, t.width) = t
    BY <1>2 DEF Fitted
  <2> QED
    BY <1>2, <2>1 DEF SameBut
<1>3. CASE ~(t.width < 200)
  <2> DEFINE gave == GivenWay(t.want, t.width)
             shown == WantedColumns(t.want) \ gave
             grid == shown \ {"status"}
             w == Trimmed(Scaled(grid, t.width), grid, t.width)
             h == Columns \ shown
             u == [t EXCEPT !.gave = gave, !.hidden = h, !.widths = w]
  <2>1. Fitted(t, t.width) = u
    BY <1>3, Zenon DEF Fitted
  <2>2. GaveRightly(t.want, t.width, gave)
    BY <1>1, GivenWayIs
  <2>3. grid \in SUBSET Columns /\ gave \subseteq Yielding
    BY <1>1, <2>2, WantedIs DEF GaveRightly
  <2>4. grid = Grid(t.want, gave) /\ h = HiddenFor(t.want, gave)
    BY Zenon DEF Grid, HiddenFor
  <2> HIDE DEF gave, grid, h
  <2>5. /\ IsWidths(Scaled(grid, t.width), grid)
        /\ TotalWidth(grid, ColumnWidths) <= Available(t.width)
              => TotalWidth(grid, Scaled(grid, t.width)) <= Available(t.width)
    BY <1>1, <1>3, <2>3, ScaledIs
  <2>6. IsWidths(w, grid) /\ (TotalWidth(grid, w) <= Available(t.width) \/ Floors(grid) > Available(t.width))
    BY <1>1, <2>3, <2>5, TrimmedIs DEF Floors
  <2> HIDE DEF w
  <2>7. IsPanel(u) /\ u.want = t.want /\ u.hidden = h /\ u.gave = gave /\ u.widths = w /\ SameBut(t, u)
    BY FitSet
  <2>8. u.width = t.width
    BY <2>7 DEF SameBut
  <2> HIDE DEF u
  <2>9. FitsWell(u)
    BY <1>1, <1>3, <2>2, <2>3, <2>4, <2>6, <2>7, <2>8 DEF FitsWell
  <2> QED
    BY <2>1, <2>7, <2>9
<1> QED
  BY <1>2, <1>3

-----------------------------------------------------------------------------
(* Log panel: where the columns start *)

\* The room a column takes.
Takes(t, col) == IF col \in t.hidden THEN 0 ELSE t.widths[col]

\* The columns in their order, one by one.
LEMMA OrderIs ==
    /\ LET order == VisualOrder(TRUE)
       IN  /\ Len(order) = 13
           /\ order[1] = "serial" /\ order[2] = "band" /\ order[3] = "time" /\ order[4] = "call"
           /\ order[5] = "rstSent" /\ order[6] = "serialSent" /\ order[7] = "rstRcvd" /\ order[8] = "serialGrid"
           /\ order[9] = "km" /\ order[10] = "deg" /\ order[11] = "status" /\ order[12] = "exchSent"
           /\ order[13] = "exchRcvd"
    /\ LET order == VisualOrder(FALSE)
       IN  /\ Len(order) = 13
           /\ order[1] = "serial" /\ order[2] = "band" /\ order[3] = "time" /\ order[4] = "call"
           /\ order[5] = "exchSent" /\ order[6] = "rstRcvd" /\ order[7] = "serialGrid" /\ order[8] = "km"
           /\ order[9] = "deg" /\ order[10] = "status" /\ order[11] = "rstSent" /\ order[12] = "serialSent"
           /\ order[13] = "exchRcvd"
BY DEF VisualOrder

\* What stands before the n-th column, if it stands nowhere else.
Firsts(order, n) == {order[i] : i \in 1..(n - 1)}
StandsAt(order, n, col) == n \in 1..13 /\ \A i \in 1..13 : order[i] = col <=> i = n
\* Where a column starts, by the place it stands at.
LEMMA LeftIs ==
    ASSUME NEW t, NEW order, order = VisualOrder(t.want.dx), Len(order) = 13, NEW n, NEW col, StandsAt(order, n, col)
    PROVE  LeftOf(t, col) = TotalWidth(Firsts(order, n) \ t.hidden, t.widths)
<1> DEFINE place == CHOOSE i \in 1..Len(order) : order[i] = col
<1>1. place = n
  BY DEF StandsAt
<1>2. LeftOf(t, col) = TotalWidth({order[i] : i \in 1..(place - 1)} \ t.hidden, t.widths)
  BY Zenon DEF LeftOf
<1>3. {order[i] : i \in 1..(place - 1)} = Firsts(order, n)
  BY <1>1 DEF Firsts
<1> HIDE DEF place
<1> QED
  BY <1>2, <1>3

Before(col) ==
    CASE col = "serial" -> {}
      [] col = "band" -> {"serial"}
      [] col = "time" -> {"serial", "band"}
      [] col = "call" -> {"serial", "band", "time"}
      [] col = "rstRcvd" -> {"serial", "band", "time", "call", "exchSent", "rstSent", "serialSent"}
      [] col = "km" -> {"serial", "band", "time", "call", "exchSent", "rstSent", "serialSent", "rstRcvd", "serialGrid"}

\* Up to the distance, the columns of the one view and of the other stand in
\* one order, those of the other hidden.
LEMMA LeftOfIs ==
    ASSUME NEW t, t.want \in Wants, t.gave \subseteq Yielding, t.hidden = HiddenFor(t.want, t.gave),
           NEW col \in {"serial", "band", "time", "call", "rstRcvd", "km"}
    PROVE  LeftOf(t, col) = TotalWidth(Before(col) \ t.hidden, t.widths)
<1>1. PICK dx \in BOOLEAN : t.want.dx = dx
  BY DEF Wants
<1>2. dx => "exchSent" \in t.hidden
  BY <1>1, WantedIs, ColumnsAre DEF HiddenFor
<1>3. ~dx => "rstSent" \in t.hidden /\ "serialSent" \in t.hidden
  BY <1>1, WantedIs, ColumnsAre DEF HiddenFor
<1> DEFINE order == VisualOrder(dx)
<1>4. CASE dx = TRUE
  <2>1. /\ Len(order) = 13
        /\ order[1] = "serial" /\ order[2] = "band" /\ order[3] = "time" /\ order[4] = "call" /\ order[5] = "rstSent"
        /\ order[6] = "serialSent" /\ order[7] = "rstRcvd" /\ order[8] = "serialGrid" /\ order[9] = "km" /\ order[10] = "deg"
        /\ order[11] = "status" /\ order[12] = "exchSent" /\ order[13] = "exchRcvd"
    BY <1>4, OrderIs
  <2>2. order = VisualOrder(t.want.dx)
    BY <1>1, <1>4
  <2> HIDE DEF order
  <2>0. Len(order) = 13
    BY <2>1
  <2>3. CASE col = "serial"
    <3>1. 1..(1 - 1) = {}
      OBVIOUS
    <3>2. Firsts(order, 1) = {}
      BY <2>1, <3>1 DEF Firsts
    <3>3. Before("serial") = {}
      BY DEF Before
    <3>4. Firsts(order, 1) \ t.hidden = Before("serial") \ t.hidden
      BY <1>2, <1>3, <1>4, <3>2, <3>3
    <3>5. StandsAt(order, 1, "serial")
      BY <2>1 DEF StandsAt
    <3>6. LeftOf(t, "serial") = TotalWidth(Firsts(order, 1) \ t.hidden, t.widths)
      BY <2>0, <2>2, <3>5, LeftIs
    <3> QED
      BY <2>3, <3>4, <3>6
  <2>4. CASE col = "band"
    <3>1. 1..(2 - 1) = {1}
      OBVIOUS
    <3>2. Firsts(order, 2) = {"serial"}
      BY <2>1, <3>1 DEF Firsts
    <3>3. Before("band") = {"serial"}
      BY DEF Before
    <3>4. Firsts(order, 2) \ t.hidden = Before("band") \ t.hidden
      BY <1>2, <1>3, <1>4, <3>2, <3>3
    <3>5. StandsAt(order, 2, "band")
      BY <2>1 DEF StandsAt
    <3>6. LeftOf(t, "band") = TotalWidth(Firsts(order, 2) \ t.hidden, t.widths)
      BY <2>0, <2>2, <3>5, LeftIs
    <3> QED
      BY <2>4, <3>4, <3>6
  <2>5. CASE col = "time"
    <3>1. 1..(3 - 1) = {1, 2}
      OBVIOUS
    <3>2. Firsts(order, 3) = {"serial", "band"}
      BY <2>1, <3>1 DEF Firsts
    <3>3. Before("time") = {"serial", "band"}
      BY DEF Before
    <3>4. Firsts(order, 3) \ t.hidden = Before("time") \ t.hidden
      BY <1>2, <1>3, <1>4, <3>2, <3>3
    <3>5. StandsAt(order, 3, "time")
      BY <2>1 DEF StandsAt
    <3>6. LeftOf(t, "time") = TotalWidth(Firsts(order, 3) \ t.hidden, t.widths)
      BY <2>0, <2>2, <3>5, LeftIs
    <3> QED
      BY <2>5, <3>4, <3>6
  <2>6. CASE col = "call"
    <3>1. 1..(4 - 1) = {1, 2, 3}
      OBVIOUS
    <3>2. Firsts(order, 4) = {"serial", "band", "time"}
      BY <2>1, <3>1 DEF Firsts
    <3>3. Before("call") = {"serial", "band", "time"}
      BY DEF Before
    <3>4. Firsts(order, 4) \ t.hidden = Before("call") \ t.hidden
      BY <1>2, <1>3, <1>4, <3>2, <3>3
    <3>5. StandsAt(order, 4, "call")
      BY <2>1 DEF StandsAt
    <3>6. LeftOf(t, "call") = TotalWidth(Firsts(order, 4) \ t.hidden, t.widths)
      BY <2>0, <2>2, <3>5, LeftIs
    <3> QED
      BY <2>6, <3>4, <3>6
  <2>7. CASE col = "rstRcvd"
    <3>1. 1..(7 - 1) = {1, 2, 3, 4, 5, 6}
      OBVIOUS
    <3>2. Firsts(order, 7) = {"serial", "band", "time", "call", "rstSent", "serialSent"}
      BY <2>1, <3>1 DEF Firsts
    <3>3. Before("rstRcvd") = {"serial", "band", "time", "call", "exchSent", "rstSent", "serialSent"}
      BY DEF Before
    <3>4. Firsts(order, 7) \ t.hidden = Before("rstRcvd") \ t.hidden
      BY <1>2, <1>3, <1>4, <3>2, <3>3
    <3>5. StandsAt(order, 7, "rstRcvd")
      BY <2>1 DEF StandsAt
    <3>6. LeftOf(t, "rstRcvd") = TotalWidth(Firsts(order, 7) \ t.hidden, t.widths)
      BY <2>0, <2>2, <3>5, LeftIs
    <3> QED
      BY <2>7, <3>4, <3>6
  <2>8. CASE col = "km"
    <3>1. 1..(9 - 1) = {1, 2, 3, 4, 5, 6, 7, 8}
      OBVIOUS
    <3>2. Firsts(order, 9) = {"serial", "band", "time", "call", "rstSent", "serialSent", "rstRcvd", "serialGrid"}
      BY <2>1, <3>1 DEF Firsts
    <3>3. Before("km") = {"serial", "band", "time", "call", "exchSent", "rstSent", "serialSent", "rstRcvd", "serialGrid"}
      BY DEF Before
    <3>4. Firsts(order, 9) \ t.hidden = Before("km") \ t.hidden
      BY <1>2, <1>3, <1>4, <3>2, <3>3
    <3>5. StandsAt(order, 9, "km")
      BY <2>1 DEF StandsAt
    <3>6. LeftOf(t, "km") = TotalWidth(Firsts(order, 9) \ t.hidden, t.widths)
      BY <2>0, <2>2, <3>5, LeftIs
    <3> QED
      BY <2>8, <3>4, <3>6
  <2> QED
    BY <2>3, <2>4, <2>5, <2>6, <2>7, <2>8
<1>5. CASE dx = FALSE
  <2>1. /\ Len(order) = 13
        /\ order[1] = "serial" /\ order[2] = "band" /\ order[3] = "time" /\ order[4] = "call" /\ order[5] = "exchSent"
        /\ order[6] = "rstRcvd" /\ order[7] = "serialGrid" /\ order[8] = "km" /\ order[9] = "deg" /\ order[10] = "status"
        /\ order[11] = "rstSent" /\ order[12] = "serialSent" /\ order[13] = "exchRcvd"
    BY <1>5, OrderIs
  <2>2. order = VisualOrder(t.want.dx)
    BY <1>1, <1>5
  <2> HIDE DEF order
  <2>0. Len(order) = 13
    BY <2>1
  <2>3. CASE col = "serial"
    <3>1. 1..(1 - 1) = {}
      OBVIOUS
    <3>2. Firsts(order, 1) = {}
      BY <2>1, <3>1 DEF Firsts
    <3>3. Before("serial") = {}
      BY DEF Before
    <3>4. Firsts(order, 1) \ t.hidden = Before("serial") \ t.hidden
      BY <1>2, <1>3, <1>5, <3>2, <3>3
    <3>5. StandsAt(order, 1, "serial")
      BY <2>1 DEF StandsAt
    <3>6. LeftOf(t, "serial") = TotalWidth(Firsts(order, 1) \ t.hidden, t.widths)
      BY <2>0, <2>2, <3>5, LeftIs
    <3> QED
      BY <2>3, <3>4, <3>6
  <2>4. CASE col = "band"
    <3>1. 1..(2 - 1) = {1}
      OBVIOUS
    <3>2. Firsts(order, 2) = {"serial"}
      BY <2>1, <3>1 DEF Firsts
    <3>3. Before("band") = {"serial"}
      BY DEF Before
    <3>4. Firsts(order, 2) \ t.hidden = Before("band") \ t.hidden
      BY <1>2, <1>3, <1>5, <3>2, <3>3
    <3>5. StandsAt(order, 2, "band")
      BY <2>1 DEF StandsAt
    <3>6. LeftOf(t, "band") = TotalWidth(Firsts(order, 2) \ t.hidden, t.widths)
      BY <2>0, <2>2, <3>5, LeftIs
    <3> QED
      BY <2>4, <3>4, <3>6
  <2>5. CASE col = "time"
    <3>1. 1..(3 - 1) = {1, 2}
      OBVIOUS
    <3>2. Firsts(order, 3) = {"serial", "band"}
      BY <2>1, <3>1 DEF Firsts
    <3>3. Before("time") = {"serial", "band"}
      BY DEF Before
    <3>4. Firsts(order, 3) \ t.hidden = Before("time") \ t.hidden
      BY <1>2, <1>3, <1>5, <3>2, <3>3
    <3>5. StandsAt(order, 3, "time")
      BY <2>1 DEF StandsAt
    <3>6. LeftOf(t, "time") = TotalWidth(Firsts(order, 3) \ t.hidden, t.widths)
      BY <2>0, <2>2, <3>5, LeftIs
    <3> QED
      BY <2>5, <3>4, <3>6
  <2>6. CASE col = "call"
    <3>1. 1..(4 - 1) = {1, 2, 3}
      OBVIOUS
    <3>2. Firsts(order, 4) = {"serial", "band", "time"}
      BY <2>1, <3>1 DEF Firsts
    <3>3. Before("call") = {"serial", "band", "time"}
      BY DEF Before
    <3>4. Firsts(order, 4) \ t.hidden = Before("call") \ t.hidden
      BY <1>2, <1>3, <1>5, <3>2, <3>3
    <3>5. StandsAt(order, 4, "call")
      BY <2>1 DEF StandsAt
    <3>6. LeftOf(t, "call") = TotalWidth(Firsts(order, 4) \ t.hidden, t.widths)
      BY <2>0, <2>2, <3>5, LeftIs
    <3> QED
      BY <2>6, <3>4, <3>6
  <2>7. CASE col = "rstRcvd"
    <3>1. 1..(6 - 1) = {1, 2, 3, 4, 5}
      OBVIOUS
    <3>2. Firsts(order, 6) = {"serial", "band", "time", "call", "exchSent"}
      BY <2>1, <3>1 DEF Firsts
    <3>3. Before("rstRcvd") = {"serial", "band", "time", "call", "exchSent", "rstSent", "serialSent"}
      BY DEF Before
    <3>4. Firsts(order, 6) \ t.hidden = Before("rstRcvd") \ t.hidden
      BY <1>2, <1>3, <1>5, <3>2, <3>3
    <3>5. StandsAt(order, 6, "rstRcvd")
      BY <2>1 DEF StandsAt
    <3>6. LeftOf(t, "rstRcvd") = TotalWidth(Firsts(order, 6) \ t.hidden, t.widths)
      BY <2>0, <2>2, <3>5, LeftIs
    <3> QED
      BY <2>7, <3>4, <3>6
  <2>8. CASE col = "km"
    <3>1. 1..(8 - 1) = {1, 2, 3, 4, 5, 6, 7}
      OBVIOUS
    <3>2. Firsts(order, 8) = {"serial", "band", "time", "call", "exchSent", "rstRcvd", "serialGrid"}
      BY <2>1, <3>1 DEF Firsts
    <3>3. Before("km") = {"serial", "band", "time", "call", "exchSent", "rstSent", "serialSent", "rstRcvd", "serialGrid"}
      BY DEF Before
    <3>4. Firsts(order, 8) \ t.hidden = Before("km") \ t.hidden
      BY <1>2, <1>3, <1>5, <3>2, <3>3
    <3>5. StandsAt(order, 8, "km")
      BY <2>1 DEF StandsAt
    <3>6. LeftOf(t, "km") = TotalWidth(Firsts(order, 8) \ t.hidden, t.widths)
      BY <2>0, <2>2, <3>5, LeftIs
    <3> QED
      BY <2>8, <3>4, <3>6
  <2> QED
    BY <2>3, <2>4, <2>5, <2>6, <2>7, <2>8
<1> QED
  BY <1>4, <1>5

\* What stands before a column, column by column.
LEMMA BeforeAddsUp ==
    ASSUME NEW t, \A col \in Columns : t.widths[col] \in Nat
    PROVE  /\ TotalWidth(Before("serial") \ t.hidden, t.widths)
                 = 0
           /\ TotalWidth(Before("band") \ t.hidden, t.widths)
                 = Takes(t, "serial")
           /\ TotalWidth(Before("time") \ t.hidden, t.widths)
                 = Takes(t, "serial") + Takes(t, "band")
           /\ TotalWidth(Before("call") \ t.hidden, t.widths)
                 = Takes(t, "serial") + Takes(t, "band") + Takes(t, "time")
           /\ TotalWidth(Before("rstRcvd") \ t.hidden, t.widths)
                 = Takes(t, "serial") + Takes(t, "band") + Takes(t, "time") + Takes(t, "call")
                         + Takes(t, "exchSent") + Takes(t, "rstSent") + Takes(t, "serialSent")
           /\ TotalWidth(Before("km") \ t.hidden, t.widths)
                 = Takes(t, "serial") + Takes(t, "band") + Takes(t, "time") + Takes(t, "call")
                         + Takes(t, "exchSent") + Takes(t, "rstSent") + Takes(t, "serialSent") + Takes(t, "rstRcvd")
                         + Takes(t, "serialGrid")
<1> DEFINE w(col) == Takes(t, col)
           p(c, col) == PartOf(Before(c) \ t.hidden, t.widths, col)
<1>1. \A col \in Columns : w(col) \in Nat
  BY DEF Takes
<1>2. ASSUME NEW c, NEW col
      PROVE  p(c, col) = IF col \in Before(c) THEN w(col) ELSE 0
  BY Zenon DEF PartOf, Takes
<1>3. ASSUME NEW c
      PROVE  TotalWidth(Before(c) \ t.hidden, t.widths) = p(c, "serial") + p(c, "time") + p(c, "call")
              + p(c, "exchSent") + p(c, "exchRcvd") + p(c, "km") + p(c, "deg") + p(c, "status") + p(c, "band")
              + p(c, "rstSent") + p(c, "serialSent") + p(c, "rstRcvd") + p(c, "serialGrid")
  BY TotalIs
<1> HIDE DEF w, p
<1>4. w("serial") \in Nat
  BY <1>1, ColumnsAre
<1>5. w("time") \in Nat
  BY <1>1, ColumnsAre
<1>6. w("call") \in Nat
  BY <1>1, ColumnsAre
<1>7. w("exchSent") \in Nat
  BY <1>1, ColumnsAre
<1>8. w("exchRcvd") \in Nat
  BY <1>1, ColumnsAre
<1>9. w("km") \in Nat
  BY <1>1, ColumnsAre
<1>10. w("deg") \in Nat
  BY <1>1, ColumnsAre
<1>11. w("status") \in Nat
  BY <1>1, ColumnsAre
<1>12. w("band") \in Nat
  BY <1>1, ColumnsAre
<1>13. w("rstSent") \in Nat
  BY <1>1, ColumnsAre
<1>14. w("serialSent") \in Nat
  BY <1>1, ColumnsAre
<1>15. w("rstRcvd") \in Nat
  BY <1>1, ColumnsAre
<1>16. w("serialGrid") \in Nat
  BY <1>1, ColumnsAre
<1>17. TotalWidth(Before("serial") \ t.hidden, t.widths) = 0
  <2>1. Before("serial") = {}
    BY DEF Before
  <2>2. p("serial", "serial") = 0 /\ p("serial", "time") = 0 /\ p("serial", "call") = 0 /\ p("serial", "exchSent")
          = 0 /\ p("serial", "exchRcvd") = 0 /\ p("serial", "km") = 0 /\ p("serial", "deg") = 0
    BY <1>2, <2>1
  <2>3. p("serial", "status") = 0 /\ p("serial", "band") = 0 /\ p("serial", "rstSent") = 0
          /\ p("serial", "serialSent") = 0 /\ p("serial", "rstRcvd") = 0 /\ p("serial", "serialGrid") = 0
    BY <1>2, <2>1
  <2>4. TotalWidth(Before("serial") \ t.hidden, t.widths) = p("serial", "serial") + p("serial", "time")
          + p("serial", "call") + p("serial", "exchSent") + p("serial", "exchRcvd") + p("serial", "km")
          + p("serial", "deg") + p("serial", "status") + p("serial", "band") + p("serial", "rstSent")
          + p("serial", "serialSent") + p("serial", "rstRcvd") + p("serial", "serialGrid")
    BY <1>3
  <2> QED
    BY <2>2, <2>3, <2>4, <1>4, <1>5, <1>6, <1>7, <1>8, <1>9, <1>10, <1>11, <1>12, <1>13, <1>14, <1>15, <1>16
<1>18. TotalWidth(Before("band") \ t.hidden, t.widths) = w("serial")
  <2>1. Before("band") = {"serial"}
    BY DEF Before
  <2>2. p("band", "serial") = w("serial") /\ p("band", "time") = 0 /\ p("band", "call") = 0 /\ p("band", "exchSent")
          = 0 /\ p("band", "exchRcvd") = 0 /\ p("band", "km") = 0 /\ p("band", "deg") = 0
    BY <1>2, <2>1
  <2>3. p("band", "status") = 0 /\ p("band", "band") = 0 /\ p("band", "rstSent") = 0 /\ p("band", "serialSent") = 0
          /\ p("band", "rstRcvd") = 0 /\ p("band", "serialGrid") = 0
    BY <1>2, <2>1
  <2>4. TotalWidth(Before("band") \ t.hidden, t.widths) = p("band", "serial") + p("band", "time")
          + p("band", "call") + p("band", "exchSent") + p("band", "exchRcvd") + p("band", "km") + p("band", "deg")
          + p("band", "status") + p("band", "band") + p("band", "rstSent") + p("band", "serialSent")
          + p("band", "rstRcvd") + p("band", "serialGrid")
    BY <1>3
  <2> QED
    BY <2>2, <2>3, <2>4, <1>4, <1>5, <1>6, <1>7, <1>8, <1>9, <1>10, <1>11, <1>12, <1>13, <1>14, <1>15, <1>16
<1>19. TotalWidth(Before("time") \ t.hidden, t.widths) = w("serial") + w("band")
  <2>1. Before("time") = {"serial", "band"}
    BY DEF Before
  <2>2. p("time", "serial") = w("serial") /\ p("time", "time") = 0 /\ p("time", "call") = 0 /\ p("time", "exchSent")
          = 0 /\ p("time", "exchRcvd") = 0 /\ p("time", "km") = 0 /\ p("time", "deg") = 0
    BY <1>2, <2>1
  <2>3. p("time", "status") = 0 /\ p("time", "band") = w("band") /\ p("time", "rstSent") = 0
          /\ p("time", "serialSent") = 0 /\ p("time", "rstRcvd") = 0 /\ p("time", "serialGrid") = 0
    BY <1>2, <2>1
  <2>4. TotalWidth(Before("time") \ t.hidden, t.widths) = p("time", "serial") + p("time", "time")
          + p("time", "call") + p("time", "exchSent") + p("time", "exchRcvd") + p("time", "km") + p("time", "deg")
          + p("time", "status") + p("time", "band") + p("time", "rstSent") + p("time", "serialSent")
          + p("time", "rstRcvd") + p("time", "serialGrid")
    BY <1>3
  <2> QED
    BY <2>2, <2>3, <2>4, <1>4, <1>5, <1>6, <1>7, <1>8, <1>9, <1>10, <1>11, <1>12, <1>13, <1>14, <1>15, <1>16
<1>20. TotalWidth(Before("call") \ t.hidden, t.widths) = w("serial") + w("band") + w("time")
  <2>1. Before("call") = {"serial", "band", "time"}
    BY DEF Before
  <2>2. p("call", "serial") = w("serial") /\ p("call", "time") = w("time") /\ p("call", "call") = 0
          /\ p("call", "exchSent") = 0 /\ p("call", "exchRcvd") = 0 /\ p("call", "km") = 0 /\ p("call", "deg") = 0
    BY <1>2, <2>1
  <2>3. p("call", "status") = 0 /\ p("call", "band") = w("band") /\ p("call", "rstSent") = 0
          /\ p("call", "serialSent") = 0 /\ p("call", "rstRcvd") = 0 /\ p("call", "serialGrid") = 0
    BY <1>2, <2>1
  <2>4. TotalWidth(Before("call") \ t.hidden, t.widths) = p("call", "serial") + p("call", "time")
          + p("call", "call") + p("call", "exchSent") + p("call", "exchRcvd") + p("call", "km") + p("call", "deg")
          + p("call", "status") + p("call", "band") + p("call", "rstSent") + p("call", "serialSent")
          + p("call", "rstRcvd") + p("call", "serialGrid")
    BY <1>3
  <2> QED
    BY <2>2, <2>3, <2>4, <1>4, <1>5, <1>6, <1>7, <1>8, <1>9, <1>10, <1>11, <1>12, <1>13, <1>14, <1>15, <1>16
<1>21. TotalWidth(Before("rstRcvd") \ t.hidden, t.widths) = w("serial") + w("band") + w("time") + w("call")
        + w("exchSent") + w("rstSent") + w("serialSent")
  <2>1. Before("rstRcvd") = {"serial", "band", "time", "call", "exchSent", "rstSent", "serialSent"}
    BY DEF Before
  <2>2. p("rstRcvd", "serial") = w("serial") /\ p("rstRcvd", "time") = w("time") /\ p("rstRcvd", "call") = w("call")
          /\ p("rstRcvd", "exchSent") = w("exchSent") /\ p("rstRcvd", "exchRcvd") = 0 /\ p("rstRcvd", "km") = 0
          /\ p("rstRcvd", "deg") = 0
    BY <1>2, <2>1
  <2>3. p("rstRcvd", "status") = 0 /\ p("rstRcvd", "band") = w("band") /\ p("rstRcvd", "rstSent") = w("rstSent")
          /\ p("rstRcvd", "serialSent") = w("serialSent") /\ p("rstRcvd", "rstRcvd") = 0
          /\ p("rstRcvd", "serialGrid") = 0
    BY <1>2, <2>1
  <2>4. TotalWidth(Before("rstRcvd") \ t.hidden, t.widths) = p("rstRcvd", "serial") + p("rstRcvd", "time")
          + p("rstRcvd", "call") + p("rstRcvd", "exchSent") + p("rstRcvd", "exchRcvd") + p("rstRcvd", "km")
          + p("rstRcvd", "deg") + p("rstRcvd", "status") + p("rstRcvd", "band") + p("rstRcvd", "rstSent")
          + p("rstRcvd", "serialSent") + p("rstRcvd", "rstRcvd") + p("rstRcvd", "serialGrid")
    BY <1>3
  <2> QED
    BY <2>2, <2>3, <2>4, <1>4, <1>5, <1>6, <1>7, <1>8, <1>9, <1>10, <1>11, <1>12, <1>13, <1>14, <1>15, <1>16
<1>22. TotalWidth(Before("km") \ t.hidden, t.widths) = w("serial") + w("band") + w("time") + w("call")
        + w("exchSent") + w("rstSent") + w("serialSent") + w("rstRcvd") + w("serialGrid")
  <2>1. Before("km") = {"serial", "band", "time", "call", "exchSent", "rstSent", "serialSent", "rstRcvd", "serialGrid"}
    BY DEF Before
  <2>2. p("km", "serial") = w("serial") /\ p("km", "time") = w("time") /\ p("km", "call") = w("call")
          /\ p("km", "exchSent") = w("exchSent") /\ p("km", "exchRcvd") = 0 /\ p("km", "km") = 0 /\ p("km", "deg") = 0
    BY <1>2, <2>1
  <2>3. p("km", "status") = 0 /\ p("km", "band") = w("band") /\ p("km", "rstSent") = w("rstSent")
          /\ p("km", "serialSent") = w("serialSent") /\ p("km", "rstRcvd") = w("rstRcvd") /\ p("km", "serialGrid")
          = w("serialGrid")
    BY <1>2, <2>1
  <2>4. TotalWidth(Before("km") \ t.hidden, t.widths) = p("km", "serial") + p("km", "time") + p("km", "call")
          + p("km", "exchSent") + p("km", "exchRcvd") + p("km", "km") + p("km", "deg") + p("km", "status")
          + p("km", "band") + p("km", "rstSent") + p("km", "serialSent") + p("km", "rstRcvd") + p("km", "serialGrid")
    BY <1>3
  <2> QED
    BY <2>2, <2>3, <2>4, <1>4, <1>5, <1>6, <1>7, <1>8, <1>9, <1>10, <1>11, <1>12, <1>13, <1>14, <1>15, <1>16
<1> QED
  BY <1>17, <1>18, <1>19, <1>20, <1>21, <1>22 DEF w

-----------------------------------------------------------------------------
(* Log panel: the row is laid under the table *)

\* The cells there are, are those of the columns that are asked for.
IsBuilt(t) ==
    \E serial, band \in BOOLEAN : /\ t.built = [serial |-> serial, band |-> band]
                                  /\ serial = TRUE <=> t.want.number
                                  /\ band = TRUE <=> t.want.dx \/ t.want.bands

\* Every cell takes the room of its columns.
LinedUp(t) ==
    /\ t.cells.serial = Takes(t, "serial") /\ t.cells.band = Takes(t, "band")
    /\ t.cells.time = Takes(t, "time") /\ t.cells.call = Takes(t, "call")
    /\ t.cells.sent = Takes(t, "exchSent") + Takes(t, "rstSent") + Takes(t, "serialSent")
    /\ t.cells.rcvd = Takes(t, "rstRcvd") + Takes(t, "serialGrid")

\* Which columns are shown.
LEMMA HiddenIs ==
    ASSUME NEW t, t.want \in Wants, t.gave \subseteq Yielding, t.hidden = HiddenFor(t.want, t.gave)
    PROVE  /\ "serial" \notin t.hidden <=> t.want.number
           /\ "band" \notin t.hidden <=> t.want.dx \/ t.want.bands
           /\ "rstSent" \notin t.hidden <=> t.want.dx
           /\ "serialSent" \notin t.hidden <=> t.want.dx
           /\ t.want.dx => "exchSent" \in t.hidden
           /\ {"time", "call", "status", "rstRcvd", "serialGrid"} \cap t.hidden = {}
           /\ t.hidden \subseteq Columns
BY WantedIs, ColumnsAre DEF HiddenFor, Yielding

\* The row laid anew lines up with the columns.
LEMMA RelaidIs ==
    ASSUME NEW t, IsPanel(t), t.want \in Wants, FitsWell(t), IsBuilt(t)
    PROVE  LET u == Relaid(t)
           IN  /\ IsPanel(u) /\ FitsWell(u) /\ IsBuilt(u) /\ LinedUp(u)
               /\ u.want = t.want /\ u.width = t.width /\ u.queued = IF t.queued = 0 THEN 1 ELSE t.queued
<1> DEFINE c == [serial |-> IF t.built.serial /\ "serial" \notin t.hidden
                            THEN LeftOf(t, "band") - LeftOf(t, "serial") ELSE 0,
                 band |-> IF t.built.band THEN LeftOf(t, "time") - LeftOf(t, "band") ELSE 0,
                 time |-> LeftOf(t, "call") - LeftOf(t, "time"),
                 call |-> t.widths["call"],
                 sent |-> IF t.want.dx THEN t.widths["rstSent"] + t.widths["serialSent"]
                          ELSE IF "exchSent" \in t.hidden THEN 0 ELSE t.widths["exchSent"],
                 rcvd |-> GroupWidth(t),
                 km |-> t.widths["km"],
                 deg |-> IF "deg" \in t.hidden THEN 0 ELSE t.widths["deg"]]
           q == IF t.queued = 0 THEN 1 ELSE t.queued
           a == [t EXCEPT !.cells = c]
           u == [a EXCEPT !.queued = q]
<1>1. Relaid(t) = u
  BY Zenon DEF Relaid
<1>2. /\ t.gave \subseteq Yielding /\ t.hidden = HiddenFor(t.want, t.gave)
      /\ \A col \in Columns : t.widths[col] \in Nat
  BY DEF FitsWell, IsWidths
<1>3. /\ LeftOf(t, "serial") = 0 /\ LeftOf(t, "band") = Takes(t, "serial")
      /\ LeftOf(t, "time") = Takes(t, "serial") + Takes(t, "band")
      /\ LeftOf(t, "call") = Takes(t, "serial") + Takes(t, "band") + Takes(t, "time")
  BY <1>2, LeftOfIs, BeforeAddsUp
<1>4. \A col \in Columns : Takes(t, col) \in Nat
  BY <1>2 DEF Takes
<1>5. "time" \notin t.hidden /\ "call" \notin t.hidden /\ "rstRcvd" \notin t.hidden /\ "serialGrid" \notin t.hidden
  BY <1>2, HiddenIs
<1>6. PICK serial \in BOOLEAN, band \in BOOLEAN :
         /\ t.built = [serial |-> serial, band |-> band]
         /\ serial = TRUE <=> "serial" \notin t.hidden
         /\ band = TRUE <=> "band" \notin t.hidden
  <2>1. ("serial" \notin t.hidden <=> t.want.number) /\ ("band" \notin t.hidden <=> t.want.dx \/ t.want.bands)
    BY <1>2, HiddenIs
  <2> QED
    BY <2>1 DEF IsBuilt
<1>7. c.serial = Takes(t, "serial")
  <2>1. CASE "serial" \in t.hidden
    BY <2>1 DEF Takes
  <2>2. CASE "serial" \notin t.hidden
    <3>1. t.built.serial = TRUE
      BY <1>6, <2>2
    <3>2. c.serial = LeftOf(t, "band") - LeftOf(t, "serial")
      BY <2>2, <3>1, Zenon
    <3> QED
      BY <1>3, <1>4, <3>2, ColumnsAre
  <2> QED
    BY <2>1, <2>2
<1>8. c.band = Takes(t, "band")
  <2>1. CASE "band" \in t.hidden
    <3>1. t.built.band = FALSE
      BY <1>6, <2>1
    <3>2. c.band = 0
      BY <3>1, Zenon
    <3> QED
      BY <2>1, <3>2 DEF Takes
  <2>2. CASE "band" \notin t.hidden
    <3>1. t.built.band = TRUE
      BY <1>6, <2>2
    <3>2. c.band = LeftOf(t, "time") - LeftOf(t, "band")
      BY <3>1, Zenon
    <3> QED
      BY <1>3, <1>4, <3>2, ColumnsAre
  <2> QED
    BY <2>1, <2>2
<1>9. c.time = Takes(t, "time") /\ c.call = Takes(t, "call")
  <2>1. c.time = LeftOf(t, "call") - LeftOf(t, "time") /\ c.call = t.widths["call"]
    BY Zenon
  <2>2. Takes(t, "serial") \in Nat /\ Takes(t, "band") \in Nat /\ Takes(t, "time") \in Nat
    BY <1>4, ColumnsAre
  <2>3. Takes(t, "call") = t.widths["call"]
    BY <1>5 DEF Takes
  <2> QED
    BY <1>3, <2>1, <2>2, <2>3
<1>10. c.sent = Takes(t, "exchSent") + Takes(t, "rstSent") + Takes(t, "serialSent")
  <2>1. \A col \in Columns : t.widths[col] \in Nat
    BY <1>2
  <2>2. CASE t.want.dx = TRUE
    <3>1. c.sent = t.widths["rstSent"] + t.widths["serialSent"]
      BY <2>2, Zenon
    <3>2. "exchSent" \in t.hidden /\ "rstSent" \notin t.hidden /\ "serialSent" \notin t.hidden
      BY <1>2, <2>2, HiddenIs
    <3>3. Takes(t, "exchSent") = 0 /\ Takes(t, "rstSent") = t.widths["rstSent"]
          /\ Takes(t, "serialSent") = t.widths["serialSent"]
      BY <3>2 DEF Takes
    <3> QED
      BY <2>1, <3>1, <3>3, ColumnsAre
  <2>3. CASE t.want.dx = FALSE
    <3>1. c.sent = IF "exchSent" \in t.hidden THEN 0 ELSE t.widths["exchSent"]
      BY <2>3, Zenon
    <3>2. "rstSent" \in t.hidden /\ "serialSent" \in t.hidden
      BY <1>2, <2>3, HiddenIs
    <3>3. Takes(t, "rstSent") = 0 /\ Takes(t, "serialSent") = 0 /\ c.sent = Takes(t, "exchSent")
      BY <3>1, <3>2 DEF Takes
    <3>4. Takes(t, "exchSent") \in Nat
      BY <1>4, ColumnsAre
    <3> QED
      BY <3>3, <3>4
  <2> QED
    BY <2>2, <2>3 DEF Wants
<1>11. c.rcvd = Takes(t, "rstRcvd") + Takes(t, "serialGrid")
  <2>1. c.rcvd = t.widths["rstRcvd"] + t.widths["serialGrid"]
    BY Zenon DEF GroupWidth
  <2> QED
    BY <1>5, <2>1 DEF Takes
<1> HIDE DEF c, q
<1>12. /\ IsPanel(a) /\ a.want = t.want /\ a.hidden = t.hidden /\ a.gave = t.gave /\ a.widths = t.widths
       /\ a.width = t.width /\ a.cells = c /\ a.built = t.built
  BY CellsSet
<1> HIDE DEF a
<1>13. /\ IsPanel(u) /\ u.want = t.want /\ u.hidden = t.hidden /\ u.gave = t.gave /\ u.widths = t.widths
       /\ u.width = t.width /\ u.cells = c /\ u.built = t.built /\ u.queued = q
  BY <1>12, QueuedSet
<1> HIDE DEF u
<1>14. \A col : Takes(u, col) = Takes(t, col)
  BY <1>13 DEF Takes
<1>15. FitsWell(u)
  BY <1>13 DEF FitsWell
<1>16. IsBuilt(u)
  BY <1>13 DEF IsBuilt
<1>17. LinedUp(u)
  BY <1>7, <1>8, <1>9, <1>10, <1>11, <1>13, <1>14 DEF LinedUp
<1> QED
  BY <1>1, <1>13, <1>15, <1>16, <1>17 DEF q

\* The cells made anew are those of the columns.
LEMMA RebuiltIs ==
    ASSUME NEW t, IsPanel(t), t.want \in Wants, "serial" \notin t.hidden <=> t.want.number
    PROVE  LET u == Rebuilt(t)
           IN  /\ IsPanel(u) /\ IsBuilt(u) /\ u.want = t.want /\ u.hidden = t.hidden /\ u.gave = t.gave
               /\ u.widths = t.widths /\ u.width = t.width /\ u.cells = t.cells /\ u.queued = t.queued
<1> DEFINE b == [serial |-> "serial" \notin t.hidden, band |-> t.want.dx \/ t.want.bands]
           u == [t EXCEPT !.built = b]
<1>1. Rebuilt(t) = u
  BY Zenon DEF Rebuilt
<1>2. b.serial \in BOOLEAN /\ b.band \in BOOLEAN /\ b = [serial |-> b.serial, band |-> b.band]
  BY Zenon
<1>3. b.serial = TRUE <=> "serial" \notin t.hidden
  BY Zenon
<1>4. b.band = TRUE <=> t.want.dx \/ t.want.bands
  BY Zenon
<1> HIDE DEF b
<1>5. /\ IsPanel(u) /\ u.want = t.want /\ u.hidden = t.hidden /\ u.gave = t.gave /\ u.widths = t.widths
      /\ u.width = t.width /\ u.cells = t.cells /\ u.built = b /\ u.queued = t.queued
  BY BuiltSet
<1> HIDE DEF u
<1>6. IsBuilt(u)
  BY <1>2, <1>3, <1>4, <1>5 DEF IsBuilt
<1> QED
  BY <1>1, <1>5, <1>6

-----------------------------------------------------------------------------
(* Log panel: what changes it *)

\* Fitted, and its cells are those of the columns; then laid out as well.
IsHalfway(t) ==
    /\ IsPanel(t) /\ Widthy(t) /\ FitsWell(t) /\ IsBuilt(t)
    /\ t.queued \in 0..MaxResyncRounds
IsRight(t) == IsHalfway(t) /\ LinedUp(t)

\* Before the first layout, the columns the view does not ask about are right.
Untouched == {"km", "deg", "time", "call", "status"}
IsNearly(t) ==
    t.width < 200 =>
        /\ t.gave = {} /\ t.widths = ColumnWidths /\ t.hidden \subseteq Columns
        /\ \A col \in Untouched : col \in t.hidden <=> col \notin WantedColumns(t.want)

\* What is fitted is right before the first layout, too.
LEMMA HalfwayIsNearly == ASSUME NEW t, IsHalfway(t) PROVE IsNearly(t)
BY ColumnsAre DEF IsHalfway, FitsWell, HiddenFor, IsNearly, Untouched

\* The row laid anew under fitted columns.
LEMMA RelaidIsRight ==
    ASSUME NEW t, IsHalfway(t)
    PROVE  IsRight(Relaid(t)) /\ Relaid(t).want = t.want /\ Relaid(t).width = t.width
<1>1. t.want \in Wants /\ IsPanel(t) /\ FitsWell(t) /\ IsBuilt(t)
  BY DEF IsHalfway, Widthy
<1> DEFINE u == Relaid(t)
<1>2. /\ IsPanel(u) /\ FitsWell(u) /\ IsBuilt(u) /\ LinedUp(u)
      /\ u.want = t.want /\ u.width = t.width /\ u.queued = IF t.queued = 0 THEN 1 ELSE t.queued
  BY <1>1, RelaidIs
<1> HIDE DEF u
<1>3. u.queued \in 0..MaxResyncRounds
  BY <1>2 DEF IsHalfway, MaxResyncRounds
<1>4. Widthy(u)
  BY <1>2 DEF IsHalfway, Widthy
<1>5. IsRight(u)
  BY <1>2, <1>3, <1>4 DEF IsRight, IsHalfway
<1> QED
  BY <1>2, <1>5 DEF u

\* Columns fitted, all else left alone.
LEMMA FittedIsHalfway ==
    ASSUME LogTableAssumption, NEW t, IsPanel(t), Widthy(t), t.width < 200 => FitsWell(t), t.queued \in 0..MaxResyncRounds
    PROVE  LET u == Fitted(t, t.width)
           IN  /\ IsPanel(u) /\ Widthy(u) /\ FitsWell(u) /\ u.want = t.want /\ SameBut(t, u)
               /\ u.queued \in 0..MaxResyncRounds
<1> DEFINE u == Fitted(t, t.width)
<1>1. IsPanel(u) /\ FitsWell(u) /\ u.want = t.want /\ SameBut(t, u)
  BY FittedFits
<1> HIDE DEF u
<1>2. Widthy(u) /\ u.queued \in 0..MaxResyncRounds
  BY <1>1 DEF Widthy, SameBut
<1> QED
  BY <1>1, <1>2 DEF u

\* Before the first layout: every column as wide as it is made.
LEMMA NarrowFits ==
    ASSUME NEW t, t.width \in Nat, t.width < 200, t.gave = {}, t.widths = ColumnWidths, t.hidden = HiddenFor(t.want, {})
    PROVE  FitsWell(t)
<1>1. ColumnWidths \in [Columns -> Nat]
  BY FloorsAreLower DEF ColumnWidths, Columns
<1>2. IsWidths(ColumnWidths, Grid(t.want, {}))
  BY <1>1, FloorsAreLower DEF IsWidths
<1> QED
  BY <1>2 DEF FitsWell

\* The columns of the view, the cells made anew for another view or on demand.
LEMMA ViewModeIs ==
    ASSUME LogTableAssumption, NEW t, IsPanel(t), Widthy(t), t.queued \in 0..MaxResyncRounds, IsNearly(t),
           NEW dx \in BOOLEAN, NEW rebuild \in BOOLEAN,
           rebuild = FALSE /\ dx = t.want.dx => IsHalfway(t)
    PROVE  LET u == ViewModeSet(t, dx, rebuild)
           IN  IsRight(u) /\ u.want = [t.want EXCEPT !.dx = dx] /\ u.width = t.width
<1> DEFINE asked == [t.want EXCEPT !.dx = dx]
           touched == Columns \ Untouched
           h == (t.hidden \ touched) \cup (touched \ WantedColumns(asked))
           a == [t EXCEPT !.want = asked, !.hidden = h]
           s == Fitted(a, t.width)
           r == IF rebuild \/ dx # t.want.dx THEN Rebuilt(s) ELSE s
<1>1. ViewModeSet(t, dx, rebuild) = Relaid(r)
  BY Zenon DEF ViewModeSet, Untouched
<1>2. /\ asked \in Wants /\ asked.dx = dx /\ asked.number = t.want.number /\ asked.distance = t.want.distance
      /\ asked.bands = t.want.bands
  BY DEF Widthy, Wants
<1>3. dx = t.want.dx => asked = t.want
  BY DEF Widthy, Wants
<1>4. t.want \in Wants /\ t.width \in Nat
  BY WidthIs
<1> HIDE DEF asked
<1>5. IsPanel(a) /\ a.want = asked /\ a.hidden = h /\ a.gave = t.gave /\ a.widths = t.widths /\ SameBut(t, a)
  BY WantedSet
<1>6. t.width < 200 => h = HiddenFor(asked, {})
  <2> SUFFICES ASSUME t.width < 200
               PROVE  h = HiddenFor(asked, {})
    OBVIOUS
  <2>1. t.hidden \subseteq Columns /\ \A col \in Untouched : col \in t.hidden <=> col \notin WantedColumns(t.want)
    BY DEF IsNearly
  <2>2. \A col \in Untouched : col \in Columns /\ (col \in WantedColumns(t.want) <=> col \in WantedColumns(asked))
    BY <1>2, <1>4, WantedIs, ColumnsAre DEF Untouched
  <2> QED
    BY <2>1, <2>2 DEF HiddenFor
<1> HIDE DEF h, a
<1>7. a.width < 200 => FitsWell(a)
  <2> SUFFICES ASSUME t.width < 200
               PROVE  FitsWell(a)
    BY <1>5 DEF SameBut
  <2>1. a.gave = {} /\ a.widths = ColumnWidths /\ a.hidden = HiddenFor(a.want, {}) /\ a.width = t.width
    BY <1>5, <1>6 DEF IsNearly, SameBut
  <2> QED
    BY <1>4, <2>1, NarrowFits
<1>8. Widthy(a) /\ a.width = t.width /\ a.queued \in 0..MaxResyncRounds
  BY <1>2, <1>5 DEF Widthy, SameBut
<1>9. IsPanel(s) /\ Widthy(s) /\ FitsWell(s) /\ s.want = asked /\ SameBut(a, s) /\ s.queued \in 0..MaxResyncRounds
  BY <1>5, <1>7, <1>8, FittedIsHalfway
<1> HIDE DEF s
<1>10. s.width = t.width /\ s.built = t.built
  BY <1>5, <1>9 DEF SameBut
<1>11. "serial" \notin s.hidden <=> s.want.number
  BY <1>2, <1>9, HiddenIs DEF FitsWell
<1>12. IsHalfway(r) /\ r.want = asked /\ r.width = t.width
  <2>1. CASE rebuild = TRUE \/ dx # t.want.dx
    <3> DEFINE b == Rebuilt(s)
    <3>1. r = b
      BY <2>1, Zenon
    <3>2. s.want \in Wants
      BY <1>2, <1>9
    <3>3. /\ IsPanel(b) /\ IsBuilt(b) /\ b.want = s.want /\ b.hidden = s.hidden /\ b.gave = s.gave
          /\ b.widths = s.widths /\ b.width = s.width /\ b.cells = s.cells /\ b.queued = s.queued
      BY <1>9, <1>11, <3>2, RebuiltIs
    <3> HIDE DEF b
    <3>4. FitsWell(b) /\ Widthy(b) /\ b.queued \in 0..MaxResyncRounds
      BY <1>9, <3>3 DEF FitsWell, Widthy
    <3>5. IsHalfway(b)
      BY <3>3, <3>4 DEF IsHalfway
    <3> QED
      BY <1>9, <1>10, <3>1, <3>3, <3>5
  <2>2. CASE ~(rebuild = TRUE \/ dx # t.want.dx)
    <3>1. rebuild = FALSE /\ dx = t.want.dx
      BY <2>2
    <3>2. r = s
      BY <3>1, Zenon
    <3>3. IsHalfway(t) /\ s.want = t.want
      BY <1>3, <1>9, <3>1
    <3>4. IsBuilt(s)
      BY <1>10, <3>3 DEF IsHalfway, IsBuilt
    <3>5. IsHalfway(s)
      BY <1>9, <3>4 DEF IsHalfway
    <3> QED
      BY <1>9, <1>10, <3>2, <3>5
  <2> QED
    BY <2>1, <2>2
<1> HIDE DEF r
<1> QED
  BY <1>1, <1>12, RelaidIsRight DEF asked

\* Columns fitted once more.
LEMMA FittedAgain ==
    ASSUME LogTableAssumption, NEW t, IsHalfway(t)
    PROVE  LET u == Fitted(t, t.width) IN IsHalfway(u) /\ u.want = t.want /\ u.width = t.width
<1> DEFINE u == Fitted(t, t.width)
<1>1. /\ IsPanel(u) /\ Widthy(u) /\ FitsWell(u) /\ u.want = t.want /\ SameBut(t, u)
      /\ u.queued \in 0..MaxResyncRounds
  BY FittedIsHalfway DEF IsHalfway
<1> HIDE DEF u
<1>2. u.built = t.built /\ u.width = t.width
  BY <1>1 DEF SameBut
<1>3. IsBuilt(u)
  BY <1>1, <1>2 DEF IsHalfway, IsBuilt
<1>4. IsHalfway(u)
  BY <1>1, <1>3 DEF IsHalfway
<1> QED
  BY <1>1, <1>2, <1>4 DEF u

\* The column of the running number, switched.
LEMMA NumberIs ==
    ASSUME LogTableAssumption, NEW t, IsHalfway(t), NEW visible \in BOOLEAN
    PROVE  LET u == RunningNumberSet(t, visible)
           IN  IsHalfway(u) /\ (IsRight(t) => IsRight(u)) /\ u.width = t.width /\ u.want = [t.want EXCEPT !.number = visible]
<1> DEFINE asked == [t.want EXCEPT !.number = visible]
           a == [t EXCEPT !.want = asked]
           v == ViewModeSet(a, t.want.dx, TRUE)
           f == Fitted(v, t.width)
<1>1. RunningNumberSet(t, visible) = IF visible = t.want.number THEN t ELSE Relaid(f)
  BY Zenon DEF RunningNumberSet
<1>2. IsPanel(t) /\ Widthy(t) /\ t.want \in Wants /\ t.queued \in 0..MaxResyncRounds
  BY DEF IsHalfway, Widthy
<1>3. /\ asked \in Wants /\ asked.dx = t.want.dx /\ asked.number = visible /\ asked.distance = t.want.distance
      /\ asked.bands = t.want.bands /\ t.want.dx \in BOOLEAN /\ (visible = t.want.number => asked = t.want)
      /\ [asked EXCEPT !.dx = t.want.dx] = asked
  BY <1>2 DEF Wants
<1> HIDE DEF asked
<1>4. CASE visible = t.want.number
  BY <1>1, <1>3, <1>4 DEF asked
<1>5. CASE visible # t.want.number
  <2>1. /\ IsPanel(a) /\ a.want = asked /\ a.hidden = t.hidden /\ a.gave = t.gave /\ a.widths = t.widths
        /\ a.width = t.width /\ a.queued = t.queued
    BY <1>2, WantSet
  <2> HIDE DEF a
  <2>2. Widthy(a) /\ a.queued \in 0..MaxResyncRounds
    BY <1>2, <1>3, <2>1 DEF Widthy
  <2>3. IsNearly(a)
    <3>1. \A col \in Untouched : col \in WantedColumns(t.want) <=> col \in WantedColumns(asked)
      BY <1>2, <1>3, WantedIs DEF Untouched
    <3>2. IsNearly(t)
      BY HalfwayIsNearly
    <3> QED
      BY <2>1, <3>1, <3>2 DEF IsNearly
  <2>4. IsRight(v) /\ v.want = [a.want EXCEPT !.dx = t.want.dx] /\ v.width = a.width
    BY <1>3, <2>1, <2>2, <2>3, ViewModeIs
  <2>5. v.want = asked /\ v.width = t.width /\ IsHalfway(v)
    BY <1>3, <2>1, <2>4 DEF IsRight
  <2> HIDE DEF v
  <2>6. IsHalfway(f) /\ f.want = asked /\ f.width = t.width
    BY <2>5, FittedAgain
  <2> HIDE DEF f
  <2>7. IsRight(Relaid(f)) /\ Relaid(f).want = asked /\ Relaid(f).width = t.width
    BY <2>6, RelaidIsRight
  <2> QED
    BY <1>1, <1>5, <2>7 DEF IsRight, asked
<1> QED
  BY <1>4, <1>5

\* The view as it is set up, laid out whatever came before.
LEMMA StatusBarIs ==
    ASSUME LogTableAssumption, NEW t, IsHalfway(t), NEW saved \in [dx : BOOLEAN, number : BOOLEAN]
    PROVE  IsRight(StatusBarUpdated(t, saved)) /\ StatusBarUpdated(t, saved).width = t.width
<1> DEFINE n == RunningNumberSet(t, saved.number)
<1>1. StatusBarUpdated(t, saved) = ViewModeSet(n, saved.dx, FALSE)
  BY Zenon DEF StatusBarUpdated
<1>2. saved.dx \in BOOLEAN /\ saved.number \in BOOLEAN
  OBVIOUS
<1>3. IsHalfway(n) /\ n.width = t.width
  BY <1>2, NumberIs
<1> HIDE DEF n
<1>4. IsPanel(n) /\ Widthy(n) /\ n.queued \in 0..MaxResyncRounds /\ IsNearly(n)
  BY <1>3, HalfwayIsNearly DEF IsHalfway
<1>5. IsRight(ViewModeSet(n, saved.dx, FALSE)) /\ ViewModeSet(n, saved.dx, FALSE).width = n.width
  BY <1>2, <1>3, <1>4, ViewModeIs
<1> QED
  BY <1>1, <1>3, <1>5

\* The columns of the distance, for a contest with a locator and without.
LEMMA DistanceIs ==
    ASSUME LogTableAssumption, NEW t, IsHalfway(t), NEW wanted \in BOOLEAN
    PROVE  IsHalfway(DistanceColumnsSet(t, wanted)) /\ DistanceColumnsSet(t, wanted).width = t.width
<1> DEFINE asked == [t.want EXCEPT !.distance = wanted]
           h == IF wanted THEN t.hidden \ {"km", "deg"} ELSE t.hidden \cup {"km", "deg"}
           a == [t EXCEPT !.want = asked, !.hidden = h]
           f == Fitted(a, t.width)
<1>1. DistanceColumnsSet(t, wanted) = IF wanted = t.want.distance THEN t ELSE f
  BY Zenon DEF DistanceColumnsSet
<1>2. IsPanel(t) /\ Widthy(t) /\ t.want \in Wants /\ t.queued \in 0..MaxResyncRounds
  BY DEF IsHalfway, Widthy
<1>3. /\ asked \in Wants /\ asked.dx = t.want.dx /\ asked.number = t.want.number /\ asked.distance = wanted
      /\ asked.bands = t.want.bands
  BY <1>2 DEF Wants
<1> HIDE DEF asked, h
<1>4. IsPanel(a) /\ a.want = asked /\ a.hidden = h /\ a.gave = t.gave /\ a.widths = t.widths /\ SameBut(t, a)
  BY <1>2, WantedSet
<1>5. t.width < 200 => h = HiddenFor(asked, {})
  <2> SUFFICES ASSUME t.width < 200
               PROVE  h = HiddenFor(asked, {})
    OBVIOUS
  <2>1. t.hidden = Columns \ WantedColumns(t.want)
    BY DEF IsHalfway, FitsWell, HiddenFor
  <2>2. \A col \in Columns \ {"km", "deg"} : col \in WantedColumns(t.want) <=> col \in WantedColumns(asked)
    BY <1>2, <1>3, WantedIs, ColumnsAre
  <2>3. \A col \in {"km", "deg"} : col \in Columns /\ (col \in WantedColumns(asked) <=> wanted)
    BY <1>3, WantedIs, ColumnsAre
  <2>4. CASE wanted = TRUE
    BY <2>1, <2>2, <2>3, <2>4 DEF HiddenFor, h
  <2>5. CASE wanted = FALSE
    BY <2>1, <2>2, <2>3, <2>5 DEF HiddenFor, h
  <2> QED
    BY <2>4, <2>5
<1> HIDE DEF a
<1>6. a.width < 200 => FitsWell(a)
  <2> SUFFICES ASSUME t.width < 200
               PROVE  FitsWell(a)
    BY <1>4 DEF SameBut
  <2>1. t.gave = {} /\ t.widths = ColumnWidths
    BY DEF IsHalfway, FitsWell
  <2>2. a.gave = {} /\ a.widths = ColumnWidths /\ a.hidden = HiddenFor(a.want, {}) /\ a.width = t.width
    BY <1>4, <1>5, <2>1 DEF SameBut
  <2>3. t.width \in Nat
    BY <1>2, WidthIs
  <2> QED
    BY <2>2, <2>3, NarrowFits
<1>7. Widthy(a) /\ a.width = t.width /\ a.queued \in 0..MaxResyncRounds
  BY <1>2, <1>3, <1>4 DEF Widthy, SameBut
<1>8. IsPanel(f) /\ Widthy(f) /\ FitsWell(f) /\ f.want = asked /\ SameBut(a, f) /\ f.queued \in 0..MaxResyncRounds
  BY <1>4, <1>6, <1>7, FittedIsHalfway
<1> HIDE DEF f
<1>9. f.built = t.built /\ f.width = t.width
  BY <1>4, <1>8 DEF SameBut
<1>10. IsBuilt(f)
  BY <1>3, <1>8, <1>9 DEF IsHalfway, IsBuilt
<1>11. IsHalfway(f)
  BY <1>8, <1>10 DEF IsHalfway
<1> QED
  BY <1>1, <1>9, <1>11

\* The column of the band, for a contest on several and on one.
LEMMA BandIs ==
    ASSUME LogTableAssumption, NEW t, IsHalfway(t), NEW wanted \in BOOLEAN
    PROVE  IsHalfway(BandColumnSet(t, wanted)) /\ BandColumnSet(t, wanted).width = t.width
<1> DEFINE asked == [t.want EXCEPT !.bands = wanted]
           b == [t EXCEPT !.want = asked]
           u == Rebuilt(b)
           h == IF wanted \/ u.want.dx THEN u.hidden \ {"band"} ELSE u.hidden \cup {"band"}
           a == [u EXCEPT !.hidden = h]
           f == Fitted(a, t.width)
<1>1. BandColumnSet(t, wanted) = IF wanted = t.want.bands THEN t ELSE f
  BY Zenon DEF BandColumnSet
<1>2. IsPanel(t) /\ Widthy(t) /\ t.want \in Wants /\ t.queued \in 0..MaxResyncRounds
  BY DEF IsHalfway, Widthy
<1>3. /\ asked \in Wants /\ asked.dx = t.want.dx /\ asked.number = t.want.number /\ asked.bands = wanted
      /\ asked.distance = t.want.distance
  BY <1>2 DEF Wants
<1> HIDE DEF asked
<1>4. /\ IsPanel(b) /\ b.want = asked /\ b.hidden = t.hidden /\ b.gave = t.gave /\ b.widths = t.widths
      /\ b.width = t.width /\ b.queued = t.queued
  BY <1>2, WantSet
<1> HIDE DEF b
<1>5. "serial" \notin b.hidden <=> b.want.number
  BY <1>2, <1>3, <1>4, HiddenIs DEF IsHalfway, FitsWell
<1>6. /\ IsPanel(u) /\ IsBuilt(u) /\ u.want = asked /\ u.hidden = t.hidden /\ u.gave = t.gave
      /\ u.widths = t.widths /\ u.width = t.width /\ u.queued = t.queued
  BY <1>3, <1>4, <1>5, RebuiltIs
<1> HIDE DEF u
<1>7. t.width < 200 => h = HiddenFor(asked, {})
  <2> SUFFICES ASSUME t.width < 200
               PROVE  h = HiddenFor(asked, {})
    OBVIOUS
  <2>1. t.hidden = Columns \ WantedColumns(t.want)
    BY DEF IsHalfway, FitsWell, HiddenFor
  <2>2. \A col \in Columns \ {"band"} : col \in WantedColumns(t.want) <=> col \in WantedColumns(asked)
    BY <1>2, <1>3, WantedIs, ColumnsAre
  <2>3. "band" \in Columns /\ ("band" \in WantedColumns(asked) <=> asked.dx \/ wanted)
    BY <1>3, WantedIs, ColumnsAre
  <2>4. CASE wanted = TRUE \/ u.want.dx = TRUE
    <3>1. h = u.hidden \ {"band"}
      BY <2>4, Zenon
    <3>2. "band" \in WantedColumns(asked)
      BY <1>6, <2>3, <2>4
    <3> HIDE DEF h
    <3> QED
      BY <1>6, <2>1, <2>2, <3>1, <3>2 DEF HiddenFor
  <2>5. CASE wanted = FALSE /\ u.want.dx = FALSE
    <3>1. h = u.hidden \cup {"band"}
      BY <2>5, Zenon
    <3>2. "band" \notin WantedColumns(asked)
      BY <1>6, <2>3, <2>5
    <3> HIDE DEF h
    <3> QED
      BY <1>6, <2>1, <2>2, <2>3, <3>1, <3>2 DEF HiddenFor
  <2>6. u.want.dx \in BOOLEAN
    BY <1>3, <1>6 DEF Wants
  <2> QED
    BY <2>4, <2>5, <2>6
<1> HIDE DEF h
<1>8. /\ IsPanel(a) /\ a.want = asked /\ a.hidden = h /\ a.gave = t.gave /\ a.widths = t.widths
      /\ a.width = t.width /\ a.built = u.built /\ a.queued = t.queued
  BY <1>6, HiddenSet
<1> HIDE DEF a
<1>9. a.width < 200 => FitsWell(a)
  <2> SUFFICES ASSUME t.width < 200
               PROVE  FitsWell(a)
    BY <1>8
  <2>1. t.gave = {} /\ t.widths = ColumnWidths /\ t.width \in Nat
    BY <1>2, WidthIs DEF IsHalfway, FitsWell
  <2> QED
    BY <1>7, <1>8, <2>1, NarrowFits
<1>10. Widthy(a)
  BY <1>2, <1>3, <1>8 DEF Widthy
<1>11. IsPanel(f) /\ Widthy(f) /\ FitsWell(f) /\ f.want = asked /\ SameBut(a, f) /\ f.queued \in 0..MaxResyncRounds
  BY <1>2, <1>8, <1>9, <1>10, FittedIsHalfway
<1> HIDE DEF f
<1>12. f.built = u.built /\ f.width = t.width
  BY <1>8, <1>11 DEF SameBut
<1>13. IsBuilt(f)
  BY <1>6, <1>11, <1>12 DEF IsBuilt
<1>14. IsHalfway(f)
  BY <1>11, <1>13 DEF IsHalfway
<1> QED
  BY <1>1, <1>12, <1>14

\* Another contest: its columns, then the view.
LEMMA ContestIs ==
    ASSUME LogTableAssumption, NEW t, IsHalfway(t), NEW contest \in LtContests, NEW saved \in [dx : BOOLEAN, number : BOOLEAN]
    PROVE  IsRight(ContestSet(t, contest, saved)) /\ ContestSet(t, contest, saved).width = t.width
<1>1. PICK grid \in BOOLEAN : grid = HasGrid(contest)
  BY Zenon DEF HasGrid
<1>2. contest.bands \in BOOLEAN
  BY DEF LogTableAssumption
<1> DEFINE d == DistanceColumnsSet(t, grid)
           b == BandColumnSet(d, contest.bands)
<1>3. ContestSet(t, contest, saved) = StatusBarUpdated(b, saved)
  BY <1>1, Zenon DEF ContestSet
<1>4. IsHalfway(d) /\ d.width = t.width
  BY DistanceIs
<1> HIDE DEF d
<1>5. IsHalfway(b) /\ b.width = d.width
  BY <1>2, <1>4, BandIs
<1> HIDE DEF b
<1>6. IsRight(StatusBarUpdated(b, saved)) /\ StatusBarUpdated(b, saved).width = b.width
  BY <1>5, StatusBarIs
<1> QED
  BY <1>3, <1>4, <1>5, <1>6

\* Whether a second look is queued makes no difference.
LEMMA QueuedIsRight ==
    ASSUME NEW t, IsRight(t), NEW q \in 0..MaxResyncRounds
    PROVE  IsRight([t EXCEPT !.queued = q])
<1> DEFINE u == [t EXCEPT !.queued = q]
<1>1. IsPanel(t) /\ Widthy(t) /\ FitsWell(t) /\ IsBuilt(t) /\ LinedUp(t)
  BY DEF IsRight, IsHalfway
<1>2. /\ IsPanel(u) /\ u.want = t.want /\ u.hidden = t.hidden /\ u.gave = t.gave /\ u.widths = t.widths
      /\ u.width = t.width /\ u.cells = t.cells /\ u.built = t.built /\ u.queued = q
  BY <1>1, QueuedSet
<1> HIDE DEF u
<1>3. Widthy(u) /\ FitsWell(u) /\ IsBuilt(u)
  BY <1>1, <1>2 DEF Widthy, FitsWell, IsBuilt
<1>4. \A col : Takes(u, col) = Takes(t, col)
  BY <1>2 DEF Takes
<1>5. LinedUp(u)
  BY <1>1, <1>2, <1>4 DEF LinedUp
<1>6. IsRight(u)
  BY <1>2, <1>3, <1>5 DEF IsRight, IsHalfway
<1> QED
  BY <1>6 DEF u

-----------------------------------------------------------------------------
(* Log panel: its invariant *)

LtRows == SUBSET FieldKinds
\* A field, a cell of the log that may be corrected, or neither.
IsFocus(focus, rows) ==
    /\ focus = [where |-> focus.where, row |-> focus.row, col |-> focus.col]
    /\ focus.where = "cell" => focus.row \in 1..rows /\ focus.col \in Correctable

LtInv ==
    /\ ltContest \in LtContests /\ ltSaved \in [dx : BOOLEAN, number : BOOLEAN]
    /\ IsRight(ltTable)
    /\ ltLog \in Seq(LtRows) /\ Len(ltLog) <= LtMaxRows /\ ltEdits \in 0..LtMaxEdits
    /\ IsFocus(ltFocus, Len(ltLog))

\* Another width: the row is laid anew when a column has changed.
LEMMA ResizeIsRight ==
    ASSUME LogTableAssumption, LtInv, ResizeLog
    PROVE  IsRight(ltTable')
<1>1. PICK width \in LtWidths :
         LET t == Fitted([ltTable EXCEPT !.width = width], width)
         IN  ltTable' = IF t.gave # ltTable.gave \/ t.widths # ltTable.widths THEN Relaid(t) ELSE t
  BY DEF ResizeLog
<1> DEFINE a == [ltTable EXCEPT !.width = width]
           t == Fitted(a, width)
<1>2. IsRight(ltTable) /\ IsHalfway(ltTable) /\ IsPanel(ltTable) /\ Widthy(ltTable) /\ FitsWell(ltTable)
      /\ IsBuilt(ltTable) /\ LinedUp(ltTable) /\ ltTable.queued \in 0..MaxResyncRounds
  BY DEF LtInv, IsRight, IsHalfway
<1>3. ltTable' = IF t.gave # ltTable.gave \/ t.widths # ltTable.widths THEN Relaid(t) ELSE t
  BY <1>1
<1>4. /\ IsPanel(a) /\ a.want = ltTable.want /\ a.hidden = ltTable.hidden /\ a.gave = ltTable.gave
      /\ a.widths = ltTable.widths /\ a.width = width /\ a.cells = ltTable.cells /\ a.built = ltTable.built
      /\ a.queued = ltTable.queued
  BY <1>2, WidthSet
<1> HIDE DEF a
<1>5. width \in Nat /\ width >= 200
  BY DEF LogTableAssumption
<1>6. Widthy(a) /\ ~(a.width < 200)
  BY <1>2, <1>4, <1>5 DEF Widthy
<1>7. IsPanel(t) /\ Widthy(t) /\ FitsWell(t) /\ t.want = ltTable.want /\ SameBut(a, t) /\ t.queued \in 0..MaxResyncRounds
  BY <1>2, <1>4, <1>6, FittedIsHalfway
<1> HIDE DEF t
<1>8. t.built = ltTable.built /\ t.cells = ltTable.cells
  BY <1>4, <1>7 DEF SameBut
<1>9. IsBuilt(t)
  BY <1>2, <1>7, <1>8 DEF IsBuilt
<1>10. IsHalfway(t)
  BY <1>7, <1>9 DEF IsHalfway
<1>11. CASE t.gave # ltTable.gave \/ t.widths # ltTable.widths
  BY <1>3, <1>10, <1>11, RelaidIsRight
<1>12. CASE t.gave = ltTable.gave /\ t.widths = ltTable.widths
  <2>1. t.hidden = ltTable.hidden
    BY <1>2, <1>7, <1>12 DEF FitsWell
  <2>2. \A col : Takes(t, col) = Takes(ltTable, col)
    BY <1>12, <2>1 DEF Takes
  <2>3. LinedUp(t)
    BY <1>2, <1>8, <2>2 DEF LinedUp
  <2> QED
    BY <1>3, <1>10, <1>12, <2>3 DEF IsRight
<1> QED
  BY <1>11, <1>12

\* The second look.
LEMMA ResyncIsRight ==
    ASSUME LogTableAssumption, LtInv, ResyncRow
    PROVE  IsRight(ltTable')
<1> DEFINE a == [ltTable EXCEPT !.queued = 0]
           f == Fitted(a, ltTable.width)
           r == Relaid(f)
           q == IF ltTable.queued < MaxResyncRounds THEN ltTable.queued + 1 ELSE 0
<1>1. ltTable' = [r EXCEPT !.queued = q]
  <2> DEFINE x == Relaid(Fitted([ltTable EXCEPT !.queued = 0], ltTable.width))
  <2>1. ltTable' = [x EXCEPT !.queued = IF ltTable.queued < MaxResyncRounds THEN ltTable.queued + 1 ELSE 0]
    BY DEF ResyncRow
  <2>2. x = r
    OBVIOUS
  <2> HIDE DEF x, r
  <2> QED
    BY Zenon, <2>1, <2>2
<1>2. IsRight(ltTable) /\ ltTable.queued \in 0..MaxResyncRounds /\ IsPanel(ltTable)
  BY DEF LtInv, IsRight, IsHalfway
<1>3. q \in 0..MaxResyncRounds
  BY <1>2 DEF MaxResyncRounds
<1>4. IsRight(a) /\ a.width = ltTable.width
  <2>1. 0 \in 0..MaxResyncRounds
    BY DEF MaxResyncRounds
  <2>2. IsRight(a)
    BY <1>2, <2>1, QueuedIsRight
  <2> QED
    BY <1>2, <2>2, QueuedSet
<1> HIDE DEF a
<1>5. IsHalfway(f)
  BY <1>4, FittedAgain DEF IsRight
<1> HIDE DEF f
<1>6. IsRight(r)
  BY <1>5, RelaidIsRight
<1> HIDE DEF r, q
<1> QED
  BY <1>1, <1>3, <1>6, QueuedIsRight

\* The view, by the radio, by the operator, and for another contest.
LEMMA ViewIsRight ==
    ASSUME LogTableAssumption, LtInv, RadioTicks \/ ChooseViewMode \/ ToggleRunningNumber
    PROVE  IsRight(ltTable') /\ ltSaved' \in [dx : BOOLEAN, number : BOOLEAN]
<1>1. /\ IsRight(ltTable) /\ IsHalfway(ltTable) /\ IsPanel(ltTable) /\ Widthy(ltTable) /\ IsNearly(ltTable)
      /\ ltTable.queued \in 0..MaxResyncRounds /\ ltSaved \in [dx : BOOLEAN, number : BOOLEAN]
  BY HalfwayIsNearly DEF LtInv, IsRight, IsHalfway
<1>2. CASE RadioTicks
  BY <1>1, <1>2, StatusBarIs DEF RadioTicks
<1>3. CASE ChooseViewMode
  <2>1. PICK dx \in BOOLEAN : /\ ltSaved' = [ltSaved EXCEPT !.dx = dx]
                              /\ ltTable' = StatusBarUpdated(ViewModeSet(ltTable, dx, FALSE), ltSaved')
    BY <1>3 DEF ChooseViewMode
  <2>2. ltSaved' \in [dx : BOOLEAN, number : BOOLEAN]
    BY <1>1, <2>1
  <2> DEFINE v == ViewModeSet(ltTable, dx, FALSE)
  <2>3. IsRight(v)
    BY <1>1, ViewModeIs
  <2>4. ltTable' = StatusBarUpdated(v, ltSaved')
    BY <2>1
  <2> HIDE DEF v
  <2>5. IsHalfway(v)
    BY <2>3 DEF IsRight
  <2> QED
    BY <2>2, <2>4, <2>5, StatusBarIs
<1>4. CASE ToggleRunningNumber
  <2>1. /\ ltSaved' = [ltSaved EXCEPT !.number = ~ltSaved.number]
        /\ ltTable' = RunningNumberSet(ltTable, ltSaved'.number)
    BY <1>4 DEF ToggleRunningNumber
  <2>2. ltSaved' \in [dx : BOOLEAN, number : BOOLEAN]
    BY <1>1, <2>1
  <2>3. ltSaved'.number \in BOOLEAN
    BY <2>2
  <2> QED
    BY <1>1, <2>1, <2>2, <2>3, NumberIs
<1> QED
  BY <1>2, <1>3, <1>4

\* A change of the focus alone.
LEMMA FieldFocus ==
    ASSUME NEW col, NEW rows
    PROVE  IsFocus([where |-> "field", row |-> 0, col |-> col], rows)
BY DEF IsFocus

\* On to another field.
LEMMA FocusMoved ==
    ASSUME NEW focus, NEW rows, IsFocus(focus, rows), focus.where = "field", NEW col
    PROVE  IsFocus([focus EXCEPT !.col = col], rows)
<1> DEFINE g == [where |-> focus.where, row |-> focus.row, col |-> focus.col]
<1>1. focus = g
  BY DEF IsFocus
<1>2. [g EXCEPT !.col = col] = [where |-> focus.where, row |-> focus.row, col |-> col]
  OBVIOUS
<1>3. [focus EXCEPT !.col = col] = [where |-> focus.where, row |-> focus.row, col |-> col]
  BY Zenon, <1>1, <1>2
<1> DEFINE h == [where |-> focus.where, row |-> focus.row, col |-> col]
<1>4. IsFocus(h, rows)
  BY DEF IsFocus
<1> QED
  BY <1>3, <1>4

\* Keys and clicks in the entry row.
LEMMA KeysAreRight ==
    ASSUME LtInv, SpaceKey \/ TabKey \/ ClickField
    PROVE  IsFocus(ltFocus', Len(ltLog))
<1>1. IsFocus(ltFocus, Len(ltLog))
  BY DEF LtInv
<1>2. IsFocus(Elsewhere, Len(ltLog))
  BY DEF IsFocus, Elsewhere
<1>3. ltFocus.where = "field" => IsFocus(NextField, Len(ltLog))
  BY Zenon, <1>1, FocusMoved DEF NextField
<1>4. CASE SpaceKey
  BY <1>1, <1>3, <1>4 DEF SpaceKey, IsInRow
<1>5. CASE TabKey
  BY <1>2, <1>3, <1>5 DEF TabKey, IsInRow
<1>6. CASE ClickField
  BY <1>6, FieldFocus DEF ClickField, EntryField
<1> QED
  BY <1>4, <1>5, <1>6

\* Every cell to be corrected stands somewhere in the grid.
LEMMA CellIsSomewhere ==
    ASSUME NEW dx \in BOOLEAN, NEW col \in Correctable
    PROVE  LET order == VisualOrder(dx)
           IN  Len(order) = 13 /\ (CHOOSE i \in 1..Len(order) : order[i] = col) \in 1..13
<1> DEFINE order == VisualOrder(dx)
<1>1. Len(order) = 13 /\ order[3] = "time" /\ order[4] = "call" /\ (order[7] = "serialGrid" \/ order[8] = "serialGrid")
  BY OrderIs
<1>2. \E i \in 1..Len(order) : order[i] = col
  BY <1>1 DEF Correctable
<1> HIDE DEF order
<1>3. (CHOOSE i \in 1..Len(order) : order[i] = col) \in 1..Len(order)
  BY <1>2
<1> QED
  BY <1>1, <1>3 DEF order

\* Tab finds a cell, or the callsign, or stays.
LEMMA OnwardIs ==
    ASSUME LtInv, IsCorrecting, NEW forward \in BOOLEAN
    PROVE  Onward(ltFocus, forward) \in OpenableCells \cup {Callsign, ltFocus}
<1> DEFINE ahead == {c \in OpenableCells : IF forward THEN CellOrder(c) > CellOrder(ltFocus)
                                           ELSE CellOrder(c) < CellOrder(ltFocus)}
           least == CHOOSE c \in ahead : \A d \in ahead : IF forward THEN CellOrder(c) <= CellOrder(d)
                                                          ELSE CellOrder(d) <= CellOrder(c)
           rows == Len(ltLog)
<1>1. Onward(ltFocus, forward) = IF ahead = {} THEN IF forward THEN Callsign ELSE ltFocus ELSE least
  BY Zenon DEF Onward
<1>2. ltTable.want.dx \in BOOLEAN /\ rows \in Nat
  BY LenProperties DEF LtInv, IsRight, IsHalfway, Widthy, Wants
<1>3. \A c \in OpenableCells : CellOrder(c) \in 0..(13 * rows + 13)
  <2> SUFFICES ASSUME NEW c \in OpenableCells
               PROVE  CellOrder(c) \in 0..(13 * rows + 13)
    OBVIOUS
  <2>1. c.row \in 1..rows /\ c.col \in Correctable
    BY DEF OpenableCells, CellAt
  <2> DEFINE order == VisualOrder(ltTable.want.dx)
             place == CHOOSE i \in 1..Len(order) : order[i] = c.col
  <2>2. Len(order) = 13 /\ place \in 1..13
    BY Zenon, <1>2, <2>1, CellIsSomewhere
  <2>3. CellOrder(c) = c.row * Len(order) + place
    BY Zenon DEF CellOrder
  <2>4. CellOrder(c) = c.row * 13 + place
    BY <2>2, <2>3
  <2> HIDE DEF order, place, rows
  <2>5. \A row \in 1..rows, i \in 1..13 : row * 13 + i \in 0..(13 * rows + 13)
    BY <1>2
  <2> QED
    BY <2>1, <2>2, <2>4, <2>5
<1>4. ahead # {} => least \in ahead
  <2> SUFFICES ASSUME ahead # {}
               PROVE  \E c \in ahead : \A d \in ahead : IF forward THEN CellOrder(c) <= CellOrder(d)
                                                        ELSE CellOrder(d) <= CellOrder(c)
    BY Zenon
  <2>1. \A c \in ahead : CellOrder(c) \in 0..(13 * rows + 13)
    BY <1>3
  <2> HIDE DEF ahead
  <2>2. CASE forward = TRUE
    <3> DEFINE S == {CellOrder(c) : c \in ahead}
    <3>1. S \in SUBSET Nat /\ S # {}
      BY <1>2, <2>1
    <3>2. PICK n \in S : \A m \in S : n <= m
      BY <3>1, LeastExists
    <3>3. PICK c \in ahead : n = CellOrder(c)
      BY <3>2
    <3> QED
      BY <2>2, <3>2, <3>3
  <2>3. CASE forward = FALSE
    <3> DEFINE top == 13 * rows + 13
               S == {top - CellOrder(c) : c \in ahead}
    <3>0. top \in Nat
      BY <1>2
    <3>1. S \in SUBSET Nat /\ S # {}
      <4>1. \A c \in ahead : top - CellOrder(c) \in Nat
        BY <1>2, <2>1
      <4> QED
        BY <4>1
    <3>2. PICK n \in S : \A m \in S : n <= m
      <4> HIDE DEF S
      <4> QED
      BY <3>1, LeastExists
    <3>3. PICK c \in ahead : n = top - CellOrder(c)
      BY <3>2
    <3>4. \A d \in ahead : CellOrder(d) <= CellOrder(c)
      <4> SUFFICES ASSUME NEW d \in ahead
                   PROVE  CellOrder(d) <= CellOrder(c)
        OBVIOUS
      <4>1. top - CellOrder(d) \in S
        OBVIOUS
      <4>2. top - CellOrder(c) <= top - CellOrder(d)
        BY <3>2, <3>3, <4>1
      <4>3. CellOrder(c) \in Nat /\ CellOrder(d) \in Nat
        BY <2>1, <1>2
      <4> HIDE DEF top
      <4> QED
        BY <3>0, <4>2, <4>3
    <3> QED
      BY <2>3, <3>4
  <2> QED
    BY <2>2, <2>3
<1>5. ahead \subseteq OpenableCells
  OBVIOUS
<1> HIDE DEF ahead, least
<1> QED
  BY <1>1, <1>4, <1>5

\* Another contest: its fields, an empty log.
LEMMA PickIsRight ==
    ASSUME LogTableAssumption, LtInv, PickLogContest
    PROVE  LtInv'
<1>1. PICK contest \in LtContests : ltContest' = contest /\ ltTable' = ContestSet(ltTable, contest, ltSaved)
  BY DEF PickLogContest
<1>2. IsHalfway(ltTable) /\ ltSaved \in [dx : BOOLEAN, number : BOOLEAN] /\ ltEdits \in 0..LtMaxEdits
  BY DEF LtInv, IsRight
<1>3. IsRight(ltTable')
  BY <1>1, <1>2, ContestIs
<1>4. ltLog' = <<>> /\ ltFocus' = Callsign /\ ltSaved' = ltSaved /\ ltEdits' = ltEdits
  BY DEF PickLogContest
<1>5. ltLog' \in Seq(LtRows) /\ Len(ltLog') = 0
  BY <1>4, EmptySeq
<1>6. LtMaxRows \in Nat
  BY DEF LogTableAssumption
<1>7. IsFocus(ltFocus', Len(ltLog'))
  BY <1>4, FieldFocus DEF Callsign
<1> QED
  BY <1>1, <1>2, <1>3, <1>4, <1>5, <1>6, <1>7 DEF LtInv

\* A QSO more.
LEMMA RowLogged ==
    ASSUME LogTableAssumption, LtInv, LogFromRow
    PROVE  LtInv'
<1>1. PICK kinds \in SUBSET {ltContest.fields[i] : i \in 1..Len(ltContest.fields)} : ltLog' = Append(ltLog, kinds)
  BY DEF LogFromRow
<1>2. ltContest.fields \in Seq(FieldKinds)
  BY DEF LtInv, LogTableAssumption
<1>3. \A i \in 1..Len(ltContest.fields) : ltContest.fields[i] \in FieldKinds
  BY <1>2, ElementOfSeq
<1>4. kinds \in LtRows
  BY <1>3 DEF LtRows
<1>5. ltLog \in Seq(LtRows) /\ Len(ltLog) < LtMaxRows /\ LtMaxRows \in Nat
  BY DEF LtInv, LogFromRow, LogTableAssumption
<1>6. ltLog' \in Seq(LtRows) /\ Len(ltLog') <= LtMaxRows
  BY <1>1, <1>4, <1>5, AppendProperties, LenProperties
<1>7. IsFocus(ltFocus', Len(ltLog'))
  BY FieldFocus DEF LogFromRow, Callsign
<1> QED
  BY <1>6, <1>7 DEF LtInv, LogFromRow

\* What is put together again has the fields of the contest, and as many rows.
LEMMA CommittedIs ==
    ASSUME LogTableAssumption, LtInv, IsCorrecting
    PROVE  Committed \in Seq(LtRows) /\ Len(Committed) = Len(ltLog)
<1>1. ltLog \in Seq(LtRows) /\ ltFocus.row \in 1..Len(ltLog)
  BY DEF LtInv, IsFocus, IsCorrecting
<1>2. ltLog[ltFocus.row] \in LtRows
  BY <1>1, ElementOfSeq
<1>3. Corrected(ltLog[ltFocus.row], ltDraft) \in LtRows
  BY <1>2 DEF Corrected, LtRows, FieldKinds
<1> DEFINE row == Corrected(ltLog[ltFocus.row], ltDraft)
<1>4. Committed = IF ltFocus.col = "serialGrid" THEN [ltLog EXCEPT ![ltFocus.row] = row] ELSE ltLog
  BY Zenon DEF Committed
<1> HIDE DEF row
<1>5. row \in LtRows
  BY <1>3 DEF row
<1>6. [ltLog EXCEPT ![ltFocus.row] = row] \in Seq(LtRows) /\ Len([ltLog EXCEPT ![ltFocus.row] = row]) = Len(ltLog)
  BY <1>1, <1>5, ExceptSeq
<1> QED
  BY <1>1, <1>4, <1>6

\* A cell that can be opened is one of the log.
LEMMA OpenedIsFocus ==
    ASSUME NEW cell \in OpenableCells
    PROVE  IsFocus(cell, Len(ltLog))
<1>1. PICK row \in 1..Len(ltLog), col \in Correctable : cell = CellAt(row, col)
  BY DEF OpenableCells
<1> QED
  BY <1>1 DEF IsFocus, CellAt

\* A cell is opened, typed in, left.
LEMMA CorrectingIsRight ==
    ASSUME LogTableAssumption, LtInv,
           OpenCell \/ TypeInCell \/ CommitWithReturn \/ CommitWithTab \/ LeaveWithEscape
    PROVE  LtInv'
<1>1. /\ IsFocus(ltFocus, Len(ltLog)) /\ ltLog \in Seq(LtRows) /\ Len(ltLog) <= LtMaxRows
      /\ ltEdits \in 0..LtMaxEdits /\ LtMaxEdits \in Nat
  BY DEF LtInv, LogTableAssumption
<1>2. ltContest' = ltContest /\ ltSaved' = ltSaved /\ ltTable' = ltTable
  BY DEF OpenCell, TypeInCell, CommitWithReturn, CommitWithTab, LeaveWithEscape
<1>3. \A rows : IsFocus(Callsign, rows)
  BY FieldFocus DEF Callsign
<1>4. SUFFICES /\ ltLog' \in Seq(LtRows) /\ Len(ltLog') <= LtMaxRows /\ ltEdits' \in 0..LtMaxEdits
               /\ IsFocus(ltFocus', Len(ltLog'))
  BY <1>2 DEF LtInv
<1>5. CASE OpenCell
  BY <1>1, <1>5, OpenedIsFocus DEF OpenCell
<1>6. CASE TypeInCell
  BY <1>1, <1>6 DEF TypeInCell
<1>7. CASE CommitWithReturn
  BY <1>1, <1>3, <1>7, CommittedIs DEF CommitWithReturn
<1>8. CASE CommitWithTab
  <2>1. ltLog' = Committed /\ IsCorrecting /\ ltEdits' = ltEdits
    BY <1>8 DEF CommitWithTab
  <2>2. PICK forward \in BOOLEAN : ltFocus' = Onward(ltFocus, forward)
    BY <1>8 DEF CommitWithTab
  <2>3. Committed \in Seq(LtRows) /\ Len(Committed) = Len(ltLog)
    BY <2>1, CommittedIs
  <2>4. ltFocus' \in OpenableCells \cup {Callsign, ltFocus}
    BY <2>1, <2>2, OnwardIs
  <2>5. IsFocus(ltFocus', Len(ltLog))
    BY <1>1, <1>3, <2>4, OpenedIsFocus
  <2> QED
    BY <1>1, <2>1, <2>3, <2>5
<1>9. CASE LeaveWithEscape
  BY <1>1, <1>3, <1>9 DEF LeaveWithEscape
<1> QED
  BY <1>5, <1>6, <1>7, <1>8, <1>9

\* Whatever happens to the panel.
LEMMA LtStep ==
    ASSUME LogTableAssumption, LtInv, [LtNext]_ltVars
    PROVE  LtInv'
<1>1. CASE UNCHANGED ltVars
  BY <1>1 DEF ltVars, LtInv
<1>2. CASE ResizeLog
  BY <1>2, ResizeIsRight DEF ResizeLog, LtInv
<1>3. CASE ResyncRow
  BY <1>3, ResyncIsRight DEF ResyncRow, LtInv
<1>4. CASE RadioTicks \/ ChooseViewMode \/ ToggleRunningNumber
  <2>1. IsRight(ltTable') /\ ltSaved' \in [dx : BOOLEAN, number : BOOLEAN]
    BY <1>4, ViewIsRight
  <2>2. ltContest' = ltContest /\ ltLog' = ltLog /\ ltFocus' = ltFocus /\ ltEdits' = ltEdits
    BY <1>4 DEF RadioTicks, ChooseViewMode, ToggleRunningNumber
  <2> QED
    BY <2>1, <2>2 DEF LtInv
<1>5. CASE PickLogContest
  BY <1>5, PickIsRight
<1>6. CASE SpaceKey \/ TabKey \/ ClickField
  <2>1. IsFocus(ltFocus', Len(ltLog))
    BY <1>6, KeysAreRight
  <2>2. ltContest' = ltContest /\ ltSaved' = ltSaved /\ ltTable' = ltTable /\ ltLog' = ltLog /\ ltEdits' = ltEdits
    BY <1>6 DEF SpaceKey, TabKey, ClickField
  <2> QED
    BY <2>1, <2>2 DEF LtInv
<1>7. CASE LogFromRow
  BY <1>7, RowLogged
<1>8. CASE OpenCell \/ TypeInCell \/ CommitWithReturn \/ CommitWithTab \/ LeaveWithEscape
  BY <1>8, CorrectingIsRight
<1> QED
  BY <1>1, <1>2, <1>3, <1>4, <1>5, <1>6, <1>7, <1>8 DEF LtNext

\* The panel as it is made, before its first layout.
LEMMA LtStarts == ASSUME LogTableAssumption, LtInit PROVE LtInv
<1> DEFINE want == [dx |-> FALSE, number |-> TRUE, distance |-> TRUE, bands |-> FALSE]
           zero == [serial |-> 0, band |-> 0, time |-> 0, call |-> 0, sent |-> 0, rcvd |-> 0, km |-> 0, deg |-> 0]
           no == [serial |-> FALSE, band |-> FALSE]
           bare == [want |-> want, width |-> LtFirstWidth, hidden |-> {}, gave |-> {}, widths |-> ColumnWidths,
                    cells |-> zero, built |-> no, queued |-> 0]
           v == ViewModeSet(bare, FALSE, TRUE)
<1>1. ltTable = ContestSet(v, ltContest, ltSaved)
  BY Zenon DEF LtInit
<1>2. /\ bare.want = want /\ bare.width = LtFirstWidth /\ bare.hidden = {} /\ bare.gave = {}
      /\ bare.widths = ColumnWidths /\ bare.queued = 0
  OBVIOUS
<1>3. IsPanel(bare)
  BY DEF IsPanel
<1>4. want \in Wants /\ want.dx = FALSE /\ want.distance = TRUE
  BY DEF Wants
<1> HIDE DEF bare, want
<1>5. LtFirstWidth \in 0..199 /\ Widthy(bare)
  BY <1>2, <1>4 DEF Widthy, LogTableAssumption
<1>6. \A col \in Untouched : col \in WantedColumns(want)
  BY <1>4, WantedIs DEF Untouched
<1>7. IsNearly(bare)
  BY <1>2, <1>6, ColumnsAre DEF IsNearly
<1>8. bare.queued \in 0..MaxResyncRounds
  BY <1>2 DEF MaxResyncRounds
<1>9. IsRight(v)
  BY <1>3, <1>5, <1>7, <1>8, ViewModeIs
<1> HIDE DEF v
<1>10. ltContest \in LtContests /\ ltSaved \in [dx : BOOLEAN, number : BOOLEAN]
  BY DEF LtInit
<1>11. IsRight(ltTable)
  BY <1>1, <1>9, <1>10, ContestIs DEF IsRight
<1>12. ltLog = <<>> /\ ltEdits = 0 /\ ltFocus = Callsign /\ LtMaxRows \in Nat /\ LtMaxEdits \in Nat
  BY DEF LtInit, LogTableAssumption
<1>13. ltLog \in Seq(LtRows) /\ Len(ltLog) = 0
  BY <1>12, EmptySeq
<1>14. IsFocus(ltFocus, Len(ltLog))
  BY <1>12, FieldFocus DEF Callsign
<1> QED
  BY <1>10, <1>11, <1>12, <1>13, <1>14 DEF LtInv

-----------------------------------------------------------------------------
(* Log panel: the fields in their cell *)

\* The sums of a few cells, one after the other.
Sums(cells, f) == f = [i \in 0..Len(cells) |-> IF i = 0 THEN 0 ELSE f[i - 1] + cells[i]]
\* There are such sums.
LEMMA SumsExist ==
    ASSUME NEW cells, Len(cells) \in 0..3, \A i \in 1..Len(cells) : cells[i] \in Int
    PROVE  \E f : Sums(cells, f)
<1> DEFINE n == Len(cells)
           g == [i \in 0..n |-> IF i = 0 THEN 0 ELSE IF i = 1 THEN cells[1]
                                ELSE IF i = 2 THEN cells[1] + cells[2] ELSE cells[1] + cells[2] + cells[3]]
<1>1. \A i \in 0..n : g[i] = IF i = 0 THEN 0 ELSE g[i - 1] + cells[i]
  <2>1. CASE n = 0
    BY <2>1
  <2>2. CASE n = 1
    BY <2>2
  <2>3. CASE n = 2
    BY <2>3
  <2>4. CASE n = 3
    BY <2>4
  <2> QED
    BY <2>1, <2>2, <2>3, <2>4
<1>2. g = [i \in 0..n |-> g[i]]
  OBVIOUS
<1> HIDE DEF g
<1>3. Sums(cells, g)
  BY <1>1, <1>2 DEF Sums
<1> QED
  BY <1>3

\* What a few cells add up to.
LEMMA AcrossIs ==
    ASSUME NEW cells, Len(cells) \in 0..3, \A i \in 1..Len(cells) : cells[i] \in Int
    PROVE  /\ Len(cells) = 0 => Across(cells) = 0
           /\ Len(cells) = 1 => Across(cells) = cells[1]
           /\ Len(cells) = 2 => Across(cells) = cells[1] + cells[2]
           /\ Len(cells) = 3 => Across(cells) = cells[1] + cells[2] + cells[3]
<1> DEFINE f == CHOOSE h : Sums(cells, h)
<1>1. Sums(cells, f)
  BY Zenon, SumsExist
<1>2. Across(cells) = f[Len(cells)]
  BY Zenon DEF Across, Sums
<1> HIDE DEF f
<1>3. \A i \in 0..Len(cells) : f[i] = IF i = 0 THEN 0 ELSE f[i - 1] + cells[i]
  BY <1>1, Zenon DEF Sums
<1> DEFINE n == Len(cells)
<1>4. CASE n = 0
  BY <1>2, <1>3, <1>4
<1>5. CASE n = 1
  <2>1. f[0] = 0 /\ f[1] = f[0] + cells[1]
    BY <1>3, <1>5
  <2> QED
    BY <1>2, <1>5, <2>1
<1>6. CASE n = 2
  <2>1. f[0] = 0 /\ f[1] = f[0] + cells[1] /\ f[2] = f[1] + cells[2]
    BY <1>3, <1>6
  <2> QED
    BY <1>2, <1>6, <2>1
<1>7. CASE n = 3
  <2>1. f[0] = 0 /\ f[1] = f[0] + cells[1] /\ f[2] = f[1] + cells[2] /\ f[3] = f[2] + cells[3]
    BY <1>3, <1>7
  <2> QED
    BY <1>2, <1>7, <2>1
<1> QED
  BY <1>4, <1>5, <1>6, <1>7

\* A field's share of the cell, rounded.
Share(kind, group, least) ==
    IF group <= least THEN LeastFieldWidth(kind)
    ELSE (2 * LeastFieldWidth(kind) * group + least) \div (2 * least)
AtLeast36(w) == IF w < 36 THEN 36 ELSE w

\* The least widths of the fields.
LEMMA LeastAre ==
    /\ LeastFieldWidth("rst") = 46 /\ LeastFieldWidth("grid6") = 74
    /\ \A kind \in FieldKinds \ {"rst", "grid6"} : LeastFieldWidth(kind) = 50
BY DEF LeastFieldWidth, FieldKinds

\* Rounded shares leave room for the last field: of two and of three.
LEMMA TwoLeaveRoom ==
    ASSUME NEW g \in Nat, g >= 170, NEW kind \in FieldKinds \ {"rst"}
    PROVE  LET s == AtLeast36(Share("rst", g, 46 + LeastFieldWidth(kind)))
           IN  s \in Nat /\ g - s >= 36
<1>1. CASE kind = "grid6"
  <2>1. Share("rst", g, 120) = (92 * g + 120) \div 240
    BY LeastAre DEF Share
  <2> QED
    BY <1>1, <2>1, LeastAre DEF AtLeast36
<1>2. CASE kind # "grid6"
  <2>1. Share("rst", g, 96) = (92 * g + 96) \div 192
    BY LeastAre DEF Share
  <2> QED
    BY <1>2, <2>1, LeastAre DEF AtLeast36
<1> QED
  BY <1>1, <1>2

\* Of three fields, two in front.
LEMMA ThreeLeaveRoom ==
    ASSUME NEW g \in Nat, g >= 170, NEW second \in FieldKinds \ {"rst"}, NEW third \in FieldKinds \ {"rst"}, second # third
    PROVE  LET least == 46 + LeastFieldWidth(second) + LeastFieldWidth(third)
               s == AtLeast36(Share("rst", g, least))
               t == AtLeast36(Share(second, g, least))
           IN  s \in Nat /\ t \in Nat /\ g - (s + t) >= 36
<1> DEFINE least == 46 + LeastFieldWidth(second) + LeastFieldWidth(third)
           s == Share("rst", g, least)
           t == Share(second, g, least)
<1>1. CASE second = "grid6"
  <2>1. least = 170 /\ LeastFieldWidth(second) = 74
    BY <1>1, LeastAre
  <2>2. s = IF g <= 170 THEN 46 ELSE (92 * g + 170) \div 340
    BY <2>1, LeastAre DEF Share
  <2>3. t = IF g <= 170 THEN 74 ELSE (148 * g + 170) \div 340
    BY <2>1, LeastAre DEF Share
  <2> HIDE DEF s, t, least
  <2>4. AtLeast36(s) \in Nat /\ AtLeast36(t) \in Nat /\ g - (AtLeast36(s) + AtLeast36(t)) >= 36
    BY <2>2, <2>3 DEF AtLeast36
  <2> QED
    BY <2>4 DEF s, t, least
<1>2. CASE third = "grid6"
  <2>1. least = 170 /\ LeastFieldWidth(second) = 50
    BY <1>2, LeastAre
  <2>2. s = IF g <= 170 THEN 46 ELSE (92 * g + 170) \div 340
    BY <2>1, LeastAre DEF Share
  <2>3. t = IF g <= 170 THEN 50 ELSE (100 * g + 170) \div 340
    BY <2>1, LeastAre DEF Share
  <2> HIDE DEF s, t, least
  <2>4. AtLeast36(s) \in Nat /\ AtLeast36(t) \in Nat /\ g - (AtLeast36(s) + AtLeast36(t)) >= 36
    BY <2>2, <2>3 DEF AtLeast36
  <2> QED
    BY <2>4 DEF s, t, least
<1>3. CASE second # "grid6" /\ third # "grid6"
  <2>1. least = 146 /\ LeastFieldWidth(second) = 50
    BY <1>3, LeastAre
  <2>2. s = (92 * g + 146) \div 292
    BY <2>1, LeastAre DEF Share
  <2>3. t = (100 * g + 146) \div 292
    BY <2>1, LeastAre DEF Share
  <2> HIDE DEF s, t, least
  <2>4. AtLeast36(s) \in Nat /\ AtLeast36(t) \in Nat /\ g - (AtLeast36(s) + AtLeast36(t)) >= 36
    BY <2>2, <2>3 DEF AtLeast36
  <2> QED
    BY <2>4 DEF s, t, least
<1> QED
  BY <1>1, <1>2, <1>3

\* Every contest's fields fill the cell of what is received.
LEMMA FieldsFill ==
    ASSUME NEW kinds \in Seq(FieldKinds), Len(kinds) \in 1..3, kinds[1] = "rst",
           \A i, j \in 1..Len(kinds) : kinds[i] = kinds[j] => i = j,
           NEW group \in Nat, group >= 170
    PROVE  Across(FieldWidths(kinds, group)) = group
<1> DEFINE n == Len(kinds)
           own == [i \in 1..n |-> LeastFieldWidth(kinds[i])]
           least == Across(own)
           before == [i \in 1..(n - 1) |-> AtLeast36(Share(kinds[i], group, least))]
           b == Across(before)
           cells == [i \in 1..n |-> IF i < n THEN before[i] ELSE AtLeast36(group - b)]
<1>1. FieldWidths(kinds, group) = cells
  BY Zenon DEF FieldWidths, Share, AtLeast36
<1>2. n \in 1..3 /\ \A i \in 1..n : kinds[i] \in FieldKinds /\ LeastFieldWidth(kinds[i]) \in Nat
  <2>1. \A i \in 1..n : kinds[i] \in FieldKinds
    BY ElementOfSeq
  <2> QED
    BY <2>1, LeastAre
<1>3. \A i \in 2..n : kinds[i] \in FieldKinds \ {"rst"}
  BY <1>2
<1>4. Len(own) = n /\ \A i \in 1..n : own[i] = LeastFieldWidth(kinds[i])
  BY <1>2
<1>5. Len(before) = n - 1 /\ \A i \in 1..(n - 1) : before[i] = AtLeast36(Share(kinds[i], group, least))
  BY <1>2
<1>6. Len(cells) = n /\ (\A i \in 1..(n - 1) : cells[i] = before[i]) /\ cells[n] = AtLeast36(group - b)
  BY <1>2
<1> HIDE DEF own, before, cells
<1>7. /\ n = 2 => least = 46 + LeastFieldWidth(kinds[2])
      /\ n = 3 => least = 46 + LeastFieldWidth(kinds[2]) + LeastFieldWidth(kinds[3])
  <2>1. \A i \in 1..Len(own) : own[i] \in Int
    BY <1>2, <1>4
  <2>2. own[1] = 46
    BY <1>2, <1>4, LeastAre
  <2>3. Len(own) \in 0..3
    BY <1>2, <1>4
  <2>4. (Len(own) = 2 => least = own[1] + own[2]) /\ (Len(own) = 3 => least = own[1] + own[2] + own[3])
    BY Zenon, <2>1, <2>3, AcrossIs
  <2>5. (n = 2 => own[2] = LeastFieldWidth(kinds[2]))
        /\ (n = 3 => own[2] = LeastFieldWidth(kinds[2]) /\ own[3] = LeastFieldWidth(kinds[3]))
    BY <1>4
  <2> HIDE DEF least, n
  <2> QED
    BY <1>4, <2>2, <2>4, <2>5
<1> HIDE DEF least
<1>8. b \in Nat /\ group - b >= 36 /\ (\A i \in 1..(n - 1) : before[i] \in Nat)
      /\ (n = 1 => b = 0) /\ (n = 2 => b = before[1]) /\ (n = 3 => b = before[1] + before[2])
  <2>1. CASE n = 1
    <3>1. Len(before) = 0 /\ \A i \in 1..(n - 1) : FALSE
      BY <1>5, <2>1
    <3>2. b = 0
      BY <3>1, AcrossIs
    <3> QED
      BY <2>1, <3>1, <3>2
  <2>2. CASE n = 2
    <3>1. Len(before) = 1 /\ before[1] = AtLeast36(Share("rst", group, least))
      BY <1>5, <2>2
    <3>2. before[1] \in Nat /\ group - before[1] >= 36
      BY <1>3, <1>7, <2>2, <3>1, TwoLeaveRoom
    <3>3. b = before[1]
      BY <3>1, <3>2, AcrossIs
    <3> QED
      BY <2>2, <3>2, <3>3
  <2>3. CASE n = 3
    <3>1. /\ Len(before) = 2 /\ before[1] = AtLeast36(Share("rst", group, least))
          /\ before[2] = AtLeast36(Share(kinds[2], group, least))
      BY <1>5, <2>3
    <3>2. kinds[2] \in FieldKinds \ {"rst"} /\ kinds[3] \in FieldKinds \ {"rst"} /\ kinds[2] # kinds[3]
      BY <1>3, <2>3
    <3> DEFINE least3 == 46 + LeastFieldWidth(kinds[2]) + LeastFieldWidth(kinds[3])
               s == AtLeast36(Share("rst", group, least3))
               u == AtLeast36(Share(kinds[2], group, least3))
    <3>5. s \in Nat /\ u \in Nat /\ group - (s + u) >= 36
      BY Zenon, <3>2, ThreeLeaveRoom
    <3>6. before[1] = s /\ before[2] = u
      BY <1>7, <2>3, <3>1
    <3>3. before[1] \in Nat /\ before[2] \in Nat /\ group - (before[1] + before[2]) >= 36
      BY Zenon, <3>5, <3>6
    <3>4. b = before[1] + before[2]
      BY <3>1, <3>3, AcrossIs
    <3> QED
      BY <2>3, <3>3, <3>4
  <2> QED
    BY <1>2, <2>1, <2>2, <2>3
<1> HIDE DEF b
<1>9. cells[n] = group - b
  BY <1>6, <1>8 DEF AtLeast36
<1>10. \A i \in 1..Len(cells) : cells[i] \in Int
  BY <1>2, <1>6, <1>8, <1>9
<1>11. Across(cells) = group
  <2>1. Len(cells) \in 0..3
    BY <1>2, <1>6
  <2>2. /\ Len(cells) = 1 => Across(cells) = cells[1]
        /\ Len(cells) = 2 => Across(cells) = cells[1] + cells[2]
        /\ Len(cells) = 3 => Across(cells) = cells[1] + cells[2] + cells[3]
    BY Zenon, <1>10, <2>1, AcrossIs
  <2>3. CASE n = 1
    BY <1>6, <1>8, <1>9, <2>2, <2>3
  <2>4. CASE n = 2
    <3>1. cells[1] = before[1] /\ cells[2] = group - b /\ b = before[1] /\ Across(cells) = cells[1] + cells[2]
      BY <1>6, <1>8, <1>9, <2>2, <2>4
    <3> QED
      BY <1>8, <3>1
  <2>5. CASE n = 3
    <3>1. /\ cells[1] = before[1] /\ cells[2] = before[2] /\ cells[3] = group - b
          /\ b = before[1] + before[2] /\ Across(cells) = cells[1] + cells[2] + cells[3]
      BY <1>6, <1>8, <1>9, <2>2, <2>5
    <3>2. before[1] \in Nat /\ before[2] \in Nat
      BY <1>8, <2>5
    <3> QED
      BY <3>1, <3>2
  <2> QED
    BY <1>2, <2>3, <2>4, <2>5
<1> QED
  BY <1>1, <1>11

\* The columns, from the invariant.
LEMMA ColumnsDoFit == ASSUME LogTableAssumption, LtInv PROVE ColumnsFit
<1> DEFINE t == ltTable
           wanted == WantedColumns(t.want)
           shown == ShownColumns \ {"status"}
<1>1. FitsWell(t) /\ t.want \in Wants
  BY DEF LtInv, IsRight, IsHalfway, Widthy
<1>2. wanted \subseteq Columns /\ "status" \in wanted
  BY <1>1, WantedIs
<1>3. ShownColumns = wanted \ t.gave
  BY <1>1, <1>2 DEF FitsWell, HiddenFor, ShownColumns
<1>4. shown = Grid(t.want, t.gave)
  BY <1>3 DEF Grid
<1>5. \A col \in shown : t.widths[col] >= MinColumnWidths[col]
  <2>1. IsWidths(t.widths, shown)
    BY <1>1, <1>4 DEF FitsWell
  <2>2. shown \subseteq Columns
    BY DEF ShownColumns
  <2> HIDE DEF shown
  <2>3. \A col \in shown : MinColumnWidths[col] <= t.widths[col] /\ t.widths[col] \in Nat /\ MinColumnWidths[col] \in Nat
    BY <2>1, <2>2, FloorsAreLower DEF IsWidths
  <2> QED
    BY <2>3
<1>6. CASE t.width >= 200
  <2>1. /\ GaveRightly(t.want, t.width, t.gave)
        /\ \/ TotalWidth(Grid(t.want, t.gave), t.widths) <= Available(t.width)
           \/ Floors(Grid(t.want, t.gave)) > Available(t.width)
    BY <1>1, <1>6 DEF FitsWell
  <2>2. t.gave # {} => LastGiven = LastOf(t.gave)
    BY <2>1, LastGivenIs DEF GaveRightly, LastGiven
  <2>3. (wanted \ {"status"}) \ t.gave = shown
    BY <1>3
  <2>4. t.gave # {} => TotalWidth(shown \cup {LastGiven}, MinColumnWidths) > Available(t.width)
    BY <2>1, <2>2, <2>3 DEF GaveRightly, Floors
  <2>5. \/ TotalWidth(shown, MinColumnWidths) <= Available(t.width)
        \/ wanted \cap {"deg", "exchSent"} = t.gave
    BY <2>1, <2>3 DEF GaveRightly, Floors, Yielding
  <2>6. TotalWidth(shown, MinColumnWidths) \in Nat /\ Available(t.width) \in Int
    <3>1. \A col \in Columns : MinColumnWidths[col] \in Nat
      BY FloorsAreLower
    <3>2. t.width \in Nat
      BY WidthIs DEF LtInv, IsRight, IsHalfway
    <3> HIDE DEF shown, t
    <3> QED
      BY <3>1, <3>2, TotalIsNat DEF Available, ColumnWidths
  <2>7. \/ TotalWidth(shown, t.widths) <= Available(t.width)
        \/ TotalWidth(shown, MinColumnWidths) > Available(t.width) /\ wanted \cap {"deg", "exchSent"} = t.gave
    <3>1. \/ TotalWidth(shown, t.widths) <= Available(t.width)
          \/ TotalWidth(shown, MinColumnWidths) > Available(t.width)
      BY <1>4, <2>1 DEF Floors
    <3>2. ~(TotalWidth(shown, MinColumnWidths) <= Available(t.width)
            /\ TotalWidth(shown, MinColumnWidths) > Available(t.width))
      <4> HIDE DEF shown, t
      <4> QED
        BY <2>6
    <3> QED
      BY Zenon, <2>5, <3>1, <3>2
  <2> QED
    BY <1>3, <1>5, <2>4, <2>7 DEF ColumnsFit
<1>7. CASE ~(t.width >= 200)
  BY <1>7 DEF ColumnsFit
<1> QED
  BY <1>6, <1>7

\* The cells, from the invariant.
LEMMA CellsDoLineUp == ASSUME LogTableAssumption, LtInv PROVE CellsLineUp
<1> DEFINE t == ltTable
           c == t.cells
           before == [band |-> c.serial, time |-> c.serial + c.band, call |-> c.serial + c.band + c.time,
                      rstRcvd |-> c.serial + c.band + c.time + c.call + c.sent]
           w(col) == Takes(t, col)
<1>1. FitsWell(t) /\ t.want \in Wants /\ LinedUp(t) /\ ltContest \in LtContests
  BY DEF LtInv, IsRight, IsHalfway, Widthy
<1>2. t.gave \subseteq Yielding /\ t.hidden = HiddenFor(t.want, t.gave) /\ IsWidths(t.widths, Grid(t.want, t.gave))
  BY <1>1 DEF FitsWell
<1>3. \A col \in Columns : t.widths[col] \in Nat /\ w(col) \in Nat
  BY <1>2 DEF IsWidths, Takes
<1>4. \A col \in {"serial", "band", "time", "call", "rstRcvd", "km"} :
        LeftOf(t, col) = TotalWidth(Before(col) \ t.hidden, t.widths)
  <2> SUFFICES ASSUME NEW col \in {"serial", "band", "time", "call", "rstRcvd", "km"}
               PROVE  LeftOf(t, col) = TotalWidth(Before(col) \ t.hidden, t.widths)
    OBVIOUS
  <2> QED
    BY Zenon, <1>1, <1>2, LeftOfIs
<1>5. /\ LeftOf(t, "band") = w("serial")
      /\ LeftOf(t, "time") = w("serial") + w("band")
      /\ LeftOf(t, "call") = w("serial") + w("band") + w("time")
      /\ LeftOf(t, "rstRcvd") = w("serial") + w("band") + w("time") + w("call") + w("exchSent") + w("rstSent")
                                + w("serialSent")
      /\ LeftOf(t, "km") = w("serial") + w("band") + w("time") + w("call") + w("exchSent") + w("rstSent")
                           + w("serialSent") + w("rstRcvd") + w("serialGrid")
  <2>1. \A col \in Columns : t.widths[col] \in Nat
    BY <1>3
  <2> QED
    BY <1>4, <2>1, BeforeAddsUp
<1>6. /\ c.serial = w("serial") /\ c.band = w("band") /\ c.time = w("time") /\ c.call = w("call")
      /\ c.sent = w("exchSent") + w("rstSent") + w("serialSent") /\ c.rcvd = w("rstRcvd") + w("serialGrid")
  BY <1>1 DEF LinedUp
<1>7. /\ before["band"] = c.serial /\ before["time"] = c.serial + c.band /\ before["call"] = c.serial + c.band + c.time
      /\ before["rstRcvd"] = c.serial + c.band + c.time + c.call + c.sent
      /\ DOMAIN before = {"band", "time", "call", "rstRcvd"}
  OBVIOUS
<1>8. /\ w("serial") \in Nat /\ w("band") \in Nat /\ w("time") \in Nat /\ w("call") \in Nat /\ w("exchSent") \in Nat
      /\ w("rstSent") \in Nat /\ w("serialSent") \in Nat /\ w("rstRcvd") \in Nat /\ w("serialGrid") \in Nat
  BY <1>3, ColumnsAre
<1>9. w("rstRcvd") + w("serialGrid") >= 170
  <2>1. "rstRcvd" \notin t.hidden /\ "serialGrid" \notin t.hidden
    BY <1>1, <1>2, HiddenIs
  <2>2. w("rstRcvd") = t.widths["rstRcvd"] /\ w("serialGrid") = t.widths["serialGrid"]
    BY <2>1 DEF Takes
  <2>3. "rstRcvd" \in Grid(t.want, t.gave) /\ "serialGrid" \in Grid(t.want, t.gave)
    BY <1>1, <1>2, WantedIs DEF Grid, Yielding
  <2>4. t.widths["rstRcvd"] >= 42 /\ t.widths["serialGrid"] >= 128
    BY <1>2, <1>3, <2>3, ColumnsAre DEF IsWidths, MinColumnWidths
  <2> HIDE DEF t
  <2> QED
    BY <2>2, <2>4, <1>8
<1>10. Across(FieldWidths(ltContest.fields, c.rcvd)) = c.rcvd
  <2>1. /\ ltContest.fields \in Seq(FieldKinds) /\ Len(ltContest.fields) \in 1..3 /\ ltContest.fields[1] = "rst"
        /\ \A i, j \in 1..Len(ltContest.fields) : ltContest.fields[i] = ltContest.fields[j] => i = j
    BY <1>1 DEF LogTableAssumption
  <2>2. c.rcvd \in Nat /\ c.rcvd >= 170
    <3> HIDE DEF w, c, t
    <3> QED
      BY <1>6, <1>8, <1>9
  <2> QED
    BY <2>1, <2>2, FieldsFill
<1>11. /\ before["band"] = LeftOf(t, "band") /\ before["time"] = LeftOf(t, "time") /\ before["call"] = LeftOf(t, "call")
       /\ before["rstRcvd"] = LeftOf(t, "rstRcvd") /\ before["rstRcvd"] + c.rcvd = LeftOf(t, "km")
  <2> HIDE DEF w, c, before, t
  <2> QED
    BY <1>5, <1>6, <1>7, <1>8
<1>12. \A col \in DOMAIN before : before[col] = LeftOf(t, col)
  <2> HIDE DEF before
  <2> QED
    BY <1>7, <1>11
<1>13. (\A col \in DOMAIN before : col \in ShownColumns => before[col] = LeftOf(t, col))
       /\ ("km" \in ShownColumns => before["rstRcvd"] + c.rcvd = LeftOf(t, "km"))
  <2> HIDE DEF before
  <2> QED
    BY <1>11, <1>12
<1> QED
  BY Zenon, <1>10, <1>13 DEF CellsLineUp

\* The panel, from the invariant: an open editor stands on a cell that is shown.
LEMMA LtShows == ASSUME LogTableAssumption, LtInv PROVE LogPanelIsTrue
<1>1. ASSUME IsCorrecting
      PROVE  ltFocus \in OpenableCells
  <2>1. IsFocus(ltFocus, Len(ltLog)) /\ ltFocus.where = "cell"
    BY <1>1 DEF LtInv, IsCorrecting
  <2>2. ltFocus = CellAt(ltFocus.row, ltFocus.col) /\ ltFocus.row \in 1..Len(ltLog) /\ ltFocus.col \in Correctable
    BY <2>1, Zenon DEF IsFocus, CellAt
  <2>3. {"call", "time", "serialGrid"} \cap ltTable.hidden = {}
    <3>1. ltTable.want \in Wants /\ ltTable.gave \subseteq Yielding /\ ltTable.hidden = HiddenFor(ltTable.want, ltTable.gave)
      BY DEF LtInv, IsRight, IsHalfway, Widthy, FitsWell
    <3> QED
      BY <3>1, HiddenIs
  <2> QED
    BY <2>2, <2>3 DEF OpenableCells, Correctable
<1> QED
  BY <1>1, ColumnsDoFit, CellsDoLineUp DEF LogPanelIsTrue, EditorIsOnACell

\* The shapes, from the invariant.
LEMMA LtTyped == ASSUME LogTableAssumption, LtInv PROVE LtTypeOK
<1>1. /\ FitsWell(ltTable) /\ Widthy(ltTable) /\ ltTable.queued \in 0..MaxResyncRounds
      /\ ltContest \in LtContests /\ ltSaved \in [dx : BOOLEAN, number : BOOLEAN]
      /\ ltLog \in Seq(LtRows) /\ Len(ltLog) <= LtMaxRows /\ ltEdits \in 0..LtMaxEdits
  BY DEF LtInv, IsRight, IsHalfway
<1>2. IsWidths(ltTable.widths, Grid(ltTable.want, ltTable.gave)) /\ ltTable.gave \subseteq Yielding
      /\ ltTable.hidden \subseteq Columns
  BY <1>1 DEF FitsWell, HiddenFor
<1>3. \A col \in Columns : ltTable.widths[col] \in 1..ColumnWidths[col]
  BY <1>2, FloorsAreLower DEF IsWidths
<1>4. Len(ltLog) \in 0..LtMaxRows
  <2>1. LtMaxRows \in Nat /\ Len(ltLog) \in Nat
    BY <1>1, LenProperties DEF LogTableAssumption
  <2> QED
    BY <1>1, <2>1
<1>5. ltTable.want \in [dx : BOOLEAN, number : BOOLEAN, distance : BOOLEAN, bands : BOOLEAN]
      /\ ltTable.width \in LtWidths \cup {LtFirstWidth}
  BY <1>1 DEF Widthy, Wants
<1> QED
  BY <1>1, <1>2, <1>3, <1>4, <1>5 DEF LtTypeOK, Yielding

-----------------------------------------------------------------------------
(* Log check: the longest ascending run                                    *)

\* A bounded set of numbers has a largest one.
LEMMA LargestIs ==
    ASSUME NEW n \in Nat, NEW S \in SUBSET (0..n), S # {}
    PROVE  Max(S) \in S /\ \A i \in S : Max(S) >= i
<1>1. \E m \in S : \A i \in S : m >= i
  <2>1. CASE S = {0}
    BY <2>1
  <2>2. CASE S # {0}
    <3> DEFINE T == S \ {0}
    <3>1. T \in SUBSET (1..n) /\ T # {}
      BY <2>2
    <3>2. Max(T) \in T /\ \A i \in T : Max(T) >= i
      <4> HIDE DEF T
      <4> QED BY <3>1, LastPlace
    <3>3. Max(T) \in 1..n
      BY <3>1, <3>2
    <3> HIDE DEF T
    <3>4. \A i \in S : i \in T \/ i = 0
      BY DEF T
    <3>5. Max(T) \in S
      BY <3>2 DEF T
    <3> QED
      BY <3>2, <3>3, <3>4, <3>5
  <2> QED
    BY <2>1, <2>2
<1> QED
  BY <1>1 DEF Max

\* The rows that can follow a row in an ascending run.
Following(rows, i) == {k \in rows : k > i /\ chkLog[k].sent > chkLog[i].sent}
LongestFrom(rows, f) ==
    f = [i \in rows |-> Max({1} \cup {f[j] + 1 : j \in {k \in rows : k > i /\ chkLog[k].sent > chkLog[i].sent}})]

\* There are such lengths, whatever the rows.
LEMMA LongestExists ==
    ASSUME NEW n \in Nat, NEW rows \in SUBSET (1..n)
    PROVE  \E f : LongestFrom(rows, f)
<1> DEFINE Late(m) == {i \in rows : i > n - m}
           Can(m) == \E f : LongestFrom(Late(m), f)
           Missing == {m \in 0..n : ~Can(m)}
<1>0. n \in Nat /\ \A i \in rows : i \in Nat /\ 1 <= i /\ i <= n
  OBVIOUS
<1> HIDE DEF Can
<1>1. SUFFICES ASSUME Missing # {} PROVE FALSE
  <2>1. n \in 0..n
    OBVIOUS
  <2>2. Missing = {} => Can(n)
    BY <2>1
  <2>3. Late(n) = rows
    <3>1. \A i \in rows : i > n - n
      BY <1>0
    <3> QED BY <3>1
  <2> HIDE DEF Late, Missing
  <2> QED
    BY <2>2, <2>3, <1>1 DEF Can
<1>3. PICK m \in Missing : \A k \in Missing : m <= k
  <2>1. Missing \in SUBSET Nat
    OBVIOUS
  <2> HIDE DEF Missing
  <2> QED
    BY <1>1, <2>1, LeastExists
<1>4. m \in 0..n
  OBVIOUS
<1>5. m # 0
  <2>1. Late(0) = {}
    <3>1. \A i \in rows : ~(i > n - 0)
      BY <1>0
    <3> QED BY <3>1
  <2>2. LongestFrom({}, [i \in {} |-> 0])
    BY DEF LongestFrom
  <2> HIDE DEF Late
  <2>3. Can(0)
    BY <2>1, <2>2, Zenon DEF Can
  <2> QED
    BY <2>3
<1>6. m - 1 \in 0..n /\ Can(m - 1)
  BY <1>3, <1>4, <1>5
<1>7. PICK f : LongestFrom(Late(m - 1), f)
  <2> HIDE DEF Late
  <2> QED BY <1>6, Zenon DEF Can
<1> DEFINE R == Late(m)
           Q == Late(m - 1)
           value(h, S, i) == Max({1} \cup {h[j] + 1 : j \in {k \in S : k > i /\ chkLog[k].sent > chkLog[i].sent}})
           g == [i \in R |-> IF i \in Q THEN f[i] ELSE value(f, Q, i)]
<1>8. Q \subseteq R /\ \A i \in R, k \in R : k > i => k \in Q
  <2>1. \A i \in rows : i > n - (m - 1) => i > n - m
    BY <1>0, <1>4
  <2>2. \A i \in rows, k \in rows : i > n - m /\ k > i => k > n - (m - 1)
    BY <1>0, <1>4
  <2> QED
    BY <2>1, <2>2
<1>9. \A i \in Q : f[i] = value(f, Q, i)
  <2> HIDE DEF Q
  <2>1. f = [i \in Q |-> value(f, Q, i)]
    BY <1>7 DEF LongestFrom, Q
  <2> HIDE DEF value
  <2> QED
    BY <2>1
<1>10. \A i \in R : g[i] = value(f, Q, i)
  <2> HIDE DEF Q, R, value
  <2> QED
    BY <1>9
<1>11. ASSUME NEW i \in R
       PROVE  value(g, R, i) = value(f, Q, i)
  <2> DEFINE Fr == {k \in R : k > i /\ chkLog[k].sent > chkLog[i].sent}
             Fq == {k \in Q : k > i /\ chkLog[k].sent > chkLog[i].sent}
  <2> HIDE DEF Q, R
  <2>1. Fr = Fq
    BY <1>8
  <2>2. \A j \in Fq : g[j] = f[j]
    BY <1>8
  <2> HIDE DEF g
  <2>3. {g[j] + 1 : j \in Fr} = {f[j] + 1 : j \in Fq}
    <3> HIDE DEF Fr, Fq
    <3> QED BY <2>1, <2>2
  <2> QED
    BY <2>3
<1>12. LongestFrom(R, g)
  <2> HIDE DEF Q, R, value
  <2>1. g = [i \in R |-> value(g, R, i)]
    <3>1. \A i \in R : g[i] = value(g, R, i)
      BY <1>10, <1>11
    <3>2. g = [i \in R |-> g[i]]
      OBVIOUS
    <3> HIDE DEF g
    <3>3. [i \in R |-> g[i]] = [i \in R |-> value(g, R, i)]
      BY <3>1
    <3> QED
      BY <3>2, <3>3
  <2> HIDE DEF g
  <2> QED
    BY <2>1, Zenon DEF LongestFrom, value
<1>13. Can(m)
  <2> HIDE DEF Late, g
  <2> QED BY <1>12, Zenon DEF Can
<1> QED
  BY <1>3, <1>13

\* What RunFrom() tells of a row.
RunIs(rows, run) ==
    \A i \in rows : run[i] = Max({1} \cup {run[j] + 1 : j \in Following(rows, i)})
\* RunFrom() has them.
LEMMA RunFromIs ==
    ASSUME NEW n \in Nat, NEW rows \in SUBSET (1..n)
    PROVE  DOMAIN RunFrom(rows) = rows /\ RunIs(rows, RunFrom(rows))
<1>1. RunFrom(rows) = CHOOSE f : LongestFrom(rows, f)
  BY Zenon DEF RunFrom, LongestFrom
<1>2. LongestFrom(rows, RunFrom(rows))
  BY <1>1, LongestExists
<1> DEFINE run == RunFrom(rows)
           value(i) == Max({1} \cup {run[j] + 1 : j \in {k \in rows : k > i /\ chkLog[k].sent > chkLog[i].sent}})
<1>3. run = [i \in rows |-> value(i)]
  BY <1>2 DEF LongestFrom
<1>4. DOMAIN run = rows /\ \A i \in rows : run[i] = value(i)
  <2> HIDE DEF value
  <2> QED BY <1>3
<1> QED
  BY <1>4 DEF RunIs, Following

\* A run's length, when the later ones are known to be short enough.
LEMMA LengthOfRun ==
    ASSUME NEW n \in Nat, NEW rows \in SUBSET (1..n), NEW run, RunIs(rows, run), NEW i \in rows,
           \A j \in Following(rows, i) : run[j] \in 1..(n - j + 1)
    PROVE  /\ run[i] \in 1..(n - i + 1)
           /\ \A j \in Following(rows, i) : run[i] >= run[j] + 1
           /\ run[i] = 1 \/ \E j \in Following(rows, i) : run[i] = run[j] + 1
<1> DEFINE F == Following(rows, i)
           S == {1} \cup {run[j] + 1 : j \in F}
<1>1. i \in 1..n /\ \A j \in F : j \in 1..n /\ j > i
  BY DEF Following
<1>2. n - i + 1 \in Nat /\ 1 \in 0..(n - i + 1)
  BY <1>1
<1>3. \A j \in F : run[j] + 1 \in 1..(n - i + 1)
  <2> HIDE DEF F
  <2>1. SUFFICES ASSUME NEW j \in F PROVE run[j] + 1 \in 1..(n - i + 1)
    OBVIOUS
  <2>2. run[j] \in 1..(n - j + 1) /\ j \in 1..n /\ j > i
    BY <1>1 DEF F
  <2> QED
    BY <1>1, <2>2
<1>4. S \in SUBSET (0..(n - i + 1)) /\ S # {} /\ \A s \in S : s \in 1..(n - i + 1)
  <2> HIDE DEF F
  <2> QED
    BY <1>1, <1>2, <1>3
<1>5. Max(S) \in S /\ \A s \in S : Max(S) >= s
  <2> HIDE DEF S
  <2> QED
    BY <1>2, <1>4, LargestIs
<1>6. run[i] = Max(S)
  BY DEF RunIs
<1> HIDE DEF F
<1>7. \A j \in F : run[j] + 1 \in S
  OBVIOUS
<1>8. run[i] = 1 \/ \E j \in F : run[i] = run[j] + 1
  BY <1>5, <1>6
<1> HIDE DEF S
<1> QED
  BY <1>4, <1>5, <1>6, <1>7, <1>8 DEF F

\* The length at each row: one more than the longest that can follow.
RunLengths(n, rows, run) ==
    \A i \in rows :
        /\ run[i] \in 1..(n - i + 1)
        /\ \A j \in Following(rows, i) : run[i] >= run[j] + 1
        /\ run[i] = 1 \/ \E j \in Following(rows, i) : run[i] = run[j] + 1
\* Those are the lengths RunFrom() finds.
LEMMA RunLengthsAre ==
    ASSUME NEW n \in Nat, NEW rows \in SUBSET (1..n)
    PROVE  RunLengths(n, rows, RunFrom(rows))
<1> DEFINE run == RunFrom(rows)
           Bad == {i \in rows : run[i] \notin 1..(n - i + 1)}
<1>1. RunIs(rows, run)
  BY RunFromIs
<1>2. Bad = {}
  <2>1. SUFFICES ASSUME Bad # {} PROVE FALSE
    OBVIOUS
  <2>2. PICK i \in Bad : \A j \in Bad : i >= j
    <3>1. Bad \in SUBSET (1..n)
      OBVIOUS
    <3> HIDE DEF Bad
    <3> QED
      BY <2>1, <3>1, LastPlace
  <2>3. i \in rows /\ run[i] \notin 1..(n - i + 1) /\ i \in Nat
    OBVIOUS
  <2>4. \A j \in Following(rows, i) : j \in rows /\ j \in Nat /\ j > i
    BY DEF Following
  <2>5. \A j \in Following(rows, i) : j \notin Bad
    <3> HIDE DEF Bad
    <3> QED BY <2>2, <2>3, <2>4
  <2>6. \A j \in Following(rows, i) : run[j] \in 1..(n - j + 1)
    BY <2>4, <2>5
  <2> HIDE DEF run, Bad
  <2>7. run[i] \in 1..(n - i + 1)
    BY <1>1, <2>3, <2>6, LengthOfRun
  <2> QED
    BY <2>3, <2>7
<1>3. \A i \in rows : run[i] \in 1..(n - i + 1)
  BY <1>2
<1>4. \A i \in rows : \A j \in Following(rows, i) : j \in rows
  BY DEF Following
<1> HIDE DEF run
<1>5. ASSUME NEW i \in rows
      PROVE  /\ run[i] \in 1..(n - i + 1)
             /\ \A j \in Following(rows, i) : run[i] >= run[j] + 1
             /\ run[i] = 1 \/ \E j \in Following(rows, i) : run[i] = run[j] + 1
  <2>1. \A j \in Following(rows, i) : run[j] \in 1..(n - j + 1)
    BY <1>3, <1>4
  <2> QED
    BY <1>1, <2>1, LengthOfRun
<1>6. RunLengths(n, rows, run)
  BY <1>5 DEF RunLengths
<1> QED
  BY <1>6 DEF run

\* No ascending run that starts at a row is longer than the number found there.
LEMMA NoRunIsLonger ==
    ASSUME NEW n \in Nat, NEW rows \in SUBSET (1..n), NEW run, RunLengths(n, rows, run),
           NEW P \in SUBSET rows, Ascends(P), NEW i \in P, \A j \in P : i <= j
    PROVE  Cardinality(P) <= run[i]
<1> DEFINE Starts(Q, k) == Q \in SUBSET rows /\ Ascends(Q) /\ k \in Q /\ \A j \in Q : k <= j
           Bad == {k \in rows : \E Q \in SUBSET rows : Starts(Q, k) /\ ~(Cardinality(Q) <= run[k])}
<1>1. SUFFICES ASSUME Bad # {} PROVE FALSE
  <2>1. Starts(P, i) /\ i \in rows
    OBVIOUS
  <2> HIDE DEF Starts
  <2> QED
    BY <2>1, <1>1
<1>2. PICK k \in Bad : \A j \in Bad : k >= j
  <2>1. Bad \in SUBSET (1..n)
    OBVIOUS
  <2> HIDE DEF Bad
  <2> QED
    BY <1>1, <2>1, LastPlace
<1>3. PICK Q \in SUBSET rows : Starts(Q, k) /\ ~(Cardinality(Q) <= run[k])
  <2> HIDE DEF Starts
  <2> QED BY <1>2
<1>4. /\ k \in rows /\ k \in Q /\ Ascends(Q) /\ \A j \in Q : k <= j
      /\ \A j \in rows : j \in 1..n
  BY <1>3
<1> DEFINE R == Q \ {k}
<1>5. IsFiniteSet(Q) /\ Cardinality(Q) \in Nat /\ IsFiniteSet(R) /\ Cardinality(R) \in Nat /\ Cardinality(R)
        = Cardinality(Q) - 1
  <2>1. IsFiniteSet(1..n) /\ Q \subseteq 1..n
    BY FS_Interval
  <2>2. IsFiniteSet(Q)
    BY <2>1, FS_Subset
  <2>3. IsFiniteSet(R) /\ Cardinality(R) = Cardinality(Q) - 1
    BY <2>2, <1>4, FS_RemoveElement
  <2> QED
    BY <2>2, <2>3, FS_CardinalityType
<1>6. run[k] \in Nat /\ run[k] >= 1
  BY <1>4 DEF RunLengths
<1>7. R # {}
  <2>1. SUFFICES ASSUME R = {} PROVE FALSE
    OBVIOUS
  <2>2. Cardinality(R) = 0
    BY <2>1, FS_EmptySet
  <2> HIDE DEF R
  <2> QED
    BY <1>3, <1>5, <1>6, <2>2
<1>8. PICK m \in R : \A j \in R : m <= j
  <2>1. R \in SUBSET Nat
    BY <1>4
  <2> HIDE DEF R
  <2> QED
    BY <1>7, <2>1, LeastExists
<1>9. m \in rows /\ m \in Q /\ m > k /\ m \in Nat /\ k \in Nat
  BY <1>4
<1>10. m \in Following(rows, k)
  BY <1>4, <1>9 DEF Following, Ascends
<1>11. Starts(R, m)
  BY <1>4, <1>8 DEF Ascends
<1>12. m \notin Bad
  <2> HIDE DEF Bad
  <2> QED
    BY <1>2, <1>9
<1>13. Cardinality(R) <= run[m]
  <2>1. R \in SUBSET rows
    OBVIOUS
  <2> HIDE DEF R, Starts
  <2> QED
    BY <1>9, <1>11, <1>12, <2>1
<1>14. run[m] \in Nat /\ run[k] >= run[m] + 1
  BY <1>4, <1>9, <1>10 DEF RunLengths
<1> HIDE DEF R
<1> QED
  BY <1>3, <1>5, <1>6, <1>13, <1>14

\* What the pass has after each row, as a function of the row.
Passed(all, run, n, f) == f = [m \in 0..n |-> IF m = 0 THEN all ELSE Take(run, f[m - 1], m)]
\* There is such a pass.
LEMMA PassExists ==
    ASSUME NEW all, NEW run, NEW n \in Nat
    PROVE  \E f : Passed(all, run, n, f)
<1> DEFINE bad == {m \in Nat : ~\E f : Passed(all, run, m, f)}
<1>1. SUFFICES ASSUME bad # {}
               PROVE  FALSE
  OBVIOUS
<1>2. PICK m \in bad : \A k \in bad : m <= k
  BY <1>1, LeastExists
<1>3. m # 0
  <2>1. Passed(all, run, 0, [i \in 0..0 |-> all])
    BY DEF Passed
  <2> QED
    BY <1>2, <2>1
<1>4. m - 1 \in Nat /\ m - 1 \notin bad
  BY <1>2, <1>3
<1>5. PICK f : Passed(all, run, m - 1, f)
  BY <1>4
<1> DEFINE g == [i \in 0..m |-> IF i = m THEN Take(run, f[m - 1], m) ELSE f[i]]
<1>6. ASSUME NEW i \in 0..m
      PROVE  g[i] = IF i = 0 THEN all ELSE Take(run, g[i - 1], i)
  <2>1. m \in Nat /\ i \in Nat /\ i <= m
    BY <1>2
  <2>2. CASE i = m
    <3>1. g[i] = Take(run, f[m - 1], m) /\ g[i - 1] = f[m - 1]
      BY <1>3, <2>1, <2>2
    <3> QED
      BY <3>1, <1>3, <2>2
  <2>3. CASE i # m
    <3>1. i \in 0..(m - 1) /\ (i # 0 => i - 1 \in 0..m /\ i - 1 # m)
      BY <2>1, <2>3, <1>4
    <3>2. g[i] = f[i] /\ (i # 0 => g[i - 1] = f[i - 1])
      BY <2>3, <3>1
    <3>3. f[i] = IF i = 0 THEN all ELSE Take(run, f[i - 1], i)
      BY <1>5, <3>1, Zenon DEF Passed
    <3> QED
      BY <3>2, <3>3
  <2> QED
    BY <2>2, <2>3
<1>7. Passed(all, run, m, g)
  <2>1. g = [i \in 0..m |-> g[i]]
    OBVIOUS
  <2> HIDE DEF g
  <2>2. [i \in 0..m |-> g[i]] = [i \in 0..m |-> IF i = 0 THEN all ELSE Take(run, g[i - 1], i)]
    BY <1>6
  <2> QED
    BY <2>1, <2>2, Zenon DEF Passed
<1> QED
  BY <1>2, <1>7

\* After row m: the rows taken ascend, and as many as are still needed can follow.
Numbered(rows) == \A i \in rows : chkLog[i].sent \in Nat /\ chkLog[i].sent > 0
OnTheWay(rows, run, most, acc, m) ==
    /\ acc.need \in Nat /\ acc.last \in Nat /\ acc.taken \subseteq rows /\ Ascends(acc.taken)
    /\ \A i \in acc.taken : i <= m /\ chkLog[i].sent <= acc.last
    /\ IsFiniteSet(acc.taken) /\ Cardinality(acc.taken) + acc.need = most
    /\ acc.need > 0 => \E j \in rows : j > m /\ run[j] = acc.need /\ chkLog[j].sent > acc.last

\* One row on.
LEMMA TakeGoesOn ==
    ASSUME NEW n \in Nat, NEW rows \in SUBSET (1..n), NEW run, RunLengths(n, rows, run), DOMAIN run = rows,
           Numbered(rows), NEW most \in Nat, NEW m \in 1..n, NEW acc, OnTheWay(rows, run, most, acc, m - 1)
    PROVE  OnTheWay(rows, run, most, Take(run, acc, m), m)
<1>0. \A i \in rows : i \in 1..n /\ i \in Nat
  OBVIOUS
<1>1. CASE m \in rows /\ run[m] = acc.need /\ chkLog[m].sent > acc.last
  <2> DEFINE to == Take(run, acc, m)
  <2>1. to.need = acc.need - 1 /\ to.last = chkLog[m].sent /\ to.taken = acc.taken \cup {m}
    BY <1>1 DEF Take
  <2>2. /\ acc.need \in Nat /\ acc.last \in Nat /\ acc.taken \subseteq rows /\ Ascends(acc.taken)
        /\ \A i \in acc.taken : i <= m - 1 /\ chkLog[i].sent <= acc.last
        /\ IsFiniteSet(acc.taken) /\ Cardinality(acc.taken) + acc.need = most
    BY DEF OnTheWay
  <2>3. /\ run[m] \in 1..(n - m + 1)
        /\ run[m] = 1 \/ \E j \in Following(rows, m) : run[m] = run[j] + 1
    BY <1>1 DEF RunLengths
  <2>4. chkLog[m].sent \in Nat /\ \A i \in rows : chkLog[i].sent \in Nat
    BY <1>1 DEF Numbered
  <2> HIDE DEF to
  <2>5. to.need \in Nat /\ to.last \in Nat /\ to.taken \subseteq rows
    BY <1>1, <2>1, <2>2, <2>3, <2>4
  <2>6. m \notin acc.taken /\ \A i \in acc.taken : i \in Nat /\ i < m /\ chkLog[i].sent < chkLog[m].sent
    BY <1>0, <1>1, <2>2, <2>4
  <2>7. Ascends(to.taken)
    <3>1. SUFFICES ASSUME NEW i \in to.taken, NEW j \in to.taken, i < j
                   PROVE  chkLog[i].sent < chkLog[j].sent
      BY DEF Ascends
    <3>2. (i \in acc.taken \/ i = m) /\ (j \in acc.taken \/ j = m)
      BY <2>1
    <3>3. CASE i \in acc.taken /\ j \in acc.taken
      BY <2>2, <3>1, <3>3 DEF Ascends
    <3>4. CASE i \in acc.taken /\ j = m
      BY <2>6, <3>4
    <3>5. CASE i = m
      <4>1. j # m /\ ~(j < m)
        BY <3>1, <3>5, <2>6, <3>2
      <4> QED
        BY <4>1, <3>2, <2>6
    <3> QED
      BY <3>2, <3>3, <3>4, <3>5
  <2>8. \A i \in to.taken : i <= m /\ chkLog[i].sent <= to.last
    BY <2>1, <2>4, <2>6, <2>2
  <2>9. IsFiniteSet(to.taken) /\ Cardinality(to.taken) + to.need = most
    <3>1. IsFiniteSet(to.taken) /\ Cardinality(to.taken) = Cardinality(acc.taken) + 1
      BY <2>1, <2>2, <2>6, FS_AddElement
    <3>2. Cardinality(acc.taken) \in Nat
      BY <2>2, FS_CardinalityType
    <3> QED
      BY <2>1, <2>2, <3>1, <3>2
  <2>10. to.need > 0 => \E j \in rows : j > m /\ run[j] = to.need /\ chkLog[j].sent > to.last
    <3>1. SUFFICES ASSUME to.need > 0
                   PROVE  \E j \in rows : j > m /\ run[j] = to.need /\ chkLog[j].sent > to.last
      OBVIOUS
    <3>2. PICK j \in Following(rows, m) : run[m] = run[j] + 1
      BY <1>1, <2>1, <2>3, <3>1
    <3>3. j \in rows /\ j > m /\ chkLog[j].sent > chkLog[m].sent
      BY DEF Following
    <3>4. run[j] \in Nat
      BY <1>0, <3>3 DEF RunLengths
    <3>5. run[j] = to.need
      BY <1>1, <2>1, <3>2, <3>4
    <3> QED
      BY <2>1, <3>3, <3>5
  <2>11. OnTheWay(rows, run, most, to, m)
    BY <2>5, <2>7, <2>8, <2>9, <2>10, Zenon DEF OnTheWay
  <2> QED
    BY <2>11 DEF to
<1>2. CASE ~(m \in rows /\ run[m] = acc.need /\ chkLog[m].sent > acc.last)
  <2>1. Take(run, acc, m) = acc
    BY <1>2 DEF Take
  <2>2. \A i \in acc.taken : i <= m
    <3>1. \A i \in acc.taken : i <= m - 1 /\ i \in Nat
      BY <1>0 DEF OnTheWay
    <3> QED
      BY <3>1
  <2>3. acc.need > 0 => \E j \in rows : j > m /\ run[j] = acc.need /\ chkLog[j].sent > acc.last
    <3>1. SUFFICES ASSUME acc.need > 0
                   PROVE  \E j \in rows : j > m /\ run[j] = acc.need /\ chkLog[j].sent > acc.last
      OBVIOUS
    <3>2. PICK j \in rows : j > m - 1 /\ run[j] = acc.need /\ chkLog[j].sent > acc.last
      BY <3>1 DEF OnTheWay
    <3>3. j # m
      BY <1>2, <3>2
    <3>4. j > m
      BY <1>0, <3>2, <3>3
    <3> QED
      BY <3>2, <3>4
  <2>4. OnTheWay(rows, run, most, acc, m)
    BY <2>2, <2>3 DEF OnTheWay
  <2> QED
    BY <2>1, <2>4
<1> QED
  BY <1>1, <1>2

\* At the end of the pass nothing is needed any more.
LEMMA PassEnds ==
    ASSUME NEW n \in Nat, NEW rows \in SUBSET (1..n), NEW run, RunLengths(n, rows, run), DOMAIN run = rows,
           Numbered(rows), NEW most \in Nat, NEW all, OnTheWay(rows, run, most, all, 0),
           NEW f, Passed(all, run, n, f)
    PROVE  OnTheWay(rows, run, most, f[n], n) /\ f[n].need = 0
<1> DEFINE fine(m) == OnTheWay(rows, run, most, f[m], m)
           bad == {m \in 0..n : ~fine(m)}
<1>1. \A m \in 0..n : f[m] = IF m = 0 THEN all ELSE Take(run, f[m - 1], m)
  BY Zenon DEF Passed
<1> HIDE DEF fine
<1>2. bad = {}
  <2>1. SUFFICES ASSUME bad # {} PROVE FALSE
    OBVIOUS
  <2>2. PICK m \in bad : \A k \in bad : m <= k
    <3>1. bad \in SUBSET Nat
      OBVIOUS
    <3> HIDE DEF bad
    <3> QED
      BY <2>1, <3>1, LeastExists
  <2>3. m \in 0..n /\ ~fine(m)
    OBVIOUS
  <2>4. m # 0
    <3>1. f[0] = all
      BY <1>1
    <3>2. fine(0)
      BY <3>1 DEF fine
    <3> QED
      BY <2>3, <3>2
  <2>5. m \in 1..n /\ m - 1 \in 0..n /\ fine(m - 1)
    BY <2>2, <2>3, <2>4
  <2>6. f[m] = Take(run, f[m - 1], m)
    BY <1>1, <2>3, <2>4
  <2>7. OnTheWay(rows, run, most, f[m - 1], m - 1)
    BY <2>5 DEF fine
  <2>8. OnTheWay(rows, run, most, Take(run, f[m - 1], m), m)
    BY <2>5, <2>7, TakeGoesOn
  <2> QED
    BY <2>3, <2>6, <2>8 DEF fine
<1>3. fine(n)
  BY <1>2
<1>4. OnTheWay(rows, run, most, f[n], n)
  BY <1>3 DEF fine
<1>5. \A j \in rows : ~(j > n)
  OBVIOUS
<1> QED
  BY <1>4, <1>5 DEF OnTheWay

\* The rows kept ascend, and no more of them could.
LEMMA InRunIsLongest ==
    ASSUME NEW n \in Nat, n = Len(chkLog), NEW rows \in SUBSET (1..n), Numbered(rows)
    PROVE  /\ InRun(rows) \subseteq rows /\ Ascends(InRun(rows))
           /\ \A P \in SUBSET rows : Ascends(P) => Cardinality(P) <= Cardinality(InRun(rows))
<1> DEFINE run == RunFrom(rows)
           lengths == {0} \cup {run[i] : i \in rows}
           most == Max(lengths)
           all == [need |-> most, last |-> 0, taken |-> {}]
<1>1. RunLengths(n, rows, run) /\ DOMAIN run = rows
  BY RunFromIs, RunLengthsAre
<1>2. \A i \in rows : run[i] \in 0..n /\ run[i] >= 1
  <2> HIDE DEF run
  <2>1. \A i \in rows : i \in 1..n /\ run[i] \in 1..(n - i + 1)
    BY <1>1 DEF RunLengths
  <2> QED
    BY <2>1
<1> HIDE DEF run
<1>3. lengths \in SUBSET (0..n) /\ 0 \in lengths /\ \A i \in rows : run[i] \in lengths
  BY <1>2
<1>4. most \in lengths /\ \A s \in lengths : most >= s
  <2> HIDE DEF lengths
  <2> QED
    BY <1>3, LargestIs
<1>5. most \in Nat /\ (\A i \in rows : run[i] <= most) /\ (most > 0 => \E i \in rows : run[i] = most)
  <2>1. most = 0 \/ \E i \in rows : run[i] = most
    BY <1>4
  <2>2. most \in 0..n /\ \A i \in rows : most >= run[i]
    <3> HIDE DEF lengths, most
    <3> QED BY <1>3, <1>4
  <2>3. \A i \in rows : run[i] <= most
    <3> HIDE DEF lengths, most
    <3> QED BY <1>2, <2>2
  <2> HIDE DEF lengths, most
  <2> QED
    BY <2>1, <2>2, <2>3
<1>6. OnTheWay(rows, run, most, all, 0)
  <2> HIDE DEF most
  <2>1. all.need = most /\ all.last = 0 /\ all.taken = {}
    OBVIOUS
  <2>2. IsFiniteSet({}) /\ Cardinality({}) = 0
    BY FS_EmptySet
  <2>3. Cardinality(all.taken) + all.need = most
    BY <1>5, <2>1, <2>2
  <2>4. most > 0 => \E j \in rows : j > 0 /\ run[j] = most /\ chkLog[j].sent > 0
    <3>1. \A j \in rows : j > 0
      OBVIOUS
    <3>2. \A j \in rows : chkLog[j].sent > 0
      BY DEF Numbered
    <3> QED
      BY <1>5, <3>1, <3>2
  <2> HIDE DEF all
  <2> QED
    BY <1>5, <2>1, <2>2, <2>3, <2>4 DEF OnTheWay, Ascends
<1> DEFINE pass == CHOOSE f : Passed(all, run, n, f)
<1>7. InRun(rows) = pass[n].taken
  <2>1. InRun(rows)
          = (CHOOSE f : f
          = [m \in 0..Len(chkLog) |-> IF m = 0 THEN all ELSE Take(run, f[m - 1], m)])[Len(chkLog)].taken
    BY Zenon DEF InRun, run
  <2> HIDE DEF all, run
  <2> QED
    BY <2>1, Zenon DEF Passed
<1>8. Passed(all, run, n, pass)
  <2> HIDE DEF all, run
  <2> QED
    BY PassExists
<1> HIDE DEF pass
<1>9. OnTheWay(rows, run, most, pass[n], n) /\ pass[n].need = 0
  <2> HIDE DEF all, most
  <2> QED
    BY <1>1, <1>5, <1>6, <1>8, PassEnds
<1> HIDE DEF all, most
<1>10. /\ InRun(rows) \subseteq rows /\ Ascends(InRun(rows))
       /\ IsFiniteSet(InRun(rows)) /\ Cardinality(InRun(rows)) + 0 = most
  BY <1>7, <1>9, Zenon DEF OnTheWay
<1>11. Cardinality(InRun(rows)) = most
  <2>1. Cardinality(InRun(rows)) \in Nat
    BY <1>10, FS_CardinalityType
  <2> QED
    BY <1>10, <2>1
<1>12. ASSUME NEW P \in SUBSET rows, Ascends(P)
       PROVE  Cardinality(P) <= most
  <2>1. CASE P = {}
    BY <1>5, <2>1, FS_EmptySet
  <2>2. CASE P # {}
    <3>1. P \in SUBSET Nat
      OBVIOUS
    <3>2. PICK i \in P : \A j \in P : i <= j
      BY <2>2, <3>1, LeastExists
    <3>3. Cardinality(P) <= run[i]
      BY <1>1, <1>12, <3>2, NoRunIsLonger
    <3>4. IsFiniteSet(1..n) /\ P \subseteq 1..n
      BY FS_Interval
    <3>5. Cardinality(P) \in Nat
      BY <3>4, FS_Subset, FS_CardinalityType
    <3>6. run[i] \in Nat /\ run[i] <= most
      BY <1>2, <1>5
    <3> QED
      BY <1>5, <3>3, <3>5, <3>6
  <2> QED
    BY <2>1, <2>2
<1> QED
  BY <1>10, <1>11, <1>12

-----------------------------------------------------------------------------
(* Log check: the rows, and what is reported of them                       *)

ChkRow(s, sent, at, out) ==
    [call |-> s.call, square |-> s.square, six |-> s.six, km |-> s.km, serial |-> s.serial, band |-> s.band,
     flaws |-> s.flaws, sent |-> sent, time |-> at, invalid |-> out]
ChkRows == {ChkRow(s, sent, at, out) : s \in ChkStations, sent \in ChkSerials, at \in Nat, out \in BOOLEAN}
ChkInv == chkLog \in Seq(ChkRows) /\ Len(chkLog) <= ChkMaxRows

\* A row's fields.
LEMMA ChkRowHas ==
    ASSUME NEW s, NEW sent, NEW at, NEW out, NEW now
    PROVE  /\ ChkRow(s, sent, at, out).sent = sent /\ ChkRow(s, sent, at, out).invalid = out
           /\ [ChkRow(s, sent, at, out) EXCEPT !.invalid = now] = ChkRow(s, sent, at, now)
           /\ ChkRow(s, sent, at, out).flaws = s.flaws /\ ChkRow(s, sent, at, out).km = s.km
           /\ ChkRow(s, sent, at, out).six = s.six /\ ChkRow(s, sent, at, out).serial = s.serial
  BY DEF ChkRow

\* A row has a station's words and a number sent, and is struck out or not.
LEMMA ChkRowIs ==
    ASSUME LogCheckAssumption, NEW row \in ChkRows
    PROVE  /\ row.sent \in ChkSerials /\ row.sent \in Nat /\ row.invalid \in BOOLEAN /\ row.km \in Nat
           /\ row.six \in BOOLEAN /\ row.serial \in BOOLEAN /\ row.flaws \subseteq Flaws
           /\ [row EXCEPT !.invalid = TRUE] \in ChkRows
<1>1. PICK s \in ChkStations, sent \in ChkSerials, at \in Nat, out \in BOOLEAN : row = ChkRow(s, sent, at, out)
  BY DEF ChkRows
<1>2. sent \in Nat /\ s.km \in Nat /\ s.six \in BOOLEAN /\ s.serial \in BOOLEAN /\ s.flaws \subseteq Flaws
  BY DEF LogCheckAssumption
<1>3. PICK now \in BOOLEAN : now = TRUE
  OBVIOUS
<1>4. [row EXCEPT !.invalid = now] \in ChkRows
  BY <1>1, ChkRowHas DEF ChkRows
<1>5. [row EXCEPT !.invalid = TRUE] \in ChkRows
  BY <1>3, <1>4, Zenon
<1>6. row.sent = sent /\ row.invalid = out /\ row.flaws = s.flaws /\ row.km = s.km /\ row.six = s.six /\ row.serial = s.serial
  BY <1>1, ChkRowHas
<1> QED
  BY <1>2, <1>5, <1>6

\* What the invariant says of the rows, one by one.
LEMMA ChkRowsAre ==
    ASSUME LogCheckAssumption, ChkInv
    PROVE  /\ Len(chkLog) \in Nat /\ DOMAIN chkLog = 1..Len(chkLog) /\ 1..Len(chkLog) \subseteq 1..ChkMaxRows
           /\ \A i \in DOMAIN chkLog : chkLog[i] \in ChkRows
           /\ ChkActive \subseteq 1..Len(chkLog)
<1>1. Len(chkLog) \in Nat /\ DOMAIN chkLog = 1..Len(chkLog) /\ \A i \in DOMAIN chkLog : chkLog[i] \in ChkRows
  BY LenProperties, ElementOfSeq DEF ChkInv
<1>2. 1..Len(chkLog) \subseteq 1..ChkMaxRows
  BY <1>1 DEF ChkInv, LogCheckAssumption
<1> QED
  BY <1>1, <1>2 DEF ChkActive

\* The empty log.
LEMMA ChkStarts == ASSUME LogCheckAssumption, ChkInit PROVE ChkInv
<1>1. chkLog \in Seq(ChkRows) /\ Len(chkLog) = 0
  BY EmptySeq DEF ChkInit
<1> QED
  BY <1>1 DEF ChkInv, LogCheckAssumption

\* Every step: a row more, or one struck out.
LEMMA ChkStep ==
    ASSUME LogCheckAssumption, ChkInv, [ChkNext]_chkLog
    PROVE  ChkInv'
<1>1. ASSUME NEW s \in ChkStations, NEW sent \in ChkSerials, ChkLogged(s, sent)
      PROVE  ChkInv'
  <2> PICK no \in BOOLEAN : no = FALSE
    OBVIOUS
  <2> DEFINE at == Len(chkLog) + 1
  <2>1. chkLog' = Append(chkLog, ChkRow(s, sent, at, no)) /\ Len(chkLog) < ChkMaxRows
    BY <1>1, Zenon DEF ChkLogged, ChkRow
  <2>2. Len(chkLog) \in Nat /\ at \in Nat /\ chkLog \in Seq(ChkRows)
    BY ChkRowsAre DEF ChkInv
  <2>3. ChkRow(s, sent, at, no) \in ChkRows
    <3> HIDE DEF at
    <3> QED BY <2>2 DEF ChkRows
  <2> HIDE DEF at
  <2>4. chkLog' \in Seq(ChkRows) /\ Len(chkLog') = Len(chkLog) + 1
    BY <2>1, <2>2, <2>3, AppendProperties
  <2> QED
    BY <2>1, <2>2, <2>4 DEF ChkInv, LogCheckAssumption
<1>2. ASSUME NEW i \in DOMAIN chkLog, ChkStruckOut(i)
      PROVE  ChkInv'
  <2>1. chkLog' = [chkLog EXCEPT ![i] = [chkLog[i] EXCEPT !.invalid = TRUE]]
    BY <1>2 DEF ChkStruckOut
  <2>2. [chkLog[i] EXCEPT !.invalid = TRUE] \in ChkRows
    BY ChkRowsAre, ChkRowIs
  <2>3. chkLog' \in Seq(ChkRows) /\ Len(chkLog') = Len(chkLog)
    BY <2>1, <2>2, ExceptSeq DEF ChkInv
  <2> QED
    BY <2>3 DEF ChkInv
<1>3. CASE UNCHANGED chkLog
  BY <1>3 DEF ChkInv
<1> QED
  BY <1>1, <1>2, <1>3 DEF ChkNext

\* As few as can be are reported as out of order.
LEMMA FewestAreBlamed == ASSUME LogCheckAssumption, ChkInv PROVE OrderBlamesFewest
<1> SUFFICES ASSUME NEW b \in {chkLog[i].band : i \in ChkActive}
             PROVE  LET kept == SentSequence(b) \ OutOfOrder(b)
                    IN  /\ Ascends(kept)
                        /\ \A rows \in SUBSET SentSequence(b) : Ascends(rows) => Cardinality(rows) <= Cardinality(kept)
  BY DEF OrderBlamesFewest
<1> DEFINE S == SentSequence(b)
<1>1. Len(chkLog) \in Nat /\ S \in SUBSET (1..Len(chkLog))
  BY ChkRowsAre DEF SentSequence, SentOn
<1>2. Numbered(S)
  <2>1. \A i \in S : i \in DOMAIN chkLog /\ chkLog[i].sent > 0
    BY <1>1, ChkRowsAre DEF SentSequence, SentOn
  <2>2. \A i \in S : chkLog[i].sent \in Nat
    BY <2>1, ChkRowsAre, ChkRowIs
  <2> QED
    BY <2>1, <2>2 DEF Numbered
<1> HIDE DEF S
<1>3. /\ InRun(S) \subseteq S /\ Ascends(InRun(S))
      /\ \A P \in SUBSET S : Ascends(P) => Cardinality(P) <= Cardinality(InRun(S))
  BY <1>1, <1>2, InRunIsLongest
<1>4. S \ OutOfOrder(b) = InRun(S)
  BY <1>3 DEF OutOfOrder, S
<1> QED
  BY <1>3, <1>4 DEF S

\* A row that is no dupe and has no error counts.
LEMMA NothingIsSilent == ASSUME LogCheckAssumption, ChkInv PROVE NoSilentZero
<1> SUFFICES ASSUME NEW i \in ChkActive, i \notin {x.row : x \in Errors}, ~Dupe(i)
             PROVE  Worth!QsoPoints(i) > 0
  BY DEF NoSilentZero
<1>1. \A x \in RowIssues(i) : x.level # "error" \/ x.row # i
  BY DEF Errors, CheckLog
<1>2. \A code : Issue("error", code, i).level = "error" /\ Issue("error", code, i).row = i
  BY DEF Issue
<1>3. chkLog[i].square # ""
  <2>1. chkLog[i].square = "" => Issue("error", "no_locator", i) \in RowIssues(i)
    BY DEF RowIssues
  <2> QED
    BY <1>1, <1>2, <2>1
<1>4. chkLog[i].six
  <2>1. ~chkLog[i].six => Issue("error", "bad_locator", i) \in RowIssues(i)
    BY <1>3 DEF RowIssues
  <2> QED
    BY <1>1, <1>2, <2>1
<1>5. chkLog[i].serial
  <2>1. ~chkLog[i].serial => Issue("error", "serial_rcvd_missing", i) \in RowIssues(i)
    BY DEF RowIssues
  <2> QED
    BY <1>1, <1>2, <2>1
<1>6. chkLog[i].km \in Nat
  <2>1. i \in DOMAIN chkLog
    BY DEF ChkActive
  <2> QED
    BY <2>1, ChkRowsAre, ChkRowIs
<1>7. i \in Worth!Counting
  BY DEF Worth!Counting, Worth!ValidRows, Worth!ResIds, ChkActive, Dupe
<1>8. Worth!QsoDistanceKm(i) = chkLog[i].km
  BY <1>4 DEF Worth!QsoDistanceKm
<1>9. Worth!QsoDistancePoints(i) = chkLog[i].km + 1
  BY <1>5, <1>6, <1>8 DEF Worth!QsoDistancePoints
<1> QED
  BY <1>6, <1>7, <1>9 DEF Worth!QsoPoints

\* Everything reported has its level, its code and its row.
Reports == [level : {"error", "warning", "hint"}, code : Codes, row : 0..ChkMaxRows]
\* What is reported has the types of a report.
LEMMA ChkTyped == ASSUME LogCheckAssumption, ChkInv PROVE ChkTypeOK
<1>1. /\ Len(chkLog) \in Nat /\ DOMAIN chkLog = 1..Len(chkLog) /\ ChkMaxRows \in Nat
      /\ \A i \in DOMAIN chkLog : i \in 0..ChkMaxRows /\ chkLog[i].sent \in ChkSerials /\ chkLog[i].invalid \in BOOLEAN
      /\ \A i \in DOMAIN chkLog : chkLog[i].flaws \subseteq Codes
  <2>1. /\ Len(chkLog) \in Nat /\ DOMAIN chkLog = 1..Len(chkLog) /\ 1..Len(chkLog) \subseteq 1..ChkMaxRows
        /\ ChkMaxRows \in Nat /\ \A i \in DOMAIN chkLog : chkLog[i] \in ChkRows
    BY ChkRowsAre DEF LogCheckAssumption
  <2>2. \A i \in DOMAIN chkLog : i \in 0..ChkMaxRows
    BY <2>1
  <2>3. Flaws \subseteq Codes
    <3>1. \A f \in Flaws : f \in Codes
      BY DEF Codes
    <3> QED BY <3>1
  <2>4. \A i \in DOMAIN chkLog : /\ chkLog[i].sent \in ChkSerials /\ chkLog[i].invalid \in BOOLEAN
                                 /\ chkLog[i].flaws \subseteq Flaws
    BY <2>1, ChkRowIs
  <2> QED
    BY <2>1, <2>2, <2>3, <2>4
<1>2. ASSUME NEW level \in {"error", "warning", "hint"}, NEW code \in Codes, NEW i \in 0..ChkMaxRows
      PROVE  Issue(level, code, i) \in Reports
  BY DEF Issue, Reports
<1>10. \A code \in Codes, i \in 0..ChkMaxRows : /\ Issue("error", code, i) \in Reports
                                                 /\ Issue("warning", code, i) \in Reports
                                                 /\ Issue("hint", code, i) \in Reports
  BY <1>2
<1>3. \A i \in ChkActive : i \in DOMAIN chkLog /\ i \in 0..ChkMaxRows
  BY <1>1 DEF ChkActive
<1>4. 0 \in 0..ChkMaxRows
  BY <1>1
<1>11. {"no_locator", "bad_locator", "serial_rcvd_missing", "locator_inconsistent", "serial_sent_missing",
        "serial_sent_duplicate", "serial_sent_order", "serial_sent_gap", "dupes", "invalid", "empty"} \subseteq Codes
  BY DEF Codes
<1> HIDE DEF Reports
<1>5. ASSUME NEW i \in ChkActive
      PROVE  RowIssues(i) \subseteq Reports
  <2> DEFINE row == chkLog[i]
             flaws == {f \in row.flaws : f \in {"rst_missing", "rst_odd", "distance_implausible"} => ~Dupe(i)}
             level(f) == IF f \in FlawErrors THEN "error" ELSE "warning"
             own == {Issue(level(f), f, i) : f \in flaws}
             error(code) == {Issue("error", code, i)}
  <2>1. own \subseteq Reports
    <3>1. \A f \in flaws : f \in Codes
      BY <1>1, <1>3
    <3>2. \A f \in flaws : level(f) \in {"error", "warning", "hint"}
      OBVIOUS
    <3> HIDE DEF flaws, level
    <3> QED
      BY <1>2, <1>3, <3>1, <3>2
  <2>2. error("no_locator") \subseteq Reports /\ error("bad_locator") \subseteq Reports
        /\ error("serial_rcvd_missing") \subseteq Reports
    BY <1>10, <1>11, <1>3
  <2>3. RowIssues(i) \subseteq own \cup error("no_locator") \cup error("bad_locator") \cup error("serial_rcvd_missing")
    <3>1. RowIssues(i) = own
            \cup (IF ~Dupe(i) /\ row.square = "" THEN error("no_locator") ELSE {})
            \cup (IF ~Dupe(i) /\ row.square # "" /\ ~row.six THEN error("bad_locator") ELSE {})
            \cup (IF ~Dupe(i) /\ ~row.serial THEN error("serial_rcvd_missing") ELSE {})
      BY Zenon DEF RowIssues
    <3> HIDE DEF own, error, row
    <3> QED
      BY <3>1
  <2> HIDE DEF own, error
  <2> QED
    BY <2>1, <2>2, <2>3
<1>6. LocatorIssues \subseteq Reports
  <2> DEFINE rows(c) == {i \in ChkActive : chkLog[i].call = c /\ chkLog[i].six /\ ~Dupe(i)}
             with(c, q) == Cardinality({i \in rows(c) : chkLog[i].square = q})
             better(c, i, j) == \/ with(c, chkLog[i].square) > with(c, chkLog[j].square)
                                \/ with(c, chkLog[i].square) = with(c, chkLog[j].square) /\ i <= j
             presumed(c) == CHOOSE i \in rows(c) : \A j \in rows(c) : better(c, i, j)
             odd(c) == {k \in rows(c) : chkLog[k].square # chkLog[presumed(c)].square}
             of(c) == {Issue("warning", "locator_inconsistent", i) : i \in odd(c)}
             calls == {chkLog[i].call : i \in {k \in ChkActive : rows(chkLog[k].call) # {}}}
  <2>1. LocatorIssues = UNION {of(c) : c \in calls}
    BY Zenon DEF LocatorIssues
  <2>2. \A c : odd(c) \subseteq ChkActive
    OBVIOUS
  <2> HIDE DEF rows, with, better, presumed, odd, calls
  <2>3. ASSUME NEW c PROVE of(c) \subseteq Reports
    <3>1. \A i \in odd(c) : i \in 0..ChkMaxRows
      BY <1>3, <2>2
    <3>2. \A i \in odd(c) : Issue("warning", "locator_inconsistent", i) \in Reports
      BY <1>10, <1>11, <3>1
    <3> QED
      BY <3>2
  <2> HIDE DEF of
  <2> QED
    BY <2>1, <2>3
<1>7. ASSUME NEW b PROVE SerialIssues(b) \subseteq Reports
  <2> DEFINE without == {k \in ChkActive : chkLog[k].band = b /\ chkLog[k].sent = 0}
             missing == {Issue("error", "serial_sent_missing", i) : i \in without}
             twice == {Issue("error", "serial_sent_duplicate", i) : i \in SecondUse(b)}
             order == {Issue("warning", "serial_sent_order", i) : i \in OutOfOrder(b)}
             gap == {Issue("hint", "serial_sent_gap", 0)}
  <2>1. without \subseteq ChkActive /\ SecondUse(b) \subseteq ChkActive /\ OutOfOrder(b) \subseteq ChkActive
    BY DEF SecondUse, OutOfOrder, SentSequence, SentOn
  <2>2. SerialIssues(b) = missing \cup twice \cup order \cup (IF SentGaps(b) = {} THEN {} ELSE gap)
    BY Zenon DEF SerialIssues
  <2> HIDE DEF without
  <2>3. missing \subseteq Reports
    BY <1>10, <1>11, <1>3, <2>1
  <2>4. twice \subseteq Reports
    BY <1>10, <1>11, <1>3, <2>1
  <2>5. order \subseteq Reports
    BY <1>10, <1>11, <1>3, <2>1
  <2>6. gap \subseteq Reports
    BY <1>10, <1>11, <1>4
  <2> HIDE DEF missing, twice, order, gap
  <2> QED
    BY <2>2, <2>3, <2>4, <2>5, <2>6
<1>8. /\ Issue("hint", "dupes", 0) \in Reports /\ Issue("hint", "invalid", 0) \in Reports
      /\ Issue("hint", "empty", 0) \in Reports
  BY <1>10, <1>11, <1>4
<1>9. CheckLog \subseteq Reports
  <2> DEFINE all == UNION {RowIssues(i) : i \in ChkActive}
             serials == UNION {SerialIssues(b) : b \in {chkLog[i].band : i \in ChkActive}}
             dupes == {Issue("hint", "dupes", 0)}
             invalid == {Issue("hint", "invalid", 0)}
             empty == {Issue("hint", "empty", 0)}
  <2>1. CheckLog \subseteq all \cup LocatorIssues \cup serials \cup dupes \cup invalid \cup empty
    <3>1. CheckLog = all \cup LocatorIssues \cup serials
            \cup (IF \E i \in ChkActive : Dupe(i) THEN dupes ELSE {})
            \cup (IF ChkActive # DOMAIN chkLog THEN invalid ELSE {})
            \cup (IF ChkActive = {} THEN empty ELSE {})
      BY Zenon DEF CheckLog
    <3> HIDE DEF all, serials, dupes, invalid, empty
    <3> QED
      BY <3>1
  <2>2. all \subseteq Reports
    BY <1>5
  <2>3. serials \subseteq Reports
    BY <1>7
  <2>4. dupes \subseteq Reports /\ invalid \subseteq Reports /\ empty \subseteq Reports
    BY <1>8
  <2> HIDE DEF all, serials, dupes, invalid, empty
  <2> QED
    BY <1>6, <2>1, <2>2, <2>3, <2>4
<1> QED
  BY <1>1, <1>9 DEF ChkTypeOK, ChkInv, Reports

-----------------------------------------------------------------------------
(* Calendar                                                                *)

CalInv == CalTypeOK /\ \A q \in calLog : q.at \in Nat

\* A day is a number.
LEMMA DateIsInt ==
    ASSUME NEW year \in Int, NEW month \in 1..12, NEW day \in Int
    PROVE  Date(year, month, day) \in Int
<1>1. DaysBefore \in [1..12 -> Nat]
  BY DEF DaysBefore
<1>2. DaysBefore[month] \in Int /\ (IF month > 2 /\ IsLeap(year) THEN 1 ELSE 0) \in Int
  BY <1>1
<1>3. YearStart(year) \in Int
  BY DEF YearStart
<1> QED
  BY <1>2, <1>3 DEF Date

\* The clock starts at no negative minute.
LEMMA FirstMinuteIsNat ==
    ASSUME NEW year \in 2000..2099
    PROVE  1440 * Date(year, 1, 1) \in Nat
<1>1. DaysBefore[1] = 0
  BY DEF DaysBefore
<1>2. YearStart(year) \in Nat
  BY DEF YearStart
<1>3. Date(year, 1, 1) = YearStart(year)
  BY <1>1, <1>2 DEF Date
<1> QED
  BY <1>2, <1>3

\* A window has two ends.
IsWindow(w) == DOMAIN w = {"start", "end"}
\* Every window the clock shows is one.
LEMMA WindowsAre == \A r, end, t : IsWindow(ClockWindow(r, end, t))
<1>1. IsWindow(NoWindow) /\ \A r, day : IsWindow(WindowFrom(r, day))
  BY DEF IsWindow, NoWindow, WindowFrom
<1>2. ASSUME NEW r, NEW year
      PROVE  WindowIn(r, year) = NoWindow \/ \E day : WindowIn(r, year) = WindowFrom(r, day)
  BY Zenon DEF WindowIn
<1>3. \A r, year : IsWindow(WindowIn(r, year))
  BY <1>1, <1>2
<1>4. \A r, t : IsWindow(WindowUpcoming(r, t))
  <2>1. \A r, t : WindowUpcoming(r, t) = NoWindow \/ \E y : WindowUpcoming(r, t) = WindowIn(r, y)
    BY Zenon DEF WindowUpcoming
  <2> QED
    BY <1>1, <1>3, <2>1
<1>5. ASSUME NEW r, NEW end, NEW t, end # NoEnd
      PROVE  IsWindow(EffectiveWindow(r, end, t))
  BY <1>5 DEF EffectiveWindow, IsWindow
<1> QED
  BY <1>4, <1>5 DEF ClockWindow

\* What the rules of a contest say is a number of minutes.
LEMMA StatedAreInt ==
    ASSUME CalendarAssumption, NEW r \in CalRules, NEW w \in StatedWindows(r)
    PROVE  w.start \in Int /\ w.end \in Int
<1>1. /\ r.month \in 1..12 /\ r.day \in {"fri", "sat", "sun"} /\ r.minute \in Int /\ r.hours \in Int
      /\ \A x \in r.exceptions : x[1] \in Int /\ x[2] \in 1..12 /\ x[3] \in Int
      /\ \A y \in CalYears : y \in Int
  BY DEF CalendarAssumption
<1>2. ASSUME NEW y \in CalYears, NEW d \in StatedStart(y, r)
      PROVE  d \in Int
  <2>1. CASE \E x \in r.exceptions : x[1] = y
    <3>1. StatedStart(y, r) = {Date(x[1], x[2], x[3]) : x \in {x \in r.exceptions : x[1] = y}}
      BY <2>1, Zenon DEF StatedStart
    <3>2. PICK x \in r.exceptions : d = Date(x[1], x[2], x[3])
      BY <3>1
    <3> QED
      BY <1>1, <3>2, DateIsInt
  <2>2. CASE ~\E x \in r.exceptions : x[1] = y
    <3> DEFINE all == NthFullWeekend(y, r)
               begins(e) == CASE r.day = "sat" -> e [] r.day = "sun" -> e + 1 [] r.day = "fri" -> e - 1
               days == {begins(e) : e \in all}
    <3>1. StatedStart(y, r) = {IF \E n \in r.neverOn : e = Date(y, n[1], n[2]) THEN e + 7 ELSE e : e \in days}
      BY <2>2, Zenon DEF StatedStart
    <3>2. \A e \in all : e \in Int
      <4>1. all \subseteq FullWeekends(y, r.month)
        BY DEF NthFullWeekend
      <4> DEFINE last == MonthLength(y, r.month)
      <4>2. Date(y, r.month, 1) \in Int
        BY <1>1, DateIsInt
      <4>3. FullWeekends(y, r.month) \subseteq Date(y, r.month, 1)..Date(y, r.month, last)
        BY DEF FullWeekends
      <4>4. last \in Int
        BY <1>1 DEF MonthLength
      <4>5. Date(y, r.month, last) \in Int
        BY <1>1, <4>4, DateIsInt
      <4> HIDE DEF last, all
      <4> QED
        BY <4>1, <4>2, <4>3, <4>5
    <3> HIDE DEF all
    <3>3. \A e \in all : begins(e) \in Int
      BY <1>1, <3>2
    <3> HIDE DEF begins
    <3>4. \A e \in days : e \in Int
      BY <3>3
    <3> HIDE DEF days
    <3>5. PICK e \in days : d = IF \E n \in r.neverOn : e = Date(y, n[1], n[2]) THEN e + 7 ELSE e
      BY <3>1
    <3>6. d = e + 7 \/ d = e
      BY <3>5, Zenon
    <3> QED
      BY <3>4, <3>6
  <2> QED
    BY <2>1, <2>2
<1>3. PICK d \in UNION {StatedStart(y, r) : y \in CalYears} : w = WindowFrom(r, d)
  BY DEF StatedWindows
<1>4. d \in Int
  BY <1>2, <1>3
<1> QED
  BY <1>1, <1>3, <1>4 DEF WindowFrom

\* The clock goes on, to a number of minutes.
LEMMA NextEdgeIs ==
    ASSUME CalendarAssumption, NEW r \in CalRules, NEW now \in Nat, \E t \in Edges(r) : t > now
    PROVE  Min({e \in Edges(r) : e > now}) \in Nat /\ Min({e \in Edges(r) : e > now}) > now
<1> DEFINE S == {e \in Edges(r) : e > now}
<1>1. \A e \in Edges(r) : e \in Int
  <2>1. SUFFICES ASSUME NEW e \in Edges(r) PROVE e \in Int
    OBVIOUS
  <2>2. PICK w \in StatedWindows(r) : e \in {w.start - CalTest, w.start, w.start + 90, w.end, w.end + 1}
    BY DEF Edges
  <2>3. w.start \in Int /\ w.end \in Int /\ CalTest \in Int
    BY StatedAreInt DEF CalendarAssumption
  <2> QED
    BY <2>2, <2>3
<1>2. S \in SUBSET Nat /\ S # {} /\ \A e \in S : e > now
  BY <1>1
<1> HIDE DEF S
<1>3. \E n \in S : \A m \in S : n <= m
  BY <1>2, LeastExists
<1>4. Min(S) \in S
  BY <1>3 DEF Min
<1> QED
  BY <1>2, <1>4 DEF S

\* The calendar at the start.
LEMMA CalStarts == ASSUME CalendarAssumption, CalInit PROVE CalInv
<1> DEFINE y == Min(CalYears)
<1>1. y \in 2000..2099
  <2>1. CalYears \in SUBSET Nat /\ CalYears # {} /\ CalYears \subseteq 2000..2099
    BY DEF CalendarAssumption
  <2>2. \E n \in CalYears : \A m \in CalYears : n <= m
    BY <2>1, LeastExists
  <2>3. y \in CalYears
    BY <2>2 DEF Min
  <2> HIDE DEF y
  <2> QED
    BY <2>1, <2>3
<1> HIDE DEF y
<1>2. calNow \in Nat
  BY <1>1, FirstMinuteIsNat DEF CalInit, y
<1>3. DOMAIN calShown = {"start", "end"}
  BY WindowsAre DEF CalInit, IsWindow
<1> QED
  BY <1>2, <1>3 DEF CalInit, CalInv, CalTypeOK, NoEnd

\* Every step.
LEMMA CalStep ==
    ASSUME CalendarAssumption, CalInv, [CalNext]_calVars
    PROVE  CalInv'
<1>0. /\ calRule \in CalRules /\ calEnd \in Int /\ calNow \in Nat
      /\ DOMAIN calShown = {"start", "end"} /\ \A q \in calLog : q.at \in Nat /\ q.at <= calNow
  BY DEF CalInv, CalTypeOK
<1>1. CASE TimePasses
  <2>1. calNow' \in Nat /\ calNow' > calNow
    BY <1>0, <1>1, NextEdgeIs DEF TimePasses
  <2>2. \A q \in calLog : q.at <= calNow'
    BY <1>0, <2>1
  <2> QED
    BY <1>0, <1>1, <2>1, <2>2 DEF TimePasses, CalInv, CalTypeOK
<1>2. CASE ApplyClockSettings
  BY <1>0, <1>2, WindowsAre DEF ApplyClockSettings, CalInv, CalTypeOK, IsWindow
<1>3. CASE CalLogged
  <2> DEFINE w == EffectiveWindow(calRule, calEnd, calNow)
             n == WindowIsValid(w) /\ ~InWindow(w, calNow)
  <2>1. calLog' = calLog \cup {[at |-> calNow, noted |-> n]}
    BY <1>3 DEF CalLogged
  <2> HIDE DEF n
  <2>2. [at |-> calNow, noted |-> n].at = calNow
    OBVIOUS
  <2>3. \A q \in calLog' : q.at \in Nat /\ q.at <= calNow
    BY <1>0, <2>1, <2>2
  <2> QED
    BY <1>0, <1>3, <2>3 DEF CalLogged, CalInv, CalTypeOK
<1>4. CASE SetContestEnd
  <2>1. calEnd' \in Int
    <3>1. calEnd' = NoEnd \/ \E w \in StatedWindows(calRule) : calEnd' = w.end
      BY <1>4 DEF SetContestEnd
    <3>2. \A w \in StatedWindows(calRule) : w.end \in Int
      BY <1>0, StatedAreInt
    <3> QED
      BY <3>1, <3>2 DEF NoEnd
  <2>2. DOMAIN calShown' = {"start", "end"}
    BY <1>4, WindowsAre DEF SetContestEnd, IsWindow
  <2> QED
    BY <1>0, <1>4, <2>1, <2>2 DEF SetContestEnd, CalInv, CalTypeOK
<1>5. CASE CalNewLog
  BY <1>0, <1>5 DEF CalNewLog, CalInv, CalTypeOK
<1>6. CASE UNCHANGED calVars
  BY <1>0, <1>6 DEF calVars, CalInv, CalTypeOK
<1> QED
  BY <1>1, <1>2, <1>3, <1>4, <1>5, <1>6 DEF CalNext

\* Day 0 was a Saturday.
LEMMA SaturdaysAre == \A d \in Int : IsSaturday(d) <=> d % 7 = 0
  BY DEF IsSaturday, DayOfWeek

\* The first Saturday of a month, as FromTheStart() has it.
LEMMA FirstSaturday ==
    ASSUME NEW f \in Int, NEW s, s = f + ((6 - DayOfWeek(f) + 7) % 7)
    PROVE  s \in Int /\ s % 7 = 0 /\ f <= s /\ s <= f + 6
  BY DEF DayOfWeek

\* The Saturday before its last Sunday, as FromTheEnd() has it.
LEMMA LastWeekend ==
    ASSUME NEW l \in Int, NEW s, s = l - ((DayOfWeek(l) - 7 + 7) % 7) - 1
    PROVE  s \in Int /\ s % 7 = 0 /\ l - 7 <= s /\ s <= l - 1
  BY DEF DayOfWeek

\* Between two Saturdays lie whole weeks.
LEMMA WholeWeeks ==
    ASSUME NEW a \in Int, NEW b \in Int, a % 7 = 0, b % 7 = 0, a <= b
    PROVE  \E k \in Nat : b = a + 7 * k
<1> DEFINE k == (b - a) \div 7
<1>1. k \in Nat /\ b = a + 7 * k
  OBVIOUS
<1> QED
  BY <1>1

\* So many Saturdays are there from one to another.
LEMMA SaturdaysBetween ==
    ASSUME NEW a \in Int, a % 7 = 0, NEW k \in Nat, NEW S, S = {e \in Int : e % 7 = 0 /\ a <= e /\ e <= a + 7 * k}
    PROVE  Cardinality(S) = k + 1
<1> DEFINE h == [i \in 0..k |-> a + 7 * i]
<1>1. \A i \in 0..k : h[i] = a + 7 * i
  OBVIOUS
<1> HIDE DEF h
<1>2. \A i \in 0..k : h[i] \in S
  BY <1>1
<1>3. \A i, j \in 0..k : h[i] = h[j] => i = j
  BY <1>1
<1>4. \A e \in S : \E i \in 0..k : h[i] = e
  <2>1. SUFFICES ASSUME NEW e \in S PROVE \E i \in 0..k : h[i] = e
    OBVIOUS
  <2>2. PICK i \in Nat : e = a + 7 * i
    BY WholeWeeks
  <2>3. i \in 0..k
    BY <2>2
  <2> QED
    BY <1>1, <2>2, <2>3
<1>5. IsFiniteSet(0..k) /\ Cardinality(0..k) = k + 1
  BY FS_Interval
<1> DEFINE I == 0..k
<1>6. /\ \A i \in I : h[i] \in S
      /\ \A i, j \in I : h[i] = h[j] => i = j
      /\ \A e \in S : \E i \in I : h[i] = e
      /\ IsFiniteSet(I) /\ Cardinality(I) = k + 1
  BY <1>2, <1>3, <1>4, <1>5
<1> HIDE DEF I
<1>7. Cardinality(S) = Cardinality(I)
  BY <1>6, OneForOne, Zenon
<1> QED
  BY <1>6, <1>7

\* The months, as they lie in a year.
LEMMA MonthsAre ==
    ASSUME NEW year \in Int, NEW month \in 1..12
    PROVE  /\ Date(year, month, 1) \in Int /\ MonthLength(year, month) \in 28..31
           /\ Date(year, month, MonthLength(year, month)) = Date(year, month, 1) + MonthLength(year, month) - 1
           /\ YearStart(year) \in Int
           /\ YearStart(year) <= Date(year, month, 1) /\ Date(year, month, 1) <= YearStart(year) + 335
<1>1. DaysBefore \in [1..12 -> 0..334]
  BY DEF DaysBefore
<1>2. DaysBefore[1] = 0
  BY DEF DaysBefore
<1> DEFINE b == DaysBefore[month]
           l == IF month > 2 /\ IsLeap(year) THEN 1 ELSE 0
<1>3. b \in 0..334 /\ l \in 0..1
  BY <1>1
<1>4. MonthLength(year, month) \in 28..31
  BY DEF MonthLength
<1>5. YearStart(year) \in Int
  BY DEF YearStart
<1>6. \A day \in Int : Date(year, month, day) = YearStart(year) + b + l + day - 1
  BY DEF Date
<1> HIDE DEF b, l
<1> DEFINE n == MonthLength(year, month)
<1>7. n \in Int
  BY <1>4
<1> HIDE DEF n
<1>8. Date(year, month, n) = Date(year, month, 1) + n - 1
  BY <1>3, <1>5, <1>6, <1>7
<1>9. Date(year, month, 1) = YearStart(year) + b + l + 1 - 1
  BY <1>6
<1>10. /\ Date(year, month, 1) \in Int /\ YearStart(year) <= Date(year, month, 1)
      /\ Date(year, month, 1) <= YearStart(year) + 335
  BY <1>3, <1>5, <1>9
<1> QED
  BY <1>4, <1>5, <1>8, <1>10 DEF n

\* Years follow one another.
LEMMA YearsAre ==
    ASSUME NEW a \in Int, NEW b \in Int, a < b
    PROVE  /\ YearStart(a) \in Int /\ YearStart(b) \in Int
           /\ YearStart(a) + 365 * (b - a) <= YearStart(b)
           /\ YearStart(a + 1) \in Int /\ YearStart(a + 1) <= YearStart(b)
<1> DEFINE A == (a - 2000 + 3) \div 4
           B == (b - 2000 + 3) \div 4
           C == (a + 1 - 2000 + 3) \div 4
<1>1. A \in Int /\ B \in Int /\ C \in Int /\ A <= B /\ C <= B
  OBVIOUS
<1>2. /\ YearStart(a) = 365 * (a - 2000) + A
      /\ YearStart(b) = 365 * (b - 2000) + B
      /\ YearStart(a + 1) = 365 * (a + 1 - 2000) + C
  BY DEF YearStart
<1> HIDE DEF A, B, C
<1> QED
  BY <1>1, <1>2

\* A month of a later year begins at least 364 days later.
LEMMA MonthAgain ==
    ASSUME NEW a \in Int, NEW b \in Int, a < b, NEW month \in 1..12
    PROVE  /\ Date(a, month, 1) \in Int /\ Date(b, month, 1) \in Int
           /\ Date(a, month, 1) + 364 <= Date(b, month, 1)
<1>1. DaysBefore \in [1..12 -> 0..334]
  BY DEF DaysBefore
<1> DEFINE d == DaysBefore[month]
           L(y) == IF month > 2 /\ IsLeap(y) THEN 1 ELSE 0
<1>2. d \in Int /\ L(a) \in 0..1 /\ L(b) \in 0..1
  BY <1>1
<1>3. /\ Date(a, month, 1) = YearStart(a) + d + L(a) + 1 - 1
      /\ Date(b, month, 1) = YearStart(b) + d + L(b) + 1 - 1
  BY DEF Date
<1> HIDE DEF d, L
<1>4. /\ YearStart(a) \in Int /\ YearStart(b) \in Int
      /\ YearStart(a) + 365 <= YearStart(b)
  BY YearsAre
<1> QED
  BY <1>2, <1>3, <1>4

\* The years of the calendar.
LEMMA YearsFollow ==
    \A a, b \in Int : a < b => YearStart(a) \in Int /\ YearStart(b) \in Int /\ YearStart(a + 1) <= YearStart(b)
  BY YearsAre

\* A day lies in one year only.
LEMMA OneYear ==
    ASSUME NEW y \in Int, NEW z \in Int, NEW d \in Int, YearStart(y) <= d, d < YearStart(y + 1),
           YearStart(z) <= d, d < YearStart(z + 1)
    PROVE  z = y
<1>1. \A a \in Int : YearStart(a) \in Int
  BY DEF YearStart
<1>2. YearStart(y) \in Int /\ YearStart(y + 1) \in Int /\ YearStart(z) \in Int /\ YearStart(z + 1) \in Int
  BY <1>1
<1>3. ~(z < y)
  <2>1. z < y => YearStart(z + 1) <= YearStart(y)
    BY YearsFollow
  <2> QED
    BY <1>2, <2>1
<1>4. ~(y < z)
  <2>1. y < z => YearStart(y + 1) <= YearStart(z)
    BY YearsFollow
  <2> QED
    BY <1>2, <2>1
<1> QED
  BY <1>3, <1>4

\* The year of a time.
LEMMA YearOfIs ==
    ASSUME NEW y \in 1999..2101, NEW t \in Int, 1440 * YearStart(y) <= t, t < 1440 * YearStart(y + 1)
    PROVE  YearOf(t) = y
<1> DEFINE d == t \div 1440
<1>1. \A a \in Int : YearStart(a) \in Int
  BY DEF YearStart
<1>2. y \in Int /\ YearStart(y) \in Int /\ YearStart(y + 1) \in Int
  BY <1>1
<1>3. d \in Int /\ YearStart(y) <= d /\ d < YearStart(y + 1)
  BY <1>2
<1> HIDE DEF d
<1>4. d \in YearStart(y)..(YearStart(y + 1) - 1)
  BY <1>2, <1>3
<1>5. ASSUME NEW z \in 1999..2101, d \in YearStart(z)..(YearStart(z + 1) - 1)
      PROVE  z = y
  <2>1. z \in Int /\ YearStart(z) \in Int /\ YearStart(z + 1) \in Int
    BY <1>1
  <2>2. YearStart(z) <= d /\ d < YearStart(z + 1)
    BY <1>3, <1>5, <2>1
  <2> QED
    BY <1>2, <1>3, <2>1, <2>2, OneYear
<1>6. YearOf(t) = CHOOSE z \in 1999..2101 : d \in YearStart(z)..(YearStart(z + 1) - 1)
  BY DEF YearOf, d
<1> QED
  BY <1>4, <1>5, <1>6

\* The full weekends of a month, by their Saturdays.
LEMMA FullWeekendsAre ==
    ASSUME NEW year \in Int, NEW month \in 1..12, NEW f, f = Date(year, month, 1),
           NEW l, l = Date(year, month, MonthLength(year, month))
    PROVE  /\ f \in Int /\ l \in Int /\ l - f \in 27..30
           /\ \A d : d \in FullWeekends(year, month) <=> d \in Int /\ d % 7 = 0 /\ f <= d /\ d < l
<1>1. f \in Int /\ l \in Int /\ l - f \in 27..30
  <2> DEFINE n == MonthLength(year, month)
  <2>1. f \in Int /\ n \in 28..31 /\ l = f + n - 1
    BY MonthsAre
  <2> HIDE DEF n
  <2> QED
    BY <2>1
<1>2. FullWeekends(year, month) = {d \in f..l : IsSaturday(d) /\ d < l}
  BY DEF FullWeekends
<1>3. ASSUME NEW d
      PROVE  d \in FullWeekends(year, month) <=> d \in Int /\ d % 7 = 0 /\ f <= d /\ d < l
  BY <1>1, <1>2, SaturdaysAre
<1> QED
  BY <1>1, <1>3

\* Counted from the first of the month, or back from its end, a full weekend is
\* the one the program works out.
LEMMA NthIsCounted ==
    ASSUME NEW year \in Int, NEW r, r.month \in 1..12, r.weekend \in Int, r.weekend # 0, NEW s \in NthFullWeekend(year, r)
    PROVE  /\ s \in Int /\ Date(year, r.month, 1) \in Int
           /\ Date(year, r.month, 1) <= s /\ s <= Date(year, r.month, 1) + 29
           /\ r.weekend > 0 => s = FromTheStart(year, r)
           /\ r.weekend < 0 => s = FromTheEnd(year, r)
<1> DEFINE f == Date(year, r.month, 1)
           l == Date(year, r.month, MonthLength(year, r.month))
           all == FullWeekends(year, r.month)
           A == f + ((6 - DayOfWeek(f) + 7) % 7)
           Z == l - ((DayOfWeek(l) - 7 + 7) % 7) - 1
           w == r.weekend
<1>1. /\ r.weekend > 0 => s \in all /\ Cardinality({e \in all : e <= s}) = w
      /\ r.weekend < 0 => s \in all /\ Cardinality({e \in all : e >= s}) = -w
  BY DEF NthFullWeekend
<1>2. /\ FromTheStart(year, r) = A + 7 * (w - 1)
      /\ FromTheEnd(year, r) = Z - 7 * (-w - 1)
  BY Zenon DEF FromTheStart, FromTheEnd
<1>3. w \in Int /\ w # 0
  OBVIOUS
<1>4. /\ f \in Int /\ l \in Int /\ l - f \in 27..30
      /\ \A d : d \in all <=> d \in Int /\ d % 7 = 0 /\ f <= d /\ d < l
  <2> DEFINE m == r.month
  <2>1. m \in 1..12
    OBVIOUS
  <2>2. f = Date(year, m, 1) /\ l = Date(year, m, MonthLength(year, m)) /\ all = FullWeekends(year, m)
    OBVIOUS
  <2> HIDE DEF f, l, all, m
  <2>3. f \in Int /\ l \in Int /\ l - f \in 27..30
    BY <2>1, <2>2, FullWeekendsAre
  <2>4. \A d : d \in FullWeekends(year, m) <=> d \in Int /\ d % 7 = 0 /\ f <= d /\ d < l
    BY <2>1, <2>2, FullWeekendsAre
  <2> QED
    BY <2>2, <2>3, <2>4
<1> HIDE DEF f, l, all
<1>5. A \in Int /\ A % 7 = 0 /\ f <= A /\ A <= f + 6
  BY <1>4, FirstSaturday
<1>6. Z \in Int /\ Z % 7 = 0 /\ l - 7 <= Z /\ Z <= l - 1
  BY <1>4, LastWeekend
<1> HIDE DEF A, Z, w
<1>7. s \in all
  BY <1>1, <1>3 DEF w
<1>8. s \in Int /\ s % 7 = 0 /\ f <= s /\ s < l
  BY <1>4, <1>7
<1>9. w > 0 => s = A + 7 * (w - 1)
  <2>1. SUFFICES ASSUME w > 0 PROVE s = A + 7 * (w - 1)
    OBVIOUS
  <2>2. A <= s
    BY <1>4, <1>5, <1>8
  <2>3. PICK k \in Nat : s = A + 7 * k
    BY <1>5, <1>8, <2>2, WholeWeeks
  <2> DEFINE S == {e \in all : e <= s}
  <2>4. S = {e \in Int : e % 7 = 0 /\ A <= e /\ e <= A + 7 * k}
    <3>1. ASSUME NEW e \in Int, e % 7 = 0, f <= e
          PROVE  A <= e
      BY <1>4, <1>5, <3>1
    <3>2. ASSUME NEW e
          PROVE  e \in S <=> e \in Int /\ e % 7 = 0 /\ A <= e /\ e <= A + 7 * k
      BY <1>4, <1>5, <1>8, <2>3, <3>1
    <3> HIDE DEF S
    <3> QED
      BY <3>2
  <2>5. Cardinality(S) = w
    BY <1>1, <2>1 DEF w
  <2> HIDE DEF S
  <2>6. Cardinality(S) = k + 1
    BY <1>5, <2>4, SaturdaysBetween
  <2> QED
    BY <1>3, <1>5, <2>3, <2>5, <2>6
<1>10. w < 0 => s = Z - 7 * (-w - 1)
  <2>1. SUFFICES ASSUME w < 0 PROVE s = Z - 7 * (-w - 1)
    OBVIOUS
  <2>2. s <= Z
    BY <1>4, <1>6, <1>8
  <2>3. PICK k \in Nat : Z = s + 7 * k
    BY <1>6, <1>8, <2>2, WholeWeeks
  <2> DEFINE S == {e \in all : e >= s}
  <2>4. S = {e \in Int : e % 7 = 0 /\ s <= e /\ e <= s + 7 * k}
    <3>1. ASSUME NEW e \in Int, e % 7 = 0, e < l
          PROVE  e <= Z
      BY <1>4, <1>6, <3>1
    <3>2. ASSUME NEW e
          PROVE  e \in S <=> e \in Int /\ e % 7 = 0 /\ s <= e /\ e <= s + 7 * k
      BY <1>4, <1>6, <1>8, <2>3, <3>1
    <3> HIDE DEF S
    <3> QED
      BY <3>2
  <2>5. Cardinality(S) = -w
    BY <1>1, <2>1 DEF w
  <2> HIDE DEF S
  <2>6. Cardinality(S) = k + 1
    BY <1>8, <2>4, SaturdaysBetween
  <2> QED
    BY <1>3, <1>6, <1>8, <2>3, <2>5, <2>6
<1>11. f <= s /\ s <= f + 29
  BY <1>4, <1>8
<1> QED
  BY <1>2, <1>4, <1>8, <1>9, <1>10, <1>11 DEF f, w

\* The day a contest begins on, by the Saturday of its weekend.
Begins(r, saturday) == CASE r.day = "sat" -> saturday [] r.day = "sun" -> saturday + 1 [] r.day = "fri" -> saturday - 1
Saturday(r, year) == IF r.weekend >= 1 THEN FromTheStart(year, r) ELSE FromTheEnd(year, r)
NoSuchWeekend(r, year) == r.weekend < 0 /\ Saturday(r, year) < Date(year, r.month, 1)
Moved(r, year) == {x \in r.exceptions : x[1] = year}

\* The ways through windowIn().
LEMMA WindowInIs ==
    ASSUME NEW r, NEW year, RuleIsValid(r)
    PROVE  /\ NoSuchWeekend(r, year) => WindowIn(r, year) = NoWindow
           /\ ~NoSuchWeekend(r, year) /\ Moved(r, year) # {} =>
                 \E x \in Moved(r, year) : WindowIn(r, year) = WindowFrom(r, Date(year, x[2], x[3]))
           /\ ~NoSuchWeekend(r, year) /\ Moved(r, year) = {} =>
                 WindowIn(r, year) = WindowFrom(r, NotOn(year, r, Begins(r, Saturday(r, year))))
<1> DEFINE s == IF r.weekend >= 1 THEN FromTheStart(year, r) ELSE FromTheEnd(year, r)
           d == CASE r.day = "sat" -> s [] r.day = "sun" -> s + 1 [] r.day = "fri" -> s - 1
           m == {x \in r.exceptions : x[1] = year}
           c == CHOOSE x \in m : TRUE
<1>1. WindowIn(r, year) =
        IF r.weekend < 0 /\ s < Date(year, r.month, 1) THEN NoWindow
        ELSE IF m # {} THEN WindowFrom(r, Date(year, c[2], c[3]))
        ELSE WindowFrom(r, NotOn(year, r, d))
  BY Zenon DEF WindowIn
<1>2. s = Saturday(r, year) /\ d = Begins(r, Saturday(r, year)) /\ m = Moved(r, year)
  BY DEF Saturday, Begins, Moved
<1>3. m # {} => c \in m
  OBVIOUS
<1> HIDE DEF s, d, m, c
<1> QED
  BY <1>1, <1>2, <1>3, Zenon DEF NoSuchWeekend

\* The rules, as they are.
LEMMA RulesAre ==
    ASSUME CalendarAssumption, OrdinaryContests, NEW r \in CalRules
    PROVE  /\ RuleIsValid(r) /\ r.month \in 1..12 /\ r.weekend \in Int /\ r.weekend # 0
           /\ r.day \in {"fri", "sat", "sun"} /\ r.minute \in 0..1439 /\ r.hours \in 1..168
           /\ \A x, z \in r.exceptions : x[1] = z[1] => x = z
           /\ \A x \in r.exceptions :
                 /\ x[1] \in Int /\ x[2] \in 1..12 /\ x[3] \in 1..31
                 /\ Date(x[1], x[2], x[3]) - Date(x[1], r.month, 1) \in -31..61
                 /\ r.weekend < 0 /\ x[1] \in CalYears => NthFullWeekend(x[1], r) # {}
           /\ \A y \in CalYears : \A d \in StatedStart(y, r) : WindowFrom(r, d).end < 1440 * YearStart(y + 1)
           /\ CalTest \in Nat /\ CalTest <= 1440 * 90 /\ CalYears \subseteq 2000..2099
<1>1. RuleIsValid(r)
  BY DEF OrdinaryContests
<1>2. r.month \in 1..12 /\ r.weekend \in Int /\ r.weekend # 0 /\ r.hours \in 1..168
  BY <1>1 DEF RuleIsValid
<1> QED
  BY <1>1, <1>2 DEF CalendarAssumption, OrdinaryContests

\* The Saturday lies in the month, or up to five days into the next.
LEMMA SaturdayIs ==
    ASSUME NEW year \in Int, NEW r, RuleIsValid(r), ~NoSuchWeekend(r, year)
    PROVE  /\ Saturday(r, year) \in Int /\ Date(year, r.month, 1) \in Int
           /\ Date(year, r.month, 1) <= Saturday(r, year) /\ Saturday(r, year) <= Date(year, r.month, 1) + 34
<1> DEFINE m == r.month
           w == r.weekend
           f == Date(year, m, 1)
           n == MonthLength(year, m)
           l == Date(year, m, n)
           A == f + ((6 - DayOfWeek(f) + 7) % 7)
           Z == l - ((DayOfWeek(l) - 7 + 7) % 7) - 1
           s == Saturday(r, year)
<1>1. m \in 1..12 /\ w \in -5..5
  BY DEF RuleIsValid
<1>2. s = IF w >= 1 THEN A + 7 * (w - 1) ELSE Z - 7 * (-w - 1)
  BY Zenon DEF Saturday, FromTheStart, FromTheEnd
<1>3. w >= 1 \/ (w < 0 /\ ~(s < f))
  BY DEF RuleIsValid, NoSuchWeekend
<1> HIDE DEF m, w
<1>4. f \in Int /\ n \in 28..31 /\ l = f + n - 1
  BY <1>1, MonthsAre
<1>5. l \in Int
  BY <1>4
<1> HIDE DEF f, l, n, s
<1>6. A \in Int /\ f <= A /\ A <= f + 6
  BY <1>4, FirstSaturday
<1>7. Z \in Int /\ l - 7 <= Z /\ Z <= l - 1
  BY <1>5, LastWeekend
<1> HIDE DEF A, Z
<1>8. s \in Int /\ f <= s /\ s <= f + 34
  BY <1>1, <1>2, <1>3, <1>4, <1>5, <1>6, <1>7
<1> QED
  BY <1>4, <1>8 DEF s, f, m

\* A contest begins at most 31 days before the first of its month and 61 after.
LEMMA BeginsNear ==
    ASSUME CalendarAssumption, OrdinaryContests, NEW r \in CalRules, NEW year \in Int, WindowIsValid(WindowIn(r, year))
    PROVE  /\ Date(year, r.month, 1) \in Int
           /\ \E d \in Int : /\ WindowIn(r, year) = WindowFrom(r, d)
                             /\ Date(year, r.month, 1) - 31 <= d /\ d <= Date(year, r.month, 1) + 61
<1> DEFINE f == Date(year, r.month, 1)
<1>1. /\ RuleIsValid(r) /\ r.month \in 1..12 /\ r.day \in {"fri", "sat", "sun"}
      /\ \A x \in r.exceptions : /\ x[1] \in Int /\ x[2] \in 1..12 /\ x[3] \in 1..31
                                 /\ Date(x[1], x[2], x[3]) - Date(x[1], r.month, 1) \in -31..61
  BY RulesAre
<1>2. ~NoSuchWeekend(r, year)
  BY <1>1, WindowInIs DEF NoWindow, WindowIsValid
<1>3. f \in Int /\ Saturday(r, year) \in Int /\ f <= Saturday(r, year) /\ Saturday(r, year) <= f + 34
  BY <1>1, <1>2, SaturdayIs
<1>4. CASE Moved(r, year) # {}
  <2>1. PICK x \in Moved(r, year) : WindowIn(r, year) = WindowFrom(r, Date(year, x[2], x[3]))
    BY <1>1, <1>2, <1>4, WindowInIs
  <2> DEFINE d == Date(year, x[2], x[3])
  <2>2. x \in r.exceptions /\ x[1] = year
    BY DEF Moved
  <2>3. d \in Int
    <3> DEFINE mo == x[2]
               da == x[3]
    <3>1. mo \in 1..12 /\ da \in Int
      BY <1>1, <2>2
    <3> HIDE DEF mo, da
    <3>2. Date(year, mo, da) \in Int
      BY <3>1, DateIsInt
    <3> QED
      BY <3>2 DEF mo, da
  <2>4. d - f \in -31..61
    BY <1>1, <2>2
  <2> HIDE DEF d, f
  <2>5. f - 31 <= d /\ d <= f + 61
    BY <1>3, <2>3, <2>4
  <2> QED
    BY <1>3, <2>1, <2>3, <2>5 DEF d, f
<1>5. CASE Moved(r, year) = {}
  <2> DEFINE b == Begins(r, Saturday(r, year))
             d == NotOn(year, r, b)
  <2>1. WindowIn(r, year) = WindowFrom(r, d)
    BY <1>1, <1>2, <1>5, WindowInIs
  <2>2. b \in Int /\ f - 1 <= b /\ b <= f + 35
    <3> HIDE DEF f
    <3> QED
      BY <1>1, <1>3 DEF Begins
  <2> HIDE DEF b
  <2>3. d = b \/ d = b + 7
    BY DEF NotOn
  <2> HIDE DEF d, f
  <2>4. d \in Int /\ f - 31 <= d /\ d <= f + 61
    BY <1>3, <2>2, <2>3
  <2> QED
    BY <1>3, <2>1, <2>4 DEF f
<1> QED
  BY <1>4, <1>5

\* What is stated for a year is what windowIn() gives for it.
LEMMA StatedIsWindowIn ==
    ASSUME CalendarAssumption, OrdinaryContests, NEW r \in CalRules, NEW y \in CalYears, NEW d \in StatedStart(y, r)
    PROVE  WindowIn(r, y) = WindowFrom(r, d)
<1>1. /\ RuleIsValid(r) /\ r.month \in 1..12 /\ r.weekend \in Int /\ r.weekend # 0
      /\ \A x, z \in r.exceptions : x[1] = z[1] => x = z
      /\ \A x \in r.exceptions : r.weekend < 0 /\ x[1] \in CalYears => NthFullWeekend(x[1], r) # {}
      /\ y \in Int
  BY RulesAre
<1>2. ASSUME NEW s \in NthFullWeekend(y, r)
      PROVE  s = Saturday(r, y) /\ ~NoSuchWeekend(r, y)
  <2>1. /\ s \in Int /\ Date(y, r.month, 1) \in Int /\ Date(y, r.month, 1) <= s
        /\ r.weekend > 0 => s = FromTheStart(y, r)
        /\ r.weekend < 0 => s = FromTheEnd(y, r)
    BY <1>1, NthIsCounted
  <2>2. s = Saturday(r, y)
    BY <1>1, <2>1 DEF Saturday
  <2> QED
    BY <2>1, <2>2 DEF NoSuchWeekend
<1>3. CASE Moved(r, y) # {}
  <2>1. StatedStart(y, r) = {Date(x[1], x[2], x[3]) : x \in {x \in r.exceptions : x[1] = y}}
    BY <1>3, Zenon DEF StatedStart, Moved
  <2>2. PICK x \in r.exceptions : x[1] = y /\ d = Date(x[1], x[2], x[3])
    BY <2>1
  <2>3. ~NoSuchWeekend(r, y)
    <3>1. r.weekend < 0 => NthFullWeekend(y, r) # {}
      BY <1>1, <2>2
    <3> QED
      BY <1>2, <3>1 DEF NoSuchWeekend
  <2>4. PICK z \in Moved(r, y) : WindowIn(r, y) = WindowFrom(r, Date(y, z[2], z[3]))
    BY <1>1, <1>3, <2>3, WindowInIs
  <2>5. z = x
    BY <1>1, <2>2 DEF Moved
  <2> QED
    BY <2>2, <2>4, <2>5
<1>4. CASE Moved(r, y) = {}
  <2> DEFINE begins(e) == CASE r.day = "sat" -> e [] r.day = "sun" -> e + 1 [] r.day = "fri" -> e - 1
             days == {begins(e) : e \in NthFullWeekend(y, r)}
  <2>1. StatedStart(y, r) = {IF \E n \in r.neverOn : e = Date(y, n[1], n[2]) THEN e + 7 ELSE e : e \in days}
    BY <1>4, Zenon DEF StatedStart, Moved
  <2>2. PICK e \in days : d = IF \E n \in r.neverOn : e = Date(y, n[1], n[2]) THEN e + 7 ELSE e
    BY <2>1
  <2>3. PICK s \in NthFullWeekend(y, r) : e = begins(s)
    BY <2>2
  <2>4. s = Saturday(r, y) /\ ~NoSuchWeekend(r, y)
    BY <1>2
  <2>5. e = Begins(r, Saturday(r, y))
    BY <2>3, <2>4, Zenon DEF Begins
  <2>6. d = NotOn(y, r, e)
    BY <2>2 DEF NotOn
  <2> QED
    BY <1>1, <1>4, <2>4, <2>5, <2>6, WindowInIs
<1> QED
  BY <1>3, <1>4

\* A window that is one lies around the first of its month.
LEMMA WindowNear ==
    ASSUME CalendarAssumption, OrdinaryContests, NEW r \in CalRules, NEW year \in Int, WindowIsValid(WindowIn(r, year))
    PROVE  LET w == WindowIn(r, year)
               f == Date(year, r.month, 1)
           IN /\ w.start \in Int /\ w.end \in Int /\ f \in Int /\ w.end = w.start + 60 * r.hours
              /\ 1440 * (f - 31) <= w.start /\ w.start < w.end /\ w.end < 1440 * (f + 69)
<1> DEFINE w == WindowIn(r, year)
           f == Date(year, r.month, 1)
<1>1. r.minute \in 0..1439 /\ r.hours \in 1..168
  BY RulesAre
<1>2. f \in Int /\ \E d \in Int : w = WindowFrom(r, d) /\ f - 31 <= d /\ d <= f + 61
  BY BeginsNear
<1> HIDE DEF w, f
<1>3. PICK d \in Int : w = WindowFrom(r, d) /\ f - 31 <= d /\ d <= f + 61
  BY <1>2
<1>4. w.start = 1440 * d + r.minute /\ w.end = 1440 * d + r.minute + 60 * r.hours
  BY <1>3 DEF WindowFrom
<1> DEFINE a == w.start
           b == w.end
           i == r.minute
           h == r.hours
<1>5. a = 1440 * d + i /\ b = 1440 * d + i + 60 * h /\ i \in 0..1439 /\ h \in 1..168
  BY <1>1, <1>4
<1> HIDE DEF a, b, i, h
<1>6. /\ a \in Int /\ b \in Int /\ b = a + 60 * h
      /\ 1440 * (f - 31) <= a /\ a < b /\ b < 1440 * (f + 69)
  BY <1>2, <1>3, <1>5
<1> QED
  BY <1>2, <1>6 DEF a, b, h, w, f

\* From one year's contest to another's it is more than twice the dry run.
LEMMA WindowsFarApart ==
    ASSUME CalendarAssumption, OrdinaryContests, NEW r \in CalRules, NEW a \in Int, NEW b \in Int, a < b,
           WindowIsValid(WindowIn(r, a)), WindowIsValid(WindowIn(r, b))
    PROVE  WindowIn(r, a).end + 2 * CalTest < WindowIn(r, b).start
<1> DEFINE e == WindowIn(r, a).end
           s == WindowIn(r, b).start
           f == Date(a, r.month, 1)
           g == Date(b, r.month, 1)
<1>1. r.month \in 1..12 /\ CalTest \in Nat /\ CalTest <= 1440 * 90
  BY RulesAre
<1>2. e \in Int /\ f \in Int /\ e < 1440 * (f + 69)
  BY WindowNear
<1>3. s \in Int /\ g \in Int /\ 1440 * (g - 31) <= s
  BY WindowNear
<1>4. f + 364 <= g
  BY <1>1, MonthAgain
<1> HIDE DEF e, s, f, g
<1>5. e + 2 * CalTest < s
  BY <1>1, <1>2, <1>3, <1>4
<1> QED
  BY <1>5 DEF e, s

\* The least of a set is its minimum.
LEMMA MinIs ==
    ASSUME NEW S \in SUBSET Int, NEW m \in S, \A n \in S : m <= n
    PROVE  Min(S) = m
<1>1. Min(S) = CHOOSE x \in S : \A n \in S : x <= n
  BY DEF Min
<1>2. ASSUME NEW x \in S, \A n \in S : x <= n
      PROVE  x = m
  <2>1. x <= m /\ m <= x /\ x \in Int /\ m \in Int
    BY <1>2
  <2> QED
    BY <2>1
<1> QED
  BY <1>1, <1>2

\* A contest is of its year: it may begin at the end of the one before, as may
\* its dry run.
LEMMA ContestsYear ==
    ASSUME CalendarAssumption, OrdinaryContests, NEW r \in CalRules, NEW y \in CalYears, NEW d \in StatedStart(y, r),
           NEW t \in Int, WindowFrom(r, d).start - CalTest <= t, t <= WindowFrom(r, d).end
    PROVE  /\ WindowIn(r, y) = WindowFrom(r, d) /\ WindowIsValid(WindowIn(r, y))
           /\ y \in Int /\ (YearOf(t) = y \/ YearOf(t) = y - 1)
<1>1. /\ RuleIsValid(r) /\ r.month \in 1..12 /\ r.minute \in 0..1439 /\ r.hours \in 1..168
      /\ CalTest \in Nat /\ CalTest <= 1440 * 90 /\ y \in 2000..2099
      /\ WindowFrom(r, d).end < 1440 * YearStart(y + 1)
  BY RulesAre
<1>2. WindowIn(r, y) = WindowFrom(r, d)
  BY StatedIsWindowIn
<1>3. WindowFrom(r, d).start \in Int
  <2>1. WindowFrom(r, d) \in StatedWindows(r)
    BY DEF StatedWindows
  <2> QED
    BY <2>1, StatedAreInt
<1>4. WindowIsValid(WindowIn(r, y))
  <2> DEFINE n == 1440 * d + r.minute
             h == r.hours
  <2>1. WindowFrom(r, d).start = n /\ WindowFrom(r, d).end = n + 60 * h
    BY DEF WindowFrom
  <2>2. n \in Int /\ h \in 1..168
    BY <1>1, <1>3, <2>1
  <2> HIDE DEF n, h
  <2> QED
    BY <1>2, <2>1, <2>2 DEF WindowIsValid
<1> DEFINE f == Date(y, r.month, 1)
           s == WindowFrom(r, d).start
           e == WindowFrom(r, d).end
<1>5. s \in Int /\ e \in Int /\ f \in Int /\ 1440 * (f - 31) <= s
  BY <1>1, <1>2, <1>4, WindowNear
<1>6. YearStart(y) \in Int /\ YearStart(y) <= f
  <2> DEFINE m == r.month
  <2>1. y \in Int /\ m \in 1..12
    BY <1>1
  <2> HIDE DEF m
  <2>2. YearStart(y) \in Int /\ YearStart(y) <= Date(y, m, 1)
    BY <2>1, MonthsAre
  <2> QED
    BY <2>2 DEF m
<1> DEFINE before == YearStart(y - 1)
           this == YearStart(y)
           after == YearStart(y + 1)
<1>7. before \in Int /\ before + 365 <= this
  <2>1. y - 1 \in Int /\ y \in Int /\ y - 1 < y /\ y - (y - 1) = 1
    BY <1>1
  <2> QED
    BY <2>1, YearsAre
<1>8. s - CalTest <= t /\ t <= e /\ e < 1440 * after /\ after \in Int
  BY <1>1 DEF YearStart
<1> HIDE DEF f, s, e, before, this, after
<1>9. 1440 * before <= t /\ t < 1440 * after
  BY <1>1, <1>5, <1>6, <1>7, <1>8 DEF this
<1>10. CASE t < 1440 * this
  <2>1. y - 1 \in 1999..2101 /\ this = YearStart((y - 1) + 1)
    BY <1>1 DEF this
  <2> QED
    BY <1>1, <1>2, <1>4, <1>9, <1>10, <2>1, YearOfIs DEF before
<1>11. CASE ~(t < 1440 * this)
  <2>1. y \in 1999..2101 /\ 1440 * this <= t
    BY <1>1, <1>6, <1>11 DEF this
  <2> QED
    BY <1>1, <1>2, <1>4, <1>9, <2>1, YearOfIs DEF this, after
<1> QED
  BY <1>10, <1>11

\* While a contest runs, it is the one that is upcoming.
LEMMA RunningIsUpcoming ==
    ASSUME CalendarAssumption, OrdinaryContests, NEW r \in CalRules, NEW y \in CalYears, NEW d \in StatedStart(y, r),
           NEW t \in Int, WindowFrom(r, d).start <= t, t <= WindowFrom(r, d).end
    PROVE  WindowUpcoming(r, t) = WindowFrom(r, d)
<1> DEFINE s == WindowFrom(r, d).start
           Y == YearOf(t)
           W(c) == WindowIn(r, c)
           ahead == {c \in Y..(Y + 1) : WindowIsValid(W(c)) /\ t <= W(c).end}
<1>1. RuleIsValid(r) /\ CalTest \in Nat
  BY RulesAre
<1>2. s \in Int
  <2>1. WindowFrom(r, d) \in StatedWindows(r)
    BY DEF StatedWindows
  <2> QED
    BY <2>1, StatedAreInt
<1>3. W(y) = WindowFrom(r, d) /\ WindowIsValid(W(y)) /\ y \in Int /\ (Y = y \/ Y = y - 1)
  <2>1. s - CalTest <= t
    <3> HIDE DEF s
    <3>1. s <= t
      BY DEF s
    <3> QED
      BY <1>1, <1>2, <3>1
  <2> QED
    BY <2>1, ContestsYear
<1>4. y \in ahead
  <2>1. y \in Y..(Y + 1)
    BY <1>3
  <2> QED
    BY <1>3, <2>1
<1>5. ASSUME NEW c \in ahead
      PROVE  y <= c
  <2>1. c \in Int /\ WindowIsValid(W(c)) /\ t <= W(c).end
    BY <1>3
  <2>2. ASSUME c < y PROVE FALSE
    <3>1. W(c).end + 2 * CalTest < s
      BY <1>3, <2>1, <2>2, WindowsFarApart
    <3>2. W(c).end \in Int
      BY <2>1, WindowNear
    <3> DEFINE e == W(c).end
    <3>3. t <= e /\ e + 2 * CalTest < s /\ e \in Int /\ s <= t
      BY <2>1, <3>1, <3>2
    <3> HIDE DEF s, e
    <3> QED
      BY <1>1, <1>2, <3>3
  <2> QED
    BY <1>3, <2>1, <2>2
<1>6. ahead \in SUBSET Int
  BY <1>3
<1>7. WindowUpcoming(r, t) = IF ~RuleIsValid(r) \/ ahead = {} THEN NoWindow ELSE W(Min(ahead))
  BY Zenon DEF WindowUpcoming
<1> HIDE DEF ahead
<1>8. Min(ahead) = y
  BY <1>4, <1>5, <1>6, MinIs
<1> QED
  BY <1>1, <1>3, <1>4, <1>7, <1>8

\* From its dry run on, a contest is the nearest one.
LEMMA ContestIsNearest ==
    ASSUME CalendarAssumption, OrdinaryContests, NEW r \in CalRules, NEW y \in CalYears, NEW d \in StatedStart(y, r),
           NEW t \in Int, WindowFrom(r, d).start - CalTest <= t, t <= WindowFrom(r, d).end
    PROVE  WindowNearest(r, t) = WindowFrom(r, d)
<1> DEFINE s == WindowFrom(r, d).start
           e == WindowFrom(r, d).end
           Y == YearOf(t)
           W(c) == WindowIn(r, c)
           D(c) == DistanceTo(W(c), t)
           years == (Y - 1)..(Y + 1)
           all == {D(c) : c \in years}
           near == Min(all)
           nearest == {c \in years : D(c) = near}
<1>1. RuleIsValid(r) /\ CalTest \in Nat /\ CalTest <= 1440 * 90
  BY RulesAre
<1>2. s \in Int /\ e \in Int
  <2>1. WindowFrom(r, d) \in StatedWindows(r)
    BY DEF StatedWindows
  <2> QED
    BY <2>1, StatedAreInt
<1>3. W(y) = WindowFrom(r, d) /\ WindowIsValid(W(y)) /\ y \in Int /\ (Y = y \/ Y = y - 1)
  BY ContestsYear
<1>4. y \in years /\ \A c \in years : c \in Int
  BY <1>3
<1>5. D(y) \in Int /\ D(y) <= CalTest
  <2>1. D(y) = IF t < s THEN s - t ELSE IF t > e THEN t - e ELSE 0
    BY <1>3 DEF DistanceTo
  <2>2. s - CalTest <= t /\ t <= e
    OBVIOUS
  <2> HIDE DEF D, s, e
  <2> QED
    BY <1>1, <1>2, <2>1, <2>2
<1>6. ASSUME NEW c \in years, c # y
      PROVE  D(c) \in Int /\ CalTest < D(c)
  <2>1. CASE ~WindowIsValid(W(c))
    BY <1>1, <2>1 DEF DistanceTo, Far
  <2>2. CASE WindowIsValid(W(c))
    <3> DEFINE a == W(c).start
               b == W(c).end
    <3>1. D(c) = IF t < a THEN a - t ELSE IF t > b THEN t - b ELSE 0
      BY <2>2 DEF DistanceTo
    <3>2. a \in Int /\ b \in Int /\ a < b
      BY <1>4, <2>2, WindowNear
    <3>3. c < y => b + 2 * CalTest < s
      BY <1>3, <1>4, <2>2, WindowsFarApart
    <3>4. y < c => e + 2 * CalTest < a
      BY <1>3, <1>4, <2>2, WindowsFarApart
    <3>5. s - CalTest <= t /\ t <= e
      OBVIOUS
    <3>6. c < y \/ y < c
      BY <1>3, <1>4, <1>6
    <3> HIDE DEF D, s, e, a, b
    <3> QED
      BY <1>1, <1>2, <3>1, <3>2, <3>3, <3>4, <3>5, <3>6
  <2> QED
    BY <2>1, <2>2
<1>7. \A c \in years : D(c) \in Int /\ D(y) <= D(c) /\ (c # y => D(c) # D(y))
  <2> HIDE DEF D, years
  <2> QED
    BY <1>1, <1>5, <1>6
<1>8. WindowNearest(r, t) = IF ~RuleIsValid(r) THEN NoWindow ELSE IF near = Far THEN NoWindow ELSE W(Min(nearest))
  BY Zenon DEF WindowNearest
<1> HIDE DEF D, years, Y
<1>9. near = D(y)
  <2>1. all \in SUBSET Int /\ D(y) \in all /\ \A n \in all : D(y) <= n
    BY <1>4, <1>7
  <2> HIDE DEF all
  <2> QED
    BY <2>1, MinIs
<1>10. near # Far
  BY <1>1, <1>5, <1>9 DEF Far
<1>11. Min(nearest) = y
  <2> HIDE DEF near
  <2>0. \A n \in nearest : n = y
    BY <1>7, <1>9
  <2>1. nearest \in SUBSET Int /\ y \in nearest /\ \A n \in nearest : y <= n
    <3>1. y \in nearest
      BY <1>4, <1>9
    <3> HIDE DEF nearest
    <3> QED
      BY <1>3, <2>0, <3>1
  <2> HIDE DEF nearest
  <2> QED
    BY <2>1, MinIs
<1> HIDE DEF near, nearest
<1> QED
  BY <1>1, <1>3, <1>8, <1>10, <1>11

\* No contest is ranked before one that runs.
LEMMA RanksAre ==
    ASSUME CalendarAssumption, OrdinaryContests, NEW r \in CalRules, NEW t \in Int, YearOf(t) \in Int
    PROVE  PickerRank(r, t) \in Int /\ -1 <= PickerRank(r, t)
<1> DEFINE w == WindowUpcoming(r, t)
<1>1. RuleIsValid(r)
  BY RulesAre
<1>2. PickerRank(r, t) = IF ~RuleIsValid(r) \/ ~WindowIsValid(w) THEN Far ELSE IF InWindow(w, t) THEN -1 ELSE w.start - t
  BY Zenon DEF PickerRank
<1>3. CASE ~WindowIsValid(w)
  BY <1>2, <1>3 DEF Far
<1>4. CASE WindowIsValid(w)
  <2> DEFINE years == YearOf(t)..(YearOf(t) + 1)
             ahead == {y \in years : WindowIsValid(WindowIn(r, y)) /\ t <= WindowIn(r, y).end}
             m == Min(ahead)
  <2>1. w = IF ~RuleIsValid(r) \/ ahead = {} THEN NoWindow ELSE WindowIn(r, m)
    BY Zenon DEF WindowUpcoming
  <2>2. ahead # {} /\ w = WindowIn(r, m)
    BY <1>1, <1>4, <2>1 DEF NoWindow, WindowIsValid
  <2>3. years = {YearOf(t), YearOf(t) + 1}
    OBVIOUS
  <2>4. m \in ahead
    <3> DEFINE Y == YearOf(t)
    <3>1. Y \in Int /\ ahead \in SUBSET Int /\ \A n \in ahead : n = Y \/ n = Y + 1
      BY <2>3
    <3> HIDE DEF ahead, years, Y
    <3>2. CASE Y \in ahead
      <4>1. \A n \in ahead : Y <= n
        BY <3>1, <3>2
      <4> QED
        BY <3>1, <3>2, <4>1, MinIs
    <3>3. CASE Y \notin ahead
      <4>1. \A n \in ahead : n = Y + 1
        BY <3>1, <3>3
      <4>2. ahead # {}
        BY <2>2
      <4>3. Y + 1 \in ahead
        BY <4>1, <4>2
      <4>4. \A n \in ahead : Y + 1 <= n
        BY <3>1, <4>1
      <4> QED
        BY <3>1, <4>3, <4>4, MinIs
    <3> QED
      BY <3>2, <3>3
  <2>5. m \in Int /\ t <= WindowIn(r, m).end
    BY <2>3, <2>4
  <2> HIDE DEF m, ahead, years
  <2> DEFINE a == WindowIn(r, m).start
             b == WindowIn(r, m).end
  <2>6. a \in Int /\ b \in Int
    BY <1>4, <2>2, <2>5, WindowNear
  <2>7. t <= b /\ (InWindow(w, t) <=> t \in a..b) /\ PickerRank(r, t) = IF InWindow(w, t) THEN -1 ELSE a - t
    BY <1>1, <1>2, <1>4, <2>2, <2>5 DEF InWindow
  <2> HIDE DEF a, b
  <2> QED
    BY <2>6, <2>7
<1> QED
  BY <1>3, <1>4

\* A contest that runs is known to the clock and the picker, and the log check
\* and the EDI file go by its period, as long as the log is of that contest.
LEMMA RunningIsKnown ==
    ASSUME CalendarAssumption, OrdinaryContests, CalInv
    PROVE  RunningContestIsKnown
<1>1. /\ calRule \in CalRules /\ calEnd \in Int /\ calNow \in Nat
      /\ \A q \in calLog : q.at \in Nat /\ q.at <= calNow
  BY DEF CalInv, CalTypeOK
<1>2. ASSUME NEW w \in StatedWindows(calRule)
      PROVE  \E y \in CalYears : \E d \in StatedStart(y, calRule) : w = WindowFrom(calRule, d)
  BY DEF StatedWindows
<1>3. ASSUME NEW w \in StatedWindows(calRule)
      PROVE  w.start \in Int /\ w.end \in Int /\ w.end = w.start + 60 * calRule.hours /\ WindowIsValid(w)
  <2>1. PICK y \in CalYears : \E d \in StatedStart(y, calRule) : w = WindowFrom(calRule, d)
    BY <1>2
  <2>2. PICK d \in StatedStart(y, calRule) : w = WindowFrom(calRule, d)
    BY <2>1
  <2>3. w.start \in Int /\ w.end \in Int
    BY <1>1, StatedAreInt
  <2> DEFINE n == 1440 * d + calRule.minute
             h == calRule.hours
  <2>4. w.start = n /\ w.end = n + 60 * h
    BY <2>2 DEF WindowFrom
  <2>5. h \in 1..168
    BY <1>1, RulesAre
  <2> HIDE DEF n, h
  <2>6. w.end = w.start + 60 * h /\ w.start < w.end
    BY <2>3, <2>4, <2>5
  <2> QED
    BY <2>3, <2>6 DEF h, WindowIsValid
<1>4. ASSUME NEW w \in StatedWindows(calRule), calNow \in w.start..w.end, calEnd = NoEnd
      PROVE  /\ Countdown(ClockWindow(calRule, calEnd, calNow), calNow) = "left"
             /\ calRule \in PickerFirst(CalRules, calNow)
  <2>1. PICK y \in CalYears : \E d \in StatedStart(y, calRule) : w = WindowFrom(calRule, d)
    BY <1>2
  <2>2. PICK d \in StatedStart(y, calRule) : w = WindowFrom(calRule, d)
    BY <2>1
  <2>3. calNow \in Int /\ w.start <= calNow /\ calNow <= w.end
    BY <1>1, <1>3, <1>4
  <2>4. WindowUpcoming(calRule, calNow) = w
    BY <1>1, <2>2, <2>3, RunningIsUpcoming
  <2>5. Countdown(ClockWindow(calRule, calEnd, calNow), calNow) = "left"
    <3>1. ClockWindow(calRule, calEnd, calNow) = w
      BY <1>4, <2>4 DEF ClockWindow
    <3>2. ~(calNow < w.start) /\ ~(calNow > w.end)
      BY <1>3, <2>3
    <3> QED
      BY <1>3, <3>1, <3>2 DEF Countdown
  <2>6. RuleIsValid(calRule) /\ CalTest \in Nat
    BY <1>1, RulesAre
  <2>7. PickerRank(calRule, calNow) = -1
    BY <1>3, <1>4, <2>4, <2>6 DEF PickerRank, InWindow
  <2>8. YearOf(calNow) \in Int
    <3>1. w.start - CalTest <= calNow
      BY <1>3, <2>3, <2>6
    <3>2. y \in Int /\ (YearOf(calNow) = y \/ YearOf(calNow) = y - 1)
      BY <1>1, <2>2, <2>3, <3>1, ContestsYear
    <3> QED
      BY <3>2
  <2>9. \A s \in CalRules : -1 <= PickerRank(s, calNow)
    BY <2>3, <2>8, RanksAre
  <2> QED
    BY <1>1, <2>5, <2>7, <2>9 DEF PickerFirst
<1>5. ASSUME NEW w \in StatedWindows(calRule), NEW q \in calLog, q.at \in w.start..w.end, calEnd \in {NoEnd, w.end},
             \A p \in calLog : p.at >= w.start - CalTest
      PROVE  InWindow(CheckWindow(calRule, calEnd, calLog, calNow), q.at)
  <2> DEFINE times == {p.at : p \in calLog}
             first == Min(times)
  <2>1. CheckWindow(calRule, calEnd, calLog, calNow) = EffectiveWindow(calRule, calEnd, first)
    BY <1>5, Zenon DEF CheckWindow
  <2>2. first \in Int /\ first <= q.at /\ w.start - CalTest <= first
    <3>1. times \in SUBSET Nat /\ q.at \in times /\ \A t \in times : t >= w.start - CalTest
      BY <1>1, <1>5
    <3> HIDE DEF times
    <3>2. PICK m \in times : \A n \in times : m <= n
      BY <3>1, LeastExists
    <3>3. first = m
      BY <3>1, <3>2, MinIs
    <3>4. CalTest \in Nat /\ m \in Int
      BY <3>1 DEF CalendarAssumption
    <3>5. first \in Int /\ first <= q.at /\ first >= w.start - CalTest
      BY <3>1, <3>2, <3>3, <3>4
    <3> QED
      BY <1>3, <3>4, <3>5
  <2> HIDE DEF first, times
  <2>3. EffectiveWindow(calRule, calEnd, first).start = w.start /\ EffectiveWindow(calRule, calEnd, first).end = w.end
    <3>1. CASE calEnd = NoEnd
      <4>1. PICK y \in CalYears : \E d \in StatedStart(y, calRule) : w = WindowFrom(calRule, d)
        BY <1>2
      <4>2. PICK d \in StatedStart(y, calRule) : w = WindowFrom(calRule, d)
        BY <4>1
      <4>3. first <= w.end
        BY <1>1, <1>3, <1>5, <2>2
      <4>4. WindowNearest(calRule, first) = w
        BY <1>1, <2>2, <4>2, <4>3, ContestIsNearest
      <4> QED
        BY <3>1, <4>4 DEF EffectiveWindow
    <3>2. CASE calEnd # NoEnd
      <4>1. calEnd = w.end /\ RuleIsValid(calRule)
        BY <1>1, <1>5, <3>2, RulesAre
      <4>2. EffectiveWindow(calRule, calEnd, first) = [start |-> w.end - 60 * calRule.hours, end |-> w.end]
        BY <3>2, <4>1 DEF EffectiveWindow
      <4> DEFINE h == 60 * calRule.hours
      <4>3. h \in Int /\ w.end = w.start + h
        <5>1. calRule.hours \in 1..168
          BY <1>1, RulesAre
        <5> QED
          BY <1>3, <5>1
      <4>4. w.end - h = w.start
        <5> HIDE DEF h
        <5> QED
          BY <1>3, <4>3
      <4> QED
        BY <4>2, <4>4
    <3> QED
      BY <3>1, <3>2
  <2> QED
    BY <1>3, <1>5, <2>1, <2>3 DEF InWindow, WindowIsValid
<1> QED
  BY <1>4, <1>5 DEF RunningContestIsKnown

-----------------------------------------------------------------------------
(* Chat feed: what the operator is sent after, and the types               *)

\* Lines of the feeds, what is shown of them, and a station that was heard.
Targeted(d) ==
    /\ IsFeed(d) /\ d.arrived \in Nat
    /\ \A f \in Feeds : /\ d.lines[f] \in Seq(FdLine) /\ Len(d.lines[f]) <= FdMaxLines
                        /\ d.shown[f] \subseteq DOMAIN d.lines[f]
FeedKeys(d) ==
    /\ d.contest \in FdContests /\ d.site \in FdSites /\ d.bands \subseteq FdBands
    /\ d.rules \in [FdContests -> SUBSET FdBands] /\ d.typed \in Heard \cup {""}
Aimed(d) == d.suggestion \in FdSpots \cup {NoSpot}
FeedTyped(d) == Targeted(d) /\ FeedKeys(d) /\ Aimed(d)

\* Of rows with a score there is one before all the others: the best score, ON4KST
\* before the cluster, the earliest.
LEMMA OneIsAhead ==
    ASSUME NEW C, C # {}, \A r \in C : r.feed \in Feeds /\ r.row \in Nat, NEW S \in [C -> 0..2]
    PROVE  \E r \in C : \A s \in C : \/ S[r] > S[s]
                                     \/ /\ S[r] = S[s]
                                        /\ (r.feed = "kst" /\ s.feed # "kst") \/ (r.feed = s.feed /\ r.row <= s.row)
<1>1. PICK m \in 0..2 : (\E r \in C : S[r] = m) /\ \A r \in C : S[r] <= m
  <2>1. CASE \E r \in C : S[r] = 2
    BY <2>1
  <2>2. CASE (\E r \in C : S[r] = 1) /\ ~\E r \in C : S[r] = 2
    BY <2>2
  <2>3. CASE ~(\E r \in C : S[r] = 1) /\ ~\E r \in C : S[r] = 2
    BY <2>3
  <2> QED
    BY <2>1, <2>2, <2>3
<1> DEFINE A == {r \in C : S[r] = m}
<1>2. A # {} /\ A \subseteq C /\ \A r \in C : r \notin A => S[r] < m
  BY <1>1
<1>3. \A r \in A : S[r] = m
  OBVIOUS
<1> HIDE DEF A
<1> DEFINE K == {r \in A : r.feed = "kst"}
           B == IF K # {} THEN K ELSE A
           rows == {r.row : r \in B}
<1>4. B # {} /\ B \subseteq A
  BY <1>2
<1>5. \A r, s \in B : r.feed = s.feed
  <2>1. \A r \in A : r.feed = "kst" \/ r.feed = "cluster"
    BY <1>2 DEF Feeds
  <2> QED
    BY <2>1
<1>6. \A r \in B, s \in A : s \notin B => r.feed = "kst" /\ s.feed # "kst"
  OBVIOUS
<1> HIDE DEF B, K
<1>7. rows \in SUBSET Nat /\ rows # {}
  BY <1>2, <1>4
<1>8. PICK n \in rows : \A k \in rows : n <= k
  BY <1>7, LeastExists
<1>9. PICK r \in B : r.row = n /\ \A s \in B : r.row <= s.row
  BY <1>8
<1>10. ASSUME NEW s \in C
       PROVE  \/ S[r] > S[s]
              \/ /\ S[r] = S[s]
                 /\ (r.feed = "kst" /\ s.feed # "kst") \/ (r.feed = s.feed /\ r.row <= s.row)
  <2>1. S[r] = m /\ r \in A
    BY <1>3, <1>4
  <2>2. CASE s \notin A
    BY <1>1, <1>2, <2>1, <2>2
  <2>3. CASE s \in A /\ s \notin B
    BY <1>3, <1>6, <2>1, <2>3
  <2>4. CASE s \in B
    BY <1>3, <1>4, <1>5, <1>9, <2>1, <2>4
  <2> QED
    BY <2>2, <2>3, <2>4
<1> QED
  BY <1>2, <1>4, <1>10

\* The operator is sent after a station that was heard, or after none.
LEMMA NextTargetIs ==
    ASSUME NEW d, Targeted(d)
    PROVE  NextTarget(d) \in FdSpots \cup {NoSpot}
<1> DEFINE C == Callable(d)
           line(r) == d.lines[r.feed][r.row]
           S == [r \in C |-> line(r).score]
           ahead(r, s) == \/ line(r).score > line(s).score
                          \/ /\ line(r).score = line(s).score
                             /\ (r.feed = "kst" /\ s.feed # "kst") \/ (r.feed = s.feed /\ r.row <= s.row)
<1>1. CASE C = {}
  BY <1>1 DEF NextTarget
<1>2. CASE C # {}
  <2>1. ASSUME NEW r \in C
        PROVE  r.feed \in Feeds /\ r.row \in Nat /\ line(r) \in FdLine
    <3>1. r \in UNION {{[feed |-> f, row |-> i] : i \in d.shown[f]} : f \in Feeds}
      BY DEF Callable
    <3>2. PICK f \in Feeds : \E i \in d.shown[f] : r = [feed |-> f, row |-> i]
      BY <3>1
    <3>3. PICK i \in d.shown[f] : r = [feed |-> f, row |-> i]
      BY <3>2
    <3>4. d.lines[f] \in Seq(FdLine) /\ i \in DOMAIN d.lines[f]
      BY DEF Targeted
    <3>5. i \in 1..Len(d.lines[f]) /\ d.lines[f][i] \in FdLine
      BY <3>4, ElementOfSeq, LenProperties
    <3>6. r.feed = f /\ r.row = i
      BY <3>3
    <3> QED
      BY <3>5, <3>6
  <2>2. S \in [C -> 0..2] /\ \A r \in C : S[r] = line(r).score
    BY <2>1 DEF FdLine
  <2> HIDE DEF C
  <2>3. \E r \in C : \A s \in C : ahead(r, s)
    <3> HIDE DEF S
    <3>1. \E r \in C : \A s \in C : \/ S[r] > S[s]
                                   \/ /\ S[r] = S[s]
                                      /\ (r.feed = "kst" /\ s.feed # "kst") \/ (r.feed = s.feed /\ r.row <= s.row)
      BY <1>2, <2>1, <2>2, OneIsAhead
    <3> HIDE DEF line
    <3> QED
      BY <2>2, <3>1
  <2> DEFINE b == CHOOSE r \in C : \A s \in C : ahead(r, s)
  <2>4. NextTarget(d) = line(b).spot
    BY <1>2, Zenon DEF NextTarget, C
  <2> HIDE DEF ahead
  <2>5. b \in C
    BY <2>3
  <2> HIDE DEF b
  <2> QED
    BY <2>1, <2>4, <2>5 DEF FdLine
<1> QED
  BY <1>1, <1>2

\* Contest, place, bands and callsign are not touched by what is drawn.
LEMMA KeysStay == ASSUME NEW d, NEW e, SameCore(d, e) PROVE FeedKeys(d) => FeedKeys(e)
  BY Zenon DEF SameCore, FeedKeys

\* What is visible are lines of the feed.
LEMMA VisibleAreLines == ASSUME NEW d, NEW f PROVE VisibleRows(d, f) \subseteq DOMAIN d.lines[f]
<1> DEFINE L == d.lines[f]
           s == Survivors(L, d.bands)
           v == VisibleOf(L, d.bands, d.raw, d.busy)
<1>1. s \subseteq DOMAIN L
  BY DEF Survivors
<1>2. v = DOMAIN L \/ v \subseteq s
  <2>1. CASE d.raw
    BY <2>1, Zenon DEF VisibleOf
  <2>2. CASE ~d.raw
    BY <2>2, Zenon DEF VisibleOf
  <2> QED
    BY <2>1, <2>2
<1> HIDE DEF v, s
<1>3. v \subseteq DOMAIN L
  BY <1>1, <1>2
<1> QED
  BY <1>3, VisibleIs DEF v

\* What is drawn last keeps the types.
LEMMA DrawnTyped ==
    ASSUME NEW d, FeedTyped(d)
    PROVE  FeedTyped(DrawMap(d)) /\ FeedTyped(Suggest(d)) /\ FeedTyped(Counted(d))
<1>0. IsFeed(d) /\ Targeted(d) /\ FeedKeys(d) /\ Aimed(d)
  BY DEF FeedTyped, Targeted
<1> DEFINE m == DrawMap(d)
           s == Suggest(d)
           c == Counted(d)
<1>1. IsFeed(m) /\ SameCore(d, m) /\ m.lines = d.lines /\ m.shown = d.shown /\ m.suggestion = d.suggestion
  BY <1>0, DrawMapIs
<1>2. IsFeed(s) /\ SameCore(d, s) /\ s.lines = d.lines /\ s.shown = d.shown /\ s.suggestion \in {d.suggestion, NextTarget(d)}
  BY <1>0, SuggestIs
<1>3. IsFeed(c) /\ SameCore(d, c) /\ c.lines = d.lines /\ c.shown = d.shown /\ c.suggestion = d.suggestion
  BY <1>0, CountedIs
<1> HIDE DEF m, s, c
<1>4. m.arrived = d.arrived /\ s.arrived = d.arrived /\ c.arrived = d.arrived
  BY <1>1, <1>2, <1>3 DEF SameCore
<1>5. Targeted(m) /\ Targeted(s) /\ Targeted(c)
  BY <1>0, <1>1, <1>2, <1>3, <1>4 DEF Targeted
<1>6. Aimed(m) /\ Aimed(c)
  BY <1>0, <1>1, <1>3 DEF Aimed
<1>7. Aimed(s)
  <2>1. NextTarget(d) \in FdSpots \cup {NoSpot}
    BY <1>0, NextTargetIs
  <2> QED
    BY <1>0, <1>2, <2>1 DEF Aimed
<1>8. FeedKeys(m) /\ FeedKeys(s) /\ FeedKeys(c)
  BY <1>0, <1>1, <1>2, <1>3, KeysStay
<1> QED
  BY <1>5, <1>6, <1>7, <1>8 DEF FeedTyped, m, s, c

\* What the rows of a feed lead the operator to is a station of the lines and of what is visible.
LEMMA RebuildAims ==
    ASSUME NEW d, IsFeed(d), Aimed(d), NEW f \in Feeds, Targeted(RebuildRows(d, f))
    PROVE  Aimed(RebuildRows(d, f))
<1> DEFINE v == VisibleRows(d, f)
           z == RebuildRows(d, f)
<1>1. CASE v = d.shown[f]
  <2> DEFINE p == PanelRows(d)
             e == [d EXCEPT !.panel = p]
  <2>1. z = e
    BY <1>1 DEF RebuildRows
  <2> HIDE DEF p
  <2>2. e.suggestion = d.suggestion
    BY DEF IsFeed
  <2> QED
    BY <2>1, <2>2 DEF Aimed
<1>2. CASE v # d.shown[f]
  <2> DEFINE e == [d EXCEPT !.shown[f] = v]
             p == PanelRows(e)
             g == [e EXCEPT !.panel = p]
             h == DrawMap(g)
  <2>1. z = Suggest(h)
    BY <1>2 DEF RebuildRows
  <2> HIDE DEF v
  <2>2. IsFeed(e) /\ e.suggestion = d.suggestion
    BY DEF IsFeed
  <2> HIDE DEF e, p
  <2>3. IsFeed(g) /\ g.suggestion = e.suggestion
    BY <2>2 DEF IsFeed
  <2> HIDE DEF g
  <2>4. IsFeed(h) /\ h.suggestion = g.suggestion
    BY <2>3, DrawMapIs
  <2> HIDE DEF h
  <2>5. /\ z.lines = h.lines /\ z.shown = h.shown /\ SameCore(h, z)
        /\ z.suggestion \in {h.suggestion, NextTarget(h)}
    BY <2>1, <2>4, SuggestIs
  <2>6. Targeted(h)
    <3>0. Targeted(z)
      OBVIOUS
    <3> HIDE DEF z
    <3>1. z.arrived = h.arrived
      BY <2>5 DEF SameCore
    <3> QED
      BY <2>4, <2>5, <3>0, <3>1 DEF Targeted
  <2>7. NextTarget(h) \in FdSpots \cup {NoSpot}
    BY <2>6, NextTargetIs
  <2> HIDE DEF z
  <2>8. Aimed(z)
    BY <2>2, <2>3, <2>4, <2>5, <2>7 DEF Aimed
  <2> QED
    BY <2>8 DEF z
<1> QED
  BY <1>1, <1>2

\* Rows looked at again keep the types.
LEMMA RebuildTyped ==
    ASSUME NEW d, FeedTyped(d), NEW f \in Feeds
    PROVE  FeedTyped(RebuildRows(d, f))
<1> DEFINE e == RebuildRows(d, f)
<1>0. IsFeed(d) /\ Targeted(d) /\ FeedKeys(d) /\ Aimed(d)
  BY DEF FeedTyped, Targeted
<1>1. /\ IsFeed(e) /\ SameCore(d, e) /\ e.lines = d.lines
      /\ e.shown[f] = VisibleRows(d, f) /\ \A g \in Feeds \ {f} : e.shown[g] = d.shown[g]
  BY <1>0, RebuildIs
<1>2. Targeted(e)
  <2>1. VisibleRows(d, f) \subseteq DOMAIN d.lines[f]
    BY VisibleAreLines
  <2> HIDE DEF e
  <2>2. e.arrived = d.arrived
    BY <1>1 DEF SameCore
  <2>3. \A g \in Feeds : e.shown[g] \subseteq DOMAIN d.lines[g]
    BY <1>0, <1>1, <2>1 DEF Targeted
  <2> QED
    BY <1>0, <1>1, <2>2, <2>3 DEF Targeted
<1>3. Aimed(e)
  BY <1>0, <1>2, RebuildAims
<1>4. FeedKeys(e)
  BY <1>0, <1>1, KeysStay
<1> QED
  BY <1>2, <1>3, <1>4 DEF FeedTyped

\* So do lines marked again.
LEMMA ReworkedTyped ==
    ASSUME NEW d, FeedTyped(d), NEW f \in Feeds
    PROVE  FeedTyped(Reworked(d, f))
<1> DEFINE L == d.lines[f]
           M == [i \in DOMAIN L |-> [Line(d, L[i].spot, L[i].geo) EXCEPT !.at = L[i].at]]
           c == [d EXCEPT !.lines[f] = M]
           e == RebuildRows(c, f)
<1>0. IsFeed(d) /\ Targeted(d) /\ FeedKeys(d) /\ Aimed(d) /\ d.arrived \in Nat
  BY DEF FeedTyped, Targeted
<1>1. Reworked(d, f) = e
  BY DEF Reworked
<1> HIDE DEF M
<1>2. IsFeed(c) /\ c.suggestion = d.suggestion
  BY <1>0, OtherLinesAre
<1> HIDE DEF c
<1>3. d.lines[f] \in Seq(FdLine) /\ Len(d.lines[f]) <= FdMaxLines
  BY <1>0 DEF Targeted
<1>4. /\ IsFeed(e) /\ SameCore(d, e) /\ LinesAre(d, e, f) /\ ShownIs(e, f)
      /\ \A g \in Feeds \ {f} : e.lines[g] = d.lines[g] /\ e.shown[g] = d.shown[g]
  <2> DEFINE r == Reworked(d, f)
  <2>1. /\ IsFeed(r) /\ SameCore(d, r) /\ LinesAre(d, r, f) /\ ShownIs(r, f)
        /\ \A g \in Feeds \ {f} : r.lines[g] = d.lines[g] /\ r.shown[g] = d.shown[g]
    BY <1>0, <1>3, ReworkedIs
  <2> QED
    BY <1>1, <2>1
<1>5. Targeted(e)
  <2> HIDE DEF e
  <2>1. e.shown[f] \subseteq DOMAIN e.lines[f]
    BY <1>4, VisibleAreLines, VisibleIs DEF ShownIs
  <2>2. e.lines[f] \in Seq(FdLine) /\ Len(e.lines[f]) <= FdMaxLines
    BY <1>4 DEF LinesAre
  <2>3. e.arrived = d.arrived
    BY <1>4 DEF SameCore
  <2>4. \A g \in Feeds \ {f} : /\ e.lines[g] \in Seq(FdLine) /\ Len(e.lines[g]) <= FdMaxLines
                               /\ e.shown[g] \subseteq DOMAIN e.lines[g]
    BY <1>0, <1>4 DEF Targeted
  <2> QED
    BY <1>0, <1>4, <2>1, <2>2, <2>3, <2>4 DEF Targeted
<1>6. Aimed(e)
  BY <1>0, <1>2, <1>5, RebuildAims DEF Aimed
<1>7. FeedKeys(e)
  BY <1>0, <1>4, KeysStay
<1> QED
  BY <1>1, <1>5, <1>6, <1>7 DEF FeedTyped

\* Both feeds marked again, or looked at again; and the log changed.
LEMMA BothTyped ==
    ASSUME NEW d, FeedTyped(d)
    PROVE  /\ FeedTyped(Reworked(Reworked(d, "kst"), "cluster"))
           /\ FeedTyped(RebuildRows(RebuildRows(d, "kst"), "cluster"))
<1>0. "kst" \in Feeds /\ "cluster" \in Feeds
  BY DEF Feeds
<1>1. FeedTyped(Reworked(d, "kst")) /\ FeedTyped(RebuildRows(d, "kst"))
  BY <1>0, ReworkedTyped, RebuildTyped
<1> DEFINE a == Reworked(d, "kst")
           b == RebuildRows(d, "kst")
<1> HIDE DEF a, b
<1>2. FeedTyped(a) /\ FeedTyped(b)
  BY <1>1 DEF a, b
<1>3. FeedTyped(Reworked(a, "cluster")) /\ FeedTyped(RebuildRows(b, "cluster"))
  BY <1>0, <1>2, ReworkedTyped, RebuildTyped
<1> QED
  BY <1>3 DEF a, b

\* So does all that follows a change of the log.
LEMMA AfterLogTyped ==
    ASSUME NEW d, FeedTyped(d)
    PROVE  FeedTyped(AfterLogChange(d))
<1> DEFINE c == Counted(d)
           e == Reworked(Reworked(c, "kst"), "cluster")
           m == DrawMap(e)
<1>1. AfterLogChange(d) = Suggest(m)
  BY DEF AfterLogChange, RefreshFeeds
<1>2. FeedTyped(c)
  BY DrawnTyped
<1> HIDE DEF c
<1>3. FeedTyped(e)
  BY <1>2, BothTyped
<1> HIDE DEF e
<1>4. FeedTyped(m)
  BY <1>3, DrawnTyped
<1> HIDE DEF m
<1> QED
  BY <1>1, <1>4, DrawnTyped

\* A field that is written.
LEMMA FieldTyped ==
    ASSUME NEW d, FeedTyped(d), NEW n
    PROVE  /\ FeedTyped([d EXCEPT !.handled = n])
           /\ FeedTyped([d EXCEPT !.busy = n]) /\ FeedTyped([d EXCEPT !.raw = n])
           /\ FeedTyped([d EXCEPT !.all = n]) /\ FeedTyped([d EXCEPT !.panel = n])
           /\ \A k : FeedTyped([d EXCEPT !.log[k] = n])
           /\ n \in Nat => FeedTyped([d EXCEPT !.arrived = n])
           /\ n \in Heard \cup {""} => FeedTyped([d EXCEPT !.typed = n])
           /\ n \in FdContests => FeedTyped([d EXCEPT !.contest = n])
           /\ n \in FdSites => FeedTyped([d EXCEPT !.site = n])
           /\ n \in SUBSET FdBands => FeedTyped([d EXCEPT !.bands = n])
           /\ \A k \in FdContests : n \in SUBSET FdBands => FeedTyped([d EXCEPT !.rules[k] = n])
<1>0. /\ IsFeed(d) /\ Targeted(d) /\ FeedKeys(d) /\ Aimed(d)
  BY DEF FeedTyped, Targeted
<1> DEFINE Keys(e) == e.contest = d.contest /\ e.site = d.site /\ e.bands = d.bands /\ e.rules = d.rules /\ e.typed = d.typed
           Rest(e) == e.lines = d.lines /\ e.shown = d.shown /\ e.suggestion = d.suggestion
           When(e) == e.arrived = d.arrived
<1>1. ASSUME NEW e, IsFeed(e), Rest(e), e.arrived \in Nat, FeedKeys(e)
      PROVE  FeedTyped(e)
  BY <1>0, <1>1 DEF FeedTyped, Targeted, Aimed
<1>2. ASSUME NEW e, IsFeed(e), Rest(e), When(e), Keys(e)
      PROVE  FeedTyped(e)
  <2>1. FeedKeys(e)
    BY <1>0, <1>2, Zenon DEF FeedKeys
  <2>2. e.arrived \in Nat
    BY <1>0, <1>2 DEF Targeted
  <2> QED
    BY <1>1, <1>2, <2>1, <2>2
<1>3. LET e == [d EXCEPT !.handled = n] IN IsFeed(e) /\ Rest(e) /\ When(e) /\ Keys(e)
  BY <1>0 DEF IsFeed
<1>4. LET e == [d EXCEPT !.busy = n] IN IsFeed(e) /\ Rest(e) /\ When(e) /\ Keys(e)
  BY <1>0 DEF IsFeed
<1>5. LET e == [d EXCEPT !.raw = n] IN IsFeed(e) /\ Rest(e) /\ When(e) /\ Keys(e)
  BY <1>0 DEF IsFeed
<1>6. LET e == [d EXCEPT !.all = n] IN IsFeed(e) /\ Rest(e) /\ When(e) /\ Keys(e)
  BY <1>0 DEF IsFeed
<1>7. LET e == [d EXCEPT !.panel = n] IN IsFeed(e) /\ Rest(e) /\ When(e) /\ Keys(e)
  BY <1>0 DEF IsFeed
<1>8. ASSUME NEW k
      PROVE  LET e == [d EXCEPT !.log[k] = n] IN IsFeed(e) /\ Rest(e) /\ When(e) /\ Keys(e)
  BY <1>0 DEF IsFeed
<1>9. ASSUME n \in Nat
      PROVE  LET e == [d EXCEPT !.arrived = n] IN IsFeed(e) /\ Rest(e) /\ e.arrived \in Nat /\ Keys(e)
  BY <1>0, <1>9 DEF IsFeed
<1>10. LET e == [d EXCEPT !.typed = n]
       IN /\ IsFeed(e) /\ Rest(e) /\ When(e) /\ e.typed = n
          /\ e.contest = d.contest /\ e.site = d.site /\ e.bands = d.bands /\ e.rules = d.rules
  BY <1>0 DEF IsFeed
<1>11. LET e == [d EXCEPT !.contest = n]
       IN /\ IsFeed(e) /\ Rest(e) /\ When(e) /\ e.contest = n
          /\ e.typed = d.typed /\ e.site = d.site /\ e.bands = d.bands /\ e.rules = d.rules
  BY <1>0 DEF IsFeed
<1>12. LET e == [d EXCEPT !.site = n]
       IN /\ IsFeed(e) /\ Rest(e) /\ When(e) /\ e.site = n
          /\ e.typed = d.typed /\ e.contest = d.contest /\ e.bands = d.bands /\ e.rules = d.rules
  BY <1>0 DEF IsFeed
<1>13. LET e == [d EXCEPT !.bands = n]
       IN /\ IsFeed(e) /\ Rest(e) /\ When(e) /\ e.bands = n
          /\ e.typed = d.typed /\ e.contest = d.contest /\ e.site = d.site /\ e.rules = d.rules
  BY <1>0 DEF IsFeed
<1>14. ASSUME NEW k \in FdContests, n \in SUBSET FdBands
       PROVE  LET e == [d EXCEPT !.rules[k] = n]
              IN /\ IsFeed(e) /\ Rest(e) /\ When(e) /\ e.rules \in [FdContests -> SUBSET FdBands]
                 /\ e.typed = d.typed /\ e.contest = d.contest /\ e.site = d.site /\ e.bands = d.bands
  <2> DEFINE R == d.rules
             S == [R EXCEPT ![k] = n]
  <2>1. R \in [FdContests -> SUBSET FdBands]
    BY <1>0 DEF FeedKeys
  <2> DEFINE e == [d EXCEPT !.rules[k] = n]
  <2>2. /\ IsFeed(e) /\ Rest(e) /\ When(e) /\ e.rules = S
        /\ e.typed = d.typed /\ e.contest = d.contest /\ e.site = d.site /\ e.bands = d.bands
    BY <1>0 DEF IsFeed
  <2> HIDE DEF R, e
  <2>3. S \in [FdContests -> SUBSET FdBands]
    BY <1>14, <2>1
  <2> QED
    BY <2>2, <2>3 DEF e
<1>15. FeedTyped([d EXCEPT !.handled = n]) /\ FeedTyped([d EXCEPT !.busy = n]) /\ FeedTyped([d EXCEPT !.raw = n])
  BY <1>2, <1>3, <1>4, <1>5, Zenon
<1>16. FeedTyped([d EXCEPT !.all = n]) /\ FeedTyped([d EXCEPT !.panel = n]) /\ \A k : FeedTyped([d EXCEPT !.log[k] = n])
  BY <1>2, <1>6, <1>7, <1>8, Zenon
<1>17. n \in Nat => FeedTyped([d EXCEPT !.arrived = n])
  <2> DEFINE e == [d EXCEPT !.arrived = n]
  <2>1. SUFFICES ASSUME n \in Nat PROVE FeedTyped(e)
    OBVIOUS
  <2>2. IsFeed(e) /\ Rest(e) /\ e.arrived \in Nat /\ Keys(e)
    BY <1>9, <2>1
  <2> HIDE DEF e
  <2>3. FeedKeys(e)
    BY <1>0, <2>2, Zenon DEF FeedKeys
  <2> QED
    BY <1>1, <2>2, <2>3
<1>18. n \in Heard \cup {""} => FeedTyped([d EXCEPT !.typed = n])
  <2> DEFINE e == [d EXCEPT !.typed = n]
  <2> HIDE DEF e
  <2>1. e.arrived \in Nat
    BY <1>0, <1>10 DEF e, Targeted
  <2>2. n \in Heard \cup {""} => FeedKeys(e)
    BY <1>0, <1>10, Zenon DEF e, FeedKeys
  <2> QED
    BY <1>1, <1>10, <2>1, <2>2, Zenon DEF e
<1>19. n \in FdContests => FeedTyped([d EXCEPT !.contest = n])
  <2> DEFINE e == [d EXCEPT !.contest = n]
  <2> HIDE DEF e
  <2>1. e.arrived \in Nat
    BY <1>0, <1>11 DEF e, Targeted
  <2>2. n \in FdContests => FeedKeys(e)
    BY <1>0, <1>11, Zenon DEF e, FeedKeys
  <2> QED
    BY <1>1, <1>11, <2>1, <2>2, Zenon DEF e
<1>20. n \in FdSites => FeedTyped([d EXCEPT !.site = n])
  <2> DEFINE e == [d EXCEPT !.site = n]
  <2> HIDE DEF e
  <2>1. e.arrived \in Nat
    BY <1>0, <1>12 DEF e, Targeted
  <2>2. n \in FdSites => FeedKeys(e)
    BY <1>0, <1>12, Zenon DEF e, FeedKeys
  <2> QED
    BY <1>1, <1>12, <2>1, <2>2, Zenon DEF e
<1>21. n \in SUBSET FdBands => FeedTyped([d EXCEPT !.bands = n])
  <2> DEFINE e == [d EXCEPT !.bands = n]
  <2> HIDE DEF e
  <2>1. e.arrived \in Nat
    BY <1>0, <1>13 DEF e, Targeted
  <2>2. n \in SUBSET FdBands => FeedKeys(e)
    BY <1>0, <1>13, Zenon DEF e, FeedKeys
  <2> QED
    BY <1>1, <1>13, <2>1, <2>2, Zenon DEF e
<1>22. \A k \in FdContests : n \in SUBSET FdBands => FeedTyped([d EXCEPT !.rules[k] = n])
  <2>1. SUFFICES ASSUME NEW k \in FdContests, n \in SUBSET FdBands
                 PROVE  FeedTyped([d EXCEPT !.rules[k] = n])
    BY Zenon
  <2> DEFINE e == [d EXCEPT !.rules[k] = n]
  <2>2. /\ IsFeed(e) /\ Rest(e) /\ When(e) /\ e.rules \in [FdContests -> SUBSET FdBands]
        /\ e.typed = d.typed /\ e.contest = d.contest /\ e.site = d.site /\ e.bands = d.bands
    BY <1>14, <2>1, Zenon
  <2> HIDE DEF e
  <2>3. e.arrived \in Nat
    BY <1>0, <2>2 DEF Targeted
  <2>4. FeedKeys(e)
    BY <1>0, <2>2, Zenon DEF FeedKeys
  <2>5. FeedTyped(e)
    BY <1>1, <2>2, <2>3, <2>4
  <2> QED
    BY <2>5 DEF e
<1> QED
  BY <1>15, <1>16, <1>17, <1>18, <1>19, <1>20, <1>21, <1>22

\* A line arrives.
LEMMA ArriveTyped ==
    ASSUME FeedTyped(fd), NEW f \in Feeds, NEW spot \in FdSpots, Arrive(f, spot), FeedAssumption
    PROVE  FeedTyped(fd')
<1> DEFINE n == fd.arrived + 1
           d == [fd EXCEPT !.arrived = n]
           new == Line(d, spot, d.site \in spot.near)
           lines == Append(d.lines[f], new)
           kept == IF Len(lines) > FdMaxLines THEN Tail(lines) ELSE lines
           c == [d EXCEPT !.lines[f] = kept]
           e == RebuildRows(c, f)
<1>1. fd' = e
  BY DEF Arrive
<1>2. FeedTyped(d) /\ fd.arrived \in Nat
  <2>1. n \in Nat /\ fd.arrived \in Nat
    BY DEF FeedTyped, Targeted
  <2> HIDE DEF n
  <2> QED
    BY <2>1, FieldTyped
<1> HIDE DEF d
<1>3. IsFeed(d) /\ Targeted(d) /\ FeedKeys(d) /\ Aimed(d) /\ d.arrived \in Nat
  BY <1>2 DEF FeedTyped, Targeted
<1>4. new \in FdLine
  <2>1. PICK geo \in BOOLEAN : geo = (d.site \in spot.near)
    <3>1. CASE d.site \in spot.near
      <4> PICK yes \in BOOLEAN : yes = TRUE
        OBVIOUS
      <4>1. yes = (d.site \in spot.near)
        BY <3>1
      <4> QED
        BY <4>1
    <3>2. CASE d.site \notin spot.near
      <4> PICK no \in BOOLEAN : no = FALSE
        OBVIOUS
      <4>1. no = (d.site \in spot.near)
        BY <3>2
      <4> QED
        BY <4>1
    <3> QED
      BY <3>1, <3>2
  <2>2. new = Line(d, spot, geo)
    BY <2>1, Zenon
  <2>3. MarkedLine(d, spot, Line(d, spot, geo))
    BY <1>3, LineIs, 0 \in Nat
  <2> HIDE DEF new
  <2> QED
    BY <2>2, <2>3 DEF MarkedLine
<1> HIDE DEF new
<1> DEFINE old == d.lines[f]
<1>5. /\ old \in Seq(FdLine) /\ Len(old) <= FdMaxLines /\ FdMaxLines \in Nat \ {0}
      /\ d.shown[f] \subseteq DOMAIN old
  BY <1>3 DEF Targeted, FeedAssumption
<1> HIDE DEF old
<1>6. kept \in Seq(FdLine) /\ Len(kept) <= FdMaxLines /\ DOMAIN old \subseteq DOMAIN kept
  <2>1. lines = Append(old, new)
    BY DEF old
  <2> HIDE DEF lines
  <2>2. lines \in Seq(FdLine) /\ Len(lines) = Len(old) + 1
    BY <1>4, <1>5, <2>1, AppendProperties
  <2>3. Len(old) \in Nat /\ DOMAIN old = 1..Len(old) /\ DOMAIN lines = 1..(Len(old) + 1)
    BY <1>5, <2>2, LenProperties
  <2>4. CASE Len(lines) > FdMaxLines
    <3>1. kept = Tail(lines)
      BY <2>4
    <3> HIDE DEF kept
    <3>2. lines # <<>>
      BY <2>2, <2>3, EmptySeq
    <3>3. kept \in Seq(FdLine) /\ Len(kept) = Len(lines) - 1
      BY <2>2, <3>1, <3>2, HeadTailProperties
    <3>4. Len(kept) = Len(old) /\ DOMAIN kept = 1..Len(old)
      BY <2>2, <2>3, <3>3, LenProperties
    <3> QED
      BY <1>5, <2>3, <3>3, <3>4
  <2>5. CASE ~(Len(lines) > FdMaxLines)
    <3>1. kept = lines /\ Len(lines) <= FdMaxLines
      BY <1>5, <2>2, <2>3, <2>5
    <3> HIDE DEF kept
    <3>2. DOMAIN old \subseteq DOMAIN lines
      BY <2>3
    <3> QED
      BY <2>2, <3>1, <3>2, Zenon
  <2> QED
    BY <2>4, <2>5
<1> HIDE DEF kept
<1>7. /\ IsFeed(c) /\ SameCore(d, c) /\ c.lines[f] = kept
      /\ \A g \in Feeds \ {f} : c.lines[g] = d.lines[g]
      /\ c.shown = d.shown /\ c.suggestion = d.suggestion
  BY <1>3, OtherLinesAre
<1> HIDE DEF c
<1>8. Targeted(c)
  <2>1. c.arrived = d.arrived
    BY <1>7 DEF SameCore
  <2>2. c.shown[f] \subseteq DOMAIN c.lines[f]
    BY <1>5, <1>6, <1>7
  <2>3. \A g \in Feeds \ {f} : /\ c.lines[g] \in Seq(FdLine) /\ Len(c.lines[g]) <= FdMaxLines
                               /\ c.shown[g] \subseteq DOMAIN c.lines[g]
    BY <1>3, <1>7 DEF Targeted
  <2> QED
    BY <1>3, <1>6, <1>7, <2>1, <2>2, <2>3 DEF Targeted
<1>9. FeedKeys(c) /\ Aimed(c)
  BY <1>3, <1>7, KeysStay DEF Aimed
<1>10. FeedTyped(e)
  BY <1>8, <1>9, RebuildTyped DEF FeedTyped
<1> QED
  BY <1>1, <1>10

\* Another contest or another place.
LEMMA ApplyTyped ==
    ASSUME FeedTyped(fd), NEW contest \in FdContests, NEW site \in FdSites, ApplyFeedSettings(contest, site)
    PROVE  FeedTyped(fd')
<1> DEFINE m == fd.handled + 1
           a == [fd EXCEPT !.contest = contest]
           b == [a EXCEPT !.site = site]
           d == [b EXCEPT !.handled = m]
           r == Reworked(Reworked(d, "kst"), "cluster")
           marked == Counted(r)
           n == d.rules[contest]
           e == [marked EXCEPT !.bands = n]
           z == IF e.bands = d.bands THEN e ELSE Reworked(Reworked(e, "kst"), "cluster")
           y == DrawMap(z)
<1>1. fd' = Suggest(y)
  <2> DEFINE k == [fd EXCEPT !.contest = contest, !.site = site, !.handled = @ + 1]
  <2>1. k = [fd EXCEPT !.contest = contest, !.site = site, !.handled = m]
    BY Zenon
  <2> HIDE DEF m
  <2>2. d = k
    BY <2>1, Zenon
  <2>3. fd' = LET rr == Reworked(Reworked(k, "kst"), "cluster")
                  ee == [Counted(rr) EXCEPT !.bands = k.rules[contest]]
              IN Suggest(DrawMap(IF ee.bands = k.bands THEN ee ELSE Reworked(Reworked(ee, "kst"), "cluster")))
    BY Zenon DEF ApplyFeedSettings, m
  <2> HIDE DEF k, d
  <2> QED
    BY <2>2, <2>3, Zenon
<1> HIDE DEF m
<1>2. FeedTyped(a)
  BY FieldTyped
<1> HIDE DEF a
<1>3. FeedTyped(b)
  BY <1>2, FieldTyped
<1> HIDE DEF b
<1>4. FeedTyped(d)
  BY <1>3, FieldTyped
<1> HIDE DEF d
<1>5. n \in SUBSET FdBands
  BY <1>4 DEF FeedTyped, FeedKeys
<1> HIDE DEF n
<1>6. FeedTyped(r)
  BY <1>4, BothTyped
<1> HIDE DEF r
<1>7. FeedTyped(marked)
  BY <1>6, DrawnTyped
<1> HIDE DEF marked
<1>8. FeedTyped(e)
  BY <1>5, <1>7, FieldTyped
<1> HIDE DEF e
<1>9. FeedTyped(z)
  <2> DEFINE x == Reworked(Reworked(e, "kst"), "cluster")
  <2>1. FeedTyped(x)
    BY <1>8, BothTyped
  <2>2. z = e \/ z = x
    BY Zenon
  <2> HIDE DEF x, z
  <2> QED
    BY <1>8, <2>1, <2>2, Zenon
<1> HIDE DEF z
<1>10. FeedTyped(y)
  BY <1>9, DrawnTyped
<1> HIDE DEF y
<1> QED
  BY <1>1, <1>10, DrawnTyped

\* The log changes, and everything is drawn again.
LEMMA LogTyped ==
    ASSUME NEW d, FeedTyped(d), NEW n, NEW m, NEW k
    PROVE  FeedTyped(AfterLogChange([d EXCEPT !.log[k] = n, !.handled = m]))
<1> DEFINE b == [d EXCEPT !.log[k] = n]
           a == [b EXCEPT !.handled = m]
           c == [d EXCEPT !.log[k] = n, !.handled = m]
<1>1. c = a
  BY Zenon
<1>2. FeedTyped(b)
  BY FieldTyped
<1> HIDE DEF b
<1>3. FeedTyped(a)
  BY <1>2, FieldTyped
<1> HIDE DEF a, c
<1>4. FeedTyped(c)
  BY <1>1, <1>3
<1>5. FeedTyped(AfterLogChange(c))
  BY <1>4, AfterLogTyped
<1> QED
  BY <1>5 DEF c

\* Every step keeps the types.
LEMMA FdTypedStep ==
    ASSUME FeedAssumption, FeedTyped(fd), [FeedNext]_feedVars
    PROVE  FeedTyped(fd')
<1>1. CASE UNCHANGED feedVars
  BY <1>1 DEF feedVars
<1>2. CASE \E f \in Feeds, s \in FdSpots : Arrive(f, s)
  BY <1>2, ArriveTyped
<1>3. CASE \E call \in Heard \cup {""} : PutCallsign(call)
  <2>1. PICK call \in Heard \cup {""} : fd' = [fd EXCEPT !.typed = call]
    BY <1>3 DEF PutCallsign
  <2>2. FeedTyped([fd EXCEPT !.typed = call])
    BY FieldTyped
  <2> QED
    BY <2>1, <2>2
<1>4. ASSUME NEW band, LogFeedQso(band)
      PROVE  FeedTyped(fd')
  <2> DEFINE k == fd.contest
             n == fd.log[k] \cup {[call |-> fd.typed, band |-> band]}
             m == fd.handled + 1
             e == AfterLogChange([fd EXCEPT !.log[k] = n, !.handled = m])
             none == ""
  <2>1. fd' = [e EXCEPT !.typed = none]
    BY <1>4 DEF LogFeedQso
  <2> HIDE DEF k, n, m
  <2>2. FeedTyped(e)
    BY LogTyped
  <2>3. none \in Heard \cup {""}
    OBVIOUS
  <2> HIDE DEF e, none
  <2> QED
    BY <2>1, <2>2, <2>3, FieldTyped
<1>5. ASSUME NEW q, NEW p, CorrectFeedQso(q, p)
      PROVE  FeedTyped(fd')
  <2> DEFINE k == fd.contest
             n == (fd.log[k] \ {q}) \cup p
             m == fd.handled + 1
             e == AfterLogChange([fd EXCEPT !.log[k] = n, !.handled = m])
  <2>1. fd' = e
    BY <1>5 DEF CorrectFeedQso
  <2> HIDE DEF k, n, m
  <2> QED
    BY <2>1, LogTyped
<1>6. CASE \E c \in FdContests, s \in FdSites : ApplyFeedSettings(c, s)
  BY <1>6, ApplyTyped
<1>7. ASSUME NEW c \in FdContests, NEW bands \in SUBSET FdBands, EditFeedRules(c, bands)
      PROVE  FeedTyped(fd')
  <2> DEFINE m == fd.handled + 1
             b == [fd EXCEPT !.rules[c] = bands]
             d == [b EXCEPT !.handled = m]
  <2>1. fd' = Counted(d)
    <3> DEFINE g == [fd EXCEPT !.rules[c] = bands, !.handled = m]
    <3>1. fd' = Counted(g)
      BY <1>7 DEF EditFeedRules
    <3> HIDE DEF m
    <3>2. g = d
      BY Zenon
    <3> HIDE DEF g, d
    <3> QED
      BY <3>1, <3>2
  <2> HIDE DEF m
  <2>2. FeedTyped(b)
    BY FieldTyped
  <2> HIDE DEF b
  <2>3. FeedTyped(d)
    BY <2>2, FieldTyped
  <2> HIDE DEF d
  <2> QED
    BY <2>1, <2>3, DrawnTyped
<1>8. CASE PaceChanges
  <2> DEFINE b == ~fd.busy
             c == [fd EXCEPT !.busy = b]
  <2>1. fd' = RebuildRows(RebuildRows(c, "kst"), "cluster")
    BY <1>8 DEF PaceChanges
  <2> HIDE DEF b
  <2>2. FeedTyped(c)
    BY FieldTyped
  <2> HIDE DEF c
  <2> QED
    BY <2>1, <2>2, BothTyped
<1>9. CASE ToggleRawFeed
  <2> DEFINE b == ~fd.raw
             c == [fd EXCEPT !.raw = b]
  <2>1. fd' = RebuildRows(RebuildRows(c, "kst"), "cluster")
    BY <1>9 DEF ToggleRawFeed
  <2> HIDE DEF b
  <2>2. FeedTyped(c)
    BY FieldTyped
  <2> HIDE DEF c
  <2> QED
    BY <2>1, <2>2, BothTyped
<1>10. CASE ToggleShowAll
  <2> DEFINE b == ~fd.all
             c == [fd EXCEPT !.all = b]
             p == PanelRows(c)
  <2>1. fd' = [c EXCEPT !.panel = p]
    BY <1>10 DEF ToggleShowAll
  <2> HIDE DEF b, p
  <2>2. FeedTyped(c)
    BY FieldTyped
  <2> HIDE DEF c
  <2> QED
    BY <2>1, <2>2, FieldTyped
<1>11. CASE \E b \in fd.rules[fd.contest] : LogFeedQso(b)
  BY <1>4, <1>11
<1>12. CASE \E q \in fd.log[fd.contest] : \E p \in {{}} \cup {{[q EXCEPT !.call = c]} : c \in Heard} : CorrectFeedQso(q, p)
  BY <1>5, <1>12
<1>13. CASE \E c \in FdContests, bands \in (SUBSET FdBands) \ {{}} : EditFeedRules(c, bands)
  BY <1>7, <1>13
<1> QED
  BY <1>1, <1>2, <1>3, <1>6, <1>8, <1>9, <1>10, <1>11, <1>12, <1>13 DEF FeedNext

\* The empty feeds have them.
LEMMA FdTypedStarts == ASSUME FeedAssumption, FeedInit PROVE FeedTyped(fd)
<1>1. IsFeed(fd) /\ fd.arrived \in Nat
  BY DEF FeedInit, IsFeed
<1>2. \A f \in Feeds : fd.lines[f] = <<>> /\ fd.shown[f] = {}
  BY DEF FeedInit
<1>3. ASSUME NEW f \in Feeds
      PROVE  fd.lines[f] \in Seq(FdLine) /\ Len(fd.lines[f]) <= FdMaxLines /\ fd.shown[f] \subseteq DOMAIN fd.lines[f]
  <2> DEFINE l == fd.lines[f]
  <2>1. l = <<>> /\ fd.shown[f] = {} /\ FdMaxLines \in Nat
    BY <1>2 DEF FeedAssumption
  <2> HIDE DEF l
  <2>2. l \in Seq(FdLine) /\ Len(l) = 0
    BY <2>1, EmptySeq
  <2>3. Len(l) <= FdMaxLines
    BY <2>1, <2>2
  <2> QED
    BY <2>1, <2>2, <2>3 DEF l
<1>4. /\ fd.contest \in FdContests /\ fd.site \in FdSites /\ fd.bands = FdBands /\ fd.typed = ""
      /\ fd.rules = [c \in FdContests |-> FdBands] /\ fd.suggestion = NoSpot
  BY DEF FeedInit, FeedAssumption
<1>5. FeedKeys(fd) /\ Aimed(fd)
  BY <1>4 DEF FeedKeys, Aimed
<1> QED
  BY <1>1, <1>3, <1>5 DEF FeedTyped, Targeted

\* They are the type invariant of the feeds.
LEMMA FdTypes == ASSUME FeedTyped(fd) PROVE FeedTypeOK
  BY DEF FeedTyped, Targeted, FeedKeys, Aimed, FeedTypeOK

-----------------------------------------------------------------------------
(* The parts, each in the behaviours that look at it *)

\* A part moves alone, and stays the part of its behaviour.
LEMMA DeskPartsMoveAlone ==
    ASSUME [DeskNext]_deskVars
    PROVE  /\ part' = part
           /\ part = "entry" => [ErNext]_erVars
           /\ part = "table" => [LtNext]_ltVars
           /\ part = "results" => [ResNext]_resLog
           /\ part = "check" => [ChkNext]_chkLog
           /\ part = "calendar" => [CalNext]_calVars
           /\ part = "skeds" => [SkedNext]_skVars
           /\ part = "feed" => [FeedNext]_feedVars
<1>1. CASE UNCHANGED deskVars
  BY <1>1, Zenon DEF deskVars
<1>2. CASE part = "entry" /\ ErNext /\ UNCHANGED <<part, ltVars, resLog, chkLog, calVars, skVars, feedVars>>
  BY <1>2
<1>3. CASE part = "table" /\ LtNext /\ UNCHANGED <<part, erVars, resLog, chkLog, calVars, skVars, feedVars>>
  BY <1>3
<1>4. CASE part = "results" /\ ResNext /\ UNCHANGED <<part, erVars, ltVars, chkLog, calVars, skVars, feedVars>>
  BY <1>4
<1>5. CASE part = "check" /\ ChkNext /\ UNCHANGED <<part, erVars, ltVars, resLog, calVars, skVars, feedVars>>
  BY <1>5
<1>6. CASE part = "calendar" /\ CalNext /\ UNCHANGED <<part, erVars, ltVars, resLog, chkLog, skVars, feedVars>>
  BY <1>6
<1>7. CASE part = "skeds" /\ SkedNext /\ UNCHANGED <<part, erVars, ltVars, resLog, chkLog, calVars, feedVars>>
  BY <1>7
<1>8. CASE part = "feed" /\ FeedNext /\ UNCHANGED <<part, erVars, ltVars, resLog, chkLog, calVars, skVars>>
  BY <1>8
<1> QED
  BY <1>1, <1>2, <1>3, <1>4, <1>5, <1>6, <1>7, <1>8, Zenon DEF DeskNext

\* At the moment it is filled in, a locator is one known of the callsign that stands
\* in the row, and it goes into an empty field, in every behaviour of the entry row
\* (MainWindow::applyResolvedGrid).  Nothing is said of number and report, nor of a
\* callsign that is changed afterwards.
THEOREM RowFillsForTheCall == DeskSpec => RowIsFilledForTheCall
<1> DEFINE I == part = "entry" => ErInv
           Filled == part = "entry" => FilledForTheCall
<1>1. DeskInit => I
  BY EntryAssumption, ErStarts DEF DeskInit, EntryInit
<1>2. I /\ [DeskNext]_deskVars => I' /\ Filled
  <2> SUFFICES ASSUME I, [DeskNext]_deskVars, part = "entry"
               PROVE  part' = part /\ ErInv' /\ FilledForTheCall
    BY DeskPartsMoveAlone
  <2> QED
    BY EntryAssumption, DeskPartsMoveAlone, ErStep
<1> QED
  BY <1>1, <1>2, PTL DEF DeskSpec, RowIsFilledForTheCall

\* A multiplier called needed counts when worked, in every behaviour of the
\* results (MultiplierTracker, computeContestScore).
THEOREM NeededCounts == DeskSpec => NeededCountsWhenWorked
<1> DEFINE I == part = "results" => ResInv
           New == part = "results" => NeededStepIsNew
<1>1. DeskInit => I
  BY ResultsAssumption, ResStarts DEF DeskInit
<1>2. I /\ [DeskNext]_deskVars => I' /\ New
  <2> SUFFICES ASSUME I, [DeskNext]_deskVars, part = "results"
               PROVE  part' = part /\ ResInv' /\ NeededStepIsNew
    BY DeskPartsMoveAlone
  <2> QED
    BY ResultsAssumption, DeskPartsMoveAlone, ResStep, NeededIsNew
<1> QED
  BY <1>1, <1>2, PTL DEF DeskSpec, NeededCountsWhenWorked

\* Skeds and feeds follow the log and the clock, in every behaviour of theirs
\* (SkedList, ChatFeedModel).
THEOREM ChatPanelsFollow == DeskSpec => []ChatPanelsAreCurrent
<1> DEFINE I == (part = "skeds" => SkInv) /\ (part = "feed" => FdInv)
<1>1. DeskInit => I
  BY SkedAssumption, FeedAssumption, SkStarts, FdStarts DEF DeskInit, SkedsInit
<1>2. I /\ [DeskNext]_deskVars => I'
  <2> SUFFICES ASSUME I, [DeskNext]_deskVars
               PROVE  (part' = "skeds" => SkInv') /\ (part' = "feed" => FdInv')
    OBVIOUS
  <2>1. ASSUME part' = "skeds"
        PROVE  SkInv'
    BY <2>1, SkedAssumption, DeskPartsMoveAlone, SkStep
  <2>2. ASSUME part' = "feed"
        PROVE  FdInv'
    BY <2>2, FeedAssumption, DeskPartsMoveAlone, FdStep
  <2> QED
    BY <2>1, <2>2
<1>3. I => ChatPanelsAreCurrent
  BY SkShows, FdShows DEF ChatPanelsAreCurrent
<1> QED
  BY <1>1, <1>2, <1>3, PTL DEF DeskSpec

\* The entry row's pill is the log's answer, and no column, cell or editor of
\* the panel tells of another row, in every behaviour of theirs
\* (UnifiedLogWidget::setDupeState, applyEntryRowWidths, fitColumnsToViewport).
THEOREM LogRowsAreTrue == DeskSpec => []RowsAreTrue
<1> DEFINE I == (part = "entry" => ErInv) /\ (part = "table" => LtInv)
<1>1. DeskInit => I
  BY EntryAssumption, LogTableAssumption, ErStarts, LtStarts DEF DeskInit, EntryInit, TableInit
<1>2. I /\ [DeskNext]_deskVars => I'
  <2> SUFFICES ASSUME I, [DeskNext]_deskVars
               PROVE  (part' = "entry" => ErInv') /\ (part' = "table" => LtInv')
    OBVIOUS
  <2>1. ASSUME part' = "entry"
        PROVE  ErInv'
    BY <2>1, EntryAssumption, DeskPartsMoveAlone, ErStep
  <2>2. ASSUME part' = "table"
        PROVE  LtInv'
    BY <2>2, LogTableAssumption, DeskPartsMoveAlone, LtStep
  <2> QED
    BY <2>1, <2>2
<1>3. I => RowsAreTrue
  BY LogTableAssumption, LtShows DEF ErInv, RowsAreTrue
<1> QED
  BY <1>1, <1>2, <1>3, PTL DEF DeskSpec

\* What a log has brought is the same in every panel and file, and the head of
\* a band's file claims what its lines add up to, in every behaviour of the
\* results (computeContestScore, computeContestStatistics, EdiExporter).
THEOREM LogResultIsOne == DeskSpec => []LogHasOneResult
<1> DEFINE I == part = "results" => ResInv
<1>1. DeskInit => I
  BY ResultsAssumption, ResStarts DEF DeskInit
<1>2. I /\ [DeskNext]_deskVars => I'
  <2> SUFFICES ASSUME I, [DeskNext]_deskVars, part' = "results"
               PROVE  ResInv'
    OBVIOUS
  <2> QED
    BY ResultsAssumption, DeskPartsMoveAlone, ResStep
<1>3. I => LogHasOneResult
  BY ResultsAssumption, ClaimsAreRight, ResultIsOne DEF LogHasOneResult
<1> QED
  BY <1>1, <1>2, <1>3, PTL DEF DeskSpec

\* Nothing scores zero unreported, and no more numbers are blamed than need be,
\* in every behaviour of the check (checkLog).
THEOREM LogCheckHolds == DeskSpec => []LogCheckIsRight
<1> DEFINE I == part = "check" => ChkInv
<1>1. DeskInit => I
  BY LogCheckAssumption, ChkStarts DEF DeskInit
<1>2. I /\ [DeskNext]_deskVars => I'
  <2> SUFFICES ASSUME I, [DeskNext]_deskVars, part' = "check"
               PROVE  ChkInv'
    OBVIOUS
  <2> QED
    BY LogCheckAssumption, DeskPartsMoveAlone, ChkStep
<1>3. I => LogCheckIsRight
  BY LogCheckAssumption, NothingIsSilent, FewestAreBlamed DEF LogCheckIsRight
<1> QED
  BY <1>1, <1>2, <1>3, PTL DEF DeskSpec

\* A contest that runs by its rules is known to the clock and the picker, and the
\* log check and the EDI file go by its period, in every behaviour of the
\* calendar (ContestSchedule).
THEOREM CalendarIsRight == DeskSpec => []CalendarKnowsTheContest
<1> DEFINE I == part = "calendar" => CalInv
<1>1. DeskInit => I
  BY CalendarAssumption, CalStarts DEF DeskInit, CalendarInit
<1>2. I /\ [DeskNext]_deskVars => I'
  <2> SUFFICES ASSUME I, [DeskNext]_deskVars, part' = "calendar"
               PROVE  CalInv'
    OBVIOUS
  <2> QED
    BY CalendarAssumption, DeskPartsMoveAlone, CalStep
<1>3. I => CalendarKnowsTheContest
  BY CalendarAssumption, OrdinaryContests, RunningIsKnown DEF CalendarKnowsTheContest
<1> QED
  BY <1>1, <1>2, <1>3, PTL DEF DeskSpec

\* Every part has its types, in every behaviour that looks at it.
THEOREM DeskLogTyped == DeskSpec => []DeskTypeOK
<1> DEFINE I == /\ part \in Parts
                /\ part = "entry" => ErInv
                /\ part = "table" => LtInv
                /\ part = "results" => ResInv
                /\ part = "check" => ChkInv
                /\ part = "calendar" => CalInv
                /\ part = "skeds" => SkInv
                /\ part = "feed" => FeedTyped(fd)
<1>1. DeskInit => I
  <2> SUFFICES ASSUME DeskInit PROVE I
    OBVIOUS
  <2>1. part = "entry" => ErInv
    BY EntryAssumption, ErStarts DEF DeskInit, EntryInit
  <2>2. part = "table" => LtInv
    BY LogTableAssumption, LtStarts DEF DeskInit, TableInit
  <2>3. part = "results" => ResInv
    BY ResultsAssumption, ResStarts DEF DeskInit
  <2>4. part = "check" => ChkInv
    BY LogCheckAssumption, ChkStarts DEF DeskInit
  <2>5. part = "calendar" => CalInv
    BY CalendarAssumption, CalStarts DEF DeskInit, CalendarInit
  <2>6. part = "skeds" => SkInv
    BY SkedAssumption, SkStarts DEF DeskInit, SkedsInit
  <2>7. part = "feed" => FeedTyped(fd)
    BY FeedAssumption, FdTypedStarts DEF DeskInit
  <2> QED
    BY <2>1, <2>2, <2>3, <2>4, <2>5, <2>6, <2>7 DEF DeskInit
<1>2. I /\ [DeskNext]_deskVars => I'
  <2> SUFFICES ASSUME I, [DeskNext]_deskVars PROVE I'
    OBVIOUS
  <2>0. part' = part
    BY DeskPartsMoveAlone
  <2>1. part = "entry" => ErInv'
    BY EntryAssumption, DeskPartsMoveAlone, ErStep
  <2>2. part = "table" => LtInv'
    BY LogTableAssumption, DeskPartsMoveAlone, LtStep
  <2>3. part = "results" => ResInv'
    BY ResultsAssumption, DeskPartsMoveAlone, ResStep
  <2>4. part = "check" => ChkInv'
    BY LogCheckAssumption, DeskPartsMoveAlone, ChkStep
  <2>5. part = "calendar" => CalInv'
    BY CalendarAssumption, DeskPartsMoveAlone, CalStep
  <2>6. part = "skeds" => SkInv'
    BY SkedAssumption, DeskPartsMoveAlone, SkStep
  <2>7. part = "feed" => FeedTyped(fd')
    BY FeedAssumption, DeskPartsMoveAlone, FdTypedStep
  <2> QED
    BY <2>0, <2>1, <2>2, <2>3, <2>4, <2>5, <2>6, <2>7
<1>3. I => DeskTypeOK
  <2> SUFFICES ASSUME I PROVE DeskTypeOK
    OBVIOUS
  <2>1. part = "entry" => ErTypeOK
    BY DEF ErInv
  <2>2. part = "table" => LtTypeOK
    BY LogTableAssumption, LtTyped
  <2>3. part = "results" => ResTypeOK
    BY ResultsAssumption, ResShows
  <2>4. part = "check" => ChkTypeOK
    BY LogCheckAssumption, ChkTyped
  <2>5. part = "calendar" => CalTypeOK
    BY DEF CalInv
  <2>6. part = "skeds" => SkedTypeOK
    BY SkTyped
  <2>7. part = "feed" => FeedTypeOK
    BY FdTypes
  <2> QED
    BY <2>1, <2>2, <2>3, <2>4, <2>5, <2>6, <2>7 DEF DeskTypeOK
<1> QED
  BY <1>1, <1>2, <1>3, PTL DEF DeskSpec
=================================================================================
