------------------------------- MODULE RuleBook -------------------------------
(***************************************************************************)
(* The rules of the contests: data/ContestDefinition, the files shipped     *)
(* with the program and those the operator saves over them, the editor     *)
(* (ui/ContestRulesEditor), the picker and what a change reaches in the     *)
(* main window.  A definition is reduced to what decides something:         *)
(* whether it has a VHF band, admits every mode, counts kilometres, which   *)
(* exchange fields it has, whether it has a schedule and whether it is the  *)
(* everyday log.                                                            *)
(***************************************************************************)
EXTENDS Integers, Sequences, FiniteSets, SequencesExt

CONSTANTS
    RbShipped,      \* the shipped files in the order of their names: a sequence of definitions
    RbOwnIds,       \* ids of contests the operator may invent
    RbFields,       \* exchange fields the editor may add or remove
    RbMaxFaults,    \* bound: writes that break off, lost databases
    RbMaxEdits      \* bound: dialogs opened

\* A shipped contest that counts kilometres asks for what they are made from
\* (resources/contest_definitions).
RuleBookAssumption ==
    /\ RbShipped # <<>> /\ RbShipped \in Seq({RbShipped[i] : i \in DOMAIN RbShipped})
    /\ \A i \in DOMAIN RbShipped : LET d == RbShipped[i] IN
          /\ d = [id |-> d.id, vhf |-> d.vhf, allModes |-> d.allModes, distance |-> d.distance, fields |-> d.fields,
                  schedule |-> d.schedule, everyday |-> d.everyday]
          /\ {d.vhf, d.allModes, d.distance, d.schedule, d.everyday} \subseteq BOOLEAN
          /\ d.id \notin RbOwnIds
          /\ d.distance => {"grid", "serial"} \subseteq d.fields
    /\ IsFiniteSet(RbOwnIds) /\ RbMaxFaults \in Nat /\ RbMaxEdits \in Nat
ASSUME RuleBookAssumption

VARIABLES
    rbOwn,        \* the override files: id -> definition, NoFile, or Broken
    rbKnown,      \* m_availableContestDefinitions
    rbActive,     \* activeContestId
    rbEditor,     \* the open editor, or Shut
    rbShown,      \* the contest whose QSOs the log table shows
    rbTorn,       \* ids whose file a write has broken (history)
    rbFaults, rbEdits

rbVars == <<rbOwn, rbKnown, rbActive, rbEditor, rbShown, rbTorn, rbFaults, rbEdits>>

NoFile == [kind |-> "none"]
Broken == [kind |-> "broken"]
Saved(def) == [kind |-> "rules", def |-> def]
Shut == [open |-> FALSE]

ShippedIds == {RbShipped[i].id : i \in DOMAIN RbShipped}
RuleIds == ShippedIds \cup RbOwnIds

-----------------------------------------------------------------------------
(* Definitions and their files *)

\* What loadFromFile() makes of what saveToFile() wrote: everyday_log is not among the keys.
WrittenBack(def) == [def EXCEPT !.everyday = FALSE]

\* validateRules(): a band, a field, and for kilometres a locator and a number.
ValidateRules(def) ==
    /\ def.vhf
    /\ def.fields # {}
    /\ def.distance => {"grid", "serial"} \subseteq def.fields

\* loadAvailableContestDefinitions(): the shipped ones, each replaced by its override
\* when that can be read, then the operator's own in the order of their names.
LoadAvailable(own) ==
    LET shipped == [i \in DOMAIN RbShipped |->
                       IF own[RbShipped[i].id].kind = "rules" THEN own[RbShipped[i].id].def ELSE RbShipped[i]]
        invented == SetToSeq({own[i].def : i \in {j \in RbOwnIds : own[j].kind = "rules"}})
    IN shipped \o invented

FindDefinition(known, id) == {d \in ToSet(known) : d.id = id}

\* openDatabase() on a fresh file: the first VHF contest with every mode that is no everyday log.
FirstChoice(known) ==
    LET fits == {i \in DOMAIN known : known[i].vhf /\ known[i].allModes /\ ~known[i].everyday}
    IN IF fits = {} THEN known[1].id ELSE known[CHOOSE i \in fits : \A j \in fits : i <= j].id

-----------------------------------------------------------------------------
(* The editor *)

\* loadRulesIntoForm() of the chosen definition.
FormOf(list, at) == [open |-> TRUE, list |-> list, at |-> at, form |-> list[at]]

\* The contest the editor opens with: the active one, else the first of the list.
Preselected(known) ==
    IF \E i \in DOMAIN known : known[i].id = rbActive
    THEN CHOOSE i \in DOMAIN known : known[i].id = rbActive ELSE 1

OpenRulesEditor ==
    /\ ~rbEditor.open /\ rbEdits < RbMaxEdits
    /\ rbEditor' = FormOf(rbKnown, Preselected(rbKnown))
    /\ rbEdits' = rbEdits + 1
    /\ UNCHANGED <<rbOwn, rbKnown, rbActive, rbShown, rbTorn, rbFaults>>

SelectRules(at) ==
    /\ at # rbEditor.at
    /\ rbEditor' = FormOf(rbEditor.list, at)
    /\ UNCHANGED <<rbOwn, rbKnown, rbActive, rbShown, rbTorn, rbFaults, rbEdits>>

\* createDraftContest(): the rules of the chosen contest without its schedule, under an id
\* no contest of the list has; rules without fields or bands get the plain ones.
CreateDraft(id) ==
    /\ id \notin {d.id : d \in ToSet(rbEditor.list)}
    /\ LET chosen == rbEditor.list[rbEditor.at]
           draft == [chosen EXCEPT !.id = id, !.schedule = FALSE, !.everyday = FALSE, !.vhf = TRUE,
                        !.fields = IF chosen.fields = {} THEN {"serial", "grid"} ELSE chosen.fields]
           list == Append(rbEditor.list, draft)
       IN /\ ValidateRules(draft)
          /\ rbEditor' = FormOf(list, Len(list))
    /\ UNCHANGED <<rbOwn, rbKnown, rbActive, rbShown, rbTorn, rbFaults, rbEdits>>

ToggleField(field) ==
    /\ rbEditor' = [rbEditor EXCEPT !.form.fields = IF field \in @ THEN @ \ {field} ELSE @ \cup {field}]
    /\ UNCHANGED <<rbOwn, rbKnown, rbActive, rbShown, rbTorn, rbFaults, rbEdits>>

ToggleScoring ==
    /\ rbEditor' = [rbEditor EXCEPT !.form.distance = ~@]
    /\ UNCHANGED <<rbOwn, rbKnown, rbActive, rbShown, rbTorn, rbFaults, rbEdits>>

CancelEditor ==
    /\ rbEditor' = Shut
    /\ UNCHANGED <<rbOwn, rbKnown, rbActive, rbShown, rbTorn, rbFaults, rbEdits>>

\* Mutant: the contest that was taken away stays the active one.
AfterDelete_Keeps(id, known) == rbActive
\* The editor took a contest away: when it is the active one and gone, the first of the list.
AfterDelete(id, known) ==
    IF rbActive = id /\ FindDefinition(known, id) = {} THEN known[1].id ELSE rbActive
\* The editor saved a contest: it becomes the active one.
AfterSave(id, known) == IF FindDefinition(known, id) # {} THEN id ELSE rbActive

\* onSave() and the rest of openContestRulesEditor().  A write that breaks off leaves half a file
\* and the editor open.  The log table is not read again for the contest that is active now.
SaveRules ==
    LET def == [rbEditor.form EXCEPT !.id = rbEditor.list[rbEditor.at].id] IN
    /\ ValidateRules(def)
    /\ \/ /\ rbOwn' = [rbOwn EXCEPT ![def.id] = Saved(WrittenBack(def))]
          /\ rbKnown' = LoadAvailable(rbOwn')
          /\ rbActive' = AfterSave(def.id, rbKnown')
          /\ rbEditor' = Shut
          /\ rbTorn' = rbTorn \ {def.id}
          /\ UNCHANGED rbFaults
       \/ /\ rbFaults < RbMaxFaults
          /\ rbOwn' = [rbOwn EXCEPT ![def.id] = Broken]
          /\ rbTorn' = rbTorn \cup {def.id}
          /\ rbFaults' = rbFaults + 1
          /\ UNCHANGED <<rbKnown, rbActive, rbEditor>>
    /\ UNCHANGED <<rbShown, rbEdits>>

\* onResetToShipped()
ResetRules ==
    LET id == rbEditor.list[rbEditor.at].id IN
    /\ rbOwn[id] # NoFile
    /\ rbOwn' = [rbOwn EXCEPT ![id] = NoFile]
    /\ rbKnown' = LoadAvailable(rbOwn')
    /\ rbActive' = AfterDelete(id, rbKnown')
    /\ rbEditor' = Shut
    /\ UNCHANGED <<rbShown, rbTorn, rbFaults, rbEdits>>

-----------------------------------------------------------------------------
(* The picker, restarts, a new database *)

\* openContestPicker(), and the contest of openSettingsDialog(): the table is read again.
PickContest(at) ==
    /\ ~rbEditor.open
    /\ rbKnown[at].id # rbActive
    /\ rbActive' = rbKnown[at].id
    /\ rbShown' = rbActive'
    /\ UNCHANGED <<rbOwn, rbKnown, rbEditor, rbTorn, rbFaults, rbEdits>>

\* A start: the files are read, the table shows the stored contest.
RestartRules ==
    /\ rbKnown' = LoadAvailable(rbOwn)
    /\ rbShown' = rbActive
    /\ rbEditor' = Shut
    /\ UNCHANGED <<rbOwn, rbActive, rbTorn, rbFaults, rbEdits>>

\* A start with a new database: no contest is stored.
StartAfresh ==
    /\ rbFaults < RbMaxFaults
    /\ rbFaults' = rbFaults + 1
    /\ rbKnown' = LoadAvailable(rbOwn)
    /\ rbActive' = FirstChoice(rbKnown')
    /\ rbShown' = rbActive'
    /\ rbEditor' = Shut
    /\ UNCHANGED <<rbOwn, rbTorn, rbEdits>>

RbInit ==
    /\ rbOwn = [i \in RuleIds |-> NoFile]
    /\ rbKnown = LoadAvailable([i \in RuleIds |-> NoFile])
    /\ rbActive = FirstChoice(rbKnown) /\ rbShown = rbActive
    /\ rbEditor = Shut /\ rbTorn = {} /\ rbFaults = 0 /\ rbEdits = 0

EditorStep ==
    /\ rbEditor.open
    /\ \/ \E at \in DOMAIN rbEditor.list : SelectRules(at)
       \/ \E id \in RbOwnIds : CreateDraft(id)
       \/ \E f \in RbFields : ToggleField(f)
       \/ ToggleScoring \/ CancelEditor \/ SaveRules \/ ResetRules

RbNext ==
    \/ OpenRulesEditor \/ EditorStep
    \/ \E at \in DOMAIN rbKnown : PickContest(at)
    \/ RestartRules \/ StartAfresh

RbSpec == RbInit /\ [][RbNext]_rbVars

-----------------------------------------------------------------------------
(* Properties *)

\* Every part of the state has the shape the code gives it.
RbTypeOK ==
    /\ DOMAIN rbOwn = RuleIds /\ \A i \in RuleIds : rbOwn[i].kind \in {"none", "broken", "rules"}
    /\ \A i \in DOMAIN rbKnown : rbKnown[i].id \in RuleIds
    /\ rbActive \in RuleIds /\ rbShown \in RuleIds /\ rbTorn \subseteq RuleIds
    /\ rbEditor.open => rbEditor.at \in DOMAIN rbEditor.list

\* Whatever the editor saves, drops or adds, the active contest has rules, unless a write broke its
\* file; and a contest that counts kilometres asks for the locator and the number they are made from.
RulesStayUsable ==
    /\ rbActive \in rbTorn \/ FindDefinition(rbKnown, rbActive) # {}
    /\ \A i \in DOMAIN rbKnown : rbKnown[i].distance => {"grid", "serial"} \subseteq rbKnown[i].fields

\* The log table shows the log of the contest in which QSOs are entered.
TableShowsActiveContest == rbShown = rbActive

\* A start with a new database begins in a contest, not in the everyday log.
FreshStartIsAContest == [][StartAfresh => \A i \in DOMAIN RbShipped : rbActive' = RbShipped[i].id => ~RbShipped[i].everyday]_rbVars
===============================================================================
