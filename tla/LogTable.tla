------------------------------- MODULE LogTable -------------------------------
(***************************************************************************)
(* The log panel, ui/UnifiedLogWidget: a table of columns that is fitted   *)
(* to the panel, the entry row laid under it cell by cell, the keys that   *)
(* move through the entry row, and the correction of a logged QSO in its   *)
(* cell.  Row heights, colours and the status column's own width are left  *)
(* out; a received exchange is the set of the kinds of field it holds.     *)
(***************************************************************************)
EXTENDS Integers, Sequences, FiniteSets, FiniteSetsExt, SequencesExt

CONSTANTS
    LtWidths,      \* widths of the table's viewport
    LtFirstWidth,  \* its placeholder before the first layout
    LtContests,    \* contests: [fields |-> kinds in order, bands |-> several?]
    LtMaxRows,     \* bound: QSOs in the log
    LtMaxEdits     \* bound: cells opened

\* The fields of every contest in resources/contest_definitions: the report
\* first, at most two more, none of one kind with another.
FieldKinds == {"rst", "int", "grid6", "cqzone", "text"}
LogTableAssumption ==
    /\ LtWidths # {} /\ \A w \in LtWidths : w \in Nat /\ w >= 200
    /\ LtFirstWidth \in 0..199
    /\ \A c \in LtContests :
          /\ c.fields \in Seq(FieldKinds) /\ Len(c.fields) \in 1..3 /\ c.fields[1] = "rst"
          /\ \A i, j \in 1..Len(c.fields) : c.fields[i] = c.fields[j] => i = j
          /\ c.bands \in BOOLEAN
    /\ LtMaxRows \in Nat /\ LtMaxEdits \in Nat
ASSUME LogTableAssumption

VARIABLES
    ltContest,   \* the active contest
    ltSaved,     \* ContestSettings: [dx, number]
    ltTable,     \* table and entry row: [want, width, hidden, gave, widths, cells, built, queued]
    ltLog,       \* rows of the table: kinds of field received
    ltFocus,     \* [where, row, col]: an entry field or a cell
    ltDraft,     \* what stands in the open cell editor
    ltEdits

ltVars == <<ltContest, ltSaved, ltTable, ltLog, ltFocus, ltDraft, ltEdits>>

-----------------------------------------------------------------------------
(* The columns                                                             *)

ColumnWidths ==
    [serial |-> 55, time |-> 70, call |-> 115, exchSent |-> 130, exchRcvd |-> 175, km |-> 75, deg |-> 60,
     status |-> 90, band |-> 60, rstSent |-> 55, serialSent |-> 55, rstRcvd |-> 55, serialGrid |-> 130]
MinColumnWidths ==
    [serial |-> 44, time |-> 62, call |-> 90, exchSent |-> 126, exchRcvd |-> 140, km |-> 60, deg |-> 44,
     status |-> 90, band |-> 48, rstSent |-> 42, serialSent |-> 44, rstRcvd |-> 42, serialGrid |-> 128]
Columns == DOMAIN ColumnWidths
GiveWayOrder == <<"deg", "exchSent">>

\* setViewMode(): the order the columns stand in, left to right.
VisualOrder(dx) ==
    IF dx THEN <<"serial", "band", "time", "call", "rstSent", "serialSent", "rstRcvd", "serialGrid",
                 "km", "deg", "status", "exchSent", "exchRcvd">>
    ELSE <<"serial", "band", "time", "call", "exchSent", "rstRcvd", "serialGrid", "km", "deg", "status",
           "rstSent", "serialSent", "exchRcvd">>

\* columnWantedByViewMode().
WantedColumns(want) ==
    {col \in Columns :
        CASE col = "serial" -> want.number
          [] col \in {"rstSent", "serialSent"} -> want.dx
          [] col = "band" -> want.dx \/ want.bands
          [] col = "exchSent" -> ~want.dx
          [] col = "exchRcvd" -> FALSE
          [] col \in {"km", "deg"} -> want.distance
          [] OTHER -> TRUE}

TotalWidth(cols, widths) ==
    LET w(col) == IF col \in cols THEN widths[col] ELSE 0
    IN  w("serial") + w("time") + w("call") + w("exchSent") + w("exchRcvd") + w("km") + w("deg") + w("status")
        + w("band") + w("rstSent") + w("serialSent") + w("rstRcvd") + w("serialGrid")
Available(width) == width - ColumnWidths["status"]

\* The columns that give way: none while the floors fit, then one more at
\* a time.
GivenWay(want, width) ==
    LET first(n) == {GiveWayOrder[i] : i \in 1..n}
        grid == WantedColumns(want) \ {"status"}
        fits(n) == TotalWidth(grid \ first(n), MinColumnWidths) <= Available(width)
    IN  WantedColumns(want) \cap first(Min({n \in 0..Len(GiveWayOrder) : fits(n) \/ n = Len(GiveWayOrder)}))

\* Every column shrinks by one factor, to 0.8 at most, down to its floor.
Scaled(cols, width) ==
    LET natural == TotalWidth(cols, ColumnWidths)
        room == Available(width)
        round(w) == IF room >= natural THEN w
                    ELSE IF 10 * room >= 8 * natural THEN (2 * w * room + natural) \div (2 * natural)
                    ELSE (8 * w + 5) \div 10
    IN  [col \in Columns |->
            IF col \in cols THEN LET w == round(ColumnWidths[col])
                                 IN  IF w < MinColumnWidths[col] THEN MinColumnWidths[col] ELSE w
            ELSE ColumnWidths[col]]

\* One px comes off a column with the most room above its floor.
Slimmer(widths, cols) ==
    LET slack(col) == widths[col] - MinColumnWidths[col]
        widest == CHOOSE col \in cols : \A other \in cols : slack(other) <= slack(col)
    IN  [widths EXCEPT ![widest] = @ - 1]

\* A few px of overhang come off, one at a time, as long as there is room.
Trimmed(widths, cols, width) ==
    LET overhang == TotalWidth(cols, widths) - Available(width)
        room == TotalWidth(cols, widths) - TotalWidth(cols, MinColumnWidths)
        after[n \in 0..room] == IF n = 0 THEN widths ELSE Slimmer(after[n - 1], cols)
    IN  IF overhang <= 0 \/ TotalWidth(cols, ColumnWidths) <= Available(width) THEN widths
        ELSE after[Min({overhang, room})]

\* fitColumnsToViewport(), for a table t.
Fitted(t, width) ==
    IF width < 200 THEN t
    ELSE LET gave == GivenWay(t.want, width)
             shown == WantedColumns(t.want) \ gave
             grid == shown \ {"status"}
         IN  [t EXCEPT !.gave = gave, !.hidden = Columns \ shown,
                       !.widths = Trimmed(Scaled(grid, width), grid, width)]

-----------------------------------------------------------------------------
(* The entry row                                                           *)

LeftOf(t, col) ==
    LET order == VisualOrder(t.want.dx)
        place == CHOOSE i \in 1..Len(order) : order[i] = col
    IN  TotalWidth({order[i] : i \in 1..(place - 1)} \ t.hidden, t.widths)
GroupWidth(t) == t.widths["rstRcvd"] + t.widths["serialGrid"]

\* applyEntryRowWidths(): distances between columns for the cells before
\* the callsign, widths for the others; a second look is queued.
MaxResyncRounds == 3
Relaid(t) ==
    [t EXCEPT
        !.cells =
            [serial |-> IF t.built.serial /\ "serial" \notin t.hidden
                        THEN LeftOf(t, "band") - LeftOf(t, "serial") ELSE 0,
             band |-> IF t.built.band THEN LeftOf(t, "time") - LeftOf(t, "band") ELSE 0,
             time |-> LeftOf(t, "call") - LeftOf(t, "time"),
             call |-> t.widths["call"],
             sent |-> IF t.want.dx THEN t.widths["rstSent"] + t.widths["serialSent"]
                      ELSE IF "exchSent" \in t.hidden THEN 0 ELSE t.widths["exchSent"],
             rcvd |-> GroupWidth(t),
             km |-> t.widths["km"],
             deg |-> IF "deg" \in t.hidden THEN 0 ELSE t.widths["deg"]],
        !.queued = IF @ = 0 THEN 1 ELSE @]

\* rebuildEntryRowLayout(): which cells there are.
Rebuilt(t) ==
    [t EXCEPT !.built = [serial |-> "serial" \notin t.hidden, band |-> t.want.dx \/ t.want.bands]]

\* setViewMode(); every tick of the radio comes through here.
ViewModeSet(t, dx, rebuild) ==
    LET asked == [t.want EXCEPT !.dx = dx]
        touched == Columns \ {"km", "deg", "time", "call", "status"}
        shown == Fitted([t EXCEPT !.want = asked,
                                  !.hidden = (@ \ touched) \cup (touched \ WantedColumns(asked))], t.width)
    IN  Relaid(IF rebuild \/ dx # t.want.dx THEN Rebuilt(shown) ELSE shown)

\* setRunningNumberVisible().
RunningNumberSet_KeepsTheRow(t, visible) ==
    IF visible = t.want.number THEN t
    ELSE Relaid(Fitted(ViewModeSet([t EXCEPT !.want.number = visible], t.want.dx, FALSE), t.width))
RunningNumberSet(t, visible) ==
    IF visible = t.want.number THEN t
    ELSE Relaid(Fitted(ViewModeSet([t EXCEPT !.want.number = visible], t.want.dx, TRUE), t.width))

\* updateStatusBar().
StatusBarUpdated(t, saved) == ViewModeSet(RunningNumberSet(t, saved.number), saved.dx, FALSE)

\* setExchangeFields() and setContestBandCount().
DistanceColumnsSet(t, wanted) ==
    IF wanted = t.want.distance THEN t
    ELSE Fitted([t EXCEPT !.want.distance = wanted,
                          !.hidden = IF wanted THEN @ \ {"km", "deg"} ELSE @ \cup {"km", "deg"}], t.width)
BandColumnSet(t, wanted) ==
    IF wanted = t.want.bands THEN t
    ELSE LET u == Rebuilt([t EXCEPT !.want.bands = wanted])
         IN  Fitted([u EXCEPT !.hidden = IF wanted \/ u.want.dx THEN @ \ {"band"} ELSE @ \cup {"band"}], t.width)
HasGrid(contest) == \E i \in 1..Len(contest.fields) : contest.fields[i] = "grid6"
ContestSet(t, contest, saved) ==
    StatusBarUpdated(BandColumnSet(DistanceColumnsSet(t, HasGrid(contest)), contest.bands), saved)

\* exchangeFieldWidths(): the last field takes what rounding leaves.
LeastFieldWidth(kind) == CASE kind = "grid6" -> 74 [] kind = "rst" -> 46 [] OTHER -> 50
Across(cells) ==
    LET upTo[i \in 0..Len(cells)] == IF i = 0 THEN 0 ELSE upTo[i - 1] + cells[i] IN upTo[Len(cells)]
FieldWidths(fields, group) ==
    LET n == Len(fields)
        least == Across([i \in 1..n |-> LeastFieldWidth(fields[i])])
        scaled(kind) == IF group <= least THEN LeastFieldWidth(kind)
                        ELSE (2 * LeastFieldWidth(kind) * group + least) \div (2 * least)
        atLeast(w) == IF w < 36 THEN 36 ELSE w
        before == [i \in 1..(n - 1) |-> atLeast(scaled(fields[i]))]
    IN  [i \in 1..n |-> IF i < n THEN before[i] ELSE atLeast(group - Across(before))]

-----------------------------------------------------------------------------
(* The panel changes                                                       *)

EntryField(i) == [where |-> "field", row |-> 0, col |-> IF i = 0 THEN "call" ELSE ltContest.fields[i]]
Callsign == [where |-> "field", row |-> 0, col |-> "call"]
Elsewhere == [where |-> "none", row |-> 0, col |-> "call"]

\* Only the viewport's width is new; a row that need not be laid again stays.
ResizeLog ==
    /\ \E width \in LtWidths \ {ltTable.width} :
          LET t == Fitted([ltTable EXCEPT !.width = width], width)
          IN  ltTable' = IF t.gave # ltTable.gave \/ t.widths # ltTable.widths THEN Relaid(t) ELSE t
    /\ UNCHANGED <<ltContest, ltSaved, ltLog, ltFocus, ltDraft, ltEdits>>

ResyncRow ==
    /\ ltTable.queued > 0
    /\ LET round == ltTable.queued
           t == Relaid(Fitted([ltTable EXCEPT !.queued = 0], ltTable.width))
       IN  ltTable' = [t EXCEPT !.queued = IF round < MaxResyncRounds THEN round + 1 ELSE 0]
    /\ UNCHANGED <<ltContest, ltSaved, ltLog, ltFocus, ltDraft, ltEdits>>

RadioTicks ==
    /\ ltTable' = StatusBarUpdated(ltTable, ltSaved)
    /\ UNCHANGED <<ltContest, ltSaved, ltLog, ltFocus, ltDraft, ltEdits>>

\* showLogViewOptionsPopup().
ChooseViewMode ==
    /\ \E dx \in BOOLEAN :
          /\ ltSaved' = [ltSaved EXCEPT !.dx = dx]
          /\ ltTable' = StatusBarUpdated(ViewModeSet(ltTable, dx, FALSE), ltSaved')
    /\ UNCHANGED <<ltContest, ltLog, ltFocus, ltDraft, ltEdits>>
ToggleRunningNumber ==
    /\ ltSaved' = [ltSaved EXCEPT !.number = ~@]
    /\ ltTable' = RunningNumberSet(ltTable, ltSaved'.number)
    /\ UNCHANGED <<ltContest, ltLog, ltFocus, ltDraft, ltEdits>>

\* openContestPicker(): another log stands in the table, the fields are new.
PickLogContest ==
    /\ \E contest \in LtContests \ {ltContest} :
          /\ ltContest' = contest
          /\ ltTable' = ContestSet(ltTable, contest, ltSaved)
    /\ ltLog' = <<>> /\ ltDraft' = {}
    /\ ltFocus' = Callsign
    /\ UNCHANGED <<ltSaved, ltEdits>>

-----------------------------------------------------------------------------
(* The keys of the entry row                                               *)

\* nextRelevantField() and nextFieldForTab(): RST is skipped.
Relevant == <<"call">> \o SelectSeq(ltContest.fields, LAMBDA kind : kind # "rst")
IsLastField == ltFocus.col = Last(Relevant)
NextField == [ltFocus EXCEPT !.col = Relevant[(CHOOSE i \in 1..Len(Relevant) : Relevant[i] = ltFocus.col) + 1]]
IsInRow == ltFocus.where = "field"

\* Space is typed in a free text, and eaten at the last field; Tab goes on as Qt
\* has it.
SpaceKey ==
    /\ IsInRow /\ ltFocus.col # "text"
    /\ ltFocus' = IF ltFocus.col = "rst" \/ IsLastField THEN ltFocus ELSE NextField
    /\ UNCHANGED <<ltContest, ltSaved, ltTable, ltLog, ltDraft, ltEdits>>
TabKey ==
    /\ IsInRow
    /\ ltFocus' = IF ltFocus.col = "rst" \/ IsLastField THEN Elsewhere ELSE NextField
    /\ UNCHANGED <<ltContest, ltSaved, ltTable, ltLog, ltDraft, ltEdits>>
ClickField ==
    /\ ltFocus.where # "cell"
    /\ \E i \in 0..Len(ltContest.fields) : ltFocus' = EntryField(i)
    /\ UNCHANGED <<ltContest, ltSaved, ltTable, ltLog, ltDraft, ltEdits>>

\* Enter logs from any field; the received fields are filled or not.
LogFromRow ==
    /\ IsInRow /\ Len(ltLog) < LtMaxRows
    /\ \E kinds \in SUBSET {ltContest.fields[i] : i \in 1..Len(ltContest.fields)} :
          "rst" \in kinds /\ ltLog' = Append(ltLog, kinds)
    /\ ltFocus' = Callsign
    /\ UNCHANGED <<ltContest, ltSaved, ltTable, ltDraft, ltEdits>>

-----------------------------------------------------------------------------
(* Correcting a cell                                                       *)

\* UnifiedFeedModel::flags().
Correctable == {"call", "time", "serialGrid"}
CellAt(row, col) == [where |-> "cell", row |-> row, col |-> col]
\* serialGridRcvdText(): what the editor is filled with.
CellText(row) == IF row \cap {"int", "grid6"} # {} THEN row \cap {"int", "grid6"} ELSE row \ {"rst"}
DraftFor(log, cell) == IF cell.where = "cell" /\ cell.col = "serialGrid" THEN CellText(log[cell.row]) ELSE {}

\* parseEditedExchange() and what handleHistoryExchangeRcvdEditRequested()
\* puts together again: the report, a number, a locator.
Corrected(row, text) ==
    (row \cap {"rst"}) \cup
    {kind \in text \cap {"int", "grid6"} : \E i \in 1..Len(ltContest.fields) : ltContest.fields[i] = kind}
Committed ==
    IF ltFocus.col = "serialGrid" THEN [ltLog EXCEPT ![ltFocus.row] = Corrected(@, ltDraft)] ELSE ltLog

\* editNextCorrectableCell(): through the visible columns as they stand.
CellOrder(cell) ==
    LET order == VisualOrder(ltTable.want.dx)
    IN  cell.row * Len(order) + CHOOSE i \in 1..Len(order) : order[i] = cell.col
OpenableCells == {CellAt(row, col) : row \in 1..Len(ltLog), col \in Correctable \ ltTable.hidden}
Onward(from, forward) ==
    LET ahead == {c \in OpenableCells : IF forward THEN CellOrder(c) > CellOrder(from) ELSE CellOrder(c) < CellOrder(from)}
    IN  IF ahead = {} THEN IF forward THEN Callsign ELSE from
        ELSE CHOOSE c \in ahead : \A d \in ahead : IF forward THEN CellOrder(c) <= CellOrder(d)
                                                   ELSE CellOrder(d) <= CellOrder(c)

IsCorrecting == ltFocus.where = "cell"
OpenCell ==
    /\ ~IsCorrecting /\ ltEdits < LtMaxEdits
    /\ \E cell \in OpenableCells : ltFocus' = cell /\ ltDraft' = DraftFor(ltLog, cell)
    /\ ltEdits' = ltEdits + 1
    /\ UNCHANGED <<ltContest, ltSaved, ltTable, ltLog>>
TypeInCell ==
    /\ IsCorrecting /\ ltFocus.col = "serialGrid"
    /\ ltDraft' \in SUBSET {"int", "grid6"}
    /\ UNCHANGED <<ltContest, ltSaved, ltTable, ltLog, ltFocus, ltEdits>>
CommitWithReturn ==
    /\ IsCorrecting
    /\ ltLog' = Committed
    /\ ltFocus' = Callsign /\ ltDraft' = {}
    /\ UNCHANGED <<ltContest, ltSaved, ltTable, ltEdits>>
CommitWithTab ==
    /\ IsCorrecting
    /\ ltLog' = Committed
    /\ \E forward \in BOOLEAN :
          LET next == Onward(ltFocus, forward) IN ltFocus' = next /\ ltDraft' = DraftFor(Committed, next)
    /\ UNCHANGED <<ltContest, ltSaved, ltTable, ltEdits>>
LeaveWithEscape ==
    /\ IsCorrecting
    /\ ltFocus' = Callsign /\ ltDraft' = {}
    /\ UNCHANGED <<ltContest, ltSaved, ltTable, ltLog, ltEdits>>

LtInit ==
    /\ ltContest \in LtContests /\ ltSaved \in [dx : BOOLEAN, number : BOOLEAN]
    /\ ltTable =
          LET bare == [want |-> [dx |-> FALSE, number |-> TRUE, distance |-> TRUE, bands |-> FALSE],
                       width |-> LtFirstWidth, hidden |-> {}, gave |-> {}, widths |-> ColumnWidths,
                       cells |-> [serial |-> 0, band |-> 0, time |-> 0, call |-> 0, sent |-> 0, rcvd |-> 0,
                                  km |-> 0, deg |-> 0],
                       built |-> [serial |-> FALSE, band |-> FALSE], queued |-> 0]
          IN  ContestSet(ViewModeSet(bare, FALSE, TRUE), ltContest, ltSaved)
    /\ ltLog = <<>> /\ ltDraft = {} /\ ltEdits = 0
    /\ ltFocus = Callsign

LtNext ==
    \/ ResizeLog \/ ResyncRow \/ RadioTicks \/ ChooseViewMode \/ ToggleRunningNumber \/ PickLogContest
    \/ SpaceKey \/ TabKey \/ ClickField \/ LogFromRow
    \/ OpenCell \/ TypeInCell \/ CommitWithReturn \/ CommitWithTab \/ LeaveWithEscape

LtSpec == LtInit /\ [][LtNext]_ltVars

-----------------------------------------------------------------------------
(* The properties                                                          *)

\* The members of UnifiedLogWidget have their shapes.
LtTypeOK ==
    /\ ltContest \in LtContests /\ ltSaved \in [dx : BOOLEAN, number : BOOLEAN]
    /\ ltTable.want \in [dx : BOOLEAN, number : BOOLEAN, distance : BOOLEAN, bands : BOOLEAN]
    /\ ltTable.width \in LtWidths \cup {LtFirstWidth} /\ ltTable.queued \in 0..MaxResyncRounds
    /\ ltTable.hidden \subseteq Columns /\ ltTable.gave \subseteq {"deg", "exchSent"}
    /\ \A col \in Columns : ltTable.widths[col] \in 1..ColumnWidths[col]
    /\ Len(ltLog) \in 0..LtMaxRows /\ ltEdits \in 0..LtMaxEdits

ShownColumns == Columns \ ltTable.hidden

LastGiven == GiveWayOrder[Max({i \in 1..Len(GiveWayOrder) : GiveWayOrder[i] \in ltTable.gave})]

\* A column is shown because it is asked for, none is narrower than its
\* text, the last to give way had no room left, and the grid ends
\* inside the panel unless even the floors do not fit.
ColumnsFit ==
    LET shown == ShownColumns \ {"status"}
    IN  ltTable.width >= 200 =>
            /\ ShownColumns = WantedColumns(ltTable.want) \ ltTable.gave
            /\ \A col \in shown : ltTable.widths[col] >= MinColumnWidths[col]
            /\ ltTable.gave # {} => TotalWidth(shown \cup {LastGiven}, MinColumnWidths) > Available(ltTable.width)
            /\ \/ TotalWidth(shown, ltTable.widths) <= Available(ltTable.width)
               \/ TotalWidth(shown, MinColumnWidths) > Available(ltTable.width)
                  /\ WantedColumns(ltTable.want) \cap {"deg", "exchSent"} = ltTable.gave

\* Every cell of the entry row starts where its column starts, up to the
\* received exchange, and the fields in it fill its cell exactly.
CellsLineUp ==
    LET t == ltTable
        c == t.cells
        before == [band |-> c.serial, time |-> c.serial + c.band, call |-> c.serial + c.band + c.time,
                   rstRcvd |-> c.serial + c.band + c.time + c.call + c.sent]
    IN  /\ \A col \in DOMAIN before : col \in ShownColumns => before[col] = LeftOf(t, col)
        /\ "km" \in ShownColumns => before["rstRcvd"] + c.rcvd = LeftOf(t, "km")
        /\ Across(FieldWidths(ltContest.fields, c.rcvd)) = c.rcvd

\* What is typed goes somewhere: an open editor stands on a correctable
\* cell of a row that is there.
EditorIsOnACell == IsCorrecting => ltFocus \in OpenableCells

\* The entry row and the table are one grid (applyEntryRowWidths(),
\* fitColumnsToViewport(), editNextCorrectableCell()), after every change of
\* the view, the contest and the width, with the queued second look or without.
LogPanelIsTrue == ColumnsFit /\ CellsLineUp /\ EditorIsOnACell

\* Opening a cell and leaving it as it was changes nothing in the log
\* (parseEditedExchange(): "Positional parsing lost data in the operator's
\* own log").
UntouchedRow ==
    IsCorrecting /\ (ltFocus.col # "serialGrid" \/ ltDraft = CellText(ltLog[ltFocus.row]))
        => ltLog' \in {ltLog, <<>>}
UntouchedStaysAsItWas == [][UntouchedRow]_ltVars
=============================================================================
