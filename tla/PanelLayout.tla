---------------------------- MODULE PanelLayout ----------------------------
(***************************************************************************)
(* Where the panels of the main window stand: ui/PanelLayoutManager keeps   *)
(* the place of each, ui/PanelContainerWidget is dragged, locked and made a *)
(* window of its own, ui/SideAreaWidget takes panels in as pages, and       *)
(* ui/LayoutProfileManager remembers all of it under a name.  One axis      *)
(* stands for both; the order of overlapping panels is left out.            *)
(***************************************************************************)
EXTENDS Integers, Sequences, FiniteSets, SequencesExt

CONSTANTS
    Panels,       \* panels
    PnCompact,    \* those with a place in the compact design
    PnNames,      \* bound: names of layout profiles
    PnMaxSteps    \* bound: what the operator does

NoPanel == 0

\* A panel from x to x + w; the large design needs the wide canvas.
Narrow == 2
Wide == 4
At(x, w) == [x |-> x, w |-> w]
NoRect == At(-1, 0)
OnScreen == At(10, 3)   \* in a window of its own
InStack == At(20, 2)    \* filling the side area
DefaultRect == At(1, 3)
CompactRect == At(0, 2)

PanelAssumption ==
    /\ Panels \subseteq Nat \ {NoPanel} /\ PnCompact \subseteq Panels /\ IsFiniteSet(Panels)
    /\ 1 \in PnNames /\ PnMaxSteps \in Nat
ASSUME PanelAssumption

VARIABLES
    panels,   \* the session, and what the database holds, see PnStart
    pnPut,    \* where a panel on the canvas was put (history; NoRect: no claim)
    pnSteps   \* steps of the operator

pnVars == <<panels, pnPut, pnSteps>>

-----------------------------------------------------------------------------
(* One panel *)

AllPanels == SetToSeq(Panels)
OnCanvas(s, p) == s.where[p] = "canvas"
Laid(s) == s.canvas > 0

\* trySetGeometry(); a geometry set while the panel is hidden is told when it
\* is shown, and what is told is what is wanted, see eventFilter().
TrySet(s, p, r) ==
    IF s.locked[p] THEN s ELSE [s EXCEPT !.rect[p] = r, !.desired[p] = r]
Placed(s, p, r) ==
    [s EXCEPT !.rect[p] = r, !.desired[p] = IF s.hidden[p] THEN @ ELSE r, !.pending[p] = @ \/ s.hidden[p]]
Made(s, p, shown) ==
    [s EXCEPT !.hidden[p] = ~shown, !.pending[p] = @ /\ ~shown,
              !.desired[p] = IF shown /\ s.pending[p] THEN s.rect[p] ELSE @]

\* clampPanelToCanvas(): from the wanted place, which it leaves alone.
Least(a, b) == IF a < b THEN a ELSE b
ClampedRect(r, canvas) ==
    LET w == Least(r.w, canvas) IN At(Least(IF r.x < 0 THEN 0 ELSE r.x, canvas - w), w)
Clamps(s, p) == Laid(s) /\ OnCanvas(s, p) /\ ~s.locked[p]
ClampPanel_Forgets(s, p) ==
    IF Clamps(s, p) THEN TrySet(s, p, ClampedRect(s.desired[p], s.canvas)) ELSE s
ClampPanel(s, p) ==
    LET r == ClampedRect(s.desired[p], s.canvas)
    IN IF Clamps(s, p) /\ r # s.rect[p]
       THEN [s EXCEPT !.rect[p] = r, !.pending[p] = @ \/ s.hidden[p]] ELSE s
ClampPanels(s) == FoldLeft(ClampPanel, s, AllPanels)

-----------------------------------------------------------------------------
(* What is kept *)

Row(s, p) == [shown |-> ~s.hidden[p], rect |-> s.rect[p]]
Snapshot(s) == [p \in Panels |-> Row(s, p)]
NoRow == [shown |-> FALSE, rect |-> NoRect]

\* saveActiveProfileState() takes every panel as it stands on the screen.
SaveProfile(s) == [s EXCEPT !.profiles[s.profile] = Snapshot(s)]

\* saveLayout(): the panel that was edited, and the active profile.
SavedPanel(s, p) ==
    IF s.where[p] = "window"
    THEN [rect |-> s.docked[p], locked |-> s.locked[p], window |-> s.rect[p]]
    ELSE [rect |-> s.rect[p], locked |-> s.locked[p], window |-> NoRect]
SaveLayout(s, p) == SaveProfile([s EXCEPT !.layout[p] = SavedPanel(s, p)])
SaveAll(s) == SaveProfile([s EXCEPT !.layout = [p \in Panels |-> SavedPanel(s, p)]])
SaveSideArea(s) ==
    [s EXCEPT !.kept = [pages |-> s.pages, active |-> s.active, collapsed |-> s.collapsed]]

\* applyState(): a panel the profile has no row for is hidden.
ApplyRow(s, p, row) ==
    IF row = NoRow THEN Made(s, p, FALSE)
    ELSE Made(IF row.shown THEN TrySet(s, p, row.rect) ELSE s, p, row.shown)
ApplyRows(s, rows) == FoldLeft(LAMBDA t, p : ApplyRow(t, p, rows[p]), s, AllPanels)
ApplyState(s, rows) == ClampPanels(ApplyRows(s, rows))

-----------------------------------------------------------------------------
(* Lock, window, side area *)

SetLocked(s, p, locked) ==
    IF s.locked[p] = locked THEN s ELSE SaveLayout([s EXCEPT !.locked[p] = locked], p)

\* setFloating(): out of the canvas where it stands, and back to that place.
SetFloating(s, p, floating) ==
    IF (s.where[p] = "window") = floating THEN s
    ELSE IF floating
    THEN LET t == [s EXCEPT !.docked[p] = s.rect[p], !.where[p] = "window"]
         IN SaveLayout(Placed(Made(t, p, TRUE), p, OnScreen), p)
    ELSE LET t == [s EXCEPT !.where[p] = "canvas"]
         IN SaveLayout(Made(Placed(t, p, s.docked[p]), p, TRUE), p)

\* SideAreaWidget::setActive(): the stack shows that page and hides the last one.
ShowPage(s, p) ==
    LET t == IF p = s.active \/ s.active \notin Panels THEN s ELSE Made(s, s.active, FALSE)
        u == IF p = s.active THEN t ELSE Made(t, p, TRUE)
    IN [u EXCEPT !.active = p, !.collapsed = FALSE]
SetActive(s, p) == SaveSideArea(ShowPage(s, p))

\* revealPanel(): shown, brought to the front, and onto the canvas.
Reveal(s, p) == ClampPanel(SaveLayout(Made(s, p, TRUE), p), p)

HasPage(s, p) == s.where[p] = "page"
PutIntoSideArea(s, p) ==
    IF HasPage(s, p) THEN s
    ELSE LET t == SetFloating(s, p, FALSE)
             u == [t EXCEPT !.home[p] = t.rect[p], !.where[p] = "page", !.rect[p] = InStack,
                            !.pages = Append(@, p)]
         IN [SetActive(u, p) EXCEPT !.area = TRUE]

\* takePage() and back home; a locked panel does not go there.
TakeOutOfSideArea(s, p) ==
    IF ~HasPage(s, p) THEN s
    ELSE LET left == RemoveFirst(s.pages, p)
             t == [s EXCEPT !.where[p] = "canvas", !.pages = left, !.active = IF @ = p THEN NoPanel ELSE @]
             u == IF left = <<>> THEN t ELSE ShowPage(t, IF s.active = p THEN left[1] ELSE s.active)
         IN SaveSideArea([Made(TrySet(u, p, u.home[p]), p, TRUE) EXCEPT !.area = left # <<>>])

-----------------------------------------------------------------------------
(* The start: PanelLayout_*, then the side area, then the active profile *)

NoLayout == [rect |-> NoRect, locked |-> FALSE, window |-> NoRect]
RegisterPanel(s, p) ==
    LET l == s.layout[p]
        r == IF l = NoLayout THEN DefaultRect ELSE l.rect
    IN [s EXCEPT !.rect[p] = IF l.window = NoRect THEN r ELSE l.window, !.desired[p] = s.rect[p],
                 !.docked[p] = r, !.locked[p] = l.locked,
                 !.where[p] = IF l.window = NoRect THEN "canvas" ELSE "window"]
LoadLayout(s) == FoldLeft(RegisterPanel, s, AllPanels)
RegisterPanels(s) == LET t == LoadLayout(s) IN [t EXCEPT !.desired = t.rect]

PutPages(s, pages) == FoldLeft(PutIntoSideArea, s, pages)
RestoreSideArea(s) ==
    LET k == s.kept
        t == PutPages(s, k.pages)
        u == IF k.active \in Panels /\ HasPage(t, k.active) THEN ShowPage(t, k.active) ELSE t
    IN [u EXCEPT !.collapsed = k.pages # <<>> /\ k.collapsed, !.kept = k]

\* The one function into {v}; chosen, so that TLC builds it at once.
Nothing(v) == CHOOSE f \in [Panels -> {v}] : TRUE
Closed(names, profile, profiles, layout, kept) ==
    [rect |-> Nothing(NoRect), desired |-> Nothing(NoRect), docked |-> Nothing(NoRect),
     home |-> Nothing(NoRect), locked |-> Nothing(FALSE), hidden |-> Nothing(FALSE),
     pending |-> Nothing(FALSE), where |-> Nothing("canvas"), pages |-> <<>>, active |-> NoPanel,
     collapsed |-> FALSE, area |-> FALSE, canvas |-> 0, fresh |-> FALSE,
     names |-> names, profile |-> profile, profiles |-> profiles, layout |-> layout, kept |-> kept]
FirstDatabase ==
    Closed(<<>>, 1, [n \in PnNames |-> Nothing(NoRow)], Nothing(NoLayout),
           [pages |-> <<>>, active |-> NoPanel, collapsed |-> FALSE])

\* The constructor; the first start of all makes a profile of what stands there.
PnStart(s) ==
    LET t == RestoreSideArea(RegisterPanels(Closed(s.names, s.profile, s.profiles, s.layout, s.kept)))
    IN IF s.names = <<>>
       THEN [SaveProfile([t EXCEPT !.profile = 1, !.names = <<1>>])
             EXCEPT !.fresh = \A p \in Panels : s.layout[p] = NoLayout]
       ELSE ApplyState(t, s.profiles[s.profile])

\* applyDesignDefaults(): the design that fits the canvas; unlocks.
DesignFor(s, p) == IF s.canvas >= Wide \/ p \notin PnCompact THEN DefaultRect ELSE CompactRect
DesignPanel(s, p) ==
    LET t == TrySet(SetLocked(s, p, FALSE), p, DesignFor(s, p))
    IN IF s.canvas < Wide /\ p \notin PnCompact THEN Made(t, p, FALSE) ELSE t
ApplyDesign(s) == FoldLeft(DesignPanel, s, AllPanels)

-----------------------------------------------------------------------------
(* Steps.  The canvas changes its size with the window, the first time with a   *)
(* fresh database by the design; panels not shown yet are told of their places  *)
(* before or after the first clamp.                                             *)

Loses(P) == [p \in Panels |-> IF p \in P THEN NoRect ELSE pnPut[p]]
Gets(P) == [p \in Panels |-> IF p \in P /\ OnCanvas(panels', p) /\ ~panels'.hidden[p] /\ ~panels'.locked[p]
                             THEN panels'.desired[p] ELSE IF p \in P THEN NoRect ELSE pnPut[p]]
Operator == Laid(panels) /\ pnSteps < PnMaxSteps /\ pnSteps' = pnSteps + 1

CanvasResize(width, told) ==
    /\ width # panels.canvas /\ (told => ~Laid(panels)) /\ UNCHANGED pnSteps
    /\ LET s == [panels EXCEPT !.canvas = width]
           c == ClampPanels(IF panels.fresh THEN SaveProfile(ApplyDesign(s)) ELSE s)
           Told(p) == IF told /\ ~c.hidden[p] THEN c.rect[p] ELSE c.desired[p]
       IN panels' = [c EXCEPT !.desired = [p \in Panels |-> Told(p)]]
    /\ pnPut' = IF panels.fresh \/ ~Laid(panels) THEN Nothing(NoRect) ELSE pnPut

SettleTimeOver ==
    /\ Laid(panels) /\ panels.fresh /\ panels' = [panels EXCEPT !.fresh = FALSE] /\ UNCHANGED <<pnPut, pnSteps>>

\* A drag or a resize of the frame, and a drop over the side area.
DragPanel(p, r) ==
    /\ Operator /\ OnCanvas(panels, p) /\ ~panels.locked[p] /\ ~panels.hidden[p] /\ r.x + r.w <= panels.canvas
    /\ panels' = SaveLayout([panels EXCEPT !.rect[p] = r, !.desired[p] = r], p)
    /\ pnPut' = Gets({p})
DropIntoSideArea(p) ==
    /\ Operator /\ panels.where[p] # "page" /\ (panels.area \/ panels.where[p] = "canvas")
    /\ panels' = SaveLayout(PutIntoSideArea(panels, p), p) /\ pnPut' = Loses({p})
DragOutOfSideArea(p, x) ==
    /\ Operator /\ HasPage(panels, p)
    /\ LET t == TakeOutOfSideArea(panels, p)
           w == panels.home[p].w
           u == TrySet(SetLocked(t, p, FALSE), p, At(Least(x, IF w > t.canvas THEN 0 ELSE t.canvas - w), w))
       IN panels' = Reveal(SetLocked(u, p, panels.locked[p]), p)
    /\ pnPut' = Gets({p})
TakeHome(p) ==
    /\ Operator /\ HasPage(panels, p) /\ panels' = TakeOutOfSideArea(panels, p) /\ pnPut' = Loses({p})
RailClicked(p) ==
    /\ Operator /\ HasPage(panels, p)
    /\ panels' = IF p = panels.active /\ ~panels.collapsed
                 THEN SaveSideArea([panels EXCEPT !.collapsed = TRUE]) ELSE SetActive(panels, p)
    /\ UNCHANGED pnPut

ToggleLock(p) ==
    /\ Operator /\ panels' = SetLocked(panels, p, ~panels.locked[p]) /\ pnPut' = Loses({p})
ToggleFloating(p) ==
    /\ Operator /\ ~HasPage(panels, p)
    /\ panels' = SetFloating(panels, p, panels.where[p] # "window") /\ pnPut' = Loses({p})
TogglePanel(p) ==
    /\ Operator
    /\ panels' = SaveProfile(IF panels.hidden[p] THEN Reveal(panels, p) ELSE Made(panels, p, FALSE))
    /\ pnPut' = Loses({p})

SwitchTo(n) ==
    /\ Operator /\ Contains(panels.names, n) /\ n # panels.profile
    /\ panels' = ApplyState([SaveProfile(panels) EXCEPT !.profile = n], panels.profiles[n])
    /\ pnPut' = Gets(Panels)
\* createProfile(), duplicateProfile() of the one that is shown.
NewProfile(n, rows) ==
    /\ Operator /\ ~Contains(panels.names, n)
    /\ LET s == [SaveProfile(panels) EXCEPT !.profile = n, !.profiles[n] = rows, !.names = Append(@, n)]
       IN panels' = ApplyState(s, rows)
    /\ pnPut' = Gets(Panels)
RemoveProfile(n) ==
    /\ Operator /\ Contains(panels.names, n) /\ Len(panels.names) > 1
    /\ LET left == RemoveFirst(panels.names, n)
           s == [panels EXCEPT !.names = left, !.profile = IF @ = n THEN left[1] ELSE @]
       IN panels' = IF panels.profile = n THEN ApplyState(s, s.profiles[s.profile]) ELSE s
    /\ pnPut' = IF panels.profile = n THEN Gets(Panels) ELSE pnPut

\* "Fenster zurücksetzen": everything comes home first.
Dock(s, p) == Made(SetFloating(s, p, FALSE), p, TRUE)
DockAll(s) == FoldLeft(Dock, s, AllPanels)
TakeOutPages(s) == FoldLeft(TakeOutOfSideArea, s, s.pages)
ResetLayout ==
    /\ Operator
    /\ panels' = SaveAll(ApplyDesign(DockAll(TakeOutPages(panels))))
    /\ pnPut' = Loses(Panels)

PnRestart == Operator /\ panels' = PnStart(panels) /\ pnPut' = Nothing(NoRect)

PnInit == panels = PnStart(FirstDatabase) /\ pnPut = Nothing(NoRect) /\ pnSteps = 0

PnNext ==
    \/ \E width \in {Narrow, Wide}, told \in BOOLEAN : CanvasResize(width, told)
    \/ SettleTimeOver \/ PnRestart \/ ResetLayout
    \/ \E p \in Panels :
         \/ \E r \in {At(0, 2), At(2, 2), At(0, 3)} : DragPanel(p, r)
         \/ DropIntoSideArea(p) \/ TakeHome(p) \/ RailClicked(p) \/ \E x \in {0, 2} : DragOutOfSideArea(p, x)
         \/ ToggleLock(p) \/ ToggleFloating(p) \/ TogglePanel(p)
    \/ \E n \in PnNames : SwitchTo(n) \/ RemoveProfile(n)
                          \/ \E rows \in {Nothing(NoRow), Snapshot(panels)} : NewProfile(n, rows)

PnSpec == PnInit /\ [][PnNext]_pnVars

-----------------------------------------------------------------------------
(* Properties *)

\* Type invariant; the pages of the side area are the panels that are in it, and
\* its active page is one of them.
PnTypeOK ==
    /\ pnSteps \in 0..PnMaxSteps
    /\ \A p \in Panels : panels.where[p] \in {"canvas", "window", "page"}
    /\ ToSet(panels.pages) = {p \in Panels : HasPage(panels, p)} /\ IsInjective(panels.pages)
    /\ IF panels.pages = <<>> THEN panels.active = NoPanel ELSE Contains(panels.pages, panels.active)
    /\ Contains(panels.names, panels.profile) /\ ToSet(panels.names) \subseteq PnNames /\ IsInjective(panels.names)

\* A canvas that was smaller for a while does not move a panel for good: on the
\* wide canvas it stands where it was put, whatever was done to the others.
CanvasComesBack ==
    panels.canvas = Wide => \A p \in Panels : pnPut[p] # NoRect => panels.rect[p] = ClampedRect(pnPut[p], Wide)

\* "sonst steht nach dem Neustart eine andere Seite vorne als beim Beenden"
\* (ui/MainWindow.cpp:1114): the page the rail marks is the one that is shown.
ActivePageIsShown ==
    panels.active \in Panels => ~panels.hidden[panels.active]
=============================================================================
