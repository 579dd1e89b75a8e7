------------------------------ MODULE Waterfall ------------------------------
(***************************************************************************)
(* The waterfall: core/SpectrumClient holds a WebSocket to Longpath, which *)
(* sends finished pictures; ui/WaterfallWidget shows them and reports how  *)
(* wide it is; MainWindow keeps the panel away while the spectrum is off.  *)
(* How long a retry waits is left out, and closing the socket in order is  *)
(* one step.                                                               *)
(***************************************************************************)
EXTENDS Integers, FiniteSets

CONSTANTS
    WfHosts,      \* addresses of Longpath
    WfWidths,     \* widths of the panel
    WfMaxLines,   \* bound: connections
    WfMaxEvents   \* bound: what the operator does

WaterfallAssumption ==
    /\ WfHosts # {} /\ WfWidths \subseteq Nat \ {0} /\ WfWidths # {}
    /\ WfMaxLines \in Nat /\ WfMaxEvents \in Nat
ASSUME WaterfallAssumption

VARIABLES
    wfSet,      \* the settings: [on, host, colour]
    wfLine,     \* SpectrumClient: [wanted, sock, host, timer, points]
    wfOrder,    \* points Longpath was asked for on this connection, 0 for none
    wfScale,    \* SpectrumClient::m_lage: the connection it comes from, or 0
    wfPanel,    \* the panel: [visible, side, width, linked, scale, colour]
    wfPicture,  \* palettes of the rows standing in m_wasserfall
    wfSide,     \* m_wasserfallWarImSeitenbereich
    wfLines, wfEvents

wfVars == <<wfSet, wfLine, wfOrder, wfScale, wfPanel, wfPicture, wfSide, wfLines, wfEvents>>

\* Before a width is known SpectrumClient asks for 256 points.
DefaultPoints == 256
NoScale == 0

-----------------------------------------------------------------------------
(* SpectrumClient.  c is [line, order, scale, panel]: what its slots       *)
(* change, the panel's slots included.                                     *)

Client == [line |-> wfLine, order |-> wfOrder, scale |-> wfScale, panel |-> wfPanel]
Become(c) == wfLine' = c.line /\ wfOrder' = c.order /\ wfScale' = c.scale /\ wfPanel' = c.panel

\* planeWiederAnlauf() and wiederAnlauf().
PlanRetry(c) == [c EXCEPT !.line.timer = @ \/ c.line.wanted]
OpenSocket(c) == IF c.line.wanted THEN [c EXCEPT !.line.sock = "dialing", !.line.timer = FALSE] ELSE c

\* aufGetrennt(): what Longpath said last no longer holds.
LineGone_KeepsScale(c) ==
    PlanRetry([c EXCEPT !.line.sock = "off", !.order = 0, !.panel.linked = FALSE])
LineGone(c) ==
    PlanRetry([c EXCEPT !.line.sock = "off", !.order = 0, !.scale = NoScale,
                        !.panel.linked = FALSE, !.panel.scale = NoScale])
AbortSocket(c) == IF c.line.sock = "off" THEN c ELSE LineGone(c)

SetEndpoint(c, host) ==
    IF host = c.line.host THEN c
    ELSE IF c.line.wanted THEN PlanRetry(AbortSocket([c EXCEPT !.line.host = host]))
    ELSE [c EXCEPT !.line.host = host]
StartLine(c) == IF c.line.wanted THEN c ELSE OpenSocket([c EXCEPT !.line.wanted = TRUE])
EndLine(c) ==
    IF ~c.line.wanted THEN c
    ELSE AbortSocket([c EXCEPT !.line.wanted = FALSE, !.line.timer = FALSE])
SetGeometry(c, points) ==
    [c EXCEPT !.line.points = points,
              !.order = IF c.line.sock = "up" /\ points # c.line.points THEN points ELSE @]

\* applySettings().
ApplySpectrum(c, s) ==
    IF s.on THEN StartLine(SetEndpoint(c, s.host)) ELSE EndLine(SetEndpoint(c, s.host))

-----------------------------------------------------------------------------
(* The panel                                                               *)

\* showEvent() reports the width whether or not it changed.
Shown(c) == [SetGeometry(c, c.panel.width) EXCEPT !.panel.visible = TRUE]
Hidden(c) == [c EXCEPT !.panel.visible = FALSE]
ShownIf(c) == IF c.panel.visible THEN c ELSE Shown(c)

\* applyWaterfallVisibility(): off means gone, out of the side area too; on
\* brings it back to where it was.
ApplyVisibility(c, on, colour) ==
    IF ~on THEN Hidden([c EXCEPT !.panel.side = FALSE])
    ELSE LET back == ShownIf(c)
         IN  [back EXCEPT !.panel.side = @ \/ wfSide, !.panel.colour = colour]
ReturnsToSide(c, on) == IF on THEN FALSE ELSE wfSide \/ c.panel.side

\* openSettingsDialog() after OK.
SaveSpectrum ==
    /\ wfEvents < WfMaxEvents
    /\ \E on, colour \in BOOLEAN, host \in WfHosts :
          LET c == ApplySpectrum(Client, [on |-> on, host |-> host, colour |-> colour])
          IN  /\ wfSet' = [on |-> on, host |-> host, colour |-> colour]
              /\ Become(ApplyVisibility(c, on, colour))
              /\ wfSide' = ReturnsToSide(c, on)
    /\ wfEvents' = wfEvents + 1
    /\ UNCHANGED <<wfPicture, wfLines>>

\* switchTo(): a profile shows and hides panels, then profilesChanged.
SwitchWaterfallProfile ==
    /\ wfEvents < WfMaxEvents
    /\ \E visible \in BOOLEAN :
          LET c == IF visible THEN ShownIf(Client) ELSE Hidden(Client)
          IN  /\ Become(ApplyVisibility(c, wfSet.on, wfSet.colour))
              /\ wfSide' = ReturnsToSide(c, wfSet.on)
    /\ wfEvents' = wfEvents + 1
    /\ UNCHANGED <<wfSet, wfPicture, wfLines>>

\* Fenster > Panels, Fenster > In den Seitenbereich, Fenster zuruecksetzen.
MenuStep(c) ==
    /\ wfEvents < WfMaxEvents
    /\ Become(c)
    /\ wfEvents' = wfEvents + 1
    /\ UNCHANGED <<wfSet, wfPicture, wfSide, wfLines>>
TogglePanelMenu == MenuStep(IF wfPanel.visible THEN Hidden(Client) ELSE Shown(Client))
MoveToSideArea == ~wfPanel.side /\ MenuStep([ShownIf(Client) EXCEPT !.panel.side = TRUE])
ResetWindowLayout == MenuStep([ShownIf(Client) EXCEPT !.panel.side = FALSE])

\* resizeEvent(): a new width means a new picture.
ResizePanel ==
    /\ wfEvents < WfMaxEvents
    /\ \E width \in WfWidths \ {wfPanel.width} :
          Become(IF wfPanel.visible THEN SetGeometry([Client EXCEPT !.panel.width = width], width)
                 ELSE [Client EXCEPT !.panel.width = width])
    /\ wfPicture' = {}
    /\ wfEvents' = wfEvents + 1
    /\ UNCHANGED <<wfSet, wfSide, wfLines>>

-----------------------------------------------------------------------------
(* The line                                                                *)

\* aufVerbunden(): the first thing sent is the order.
LineUp ==
    /\ wfLine.sock = "dialing" /\ wfLines < WfMaxLines
    /\ Become([Client EXCEPT !.line.sock = "up", !.order = wfLine.points, !.panel.linked = TRUE])
    /\ wfLines' = wfLines + 1
    /\ UNCHANGED <<wfSet, wfPicture, wfSide, wfEvents>>

\* disconnected() comes after a failed attempt too.
LineDown ==
    /\ wfLine.sock # "off"
    /\ Become(LineGone(Client))
    /\ UNCHANGED <<wfSet, wfPicture, wfSide, wfLines, wfEvents>>

WaterfallRetry ==
    /\ wfLine.timer
    /\ Become(OpenSocket(Client))
    /\ UNCHANGED <<wfSet, wfPicture, wfSide, wfLines, wfEvents>>

\* deuteText(): centre, span and frequencies.
ScaleIsTold ==
    /\ wfLine.sock = "up"
    /\ Become([Client EXCEPT !.scale = wfLines, !.panel.scale = wfLines])
    /\ UNCHANGED <<wfSet, wfPicture, wfSide, wfLines, wfEvents>>

\* zeigeSpektrum(): a row in the colours of now; old rows leave below.
FrameArrives ==
    /\ wfLine.sock = "up"
    /\ wfPicture' \in {wfPicture \cup {wfPanel.colour}, {wfPanel.colour}}
    /\ UNCHANGED <<wfSet, wfLine, wfOrder, wfScale, wfPanel, wfSide, wfLines, wfEvents>>

WfInit ==
    /\ wfSet \in [on : BOOLEAN, host : WfHosts, colour : BOOLEAN]
    /\ wfLine = [wanted |-> wfSet.on, sock |-> IF wfSet.on THEN "dialing" ELSE "off", host |-> wfSet.host,
                 timer |-> FALSE, points |-> IF wfSet.on THEN CHOOSE w \in WfWidths : TRUE ELSE DefaultPoints]
    /\ wfPanel = [visible |-> wfSet.on, side |-> FALSE, width |-> CHOOSE w \in WfWidths : TRUE,
                  linked |-> FALSE, scale |-> NoScale, colour |-> wfSet.colour]
    /\ wfOrder = 0 /\ wfScale = NoScale /\ wfPicture = {} /\ wfSide = FALSE
    /\ wfLines = 0 /\ wfEvents = 0

WfNext ==
    \/ SaveSpectrum \/ SwitchWaterfallProfile \/ TogglePanelMenu \/ MoveToSideArea \/ ResetWindowLayout \/ ResizePanel
    \/ LineUp \/ LineDown \/ WaterfallRetry \/ ScaleIsTold \/ FrameArrives

WfSpec == WfInit /\ [][WfNext]_wfVars

-----------------------------------------------------------------------------
(* The properties                                                          *)

\* The fields have the shapes of the members of SpectrumClient and WaterfallWidget.
WfTypeOK ==
    /\ wfSet \in [on : BOOLEAN, host : WfHosts, colour : BOOLEAN]
    /\ wfLine \in [wanted : BOOLEAN, sock : {"off", "dialing", "up"}, host : WfHosts, timer : BOOLEAN,
                   points : WfWidths \cup {DefaultPoints}]
    /\ wfOrder \in WfWidths \cup {0, DefaultPoints} /\ wfScale \in 0..WfMaxLines
    /\ wfPanel \in [visible : BOOLEAN, side : BOOLEAN, width : WfWidths, linked : BOOLEAN,
                    scale : 0..WfMaxLines, colour : BOOLEAN]
    /\ wfPicture \subseteq BOOLEAN /\ wfSide \in BOOLEAN
    /\ wfLines \in 0..WfMaxLines /\ wfEvents \in 0..WfMaxEvents

\* The panel never claims what the line does not carry: it says "kein
\* Spektrum" exactly while there is none, its scale was told on this very
\* connection, Longpath was asked for exactly as many points as the visible
\* panel is wide, a switched-off spectrum keeps no line, and one that is
\* wanted is always on its way (aufGetrennt(), showEvent(), beenden()).
WaterfallIsHonest ==
    /\ wfPanel.linked = (wfLine.sock = "up")
    /\ wfPanel.scale = wfScale
    /\ wfScale # NoScale => wfLine.sock = "up" /\ wfScale = wfLines
    /\ wfPanel.visible /\ wfLine.sock = "up" => wfOrder = wfPanel.width
    /\ wfLine.wanted = wfSet.on
    /\ IF wfSet.on THEN wfLine.sock # "off" \/ wfLine.timer ELSE wfLine.sock = "off" /\ ~wfLine.timer

\* Without a spectrum there is no waterfall panel (applyWaterfallVisibility():
\* "ist das Spektrum in den Einstellungen aus, ist das Panel weg").
NoWaterfallWhenOff == wfPanel.visible => wfSet.on

\* The picture is painted in one palette (setFarbig(): "neu anlegen, statt
\* zwei Paletten uebereinander laufen zu lassen").
OnePalette == wfPicture # BOOLEAN
=============================================================================
