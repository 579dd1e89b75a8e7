-------------------------- MODULE InstrumentProofs --------------------------
(***************************************************************************)
(* Proofs about the station's instruments, for every value of the          *)
(* constants: the waterfall shows what its line carries, the bandmap what  *)
(* was spotted, settings and log agree, the contest that is active can be  *)
(* worked by, and a finished recording can be played.                      *)
(*                                                                         *)
(* Each part has an inductive invariant of its own; as a behaviour of      *)
(* MCDeskStation is one of a single part, the theorems at the end follow   *)
(* from them.                                                              *)
(***************************************************************************)
EXTENDS MCDeskStation, SequenceTheorems, FunctionTheorems, FiniteSetTheorems, TLAPS

-----------------------------------------------------------------------------
(* Facts that several parts need *)

\* Some number of a set of numbers is the least.
LEMMA LeastExists ==
    ASSUME NEW S \in SUBSET Nat, S # {}
    PROVE  \E n \in S : \A m \in S : n <= m
<1> DEFINE T == {0..m : m \in S}
<1>1. T \subseteq FiniteSubsetsOf(Nat) /\ T # {}
  <2>1. \A m \in S : 0..m \subseteq Nat /\ IsFiniteSet(0..m)
    BY FS_Interval
  <2> QED BY <2>1 DEF FiniteSubsetsOf
<1>2. PICK U \in T : \A V \in T : <<V, U>> \notin StrictSubsetOrdering(Nat)
  <2>1. IsWellFoundedOn(StrictSubsetOrdering(Nat), FiniteSubsetsOf(Nat))
    BY FS_StrictSubsetOrderingWellFounded
  <2> HIDE DEF T
  <2> QED BY <1>1, <2>1, WFMin
<1>3. PICK n \in S : U = 0..n
  OBVIOUS
<1>4. ASSUME NEW m \in S, m < n PROVE FALSE
  <2>1. 0..m \subseteq 0..n /\ 0..m # 0..n
    <3>1. n \in 0..n /\ n \notin 0..m
      BY <1>4
    <3>2. \A k \in 0..m : k \in 0..n
      BY <1>4
    <3> QED BY <3>1, <3>2
  <2>2. 0..m \in T /\ 0..m \in SUBSET Nat /\ U \in SUBSET Nat
    BY <1>3
  <2>3. <<0..m, U>> \in StrictSubsetOrdering(Nat)
    BY <2>1, <2>2, <1>3 DEF StrictSubsetOrdering
  <2> QED BY <2>2, <2>3, <1>2
<1> QED BY <1>4

\* SetToSeq() of a finite set lists its elements.
LEMMA SetToSeqLists ==
    ASSUME NEW S, IsFiniteSet(S)
    PROVE  /\ SetToSeq(S) \in Seq(S)
           /\ \A x \in S : \E i \in DOMAIN SetToSeq(S) : SetToSeq(S)[i] = x
           /\ Len(SetToSeq(S)) = Cardinality(S)
<1> DEFINE n == Cardinality(S)
           f == SetToSeq(S)
<1>1. n \in Nat /\ ExistsBijection(1..n, S)
  BY FS_CardinalityType
<1>2. PICK g : g \in Bijection(1..n, S)
  BY <1>1 DEF ExistsBijection
<1>3. g \in [1..n -> S] /\ IsInjective(g)
  BY <1>2, Fun_BijectionProperties, Fun_IsBij DEF IsInjective, Bijection, Injection
<1>4. f \in [1..n -> S] /\ IsInjective(f)
  BY <1>3 DEF SetToSeq
<1> HIDE DEF f
<1>5. f \in Injection(1..n, S)
  BY <1>4 DEF IsInjective, Injection
<1>6. IsFiniteSet(1..n) /\ Cardinality(1..n) = n
  BY <1>1, FS_Interval
<1>7. f \in Surjection(1..n, S)
  BY <1>5, <1>6, FS_Injection
<1>8. \A x \in S : \E i \in 1..n : f[i] = x
  BY <1>7, Fun_SurjectionProperties DEF Surjection
<1>9. f \in Seq(S) /\ Len(f) = n /\ DOMAIN f = 1..n
  BY <1>1, <1>4, IsASeq, LenProperties
<1> QED BY <1>8, <1>9 DEF f
\* A counter below its bound.
LEMMA CountedOn ==
    ASSUME NEW most \in Nat, NEW count \in 0..most, NEW n \in Nat, count + n <= most
    PROVE  count + n \in 0..most
OBVIOUS

\* A function over 1..n is a sequence of length n.
LEMMA FunctionIsSeq ==
    ASSUME NEW S, NEW n \in Nat, NEW f \in [1..n -> S]
    PROVE  f \in Seq(S) /\ Len(f) = n /\ DOMAIN f = 1..n
BY IsASeq, LenProperties

\* c is the list s and then the list t.
Joined(S, s, t, c) ==
    /\ c \in Seq(S) /\ Len(c) = Len(s) + Len(t) /\ Len(s) \in Nat /\ Len(t) \in Nat
    /\ \A i \in 1..Len(c) : i \in 1..Len(s) \/ \E k \in 1..Len(t) : i = Len(s) + k
    /\ \A i \in 1..Len(s) : i \in 1..Len(c) /\ c[i] = s[i]
    /\ \A k \in 1..Len(t) : Len(s) + k \in 1..Len(c) /\ c[Len(s) + k] = t[k]

\* Concatenation joins two lists.
LEMMA TwoLists ==
    ASSUME NEW S, NEW s \in Seq(S), NEW t \in Seq(S)
    PROVE  Joined(S, s, t, s \o t)
<1> DEFINE n == Len(s)
           m == Len(t)
           c == s \o t
<1>1. n \in Nat /\ m \in Nat
  BY LenProperties
<1>2. c \in Seq(S) /\ Len(c) = n + m
  BY ConcatProperties
<1>3. \A i \in 1..(n + m) : c[i] = IF i <= n THEN s[i] ELSE t[i - n]
  BY ConcatProperties
<1> HIDE DEF c, n, m
<1>4. ASSUME NEW i \in 1..(n + m), i \notin 1..n
      PROVE  \E k \in 1..m : i = n + k
  <2>1. i - n \in 1..m /\ i = n + (i - n)
    BY <1>1, <1>4
  <2> QED BY <2>1
<1>5. ASSUME NEW i \in 1..n
      PROVE  i \in 1..(n + m) /\ c[i] = s[i]
  <2>1. i \in 1..(n + m) /\ i <= n
    BY <1>1
  <2> QED BY <2>1, <1>3
<1>6. ASSUME NEW k \in 1..m
      PROVE  n + k \in 1..(n + m) /\ c[n + k] = t[k]
  <2>1. n + k \in 1..(n + m) /\ ~(n + k <= n) /\ (n + k) - n = k
    BY <1>1
  <2> QED BY <2>1, <1>3
<1>7. Joined(S, s, t, c)
  <2>1. c \in Seq(S) /\ Len(c) = Len(s) + Len(t) /\ Len(s) \in Nat /\ Len(t) \in Nat
    BY <1>1, <1>2 DEF n, m
  <2>2. \A i \in 1..Len(c) : i \in 1..Len(s) \/ \E k \in 1..Len(t) : i = Len(s) + k
    BY <1>2, <1>4 DEF n, m
  <2>3. \A i \in 1..Len(s) : i \in 1..Len(c) /\ c[i] = s[i]
    BY <1>2, <1>5 DEF n, m
  <2>4. \A k \in 1..Len(t) : Len(s) + k \in 1..Len(c) /\ c[Len(s) + k] = t[k]
    BY <1>2, <1>6 DEF n, m
  <2> QED BY <2>1, <2>2, <2>3, <2>4 DEF Joined
<1> QED BY <1>7 DEF c

-----------------------------------------------------------------------------
(* The waterfall *)

WfClients ==
    [line : [wanted : BOOLEAN, sock : {"off", "dialing", "up"}, host : WfHosts, timer : BOOLEAN,
             points : WfWidths \cup {DefaultPoints}],
     order : WfWidths \cup {0, DefaultPoints}, scale : 0..WfMaxLines,
     panel : [visible : BOOLEAN, side : BOOLEAN, width : WfWidths, linked : BOOLEAN,
              scale : 0..WfMaxLines, colour : BOOLEAN]]

\* The panel says what the line carries, and the order is the width last reported.
Honest(c) ==
    /\ c.panel.linked = (c.line.sock = "up")
    /\ c.panel.scale = c.scale
    /\ c.scale # NoScale => c.line.sock = "up" /\ c.scale = wfLines
    /\ c.line.sock = "up" => c.order = c.line.points
    /\ c.panel.visible => c.line.points = c.panel.width
\* A line that is wanted is on its way, one that is not is closed; a retry waits only for a closed one.
Driven(c) ==
    /\ c.line.timer => c.line.sock = "off"
    /\ IF c.line.wanted THEN c.line.sock # "off" \/ c.line.timer ELSE c.line.sock = "off" /\ ~c.line.timer
Sound(c) == c \in WfClients /\ Honest(c) /\ Driven(c)

WfInv ==
    /\ WfTypeOK
    /\ Sound(Client)
    /\ wfLine.wanted = wfSet.on

\* aufGetrennt() leaves no claim behind.
LEMMA LineGoneIsHonest ==
    ASSUME NEW c \in WfClients, Honest(c), WfMaxLines \in Nat
    PROVE  /\ LineGone(c) \in WfClients /\ Honest(LineGone(c))
           /\ LineGone(c).line.sock = "off" /\ LineGone(c).line.wanted = c.line.wanted
           /\ LineGone(c).line.timer = (c.line.timer \/ c.line.wanted)
           /\ LineGone(c).line.host = c.line.host
<1> DEFINE d == [c EXCEPT !.line.sock = "off", !.order = 0, !.scale = NoScale,
                          !.panel.linked = FALSE, !.panel.scale = NoScale]
           again == d.line.timer \/ d.line.wanted
           e == [d EXCEPT !.line.timer = again]
           p == [c.panel EXCEPT !.linked = FALSE, !.scale = NoScale]
<1>2. d.line = [c.line EXCEPT !.sock = "off"] /\ d.order = 0 /\ d.scale = NoScale /\ d.panel = p
  BY DEF WfClients, NoScale
<1>1. d \in WfClients
  <2>2. 0 \in 0..WfMaxLines
    OBVIOUS
  <2> DEFINE q == [c EXCEPT !.line.sock = "off", !.order = 0, !.scale = NoScale, !.panel.linked = FALSE]
  <2>5. q \in WfClients /\ q.panel = [c.panel EXCEPT !.linked = FALSE]
    BY <2>2 DEF WfClients, NoScale
  <2>6. d = [q EXCEPT !.panel.scale = NoScale]
    OBVIOUS
  <2> HIDE DEF q, d
  <2> QED BY <2>2, <2>5, <2>6 DEF WfClients, NoScale
<1>3. Honest(d)
  BY <1>2 DEF WfClients, Honest, NoScale
<1>4. LineGone(c) = e
  BY DEF LineGone, PlanRetry
<1>5. /\ again = (c.line.timer \/ c.line.wanted)
      /\ d.line.sock = "off" /\ d.line.wanted = c.line.wanted /\ d.line.host = c.line.host
  BY <1>2 DEF WfClients
<1>6. again \in BOOLEAN
  BY Zenon DEF again
<1> HIDE DEF d, again
<1>7. /\ e \in WfClients /\ e.line = [d.line EXCEPT !.timer = again]
      /\ e.order = d.order /\ e.scale = d.scale /\ e.panel = d.panel
  BY <1>1, <1>6 DEF WfClients
<1>8. e.line.sock = "off" /\ e.line.wanted = c.line.wanted /\ e.line.host = c.line.host /\ e.line.timer = again
      /\ e.line.points = d.line.points
  BY <1>1, <1>5, <1>7 DEF WfClients
<1> HIDE DEF e
<1>9. Honest(e)
  BY <1>3, <1>5, <1>7, <1>8 DEF Honest
<1> QED BY <1>4, <1>5, <1>7, <1>8, <1>9

\* A socket that is aborted is closed the same way.
LEMMA AbortIsHonest ==
    ASSUME NEW c \in WfClients, Honest(c), WfMaxLines \in Nat
    PROVE  /\ AbortSocket(c) \in WfClients /\ Honest(AbortSocket(c))
           /\ AbortSocket(c).line.sock = "off" /\ AbortSocket(c).line.wanted = c.line.wanted
           /\ ~c.line.wanted /\ ~c.line.timer => ~AbortSocket(c).line.timer
BY LineGoneIsHonest DEF AbortSocket, WfClients

\* Opening the line, closing it, and pointing it elsewhere.
LEMMA StartIsSound ==
    ASSUME NEW c, Sound(c), WfMaxLines \in Nat
    PROVE  Sound(StartLine(c)) /\ StartLine(c).line.wanted = TRUE
BY DEF StartLine, OpenSocket, Sound, WfClients, Honest, Driven

\* abort() comes back through aufGetrennt(), which finds nothing wanted any more.
LEMMA EndIsSound ==
    ASSUME NEW c, Sound(c), WfMaxLines \in Nat
    PROVE  Sound(EndLine(c)) /\ EndLine(c).line.wanted = FALSE
<1> DEFINE d == [c EXCEPT !.line.wanted = FALSE, !.line.timer = FALSE]
<1>1. d \in WfClients /\ Honest(d) /\ d.line.wanted = FALSE /\ d.line.timer = FALSE
  BY DEF Sound, WfClients, Honest
<1>2. EndLine(c) = IF c.line.wanted = FALSE THEN c ELSE AbortSocket(d)
  BY DEF EndLine, Sound, WfClients
<1> HIDE DEF d
<1>3. AbortSocket(d) \in WfClients /\ Honest(AbortSocket(d))
  BY <1>1, AbortIsHonest
<1>4. AbortSocket(d).line.sock = "off" /\ AbortSocket(d).line.wanted = FALSE /\ AbortSocket(d).line.timer = FALSE
  BY <1>1, <1>3, AbortIsHonest DEF WfClients
<1> QED BY <1>2, <1>3, <1>4 DEF Sound, Driven, WfClients

\* Another server: the socket is closed and, if the line is wanted, dialled later.
LEMMA EndpointIsSound ==
    ASSUME NEW c, Sound(c), NEW host \in WfHosts, WfMaxLines \in Nat
    PROVE  Sound(SetEndpoint(c, host)) /\ SetEndpoint(c, host).line.wanted = c.line.wanted
<1> DEFINE d == [c EXCEPT !.line.host = host]
           e == AbortSocket(d)
<1>1. d \in WfClients /\ Honest(d) /\ Driven(d) /\ d.line.wanted = c.line.wanted
  BY DEF Sound, WfClients, Honest, Driven
<1> HIDE DEF d
<1>2. e \in WfClients /\ Honest(e) /\ e.line.sock = "off" /\ e.line.wanted = c.line.wanted
  BY <1>1, AbortIsHonest
<1> HIDE DEF e
<1>3. c.line.wanted => Sound(PlanRetry(e)) /\ PlanRetry(e).line.wanted = c.line.wanted
  BY <1>2 DEF PlanRetry, Sound, WfClients, Honest, Driven
<1> QED BY <1>1, <1>2, <1>3 DEF SetEndpoint, Sound, d, e

\* The size of the panel becomes the order of the line.
LEMMA GeometryIsSound ==
    ASSUME NEW c \in WfClients, Driven(c), NEW w \in WfWidths, WfMaxLines \in Nat,
           Honest([c EXCEPT !.panel.visible = FALSE])
    PROVE  /\ SetGeometry(c, w) \in WfClients /\ Driven(SetGeometry(c, w))
           /\ SetGeometry(c, w).panel = c.panel /\ SetGeometry(c, w).line.points = w
           /\ SetGeometry(c, w).line.wanted = c.line.wanted
           /\ c.panel.width = w => Honest(SetGeometry(c, w))
BY DEF SetGeometry, WfClients, Honest, Driven

\* The panel is shown, hidden, put into the side area.
LEMMA ShownIsSound ==
    ASSUME NEW c, Sound(c), WfMaxLines \in Nat
    PROVE  Sound(Shown(c)) /\ Shown(c).line.wanted = c.line.wanted
BY DEF Shown, SetGeometry, Sound, WfClients, Honest, Driven

\* A hidden panel claims no width.
LEMMA HiddenIsSound ==
    ASSUME NEW c, Sound(c), WfMaxLines \in Nat
    PROVE  Sound(Hidden(c)) /\ Hidden(c).line.wanted = c.line.wanted
BY DEF Hidden, Sound, WfClients, Honest, Driven

\* Which area the panel lies in does not concern the line.
LEMMA SideIsSound ==
    ASSUME NEW c, Sound(c), NEW side \in BOOLEAN, WfMaxLines \in Nat
    PROVE  /\ Sound([c EXCEPT !.panel.side = side])
           /\ [c EXCEPT !.panel.side = side].line.wanted = c.line.wanted
BY DEF Sound, WfClients, Honest, Driven

\* applySpectrumVisibility(): shown before its colour and place are set.
LEMMA VisibilityIsSound ==
    ASSUME NEW c, Sound(c), NEW on \in BOOLEAN, NEW colour \in BOOLEAN, WfMaxLines \in Nat, wfSide \in BOOLEAN
    PROVE  Sound(ApplyVisibility(c, on, colour)) /\ ApplyVisibility(c, on, colour).line.wanted = c.line.wanted
<1> DEFINE back == ShownIf(c)
           sd == back.panel.side \/ wfSide
           away == [c EXCEPT !.panel.side = FALSE]
<1>1. Sound(back) /\ back.line.wanted = c.line.wanted
  BY ShownIsSound DEF ShownIf
<1>2. Sound(Hidden(away)) /\ Hidden(away).line.wanted = c.line.wanted
  <2>1. Sound(away) /\ away.line.wanted = c.line.wanted
    BY SideIsSound
  <2> HIDE DEF away
  <2> QED BY <2>1, HiddenIsSound
<1>3. sd \in BOOLEAN
  BY Zenon DEF sd
<1>4. ApplyVisibility(c, on, colour) =
        IF ~on THEN Hidden(away) ELSE [back EXCEPT !.panel.side = sd, !.panel.colour = colour]
  BY DEF ApplyVisibility
<1> HIDE DEF back, sd, away
<1>5. /\ Sound([back EXCEPT !.panel.side = sd, !.panel.colour = colour])
      /\ [back EXCEPT !.panel.side = sd, !.panel.colour = colour].line.wanted = c.line.wanted
  BY <1>1, <1>3 DEF Sound, WfClients, Honest, Driven
<1> QED BY <1>2, <1>4, <1>5

\* What a slot ends with is the client from then on.
LEMMA BecomesSound ==
    ASSUME NEW c, Sound(c), Become(c), wfLines' = wfLines
    PROVE  Sound(Client)' /\ wfLine' = c.line
BY DEF Become, Client, Sound, Honest, Driven, WfClients, NoScale

\* Settings, profiles, menus, the panel's size and the line, each slot with all it calls.
LEMMA WfInvariant == ASSUME WaterfallAssumption PROVE WfInv /\ [WfNext]_wfVars => WfInv'
<1> SUFFICES ASSUME WaterfallAssumption, WfInv, [WfNext]_wfVars PROVE WfInv'
  OBVIOUS
<1> USE DEF WaterfallAssumption
<1>0. /\ Sound(Client) /\ Client.line.wanted = wfSet.on /\ Client.panel = wfPanel /\ Client.line = wfLine
      /\ wfSet \in [on : BOOLEAN, host : WfHosts, colour : BOOLEAN] /\ wfSide \in BOOLEAN
      /\ wfPicture \subseteq BOOLEAN /\ wfLines \in 0..WfMaxLines /\ wfEvents \in 0..WfMaxEvents
      /\ WfMaxLines \in Nat /\ WfMaxEvents \in Nat
  BY DEF WfInv, WfTypeOK, Client
<1>R. ASSUME NEW c, Sound(c), Become(c), wfLines' = wfLines, c.line.wanted = wfSet'.on,
             wfSet' \in [on : BOOLEAN, host : WfHosts, colour : BOOLEAN], wfSide' \in BOOLEAN,
             wfPicture' \subseteq BOOLEAN, wfEvents' \in 0..WfMaxEvents
      PROVE  WfInv'
  <2>1. Sound(Client)' /\ wfLine' = c.line
    BY <1>R, BecomesSound
  <2> QED BY <2>1, <1>0, <1>R DEF WfInv, WfTypeOK, Sound, WfClients, Client
<1>E. wfEvents < WfMaxEvents => wfEvents + 1 \in 0..WfMaxEvents
  BY <1>0
<1>1. CASE SaveSpectrum
  <2>1. PICK on \in BOOLEAN, colour \in BOOLEAN, host \in WfHosts :
          LET c == ApplySpectrum(Client, [on |-> on, host |-> host, colour |-> colour])
          IN  /\ wfSet' = [on |-> on, host |-> host, colour |-> colour]
              /\ Become(ApplyVisibility(c, on, colour))
              /\ wfSide' = ReturnsToSide(c, on)
    BY <1>1 DEF SaveSpectrum
  <2> DEFINE e == SetEndpoint(Client, host)
             c == IF on THEN StartLine(e) ELSE EndLine(e)
             d == ApplyVisibility(c, on, colour)
  <2>2. c = ApplySpectrum(Client, [on |-> on, host |-> host, colour |-> colour])
    BY DEF ApplySpectrum
  <2>3. Sound(e)
    BY <1>0, EndpointIsSound
  <2>4. Sound(c) /\ c.line.wanted = on
    <3> HIDE DEF e
    <3> QED BY <2>3, <1>0, StartIsSound, EndIsSound
  <2>5. wfSide' = ReturnsToSide(c, on) /\ Become(d)
    BY <2>1, <2>2
  <2> HIDE DEF c
  <2>6. Sound(d) /\ d.line.wanted = on
    BY <2>4, <1>0, VisibilityIsSound
  <2>7. wfSide' \in BOOLEAN
    <3>1. c.panel.side \in BOOLEAN
      BY <2>4 DEF Sound, WfClients
    <3> QED BY <3>1, <2>5, <1>0, Zenon DEF ReturnsToSide
  <2> HIDE DEF d
  <2> QED BY <1>0, <1>R, <1>E, <1>1, <2>1, <2>5, <2>6, <2>7 DEF SaveSpectrum
<1>2. CASE SwitchWaterfallProfile
  <2>1. PICK visible \in BOOLEAN :
          LET c == IF visible THEN ShownIf(Client) ELSE Hidden(Client)
          IN  /\ Become(ApplyVisibility(c, wfSet.on, wfSet.colour))
              /\ wfSide' = ReturnsToSide(c, wfSet.on)
    BY <1>2 DEF SwitchWaterfallProfile
  <2> DEFINE c == IF visible THEN ShownIf(Client) ELSE Hidden(Client)
             d == ApplyVisibility(c, wfSet.on, wfSet.colour)
  <2>2. Sound(c) /\ c.line.wanted = wfSet.on
    BY <1>0, ShownIsSound, HiddenIsSound DEF ShownIf
  <2>3. wfSide' = ReturnsToSide(c, wfSet.on) /\ Become(d)
    BY <2>1
  <2> HIDE DEF c
  <2>4. Sound(d) /\ d.line.wanted = wfSet.on
    BY <2>2, <1>0, VisibilityIsSound
  <2>5. wfSide' \in BOOLEAN
    <3>1. c.panel.side \in BOOLEAN
      BY <2>2 DEF Sound, WfClients
    <3> QED BY <3>1, <2>3, <1>0, Zenon DEF ReturnsToSide
  <2> HIDE DEF d
  <2> QED BY <1>0, <1>R, <1>E, <1>2, <2>3, <2>4, <2>5 DEF SwitchWaterfallProfile
<1>3. ASSUME NEW c, Sound(c), c.line.wanted = wfSet.on, MenuStep(c) PROVE WfInv'
  BY <1>0, <1>R, <1>E, <1>3 DEF MenuStep
<1>4. CASE TogglePanelMenu
  <2>1. Sound(Hidden(Client)) /\ Sound(Shown(Client))
        /\ Hidden(Client).line.wanted = wfSet.on /\ Shown(Client).line.wanted = wfSet.on
    BY <1>0, ShownIsSound, HiddenIsSound
  <2> QED BY <2>1, <1>3, <1>4 DEF TogglePanelMenu
<1>5. CASE MoveToSideArea \/ ResetWindowLayout
  <2> DEFINE c == ShownIf(Client)
  <2>1. Sound(c) /\ c.line.wanted = wfSet.on
    BY <1>0, ShownIsSound DEF ShownIf
  <2>2. MenuStep([c EXCEPT !.panel.side = TRUE]) \/ MenuStep([c EXCEPT !.panel.side = FALSE])
    BY <1>5 DEF MoveToSideArea, ResetWindowLayout
  <2> HIDE DEF c
  <2>3. \A side \in BOOLEAN : Sound([c EXCEPT !.panel.side = side])
                              /\ [c EXCEPT !.panel.side = side].line.wanted = wfSet.on
    BY <2>1, <1>0, SideIsSound
  <2> QED BY <2>2, <2>3, <1>3
<1>6. CASE ResizePanel
  <2>1. PICK width \in WfWidths :
          Become(IF wfPanel.visible THEN SetGeometry([Client EXCEPT !.panel.width = width], width)
                 ELSE [Client EXCEPT !.panel.width = width])
    BY <1>6 DEF ResizePanel
  <2> DEFINE d == [Client EXCEPT !.panel.width = width]
             e == IF wfPanel.visible THEN SetGeometry(d, width) ELSE d
  <2>2. /\ d \in WfClients /\ Driven(d) /\ Honest([d EXCEPT !.panel.visible = FALSE])
        /\ d.panel.width = width /\ d.panel.visible = wfPanel.visible /\ d.line = wfLine
        /\ (~wfPanel.visible => Honest(d))
    BY <1>0 DEF Sound, WfClients, Honest, Driven
  <2> HIDE DEF d
  <2>3. Sound(e) /\ e.line.wanted = wfSet.on
    BY <2>2, <1>0, GeometryIsSound DEF Sound
  <2>4. Become(e)
    BY <2>1 DEF d
  <2> HIDE DEF e
  <2> QED BY <1>0, <1>R, <1>E, <1>6, <2>3, <2>4 DEF ResizePanel
<1>7. CASE LineUp
  <2> DEFINE d == [Client EXCEPT !.line.sock = "up", !.order = wfLine.points, !.panel.linked = TRUE]
  <2>1. d \in WfClients /\ d.scale = 0 /\ d.panel.scale = 0 /\ d.line.wanted = wfSet.on /\ Driven(d)
        /\ d.panel.linked = TRUE /\ d.line.sock = "up" /\ d.order = d.line.points
        /\ (d.panel.visible => d.line.points = d.panel.width)
    BY <1>0, <1>7 DEF LineUp, Sound, WfClients, Honest, Driven, NoScale
  <2> HIDE DEF d
  <2>2. Become(d)
    BY <1>7 DEF LineUp, d
  <2>3. wfLines' \in 0..WfMaxLines /\ UNCHANGED <<wfSet, wfPicture, wfSide, wfEvents>>
    BY <1>0, <1>7 DEF LineUp
  <2> QED BY <2>1, <2>2, <2>3, <1>0 DEF WfInv, WfTypeOK, Sound, WfClients, Client, Become, Honest, Driven, NoScale
<1>8. CASE LineDown
  <2> DEFINE d == LineGone(Client)
  <2>1. d \in WfClients /\ Honest(d) /\ d.line.sock = "off" /\ d.line.wanted = wfSet.on
        /\ d.line.timer = (wfLine.timer \/ wfLine.wanted)
    BY <1>0, LineGoneIsHonest DEF Sound
  <2>2. wfLine.wanted = wfSet.on /\ (~wfLine.wanted => ~wfLine.timer)
    BY <1>0 DEF Sound, Driven
  <2>3. Become(d)
    BY <1>8 DEF LineDown
  <2> HIDE DEF d
  <2>4. Sound(d)
    BY <2>1, <2>2, <1>0 DEF Sound, Driven, WfClients
  <2> QED BY <1>0, <1>R, <1>8, <2>1, <2>3, <2>4 DEF LineDown
<1>9. CASE WaterfallRetry
  <2>1. Sound(OpenSocket(Client)) /\ OpenSocket(Client).line.wanted = wfSet.on
    BY <1>0, <1>9 DEF WaterfallRetry, OpenSocket, Sound, WfClients, Honest, Driven
  <2> QED BY <1>0, <1>R, <1>9, <2>1 DEF WaterfallRetry
<1>10. CASE ScaleIsTold
  <2>1. /\ Sound([Client EXCEPT !.scale = wfLines, !.panel.scale = wfLines])
        /\ [Client EXCEPT !.scale = wfLines, !.panel.scale = wfLines].line.wanted = wfSet.on
    BY <1>0, <1>10 DEF ScaleIsTold, Sound, WfClients, Honest, Driven
  <2> QED BY <1>0, <1>R, <1>10, <2>1 DEF ScaleIsTold
<1>11. CASE FrameArrives
  <2>1. wfPicture' \subseteq BOOLEAN
    BY <1>0, <1>11 DEF FrameArrives, Sound, WfClients
  <2> QED BY <2>1, <1>0, <1>11 DEF FrameArrives, WfInv, WfTypeOK, Sound, Client, Honest, Driven, WfClients
<1>12. CASE UNCHANGED wfVars
  BY <1>12 DEF wfVars, WfInv, WfTypeOK, Sound, Client, Honest, Driven, WfClients
<1> QED
  BY <1>1, <1>2, <1>4, <1>5, <1>6, <1>7, <1>8, <1>9, <1>10, <1>11, <1>12 DEF WfNext

\* Nothing is wanted at first.
LEMMA WfStarts == ASSUME WaterfallAssumption PROVE WfInit => WfInv
<1> SUFFICES ASSUME WaterfallAssumption, WfInit PROVE WfInv
  OBVIOUS
<1> DEFINE w == CHOOSE w \in WfWidths : TRUE
<1>1. w \in WfWidths
  BY DEF WaterfallAssumption
<1>2. wfSet \in [on : BOOLEAN, host : WfHosts, colour : BOOLEAN]
  BY DEF WfInit
<1>3. /\ wfLine = [wanted |-> wfSet.on, sock |-> IF wfSet.on THEN "dialing" ELSE "off", host |-> wfSet.host,
                   timer |-> FALSE, points |-> IF wfSet.on THEN w ELSE DefaultPoints]
      /\ wfPanel = [visible |-> wfSet.on, side |-> FALSE, width |-> w,
                    linked |-> FALSE, scale |-> NoScale, colour |-> wfSet.colour]
      /\ wfOrder = 0 /\ wfScale = NoScale /\ wfPicture = {} /\ wfSide = FALSE
      /\ wfLines = 0 /\ wfEvents = 0
  BY DEF WfInit
<1> HIDE DEF w
<1>4. WfTypeOK
  <2>1. wfSet.on \in BOOLEAN /\ wfSet.host \in WfHosts /\ wfSet.colour \in BOOLEAN
    BY <1>2
  <2>2. wfLine \in [wanted : BOOLEAN, sock : {"off", "dialing", "up"}, host : WfHosts, timer : BOOLEAN,
                    points : WfWidths \cup {DefaultPoints}]
    BY <1>1, <1>3, <2>1
  <2>3. wfPanel \in [visible : BOOLEAN, side : BOOLEAN, width : WfWidths, linked : BOOLEAN,
                     scale : 0..WfMaxLines, colour : BOOLEAN]
    BY <1>1, <1>3, <2>1 DEF WaterfallAssumption, NoScale
  <2>4. wfOrder \in WfWidths \cup {0, DefaultPoints} /\ wfScale \in 0..WfMaxLines
        /\ wfLines \in 0..WfMaxLines /\ wfEvents \in 0..WfMaxEvents
    BY <1>3 DEF WaterfallAssumption, NoScale
  <2>5. wfPicture \subseteq BOOLEAN /\ wfSide \in BOOLEAN
    BY <1>3
  <2> QED BY <1>2, <2>2, <2>3, <2>4, <2>5, Zenon DEF WfTypeOK
<1>5. Sound(Client)
  <2>1. Client \in WfClients
    BY <1>4 DEF WfTypeOK, Client, WfClients
  <2>2. Honest(Client) /\ Driven(Client)
    BY <1>1, <1>2, <1>3 DEF Client, Honest, Driven, NoScale
  <2> QED BY <2>1, <2>2 DEF Sound
<1> QED BY <1>3, <1>4, <1>5 DEF WfInv

\* The invariant has what the window promises in it.
LEMMA WfShows == WfInv => WaterfallIsHonest
BY DEF WfInv, WfTypeOK, Sound, Client, WfClients, Honest, Driven, WaterfallIsHonest

-----------------------------------------------------------------------------
(* The spots of the cluster *)

SpChunks == [part : {"head", "tail", "prompt"}, station : SpStations, clock : Int, line : Int]
SpLinks ==
    [sock : {"off", "dialing", "up"}, host : SpHosts \cup {NoHost}, loggedIn : BOOLEAN, retry : BOOLEAN,
     limit : BOOLEAN, line : Int]

\* a is the beginning of a spot and b its end.
Pieces(a, b) == b.part = "tail" /\ b.line = a.line /\ b.station = a.station

\* What the socket holds: after every beginning of a spot its end.
PairsOnTheWire ==
    \A i \in 1..Len(spWire) :
        spWire[i].part = "head" => i + 1 \in 1..Len(spWire) /\ Pieces(spWire[i], spWire[i + 1])
\* What was read of a line that is a spot is its beginning, and the end comes next.
HalfALine ==
    spBuffer # <<>> /\ spBuffer[1].part = "head" =>
        Len(spBuffer) = 1 /\ spWire # <<>> /\ Pieces(spBuffer[1], spWire[1])

LineOfTheCluster ==
    /\ spLink \in SpLinks /\ spHost \in SpHosts \cup {NoHost}
    /\ spWire \in Seq(SpChunks) /\ spBuffer \in Seq(SpChunks) /\ Len(spBuffer) <= SpCap
    /\ KeepsDialing
    /\ spLink.sock = "dialing" => spBuffer = <<>>
    /\ ClusterUp => PairsOnTheWire /\ HalfALine
Bandmap ==
    /\ DOMAIN spMap \subseteq SpCalls /\ DOMAIN spShown \subseteq DOMAIN spMap
    /\ spBand \in SpBands /\ spLog \subseteq SpStations /\ spStale \in BOOLEAN
    /\ SpotsAreWhole /\ StrikesOutTheWorked
SpCounts == spNow \in 0..SpHorizon /\ spSent \in 0..SpMaxSent /\ spEvents \in 0..SpMaxEvents

SpInv == LineOfTheCluster /\ Bandmap /\ SpCounts

-----------------------------------------------------------------------------
(* The bandmap *)

\* However the bandmap is drawn again, it is right.
LEMMA RefreshIsRight ==
    ASSUME NEW map, NEW band \in SpBands, NEW log \in SUBSET SpStations, NEW now,
           DOMAIN map \subseteq SpCalls, \A c \in DOMAIN map : map[c].whole,
           RefreshBandmap(map, band, log, now)
    PROVE  Bandmap'
<1>1. /\ spMap' = [c \in Young(map, now) |-> map[c]]
      /\ spShown' = [c \in {y \in Young(map, now) : map[y].band = band} |-> Struck(c, band, log)]
      /\ spBand' = band /\ spLog' = log /\ spStale' = FALSE
  BY DEF RefreshBandmap
<1>2. Young(map, now) \subseteq DOMAIN map
  BY DEF Young
<1>3. (DOMAIN spMap \subseteq SpCalls)' /\ (DOMAIN spShown \subseteq DOMAIN spMap)' /\ SpotsAreWhole'
  BY <1>1, <1>2 DEF SpotsAreWhole
<1>4. StrikesOutTheWorked'
  <2>1. \A c \in DOMAIN spShown' : spMap'[c].band = band /\ spShown'[c] = Struck(c, band, log)
    BY <1>1, <1>2
  <2> QED BY <2>1, <1>1 DEF StrikesOutTheWorked, Struck
<1> QED BY <1>1, <1>3, <1>4 DEF Bandmap

\* A whole spot keeps the bandmap right.
LEMMA NoteIsRight ==
    ASSUME Bandmap, NEW s \in SpStations, NEW grid, NEW stamp, NoteSpot(s, grid, stamp, TRUE)
    PROVE  Bandmap'
<1> DEFINE spot == [band |-> s.band, grid |-> grid, stamp |-> stamp, heard |-> spNow, whole |-> TRUE]
           map == AddSpot(spMap, s.call, spot)
<1>1. DOMAIN map = DOMAIN spMap \cup {s.call} /\ s.call \in SpCalls
  BY DEF AddSpot, SpCalls
<1>2. \A c \in DOMAIN map : map[c].whole
  <2> TAKE c \in DOMAIN map
  <2>1. CASE c # s.call
    BY <2>1, <1>1 DEF AddSpot, Bandmap, SpotsAreWhole
  <2>2. CASE c = s.call
    BY <2>2, <1>1 DEF AddSpot
  <2> QED BY <2>1, <2>2
<1>3. RefreshBandmap(map, spBand, spLog, spNow)
  BY DEF NoteSpot
<1> HIDE DEF map
<1> QED BY <1>1, <1>2, <1>3, RefreshIsRight DEF Bandmap

-----------------------------------------------------------------------------
(* The line *)

\* A socket that is closed or dials holds nothing that is read.
LEMMA DownIsRight ==
    ASSUME LineOfTheCluster, spLink' \in SpLinks, ~ClusterUp', KeepsDialing', spHost' \in SpHosts \cup {NoHost},
           spWire' \in Seq(SpChunks), spBuffer' = spBuffer \/ spBuffer' = <<>>,
           spLink'.sock = "dialing" => spBuffer' = <<>>, SpCap \in Nat
    PROVE  LineOfTheCluster'
<1>1. <<>> \in Seq(SpChunks) /\ Len(<<>>) <= SpCap
  OBVIOUS
<1> QED BY <1>1 DEF LineOfTheCluster

\* connectToCluster() for a socket that is not up.
LEMMA DialIsRight ==
    ASSUME LineOfTheCluster, NEW link \in SpLinks, NEW host \in SpHosts \cup {NoHost}, link.sock # "up",
           ConnectToCluster(link, host), spHost' \in SpHosts \cup {NoHost}, spWire' = spWire, SpCap \in Nat
    PROVE  LineOfTheCluster'
<1>1. spLink' \in SpLinks /\ spLink'.sock = "dialing" /\ spLink'.limit = TRUE /\ spBuffer' = <<>>
  BY DEF ConnectToCluster, Dialed, SpLinks
<1>2. ~ClusterUp' /\ KeepsDialing'
  BY <1>1 DEF ClusterUp, KeepsDialing
<1> QED BY <1>1, <1>2, DownIsRight DEF LineOfTheCluster

\* A failure that asks for another try.
LEMMA RetryIsRight ==
    ASSUME LineOfTheCluster, NEW link \in SpLinks, link.sock = "off",
           spLink' = WithRetry(link), UNCHANGED <<spHost, spBuffer>>, spWire' \in {spWire, <<>>}, SpCap \in Nat
    PROVE  LineOfTheCluster'
<1> DEFINE again == link.host # NoHost
<1>1. again \in BOOLEAN /\ spLink' = [link EXCEPT !.retry = again]
  BY DEF WithRetry
<1> HIDE DEF again
<1>2. spLink' \in SpLinks /\ spLink'.sock = "off" /\ spLink'.retry = again /\ spLink'.host = link.host
  BY <1>1 DEF SpLinks
<1>3. ~ClusterUp' /\ KeepsDialing'
  BY <1>2 DEF ClusterUp, KeepsDialing, again
<1>4. <<>> \in Seq(SpChunks)
  OBVIOUS
<1> QED BY <1>2, <1>3, <1>4, DownIsRight DEF LineOfTheCluster

\* A server sends a spot in two pieces or a prompt.
LEMMA SendIsRight ==
    ASSUME LineOfTheCluster, SpCounts, SpotAssumption, ServerSends
    PROVE  LineOfTheCluster'
<1> USE DEF SpotAssumption
<1>1. PICK s \in SpStations, clock \in {((spNow + d) % SpDay) : d \in {0, SpDay - 1}} :
        spWire' \in {spWire \o <<Chunk("head", s, clock), Chunk("tail", s, clock)>>,
                     Append(spWire, Chunk("prompt", s, clock))}
  BY DEF ServerSends
<1> DEFINE h == Chunk("head", s, clock)
           t == Chunk("tail", s, clock)
           p == Chunk("prompt", s, clock)
<1>2. ClusterUp /\ UNCHANGED <<spLink, spHost, spBuffer>> /\ spWire \in Seq(SpChunks) /\ spLink \in SpLinks
  BY DEF ServerSends, LineOfTheCluster
<1>3. clock \in Int
  BY DEF SpCounts
<1>4. {h, t, p} \subseteq SpChunks /\ Pieces(h, t) /\ t.part # "head" /\ p.part # "head"
  BY <1>2, <1>3 DEF Chunk, SpChunks, SpLinks, Pieces
<1> HIDE DEF h, t, p
<1>5. \/ spWire' = spWire \o <<h, t>>
      \/ spWire' = Append(spWire, p)
  BY <1>1 DEF h, t, p
<1>6. /\ spWire' \in Seq(SpChunks) /\ Len(spWire') > Len(spWire)
      /\ \A i \in 1..Len(spWire) : spWire'[i] = spWire[i]
      /\ \A i \in 1..Len(spWire') : i \notin 1..Len(spWire) /\ spWire'[i].part = "head" =>
             i + 1 \in 1..Len(spWire') /\ Pieces(spWire'[i], spWire'[i + 1])
  <2>1. CASE spWire' = spWire \o <<h, t>>
    <3>1. /\ spWire' \in Seq(SpChunks) /\ Len(spWire') = Len(spWire) + 2
          /\ \A i \in 1..Len(spWire) : spWire'[i] = spWire[i]
          /\ spWire'[Len(spWire) + 1] = h /\ spWire'[Len(spWire) + 2] = t
      BY <2>1, <1>2, <1>4
    <3>2. \A i \in 1..Len(spWire') : i \notin 1..Len(spWire) => i = Len(spWire) + 1 \/ i = Len(spWire) + 2
      BY <3>1, <1>2, LenProperties
    <3> QED BY <3>1, <3>2, <1>2, <1>4, LenProperties
  <2>2. CASE spWire' = Append(spWire, p)
    <3>1. /\ spWire' \in Seq(SpChunks) /\ Len(spWire') = Len(spWire) + 1
          /\ \A i \in 1..Len(spWire) : spWire'[i] = spWire[i]
          /\ spWire'[Len(spWire) + 1] = p
      BY <2>2, <1>2, <1>4
    <3> QED BY <3>1, <1>2, <1>4, LenProperties
  <2> QED BY <1>5, <2>1, <2>2
<1>7. PairsOnTheWire'
  <2> SUFFICES ASSUME NEW i \in 1..Len(spWire'), spWire'[i].part = "head"
               PROVE  i + 1 \in 1..Len(spWire') /\ Pieces(spWire'[i], spWire'[i + 1])
    BY DEF PairsOnTheWire
  <2>1. CASE i \in 1..Len(spWire)
    <3>1. i + 1 \in 1..Len(spWire) /\ Pieces(spWire[i], spWire[i + 1])
      BY <2>1, <1>2, <1>6 DEF LineOfTheCluster, PairsOnTheWire
    <3>2. Len(spWire) \in Nat /\ Len(spWire') \in Nat
      BY <1>2, <1>6
    <3> QED BY <3>1, <3>2, <2>1, <1>6
  <2> QED BY <2>1, <1>6
<1>8. HalfALine'
  <2> SUFFICES ASSUME spBuffer # <<>>, spBuffer[1].part = "head"
               PROVE  Len(spBuffer) = 1 /\ spWire' # <<>> /\ Pieces(spBuffer[1], spWire'[1])
    BY <1>2 DEF HalfALine
  <2>1. Len(spBuffer) = 1 /\ spWire # <<>> /\ Pieces(spBuffer[1], spWire[1])
    BY <1>2 DEF LineOfTheCluster, HalfALine
  <2>2. 1 \in 1..Len(spWire) /\ spWire' # <<>>
    BY <2>1, <1>2, <1>6, EmptySeq, LenProperties
  <2> QED BY <2>1, <2>2, <1>6
<1> QED BY <1>2, <1>6, <1>7, <1>8 DEF LineOfTheCluster, KeepsDialing, ClusterUp

\* A chunk is read: of a spot the beginning stays until its end comes, and no other.
LEMMA ReadIsRight ==
    ASSUME LineOfTheCluster, Bandmap, SpotAssumption, ReadChunk
    PROVE  LineOfTheCluster' /\ Bandmap'
<1> USE DEF SpotAssumption
<1> DEFINE chunk == Head(spWire)
           all == Append(spBuffer, chunk)
<1>1. /\ ClusterUp /\ spWire # <<>> /\ spWire' = Tail(spWire) /\ UNCHANGED spHost
      /\ \/ Len(all) > SpCap /\ spBuffer' = <<>> /\ UNCHANGED <<spLink, spMapVars>>
         \/ /\ chunk.part = "tail" /\ spBuffer' = <<>> /\ UNCHANGED spLink
            /\ IF IsSpot(all) THEN NoteSpot(all[1].station, FALSE, StampOf(chunk.clock), Whole(all))
               ELSE UNCHANGED spMapVars
         \/ /\ chunk.part # "tail" /\ spBuffer' = <<>>
            /\ spLink' = [spLink EXCEPT !.loggedIn = TRUE] /\ UNCHANGED spMapVars
         \/ /\ ~(Len(all) > SpCap) /\ chunk.part # "tail" /\ spBuffer' = all /\ UNCHANGED <<spLink, spMapVars>>
  <2>1. /\ ClusterUp /\ spWire # <<>> /\ spWire' = Tail(spWire) /\ UNCHANGED spHost
        /\ IF Len(all) > SpCap THEN spBuffer' = <<>> /\ UNCHANGED <<spLink, spMapVars>>
           ELSE IF chunk.part = "tail" THEN
               /\ spBuffer' = <<>> /\ UNCHANGED spLink
               /\ IF IsSpot(all) THEN NoteSpot(all[1].station, FALSE, StampOf(chunk.clock), Whole(all))
                  ELSE UNCHANGED spMapVars
           ELSE IF chunk.part = "prompt" /\ ~spLink.loggedIn THEN
               spBuffer' = <<>> /\ spLink' = [spLink EXCEPT !.loggedIn = TRUE] /\ UNCHANGED spMapVars
           ELSE spBuffer' = all /\ UNCHANGED <<spLink, spMapVars>>
    BY Zenon DEF ReadChunk
  <2> HIDE DEF chunk, all
  <2> QED BY <2>1, Zenon
<1>2. /\ spWire \in Seq(SpChunks) /\ spBuffer \in Seq(SpChunks) /\ spLink \in SpLinks
      /\ PairsOnTheWire /\ HalfALine
  BY <1>1 DEF LineOfTheCluster
<1>3. /\ chunk \in SpChunks /\ chunk = spWire[1] /\ Len(spWire) \in Nat \ {0}
      /\ spWire' \in Seq(SpChunks) /\ Len(spWire') = Len(spWire) - 1
      /\ \A i \in 1..Len(spWire') : spWire'[i] = spWire[i + 1]
  BY <1>1, <1>2, HeadTailProperties
<1>4. /\ all \in Seq(SpChunks) /\ Len(all) = Len(spBuffer) + 1 /\ all[Len(spBuffer) + 1] = chunk
      /\ \A i \in 1..Len(spBuffer) : all[i] = spBuffer[i]
      /\ Len(spBuffer) \in Nat /\ (spBuffer = <<>> <=> Len(spBuffer) = 0)
  BY <1>2, <1>3, AppendProperties, EmptySeq, LenProperties
<1> HIDE DEF chunk, all
<1>5. PairsOnTheWire'
  <2> SUFFICES ASSUME NEW i \in 1..Len(spWire'), spWire'[i].part = "head"
               PROVE  i + 1 \in 1..Len(spWire') /\ Pieces(spWire'[i], spWire'[i + 1])
    BY DEF PairsOnTheWire
  <2>1. i + 1 \in 1..Len(spWire) /\ spWire[i + 1].part = "head"
    BY <1>3
  <2>2. (i + 1) + 1 \in 1..Len(spWire) /\ Pieces(spWire[i + 1], spWire[(i + 1) + 1])
    BY <2>1, <1>2 DEF PairsOnTheWire
  <2>3. i + 1 \in 1..Len(spWire')
    BY <2>2, <1>3
  <2> QED BY <2>2, <2>3, <1>3
<1>6. all[1].part = "head" /\ chunk.part = "tail" =>
        Len(all) = 2 /\ all[1].line = all[2].line /\ all[1].station = all[2].station
  <2> SUFFICES ASSUME all[1].part = "head", chunk.part = "tail"
               PROVE  Len(all) = 2 /\ all[1].line = all[2].line /\ all[1].station = all[2].station
    OBVIOUS
  <2>1. spBuffer # <<>> /\ all[1] = spBuffer[1]
    <3>1. Len(spBuffer) # 0
      BY <1>4
    <3> QED BY <3>1, <1>4
  <2>2. Len(spBuffer) = 1 /\ Pieces(spBuffer[1], spWire[1])
    BY <2>1, <1>2 DEF HalfALine
  <2> QED BY <2>1, <2>2, <1>3, <1>4 DEF Pieces
<1>7. all[1].part = "head" /\ chunk.part # "tail" => Len(all) = 1 /\ spWire' # <<>> /\ Pieces(all[1], spWire'[1])
  <2> SUFFICES ASSUME all[1].part = "head", chunk.part # "tail"
               PROVE  Len(all) = 1 /\ spWire' # <<>> /\ Pieces(all[1], spWire'[1])
    OBVIOUS
  <2>1. spBuffer = <<>>
    <3> SUFFICES ASSUME spBuffer # <<>> PROVE FALSE
      OBVIOUS
    <3>1. all[1] = spBuffer[1]
      BY <1>4
    <3> QED BY <3>1, <1>2, <1>3 DEF HalfALine, Pieces
  <2>2. all[1] = spWire[1] /\ Len(all) = 1
    BY <2>1, <1>3, <1>4
  <2>3. 1 \in 1..Len(spWire)
    BY <1>3
  <2>4. 1 + 1 \in 1..Len(spWire) /\ Pieces(spWire[1], spWire[1 + 1])
    BY <2>2, <2>3, <1>2 DEF PairsOnTheWire
  <2>5. 1 \in 1..Len(spWire')
    BY <2>4, <1>3
  <2>6. spWire' # <<>>
    BY <2>5, <1>3, EmptySeq
  <2> QED BY <2>2, <2>4, <2>5, <2>6, <1>3
<1>8. ClusterUp' /\ spLink' \in SpLinks /\ KeepsDialing'
  <2>1. spLink' = spLink \/ spLink' = [spLink EXCEPT !.loggedIn = TRUE]
    BY <1>1
  <2>2. spLink' \in SpLinks /\ spLink'.sock = "up"
    BY <2>1, <1>1, <1>2 DEF SpLinks, ClusterUp
  <2> QED BY <2>2 DEF ClusterUp, KeepsDialing
<1>9. spBuffer' = <<>> \/ (~(Len(all) > SpCap) /\ chunk.part # "tail" /\ spBuffer' = all)
  BY <1>1
<1>10. spBuffer' \in Seq(SpChunks) /\ Len(spBuffer') <= SpCap
  <2>1. <<>> \in Seq(SpChunks) /\ Len(<<>>) <= SpCap
    OBVIOUS
  <2>2. ~(Len(all) > SpCap) => Len(all) <= SpCap
    BY <1>4
  <2>3. CASE spBuffer' = <<>>
    BY <2>1, <2>3
  <2>4. CASE ~(Len(all) > SpCap) /\ spBuffer' = all
    BY <2>2, <2>4, <1>4
  <2> QED BY <2>3, <2>4, <1>9
<1>11. HalfALine'
  BY <1>9, <1>7 DEF HalfALine
<1>12. LineOfTheCluster'
  BY <1>1, <1>3, <1>5, <1>8, <1>10, <1>11 DEF LineOfTheCluster, ClusterUp
<1>13. Bandmap'
  <2>1. CASE UNCHANGED spMapVars
    BY <2>1 DEF Bandmap, spMapVars, SpotsAreWhole, StrikesOutTheWorked
  <2>2. CASE chunk.part = "tail" /\ IsSpot(all) /\ NoteSpot(all[1].station, FALSE, StampOf(chunk.clock), Whole(all))
    <3>1. all # <<>> /\ Head(all) = all[1] /\ all[1] \in SpChunks
      BY <1>4, EmptySeq, HeadTailProperties
    <3>2. Len(all) = 2 /\ all[1].line = all[2].line /\ all[1].station = all[2].station
      BY <2>2, <3>1, <1>6 DEF IsSpot
    <3>3. Whole(all) = TRUE
      BY <3>2, Zenon DEF Whole
    <3>4. NoteSpot(all[1].station, FALSE, StampOf(chunk.clock), TRUE)
      BY <2>2, <3>3
    <3>5. all[1].station \in SpStations
      BY <3>1 DEF SpChunks
    <3> QED BY <3>4, <3>5, NoteIsRight
  <2> QED BY <1>1, <2>1, <2>2
<1> QED BY <1>12, <1>13

-----------------------------------------------------------------------------
(* Every step *)

\* Settings, the line's own events, chunks, spots of the chat, log, band and time.
LEMMA SpInvariant == ASSUME SpotAssumption PROVE SpInv /\ [SpNext]_spVars => SpInv'
<1> SUFFICES ASSUME SpotAssumption, SpInv, [SpNext]_spVars PROVE SpInv'
  OBVIOUS
<1> USE DEF SpotAssumption
<1>0. LineOfTheCluster /\ Bandmap /\ SpCounts /\ spLink \in SpLinks /\ spHost \in SpHosts \cup {NoHost}
  BY DEF SpInv, LineOfTheCluster
<1>L. UNCHANGED spLinkVars => LineOfTheCluster'
  BY <1>0 DEF LineOfTheCluster, spLinkVars, KeepsDialing, ClusterUp, PairsOnTheWire, HalfALine
<1>M. UNCHANGED spMapVars => Bandmap'
  BY <1>0 DEF Bandmap, spMapVars, SpotsAreWhole, StrikesOutTheWorked
<1>E. UNCHANGED <<spNow, spSent>> /\ spEvents < SpMaxEvents /\ spEvents' = spEvents + 1 => SpCounts'
  BY <1>0 DEF SpCounts
<1>S. UNCHANGED <<spNow, spEvents>> /\ spSent < SpMaxSent /\ spSent' = spSent + 1 => SpCounts'
  BY <1>0 DEF SpCounts
<1>U. UNCHANGED <<spNow, spSent, spEvents>> => SpCounts'
  BY <1>0 DEF SpCounts
<1>W. UNCHANGED spWire => spWire' \in Seq(SpChunks)
  BY <1>0 DEF LineOfTheCluster
<1>1. CASE SaveClusterSettings
  <2>1. PICK host \in SpHosts \cup {NoHost} :
          /\ spHost' = host
          /\ IF host = NoHost \/ ClusterUp THEN UNCHANGED <<spLink, spBuffer>> ELSE ConnectToCluster(spLink, host)
    BY <1>1 DEF SaveClusterSettings
  <2>2. spHost' \in SpHosts \cup {NoHost} /\ spWire' = spWire
    BY <2>1, <1>1 DEF SaveClusterSettings
  <2>3. LineOfTheCluster'
    <3>1. CASE UNCHANGED <<spLink, spBuffer>>
      BY <3>1, <2>2, <1>0 DEF LineOfTheCluster, KeepsDialing, ClusterUp, PairsOnTheWire, HalfALine
    <3>2. CASE ~ClusterUp /\ ConnectToCluster(spLink, host)
      BY <3>2, <2>2, <1>0, DialIsRight DEF ClusterUp
    <3> QED BY <2>1, <3>1, <3>2
  <2> QED BY <2>3, <1>1, <1>M, <1>E DEF SaveClusterSettings, SpInv
<1>2. CASE SocketConnects
  <2>1. spLink' = [spLink EXCEPT !.sock = "up", !.limit = FALSE, !.line = @ + 1] /\ spWire' = <<>>
        /\ spBuffer' = spBuffer /\ spHost' = spHost /\ spLink.sock = "dialing"
    BY <1>2 DEF SocketConnects
  <2>2. spLink' \in SpLinks /\ spLink'.sock = "up"
    <3>1. spLink.line + 1 \in Int
      BY <1>0 DEF SpLinks
    <3> QED BY <2>1, <3>1, <1>0 DEF SpLinks
  <2>3. spBuffer = <<>>
    BY <2>1, <1>0 DEF LineOfTheCluster
  <2>4. <<>> \in Seq(SpChunks) /\ Len(<<>>) = 0
    OBVIOUS
  <2>5. PairsOnTheWire' /\ HalfALine' /\ KeepsDialing'
    BY <2>1, <2>2, <2>3, <2>4 DEF PairsOnTheWire, HalfALine, KeepsDialing, ClusterUp
  <2>6. LineOfTheCluster'
    BY <2>1, <2>2, <2>3, <2>4, <2>5, <1>0 DEF LineOfTheCluster
  <2> QED BY <2>6, <1>2, <1>M, <1>U DEF SocketConnects, SpInv
<1>3. CASE SocketFails
  <2> DEFINE link == [spLink EXCEPT !.sock = "off"]
  <2>1. link \in SpLinks /\ link.sock = "off"
    BY <1>0 DEF SpLinks
  <2>2. spLink' = WithRetry(link) /\ UNCHANGED <<spHost, spBuffer>> /\ spWire' \in {spWire, <<>>}
    BY <1>3 DEF SocketFails
  <2> HIDE DEF link
  <2> QED BY <2>1, <2>2, <1>0, <1>3, <1>M, <1>E, RetryIsRight DEF SocketFails, SpInv
<1>4. CASE ConnectTimesOut
  <2>1. CASE ClusterUp
    <3>1. spLink' = [spLink EXCEPT !.limit = FALSE] /\ UNCHANGED <<spHost, spWire, spBuffer>>
      BY <2>1, <1>4 DEF ConnectTimesOut
    <3>2. spLink' \in SpLinks /\ spLink'.sock = "up"
      BY <3>1, <2>1, <1>0 DEF SpLinks, ClusterUp
    <3>3. LineOfTheCluster'
      BY <3>1, <3>2, <2>1, <1>0 DEF LineOfTheCluster, ClusterUp, KeepsDialing, PairsOnTheWire, HalfALine
    <3> QED BY <3>3, <1>4, <1>M, <1>E DEF ConnectTimesOut, SpInv
  <2>2. CASE ~ClusterUp
    <3> DEFINE link == [spLink EXCEPT !.sock = "off", !.limit = FALSE]
    <3>1. link \in SpLinks /\ link.sock = "off"
      BY <1>0 DEF SpLinks
    <3>2. spLink' = WithRetry(link) /\ UNCHANGED <<spHost, spBuffer>> /\ spWire' \in {spWire, <<>>}
      BY <2>2, <1>4 DEF ConnectTimesOut
    <3> HIDE DEF link
    <3> QED BY <3>1, <3>2, <1>0, <1>4, <1>M, <1>E, RetryIsRight DEF ConnectTimesOut, SpInv
  <2> QED BY <2>1, <2>2
<1>5. CASE LinkDrops
  <2> DEFINE link == [spLink EXCEPT !.sock = "off", !.loggedIn = FALSE]
  <2>1. link \in SpLinks /\ link.sock = "off"
    BY <1>0 DEF SpLinks
  <2>2. spLink' = WithRetry(link) /\ UNCHANGED <<spHost, spBuffer>> /\ spWire' \in {spWire, <<>>}
    BY <1>5 DEF LinkDrops
  <2> HIDE DEF link
  <2> QED BY <2>1, <2>2, <1>0, <1>5, <1>M, <1>E, RetryIsRight DEF LinkDrops, SpInv
<1>6. CASE RetryDue
  <2> DEFINE link == [spLink EXCEPT !.retry = FALSE]
  <2>1. link \in SpLinks /\ link.sock = spLink.sock /\ spLink.host \in SpHosts \cup {NoHost}
    BY <1>0 DEF SpLinks
  <2>2. ConnectToCluster(link, spLink.host) /\ UNCHANGED <<spHost, spWire>>
    BY <1>6 DEF RetryDue
  <2> HIDE DEF link
  <2>3. LineOfTheCluster'
    <3>1. CASE ClusterUp
      <4>1. spLink' = link /\ spBuffer' = spBuffer
        BY <3>1, <2>1, <2>2 DEF ClusterUp, ConnectToCluster, Dialed
      <4> QED BY <4>1, <2>1, <2>2, <3>1, <1>0 DEF LineOfTheCluster, ClusterUp, KeepsDialing, PairsOnTheWire, HalfALine
    <3>2. CASE ~ClusterUp
      BY <3>2, <2>1, <2>2, <1>0, DialIsRight DEF ClusterUp
    <3> QED BY <3>1, <3>2
  <2> QED BY <2>3, <1>6, <1>M, <1>U DEF RetryDue, SpInv
<1>7. CASE ServerSends
  BY <1>7, <1>0, <1>M, <1>S, SendIsRight DEF ServerSends, SpInv
<1>8. CASE ReadChunk
  BY <1>8, <1>0, <1>U, ReadIsRight DEF ReadChunk, SpInv
<1>9. CASE ChatSpot
  <2>1. Bandmap'
    BY <1>9, <1>0, NoteIsRight DEF ChatSpot
  <2> QED BY <2>1, <1>9, <1>L, <1>S DEF ChatSpot, SpInv
<1>10. CASE LogSpotted
  <2>1. PICK s \in SpStations \ spLog : RefreshBandmap(spMap, spBand, spLog \cup {s}, spNow)
    BY <1>10 DEF LogSpotted
  <2>2. spLog \cup {s} \in SUBSET SpStations /\ spBand \in SpBands /\ DOMAIN spMap \subseteq SpCalls
        /\ \A c \in DOMAIN spMap : spMap[c].whole
    BY <1>0 DEF Bandmap, SpotsAreWhole
  <2>3. Bandmap'
    BY <2>1, <2>2, RefreshIsRight
  <2> QED BY <2>3, <1>10, <1>L, <1>E DEF LogSpotted, SpInv
<1>11. CASE CorrectLog
  <2>1. Bandmap'
    BY <1>0, <1>11 DEF CorrectLog, Bandmap, SpotsAreWhole, StrikesOutTheWorked
  <2> QED BY <2>1, <1>11, <1>L, <1>E DEF CorrectLog, SpInv
<1>12. CASE ChangeBand
  <2>1. PICK band \in SpBands : RefreshBandmap(spMap, band, spLog, spNow)
    BY <1>12 DEF ChangeBand
  <2>2. Bandmap'
    BY <2>1, <1>0, RefreshIsRight DEF Bandmap, SpotsAreWhole
  <2> QED BY <2>2, <1>12, <1>L, <1>U DEF ChangeBand, SpInv
<1>13. CASE TimePasses
  <2>1. RefreshBandmap(spMap, spBand, spLog, spNow')
    BY <1>13 DEF TimePasses
  <2>2. Bandmap'
    BY <2>1, <1>0, RefreshIsRight DEF Bandmap, SpotsAreWhole
  <2>3. SpCounts'
    BY <1>0, <1>13 DEF TimePasses, SpCounts
  <2> QED BY <2>2, <2>3, <1>13, <1>L DEF TimePasses, SpInv
<1>14. CASE UNCHANGED spVars
  <2>1. UNCHANGED spLinkVars /\ UNCHANGED spMapVars /\ UNCHANGED <<spNow, spSent, spEvents>>
    BY <1>14 DEF spVars
  <2> QED BY <2>1, <1>L, <1>M, <1>U DEF SpInv
<1> QED
  BY <1>1, <1>2, <1>3, <1>4, <1>5, <1>6, <1>7, <1>8, <1>9, <1>10, <1>11, <1>12, <1>13, <1>14 DEF SpNext

\* The first connection is on its way.
LEMMA SpStarts == ASSUME SpotAssumption PROVE SpInit => SpInv
<1> SUFFICES ASSUME SpotAssumption, SpInit PROVE SpInv
  OBVIOUS
<1>1. NeverDialed \in SpLinks /\ NeverDialed.host = NoHost /\ NeverDialed.sock = "off"
  BY DEF NeverDialed, SpLinks
<1>2. spLink \in SpLinks /\ KeepsDialing /\ ~ClusterUp /\ spHost \in SpHosts \cup {NoHost}
  BY <1>1 DEF SpInit, Dialed, SpLinks, KeepsDialing, ClusterUp
<1>3. <<>> \in Seq(SpChunks) /\ Len(<<>>) = 0
  OBVIOUS
<1>4. LineOfTheCluster
  BY <1>2, <1>3 DEF SpInit, LineOfTheCluster, SpotAssumption
<1>5. spMap = [c \in {} |-> 0] /\ spShown = [c \in {} |-> FALSE]
  BY DEF SpInit
<1>6. DOMAIN spMap = {} /\ DOMAIN spShown = {}
  BY <1>5
<1>7. Bandmap
  BY <1>6 DEF SpInit, Bandmap, SpotsAreWhole, StrikesOutTheWorked
<1> QED BY <1>4, <1>7 DEF SpInit, SpInv, SpCounts, SpotAssumption

\* The bandmap is right in every state that fits.
LEMMA SpShows == SpInv => BandmapIsTrue /\ SpTypeOK
BY DEF SpInv, LineOfTheCluster, Bandmap, SpCounts, BandmapIsTrue, SpTypeOK, SpLinks

-----------------------------------------------------------------------------
(* The settings *)

StConfigs ==
    [grid : StGrids, elev : StGrids, contest : StContests, on : [StRotors -> BOOLEAN],
     slot : [StBands -> {"none"} \cup StRotors], rec : BOOLEAN, device : {StandardInput, "usb"}]
StForms ==
    [open : {TRUE}, edits : Nat, awaited : SUBSET StGrids, inputs : SUBSET {StandardInput, "usb"}, s : StConfigs]
StQsos == [contest : StContests, from : StGrids, gone : BOOLEAN]

\* Every band goes to a rotor that is switched on, or to none.
Routed(s) == \A b \in StBands : s.slot[b] \in SlotEntries(s.on)
\* The QSOs of contest c that count are measured from grid.
MeasuredFrom(log, c, grid) == \A i \in 1..Len(log) : log[i].contest = c /\ ~log[i].gone => log[i].from = grid

StTyped ==
    /\ stLive \in StConfigs /\ stStored \in StConfigs /\ (stForm = NoForm \/ stForm \in StForms)
    /\ stLog \in Seq(StQsos) /\ stEven \subseteq StContests /\ stTorn \in BOOLEAN
    /\ stFaults \in 0..StMaxFaults
\* The history is right for every contest, not only for the active one.
EvenIsEven == \A c \in stEven : MeasuredFrom(stLog, c, stLive.grid)
RoutesHold ==
    /\ ~stTorn => Routed(stLive) /\ Routed(stStored)
    /\ stForm.open => Routed(stForm.s)

StInv == StTyped /\ EvenIsEven /\ RoutesHold

-----------------------------------------------------------------------------
(* saveTo() and setSettings() *)

\* The fields of the settings, one by one.
LEMMA FieldsAre == AllFields = {"grid", "elev", "contest", "on", "slot", "rec", "device"}
BY DEF AllFields, SettingFields

\* What is copied field by field stays of its kind.
LEMMA FieldsOfSettings ==
    ASSUME NEW s \in StConfigs PROVE DOMAIN s = {"grid", "elev", "contest", "on", "slot", "rec", "device"}
BY DEF StConfigs

\* Whatever was written, the table holds settings, field by field the new or the old ones.
LEMMA SavedAreSettings ==
    ASSUME NEW s \in StConfigs, NEW written, stStored \in StConfigs
    PROVE  /\ SaveTo(s, written) \in StConfigs
           /\ SaveTo(s, written).grid = IF "grid" \in written THEN s.grid ELSE stStored.grid
BY FieldsOfSettings DEF SaveTo, StConfigs

\* saveTo() that is not interrupted leaves in the database what is in force.
LEMMA SavedWhole ==
    ASSUME NEW s \in StConfigs, stStored \in StConfigs
    PROVE  SaveTo(s, AllFields) = s
BY FieldsOfSettings, FieldsAre DEF SaveTo, StConfigs

\* A start switches the recording off, and nothing else.
LEMMA LoadedAreSettings ==
    ASSUME NEW s \in StConfigs
    PROVE  /\ LoadFrom(s) \in StConfigs /\ LoadFrom(s).grid = s.grid
           /\ LoadFrom(s).on = s.on /\ LoadFrom(s).slot = s.slot
BY DEF LoadFrom, StConfigs

\* recomputeDistances() measures the contest of s from the locator of s and leaves the others alone.
LEMMA RemeasuredIsMeasured ==
    ASSUME NEW s \in StConfigs, stLog \in Seq(StQsos)
    PROVE  /\ Remeasured(s) \in Seq(StQsos) /\ Len(Remeasured(s)) = Len(stLog)
           /\ MeasuredFrom(Remeasured(s), s.contest, s.grid)
           /\ \A i \in 1..Len(stLog) : Remeasured(s)[i].contest = stLog[i].contest
           /\ \A i \in 1..Len(stLog) : stLog[i].contest # s.contest => Remeasured(s)[i] = stLog[i]
<1> DEFINE m == Remeasured(s)
           at(i) == IF stLog[i].contest = s.contest /\ ~stLog[i].gone
                    THEN [stLog[i] EXCEPT !.from = s.grid] ELSE stLog[i]
<1>1. DOMAIN stLog = 1..Len(stLog) /\ Len(stLog) \in Nat
  BY LenProperties
<1>2. m = [i \in 1..Len(stLog) |-> at(i)]
  BY <1>1 DEF Remeasured
<1>3. \A i \in 1..Len(stLog) : stLog[i] \in StQsos
  BY ElementOfSeq
<1>4. \A i \in 1..Len(stLog) :
        /\ at(i) \in StQsos /\ at(i).contest = stLog[i].contest /\ at(i).gone = stLog[i].gone
        /\ stLog[i].contest = s.contest /\ ~stLog[i].gone => at(i).from = s.grid
        /\ stLog[i].contest # s.contest => at(i) = stLog[i]
  BY <1>3 DEF StQsos, StConfigs
<1> HIDE DEF at
<1>5. m \in Seq(StQsos)
  <2>1. m \in [1..Len(stLog) -> StQsos]
    BY <1>2, <1>4
  <2> QED BY <2>1, <1>1, IsASeq
<1>6. Len(m) = Len(stLog) /\ \A i \in 1..Len(stLog) : m[i] = at(i)
  BY <1>1, <1>2, <1>5, LenProperties
<1> HIDE DEF m
<1> QED BY <1>4, <1>5, <1>6 DEF MeasuredFrom, m

\* After setSettings() the history names contests measured from the new place only.
LEMMA StaysEvenIsEven ==
    ASSUME StTyped, EvenIsEven, NEW s \in StConfigs, NEW measured \in BOOLEAN, NEW log,
           log = IF s.grid # stLive.grid /\ measured THEN Remeasured(s) ELSE stLog
    PROVE  /\ log \in Seq(StQsos) /\ StaysEven(s, measured) \subseteq StContests
           /\ \A c \in StaysEven(s, measured) : MeasuredFrom(log, c, s.grid)
<1>1. stLog \in Seq(StQsos) /\ DOMAIN stLog = 1..Len(stLog) /\ stEven \subseteq StContests
  BY LenProperties DEF StTyped
<1>2. /\ Remeasured(s) \in Seq(StQsos) /\ Len(Remeasured(s)) = Len(stLog)
      /\ MeasuredFrom(Remeasured(s), s.contest, s.grid)
      /\ \A i \in 1..Len(stLog) : Remeasured(s)[i].contest = stLog[i].contest
  BY <1>1, RemeasuredIsMeasured
<1>3. log \in Seq(StQsos) /\ StaysEven(s, measured) \subseteq StContests
  BY <1>1, <1>2 DEF StaysEven
<1>4. ASSUME NEW c \in StaysEven(s, measured) PROVE MeasuredFrom(log, c, s.grid)
  <2>1. CASE s.grid = stLive.grid
    BY <2>1, <1>4 DEF StaysEven, EvenIsEven
  <2>2. CASE s.grid # stLive.grid
    <3>1. (c = s.contest /\ measured) \/ \A i \in 1..Len(stLog) : stLog[i].contest # c
      BY <2>2, <1>1, <1>4 DEF StaysEven
    <3>2. CASE c = s.contest /\ measured
      BY <3>2, <2>2, <1>2
    <3>3. CASE \A i \in 1..Len(stLog) : stLog[i].contest # c
      <4>1. Len(log) = Len(stLog) /\ \A i \in 1..Len(stLog) : log[i].contest = stLog[i].contest
        BY <1>2
      <4> QED BY <4>1, <3>3 DEF MeasuredFrom
    <3> QED BY <3>1, <3>2, <3>3
  <2> QED BY <2>1, <2>2
<1> QED BY <1>3, <1>4

\* setSettings(): saved, remeasured where the locator has changed, and in force.
LEMMA SetSettingsIsRight ==
    ASSUME SettingsAssumption, StInv, NEW s \in StConfigs, Routed(s) \/ stTorn, SetSettings(s)
    PROVE  StInv'
<1> USE DEF SettingsAssumption
<1>1. PICK measured \in BOOLEAN, failed \in {{}} \cup {{f} : f \in AllFields} :
        /\ (~measured => s.grid # stLive.grid) /\ (measured => failed = {} \/ stFaults < StMaxFaults)
        /\ (~measured => failed = {} /\ stFaults < StMaxFaults)
        /\ stLog' = IF s.grid # stLive.grid /\ measured THEN Remeasured(s) ELSE stLog
        /\ stEven' = StaysEven(s, measured)
        /\ stLive' = s
        /\ stStored' = SaveTo(s, AllFields \ failed)
        /\ stTorn' = (stTorn \/ failed # {})
        /\ stFaults' = stFaults + (IF measured /\ failed = {} THEN 0 ELSE 1)
        /\ stForm' = NoForm
  BY DEF SetSettings
<1>2. stLog' \in Seq(StQsos) /\ stEven' \subseteq StContests /\ EvenIsEven'
  BY <1>1, StaysEvenIsEven DEF StInv, EvenIsEven
<1>3. stStored' \in StConfigs /\ stLive' \in StConfigs
  BY <1>1, SavedAreSettings DEF StInv, StTyped
<1>4. stFaults' \in 0..StMaxFaults
  BY <1>1 DEF StInv, StTyped
<1>5. stTorn' \in BOOLEAN
  BY <1>1 DEF StInv, StTyped
<1>6. ~stTorn' => Routed(stLive') /\ Routed(stStored')
  <2> SUFFICES ASSUME ~stTorn' PROVE Routed(s) /\ stStored' = s
    BY <1>1
  <2>1. ~stTorn /\ failed = {}
    BY <1>1
  <2>2. stStored' = SaveTo(s, AllFields)
    BY <1>1, <2>1
  <2> QED BY <2>1, <2>2, SavedWhole DEF StInv, StTyped
<1>7. stForm' = NoForm /\ ~NoForm.open
  BY <1>1 DEF NoForm
<1> QED BY <1>2, <1>3, <1>4, <1>5, <1>6, <1>7 DEF StInv, StTyped, RoutesHold, Routed

\* The program ends in the middle of saveTo(): the log is not measured anew.
LEMMA DyingIsRight ==
    ASSUME SettingsAssumption, StInv, NEW s \in StConfigs, NEW count, DieWhileSaving(s, count)
    PROVE  StInv'
<1> USE DEF SettingsAssumption
<1> DEFINE written == {SettingFields[i] : i \in 1..count}
<1>1. /\ stFaults < StMaxFaults /\ stFaults' = stFaults + 1 /\ stTorn' = TRUE /\ stForm' = NoForm
      /\ stLog' = IF s.grid # stLive.grid THEN Remeasured(s) ELSE stLog
      /\ stStored' = SaveTo(s, written)
      /\ stLive' = LoadFrom(stStored')
      /\ stEven' = IF stLive'.grid = s.grid THEN StaysEven(s, TRUE)
                   ELSE IF stLive'.grid = stLive.grid THEN stEven \ {s.contest} ELSE {}
  BY DEF DieWhileSaving
<1> HIDE DEF written
<1>2. /\ stLog' \in Seq(StQsos) /\ StaysEven(s, TRUE) \subseteq StContests
      /\ \A c \in StaysEven(s, TRUE) : MeasuredFrom(stLog', c, s.grid)
  <2>1. stLog' = IF s.grid # stLive.grid /\ TRUE THEN Remeasured(s) ELSE stLog
    BY <1>1
  <2> QED BY <2>1, StaysEvenIsEven DEF StInv
<1>3. stStored' \in StConfigs /\ stLive' \in StConfigs /\ stEven' \subseteq StContests
  BY <1>1, <1>2, SavedAreSettings, LoadedAreSettings DEF StInv, StTyped
<1>4. ASSUME NEW c \in stEven' PROVE MeasuredFrom(stLog', c, stLive'.grid)
  <2>1. CASE stLive'.grid = s.grid
    BY <2>1, <1>1, <1>2, <1>4
  <2>2. CASE stLive'.grid # s.grid
    <3>1. stLive'.grid = stLive.grid /\ c \in stEven /\ c # s.contest
      BY <2>2, <1>1, <1>4
    <3>2. MeasuredFrom(stLog, c, stLive.grid)
      BY <3>1 DEF StInv, EvenIsEven
    <3>3. stLog' = Remeasured(s) /\ stLog \in Seq(StQsos)
      BY <3>1, <2>2, <1>1 DEF StInv, StTyped
    <3>4. /\ Len(stLog') = Len(stLog)
          /\ \A i \in 1..Len(stLog) : stLog'[i].contest = stLog[i].contest
          /\ \A i \in 1..Len(stLog) : stLog[i].contest # s.contest => stLog'[i] = stLog[i]
      BY <3>3, RemeasuredIsMeasured
    <3> QED BY <3>1, <3>2, <3>4 DEF MeasuredFrom
  <2> QED BY <2>1, <2>2
<1>5. stFaults' \in 0..StMaxFaults
  BY <1>1 DEF StInv, StTyped
<1>6. stForm' = NoForm /\ ~NoForm.open
  BY <1>1 DEF NoForm
<1> QED BY <1>1, <1>2, <1>3, <1>4, <1>5, <1>6 DEF StInv, StTyped, EvenIsEven, RoutesHold

-----------------------------------------------------------------------------
(* The dialog *)

\* A changed form is a form.
LEMMA EditIsRight ==
    ASSUME SettingsAssumption, StInv, stForm.open, NEW s \in StConfigs, Routed(s), EditForm(s)
    PROVE  StInv'
<1>1. stForm \in StForms
  BY DEF StInv, StTyped, NoForm
<1>2. stForm' = [stForm EXCEPT !.s = s, !.edits = @ + 1]
  BY DEF EditForm
<1>3. stForm' \in StForms /\ stForm'.s = s
  <2>1. stForm.edits + 1 \in Nat
    BY <1>1 DEF StForms
  <2> QED BY <1>1, <1>2, <2>1 DEF StForms
<1>4. UNCHANGED <<stLive, stStored, stLog, stEven, stTorn, stFaults>>
  BY DEF EditForm
<1> QED BY <1>3, <1>4 DEF StInv, StTyped, EvenIsEven, RoutesHold, MeasuredFrom, Routed

\* A place in the form and the elevation that comes with it or later touch no route.
LEMMA PlaceIsRight ==
    ASSUME SettingsAssumption, StInv, stForm.open, NEW f, stForm' = f, f \in StForms,
           f.s.on = stForm.s.on, f.s.slot = stForm.s.slot,
           UNCHANGED <<stLive, stStored, stLog, stEven, stTorn, stFaults>>
    PROVE  StInv'
BY DEF StInv, StTyped, EvenIsEven, RoutesHold, MeasuredFrom, Routed

\* A combo box shows one of its entries.
LEMMA ComboShowsAnEntry ==
    ASSUME NEW value, NEW entries, NEW first \in entries
    PROVE  ComboShows(value, entries, first) \in entries
BY DEF ComboShows

\* The combo boxes offer slots.
LEMMA SlotEntriesAreSlots ==
    ASSUME NEW on
    PROVE  SlotEntries(on) \subseteq {"none"} \cup StRotors /\ "none" \in SlotEntries(on)
BY DEF SlotEntries

\* Combo boxes filled again route every band to a rotor that is on.
LEMMA RefreshedIsRouted ==
    ASSUME NEW s \in StConfigs
    PROVE  RefreshBandRotorCombos(s) \in StConfigs /\ Routed(RefreshBandRotorCombos(s))
<1> DEFINE t == RefreshBandRotorCombos(s)
           slot == [b \in StBands |-> ComboShows(s.slot[b], SlotEntries(s.on), "none")]
<1>1. \A b \in StBands : slot[b] \in SlotEntries(s.on)
  BY ComboShowsAnEntry, SlotEntriesAreSlots
<1>2. slot \in [StBands -> {"none"} \cup StRotors]
  BY <1>1, SlotEntriesAreSlots
<1>3. t = [s EXCEPT !.slot = slot]
  BY DEF RefreshBandRotorCombos
<1> HIDE DEF slot
<1>4. t \in StConfigs /\ t.on = s.on /\ t.slot = slot
  BY <1>2, <1>3 DEF StConfigs
<1> HIDE DEF t
<1> QED BY <1>1, <1>4 DEF Routed, t

\* What is done in the dialog, and its two buttons.
LEMMA DialogIsRight ==
    ASSUME SettingsAssumption, StInv, stForm.open, DialogStep
    PROVE  StInv'
<1>0. /\ stForm \in StForms /\ stForm.s \in StConfigs /\ Routed(stForm.s)
      /\ stForm.awaited \subseteq StGrids
  <2>1. stForm \in StForms
    BY DEF StInv, StTyped, NoForm
  <2> QED BY <2>1 DEF StForms, StInv, RoutesHold
<1> DEFINE s == stForm.s
<1>1. CASE \E g \in StGrids : TypeGrid(g)
  <2>1. PICK g \in StGrids : TypeGrid(g)
    BY <1>1
  <2>2. [s EXCEPT !.grid = g] \in StConfigs /\ Routed([s EXCEPT !.grid = g])
    BY <1>0 DEF StConfigs, Routed
  <2> QED BY <2>1, <2>2, EditIsRight DEF TypeGrid
<1>2. CASE \E g \in StGrids : ApplyGpsCoordinates(g)
  <2>1. PICK g \in StGrids, atHand \in BOOLEAN :
          stForm' = [stForm EXCEPT !.edits = @ + 1, !.s.grid = g,
                        !.s.elev = IF atHand THEN g ELSE @,
                        !.awaited = IF atHand THEN {} ELSE {g}]
    BY <1>2 DEF ApplyGpsCoordinates
  <2> DEFINE elev == IF atHand THEN g ELSE s.elev
             t == [s EXCEPT !.grid = g, !.elev = elev]
             more == stForm.edits + 1
             left == IF atHand THEN {} ELSE {g}
  <2>2. elev \in StGrids /\ left \in SUBSET StGrids /\ more \in Nat
    BY <1>0 DEF StForms, StConfigs
  <2>3. stForm' = [stForm EXCEPT !.edits = more, !.s.grid = g, !.s.elev = elev, !.awaited = left]
    BY <2>1, <1>0 DEF StForms, StConfigs
  <2> HIDE DEF elev, more, left
  <2>4. t \in StConfigs /\ t.on = s.on /\ t.slot = s.slot
    BY <1>0, <2>2 DEF StConfigs
  <2>5. stForm' = [stForm EXCEPT !.edits = more, !.s = t, !.awaited = left]
    BY <2>3, <1>0 DEF StForms, StConfigs
  <2> HIDE DEF t
  <2>6. stForm' \in StForms /\ stForm'.s = t
    BY <2>2, <2>4, <2>5, <1>0 DEF StForms
  <2> QED BY <2>4, <2>6, <1>2, PlaceIsRight DEF ApplyGpsCoordinates
<1>3. CASE \E c \in StContests : ChooseContest(c)
  <2>1. PICK c \in StContests : ChooseContest(c)
    BY <1>3
  <2>2. [s EXCEPT !.contest = c] \in StConfigs /\ Routed([s EXCEPT !.contest = c])
    BY <1>0 DEF StConfigs, Routed
  <2> QED BY <2>1, <2>2, EditIsRight DEF ChooseContest
<1>4. CASE \E d \in {StandardInput, "usb"} : ChooseDevice(d)
  <2>1. PICK d \in {StandardInput, "usb"} : ChooseDevice(d)
    BY <1>4
  <2>2. [s EXCEPT !.device = d] \in StConfigs /\ Routed([s EXCEPT !.device = d])
    BY <1>0 DEF StConfigs, Routed
  <2> QED BY <2>1, <2>2, EditIsRight DEF ChooseDevice
<1>5. CASE \E b \in StBands, slot \in {"none"} \cup StRotors : ChooseSlot(b, slot)
  <2>1. PICK b \in StBands, slot \in {"none"} \cup StRotors : ChooseSlot(b, slot)
    BY <1>5
  <2> DEFINE slots == [s.slot EXCEPT ![b] = slot]
             t == [s EXCEPT !.slot = slots]
  <2>2. slot \in SlotEntries(s.on) /\ EditForm(t)
    BY <2>1 DEF ChooseSlot
  <2>3. /\ slots \in [StBands -> {"none"} \cup StRotors]
        /\ \A a \in StBands : slots[a] = IF a = b THEN slot ELSE s.slot[a]
    BY <1>0 DEF StConfigs
  <2> HIDE DEF slots
  <2>4. t \in StConfigs /\ t.on = s.on /\ t.slot = slots
    BY <2>3, <1>0 DEF StConfigs
  <2> HIDE DEF t
  <2>5. Routed(t)
    BY <2>2, <2>3, <2>4, <1>0 DEF Routed
  <2> QED BY <2>2, <2>4, <2>5, EditIsRight
<1>6. CASE \E i \in StRotors : ToggleRotor(i)
  <2>1. PICK i \in StRotors : ToggleRotor(i)
    BY <1>6
  <2> DEFINE on == ~s.on[i]
             t == [s EXCEPT !.on[i] = on]
  <2>2. on \in BOOLEAN
    BY Zenon DEF on
  <2>3. EditForm(RefreshBandRotorCombos(t))
    BY <2>1 DEF ToggleRotor
  <2> HIDE DEF on
  <2>4. t \in StConfigs
    BY <2>2, <1>0 DEF StConfigs
  <2> HIDE DEF t
  <2> QED BY <2>3, <2>4, RefreshedIsRouted, EditIsRight
<1>7. CASE \E found \in BOOLEAN : ElevationArrives(found)
  <2>1. PICK found \in BOOLEAN : ElevationArrives(found)
    BY <1>7
  <2> DEFINE elev == IF found THEN CHOOSE g \in stForm.awaited : TRUE ELSE s.elev
             t == [s EXCEPT !.elev = elev]
  <2>2. elev \in StGrids
    <3>1. stForm.awaited # {}
      BY <2>1 DEF ElevationArrives
    <3>2. (CHOOSE g \in stForm.awaited : TRUE) \in StGrids
      BY <3>1, <1>0
    <3> QED BY <3>2, <1>0 DEF StConfigs
  <2>3. stForm' = [stForm EXCEPT !.awaited = {}, !.s.elev = elev]
    BY <2>1, <1>0 DEF ElevationArrives, StForms
  <2> HIDE DEF elev
  <2>4. t \in StConfigs /\ t.on = s.on /\ t.slot = s.slot
    BY <1>0, <2>2 DEF StConfigs
  <2>5. stForm' = [stForm EXCEPT !.s = t, !.awaited = {}]
    BY <2>3, <1>0 DEF StForms, StConfigs
  <2> HIDE DEF t
  <2>6. stForm' \in StForms /\ stForm'.s = t
    BY <2>4, <2>5, <1>0 DEF StForms
  <2> QED BY <2>4, <2>6, <2>1, PlaceIsRight DEF ElevationArrives
<1>8. CASE CancelSettings
  <2>1. stForm' = NoForm /\ ~NoForm.open
    BY <1>8 DEF CancelSettings, NoForm
  <2> QED BY <2>1, <1>8 DEF CancelSettings, StInv, StTyped, EvenIsEven, RoutesHold, MeasuredFrom, Routed
<1>9. CASE PressOk
  <2>1. CASE SetSettings(stForm.s)
    BY <2>1, <1>0, SetSettingsIsRight
  <2>2. CASE \E count \in 0..(Len(SettingFields) - 1) : DieWhileSaving(stForm.s, count)
    BY <2>2, <1>0, DyingIsRight
  <2> QED BY <1>9, <2>1, <2>2 DEF PressOk
<1> QED BY <1>1, <1>2, <1>3, <1>4, <1>5, <1>6, <1>7, <1>8, <1>9 DEF DialogStep

-----------------------------------------------------------------------------
(* Every step *)

\* QSOs are measured from the locator in force, and taken back.
LEMMA LogIsRight ==
    ASSUME SettingsAssumption, StInv,
           LogFromHere \/ \E i \in DOMAIN stLog : DeleteOrTakeBack(i)
    PROVE  StInv'
<1>0. /\ stLog \in Seq(StQsos) /\ DOMAIN stLog = 1..Len(stLog) /\ Len(stLog) \in Nat
      /\ stLive \in StConfigs
  BY LenProperties DEF StInv, StTyped
<1>1. CASE LogFromHere
  <2> DEFINE q == [contest |-> stLive.contest, from |-> stLive.grid, gone |-> FALSE]
  <2>1. q \in StQsos /\ q.from = stLive.grid
    BY <1>0 DEF StQsos, StConfigs
  <2>2. stLog' = Append(stLog, q)
    BY <1>1 DEF LogFromHere
  <2> HIDE DEF q
  <2>3. /\ stLog' \in Seq(StQsos) /\ Len(stLog') = Len(stLog) + 1 /\ stLog'[Len(stLog) + 1] = q
        /\ \A i \in 1..Len(stLog) : stLog'[i] = stLog[i]
    BY <1>0, <2>1, <2>2, AppendProperties
  <2>4. \A i \in 1..Len(stLog') : i \in 1..Len(stLog) \/ i = Len(stLog) + 1
    BY <2>3, <1>0
  <2>5. stLive' = stLive /\ stEven' = stEven
    BY <1>1 DEF LogFromHere
  <2>6. EvenIsEven'
    BY <2>1, <2>3, <2>4, <2>5 DEF EvenIsEven, MeasuredFrom, StInv
  <2> QED BY <2>3, <2>6, <1>1 DEF LogFromHere, StInv, StTyped, RoutesHold, Routed
<1>2. CASE \E i \in DOMAIN stLog : DeleteOrTakeBack(i)
  <2>1. PICK i \in 1..Len(stLog) : DeleteOrTakeBack(i)
    BY <1>0, <1>2
  <2> DEFINE gone == ~stLog[i].gone
             q == [stLog[i] EXCEPT !.gone = gone]
  <2>2. gone \in BOOLEAN
    BY Zenon DEF gone
  <2>3. stLog[i] \in StQsos
    BY <1>0, ElementOfSeq
  <2>4. stLog' = [stLog EXCEPT ![i] = q]
    BY <2>1 DEF DeleteOrTakeBack
  <2>5. gone = ~stLog[i].gone
    BY Zenon DEF gone
  <2> HIDE DEF gone
  <2>6. q \in StQsos /\ q.contest = stLog[i].contest /\ q.from = stLog[i].from /\ q.gone = gone
    BY <2>2, <2>3 DEF StQsos
  <2> HIDE DEF q
  <2>7. /\ stLog' \in Seq(StQsos) /\ Len(stLog') = Len(stLog) /\ stLog'[i] = q
        /\ \A j \in 1..Len(stLog) : j # i => stLog'[j] = stLog[j]
    BY <1>0, <2>4, <2>6, ExceptSeq
  <2>8. stLive' = stLive /\ stEven' \subseteq stEven
        /\ (stLog[i].gone /\ stLog[i].from # stLive.grid => stLog[i].contest \notin stEven')
    BY <2>1 DEF DeleteOrTakeBack
  <2>9. ASSUME NEW c \in stEven', NEW j \in 1..Len(stLog'), stLog'[j].contest = c, ~stLog'[j].gone
        PROVE  stLog'[j].from = stLive.grid
    <3>1. MeasuredFrom(stLog, c, stLive.grid)
      BY <2>8, <2>9 DEF StInv, EvenIsEven
    <3>2. CASE j = i
      BY <3>2, <2>5, <2>6, <2>7, <2>8, <2>9
    <3>3. CASE j # i
      BY <3>1, <3>3, <2>7, <2>9 DEF MeasuredFrom
    <3> QED BY <3>2, <3>3
  <2>10. EvenIsEven'
    BY <2>8, <2>9 DEF EvenIsEven, MeasuredFrom
  <2> QED BY <2>1, <2>7, <2>8, <2>10 DEF DeleteOrTakeBack, StInv, StTyped, RoutesHold, Routed
<1> QED BY <1>1, <1>2

\* Dialog, log, menus, restart and death: what the settings say and what the log
\* was measured from agree (AppController::setSettings).
LEMMA StInvariant == ASSUME SettingsAssumption PROVE StInv /\ [StNext]_stVars => StInv'
<1> SUFFICES ASSUME SettingsAssumption, StInv, [StNext]_stVars PROVE StInv'
  OBVIOUS
<1> USE DEF SettingsAssumption
<1>0. stLive \in StConfigs /\ stStored \in StConfigs /\ (Routed(stLive) \/ stTorn)
  BY DEF StInv, StTyped, RoutesHold
<1>1. CASE OpenSettingsDialog
  <2>1. PICK inputs \in InputDevices :
          stForm' = [open |-> TRUE, edits |-> 0, awaited |-> {}, inputs |-> inputs,
                     s |-> [stLive EXCEPT
                               !.slot = [b \in StBands |-> ComboShows(stLive.slot[b], SlotEntries(stLive.on), "none")],
                               !.contest = ComboShows(@, StContests, StFirst),
                               !.device = ComboShows(@, inputs, StandardInput)]]
    BY <1>1 DEF OpenSettingsDialog
  <2> DEFINE r == RefreshBandRotorCombos(stLive)
             contest == ComboShows(stLive.contest, StContests, StFirst)
             device == ComboShows(stLive.device, inputs, StandardInput)
             t == [r EXCEPT !.contest = contest, !.device = device]
  <2>2. inputs \in SUBSET {StandardInput, "usb"} /\ StandardInput \in inputs
    BY DEF InputDevices
  <2>3. contest \in StContests /\ device \in {StandardInput, "usb"}
    BY <2>2, ComboShowsAnEntry
  <2>4. r \in StConfigs /\ Routed(r)
    BY <1>0, RefreshedIsRouted
  <2>5. stForm' = [open |-> TRUE, edits |-> 0, awaited |-> {}, inputs |-> inputs, s |-> t]
    <3>1. r.contest = stLive.contest /\ r.device = stLive.device
      BY <1>0 DEF RefreshBandRotorCombos, StConfigs
    <3>2. t = [stLive EXCEPT
                 !.slot = [b \in StBands |-> ComboShows(stLive.slot[b], SlotEntries(stLive.on), "none")],
                 !.contest = contest, !.device = device]
      BY <1>0 DEF RefreshBandRotorCombos, StConfigs
    <3>3. t = [stLive EXCEPT
                 !.slot = [b \in StBands |-> ComboShows(stLive.slot[b], SlotEntries(stLive.on), "none")],
                 !.contest = ComboShows(@, StContests, StFirst),
                 !.device = ComboShows(@, inputs, StandardInput)]
      BY <3>2, <1>0 DEF StConfigs
    <3> HIDE DEF t
    <3> QED BY <2>1, <3>3
  <2> HIDE DEF r, contest, device
  <2>6. t \in StConfigs /\ Routed(t)
    BY <2>3, <2>4 DEF StConfigs, Routed
  <2> HIDE DEF t
  <2>7. stForm' \in StForms /\ stForm'.s = t
    BY <2>2, <2>5, <2>6 DEF StForms
  <2> QED BY <2>6, <2>7, <1>1 DEF OpenSettingsDialog, StInv, StTyped, EvenIsEven, RoutesHold, MeasuredFrom, Routed
<1>2. CASE stForm.open /\ DialogStep
  BY <1>2, DialogIsRight
<1>3. CASE \E c \in StContests, g \in StGrids : PickContestAndGrid(c, g)
  <2>1. PICK c \in StContests, g \in StGrids : SetSettings([stLive EXCEPT !.contest = c, !.grid = g])
    BY <1>3 DEF PickContestAndGrid
  <2> DEFINE t == [stLive EXCEPT !.contest = c, !.grid = g]
  <2>2. t \in StConfigs /\ t.on = stLive.on /\ t.slot = stLive.slot
    BY <1>0 DEF StConfigs
  <2> HIDE DEF t
  <2>3. Routed(t) \/ stTorn
    BY <2>2, <1>0 DEF Routed
  <2> QED BY <2>1, <2>2, <2>3, SetSettingsIsRight DEF t
<1>4. CASE ToggleRecording
  <2> DEFINE rec == ~stLive.rec
             t == [stLive EXCEPT !.rec = rec]
  <2>1. rec \in BOOLEAN
    BY Zenon DEF rec
  <2>2. SetSettings(t)
    BY <1>4 DEF ToggleRecording
  <2> HIDE DEF rec
  <2>3. t \in StConfigs /\ t.on = stLive.on /\ t.slot = stLive.slot
    BY <2>1, <1>0 DEF StConfigs
  <2> HIDE DEF t
  <2>4. Routed(t) \/ stTorn
    BY <2>3, <1>0 DEF Routed
  <2> QED BY <2>2, <2>3, <2>4, SetSettingsIsRight
<1>5. CASE LogFromHere \/ \E i \in DOMAIN stLog : DeleteOrTakeBack(i)
  BY <1>5, LogIsRight
<1>6. CASE RestartSettings
  <2>1. /\ stLive' = LoadFrom(stStored) /\ stForm' = NoForm /\ ~NoForm.open
        /\ UNCHANGED <<stStored, stLog, stTorn, stFaults>>
        /\ stEven' = IF stStored.grid = stLive.grid /\ stStored.contest = stLive.contest THEN stEven ELSE {}
    BY <1>6 DEF RestartSettings, NoForm
  <2>2. /\ stLive' \in StConfigs /\ stLive'.grid = stStored.grid
        /\ stLive'.on = stStored.on /\ stLive'.slot = stStored.slot
    BY <2>1, <1>0, LoadedAreSettings
  <2>3. EvenIsEven'
    BY <2>1, <2>2 DEF EvenIsEven, StInv
  <2>4. RoutesHold'
    BY <2>1, <2>2 DEF RoutesHold, Routed, StInv
  <2> QED BY <2>1, <2>2, <2>3, <2>4 DEF StInv, StTyped
<1>7. CASE UNCHANGED stVars
  BY <1>7 DEF stVars, StInv, StTyped, EvenIsEven, RoutesHold, MeasuredFrom, Routed
<1> QED BY <1>1, <1>2, <1>3, <1>4, <1>5, <1>6, <1>7 DEF StNext

\* The first start finds an empty database.
LEMMA StStarts == ASSUME SettingsAssumption PROVE StInit => StInv
<1> SUFFICES ASSUME SettingsAssumption, StInit PROVE StInv
  OBVIOUS
<1>1. StDefaults \in StConfigs /\ Routed(StDefaults)
  BY DEF StDefaults, StConfigs, StRotors, Routed, SlotEntries, SettingsAssumption
<1>2. <<>> \in Seq(StQsos) /\ Len(<<>>) = 0 /\ ~NoForm.open
  BY DEF NoForm
<1>3. StTyped
  <2>1. stLive \in StConfigs /\ stStored \in StConfigs
    BY <1>1 DEF StInit
  <2>2. stLog \in Seq(StQsos)
    BY <1>2 DEF StInit
  <2>3. stFaults \in 0..StMaxFaults
    BY DEF StInit, SettingsAssumption
  <2>4. stForm = NoForm /\ stEven \subseteq StContests /\ stTorn \in BOOLEAN
    BY Zenon DEF StInit
  <2> QED BY <2>1, <2>2, <2>3, <2>4 DEF StTyped
<1>4. EvenIsEven
  BY <1>2 DEF StInit, EvenIsEven, MeasuredFrom
<1>5. RoutesHold
  BY <1>1, <1>2 DEF StInit, RoutesHold
<1> QED BY <1>3, <1>4, <1>5 DEF StInv

\* What was promised of settings and log is part of it.
LEMMA StShows == StInv => SettingsAgree /\ StTypeOK
<1> SUFFICES ASSUME StInv PROVE SettingsAgree /\ StTypeOK
  OBVIOUS
<1>1. DOMAIN stLog = 1..Len(stLog) /\ \A i \in 1..Len(stLog) : stLog[i] \in StQsos
  BY LenProperties, ElementOfSeq DEF StInv, StTyped
<1>2. SettingsAgree
  BY <1>1 DEF StInv, EvenIsEven, MeasuredFrom, RoutesHold, Routed, SettingsAgree
<1>3. StTypeOK
  BY <1>1 DEF StInv, StTyped, StTypeOK, StConfigs, StQsos
<1> QED BY <1>2, <1>3

-----------------------------------------------------------------------------
(* The contest rules *)

RbFieldNames == RbFields \cup {"serial", "grid"} \cup UNION {RbShipped[i].fields : i \in DOMAIN RbShipped}
RbDefs ==
    [id : RuleIds, vhf : BOOLEAN, allModes : BOOLEAN, distance : BOOLEAN, fields : SUBSET RbFieldNames,
     schedule : BOOLEAN, everyday : BOOLEAN]
RbEditors == [open : {TRUE}, list : Seq(RbDefs), at : Nat, form : RbDefs]

\* A contest that counts kilometres asks for the locator and the number.
Countable(d) == d.distance => {"grid", "serial"} \subseteq d.fields
\* A file over a contest is absent, half of one, or names this contest and countable rules.
FileOK(file, id) ==
    \/ file = NoFile \/ file = Broken
    \/ \E d \in RbDefs : file = Saved(d) /\ d.id = id /\ Countable(d)
FilesOK(own) == DOMAIN own = RuleIds /\ \A j \in RuleIds : FileOK(own[j], j)
\* A start finds rules for contest j.
Loadable(own, j) == j \in ShippedIds \/ own[j].kind = "rules"
\* The list has every contest with rules, and no other but for those whose file broke since.
ListOK(known, own, torn) ==
    /\ known \in Seq(RbDefs) /\ known # <<>>
    /\ \A i \in 1..Len(known) : Countable(known[i]) /\ (known[i].id \in torn \/ Loadable(own, known[i].id))
    /\ \A j \in RuleIds : Loadable(own, j) => \E i \in 1..Len(known) : known[i].id = j

RbInv ==
    /\ FilesOK(rbOwn) /\ rbOwn = [j \in RuleIds |-> rbOwn[j]] /\ ListOK(rbKnown, rbOwn, rbTorn)
    /\ rbActive \in RuleIds /\ (rbActive \in rbTorn \/ Loadable(rbOwn, rbActive))
    /\ rbShown \in RuleIds /\ rbTorn \subseteq RuleIds
    /\ rbEditor = Shut \/ (rbEditor \in RbEditors /\ rbEditor.at \in 1..Len(rbEditor.list))

-----------------------------------------------------------------------------
(* Files and lists *)

\* What writing and removing a file of rules can leave there.
LEMMA KindsOfFiles ==
    ASSUME NEW file, NEW id, FileOK(file, id)
    PROVE  /\ file.kind \in {"none", "broken", "rules"}
           /\ file.kind = "rules" => file.def \in RbDefs /\ file.def.id = id /\ Countable(file.def)
BY DEF FileOK, NoFile, Broken, Saved

\* The contests that come with the program, before any file is looked at.
LEMMA ShippedIsRight ==
    ASSUME RuleBookAssumption
    PROVE  /\ RbShipped \in Seq(RbDefs) /\ Len(RbShipped) \in Nat \ {0} /\ DOMAIN RbShipped = 1..Len(RbShipped)
           /\ \A i \in 1..Len(RbShipped) : RbShipped[i] \in RbDefs /\ Countable(RbShipped[i])
                                           /\ RbShipped[i].id \in ShippedIds
<1>1. RbShipped \in Seq({RbShipped[i] : i \in DOMAIN RbShipped}) /\ RbShipped # <<>>
  BY DEF RuleBookAssumption
<1>2. DOMAIN RbShipped = 1..Len(RbShipped) /\ Len(RbShipped) \in Nat
  BY <1>1, LenProperties
<1>3. Len(RbShipped) # 0
  BY <1>1, EmptySeq
<1>4. ASSUME NEW i \in DOMAIN RbShipped
      PROVE  RbShipped[i] \in RbDefs /\ Countable(RbShipped[i]) /\ RbShipped[i].id \in ShippedIds
  <2> DEFINE d == RbShipped[i]
  <2>1. /\ d = [id |-> d.id, vhf |-> d.vhf, allModes |-> d.allModes, distance |-> d.distance, fields |-> d.fields,
                schedule |-> d.schedule, everyday |-> d.everyday]
        /\ {d.vhf, d.allModes, d.distance, d.schedule, d.everyday} \subseteq BOOLEAN
        /\ (d.distance => {"grid", "serial"} \subseteq d.fields)
    BY DEF RuleBookAssumption
  <2>2. d.fields \in SUBSET RbFieldNames
    BY DEF RbFieldNames
  <2>3. d.id \in ShippedIds /\ d.id \in RuleIds
    BY DEF ShippedIds, RuleIds
  <2> HIDE DEF d
  <2> QED BY <2>1, <2>2, <2>3 DEF RbDefs, Countable, d
<1>5. RbShipped \in Seq(RbDefs)
  <2>1. \A i \in 1..Len(RbShipped) : RbShipped[i] \in RbDefs
    BY <1>2, <1>4
  <2>2. RbShipped = [i \in 1..Len(RbShipped) |-> RbShipped[i]]
    BY <1>1, <1>2
  <2>3. RbShipped \in [1..Len(RbShipped) -> RbDefs]
    BY <2>1, <2>2
  <2> QED BY <2>3, <1>2, IsASeq
<1> QED BY <1>2, <1>3, <1>4, <1>5

\* loadAvailableContestDefinitions() lists what has rules, and nothing else.
LEMMA LoadedListIsRight ==
    ASSUME RuleBookAssumption, NEW own, FilesOK(own), NEW torn
    PROVE  /\ ListOK(LoadAvailable(own), own, torn)
           /\ \A i \in 1..Len(LoadAvailable(own)) : Loadable(own, LoadAvailable(own)[i].id)
<1> DEFINE n == Len(RbShipped)
           at(i) == IF own[RbShipped[i].id].kind = "rules" THEN own[RbShipped[i].id].def ELSE RbShipped[i]
           shipped == [i \in 1..n |-> at(i)]
           ids == {j \in RbOwnIds : own[j].kind = "rules"}
           defs == {own[j].def : j \in ids}
           invented == SetToSeq(defs)
           known == shipped \o invented
<1>1. /\ n \in Nat \ {0} /\ DOMAIN RbShipped = 1..n
      /\ \A i \in 1..n : RbShipped[i] \in RbDefs /\ Countable(RbShipped[i]) /\ RbShipped[i].id \in ShippedIds
  BY ShippedIsRight
<1>2. LoadAvailable(own) = known
  BY <1>1 DEF LoadAvailable
<1>3. ASSUME NEW i \in 1..n
      PROVE  at(i) \in RbDefs /\ Countable(at(i)) /\ at(i).id = RbShipped[i].id
  <2>1. RbShipped[i].id \in RuleIds
    BY <1>1 DEF RuleIds
  <2>2. FileOK(own[RbShipped[i].id], RbShipped[i].id)
    BY <2>1 DEF FilesOK
  <2> QED BY <2>2, <1>1, KindsOfFiles
<1>4. IsFiniteSet(defs)
  <2>1. IsFiniteSet(ids)
    BY FS_Subset DEF RuleBookAssumption
  <2> DEFINE f == [j \in ids |-> own[j].def]
  <2>2. f \in Surjection(ids, defs)
    BY Fun_IsSurj
  <2> HIDE DEF ids, defs, f
  <2> QED BY <2>1, <2>2, FS_Surjection
<1>5. ASSUME NEW d \in defs PROVE d \in RbDefs /\ Countable(d) /\ Loadable(own, d.id)
  <2>1. PICK j \in ids : d = own[j].def
    OBVIOUS
  <2>2. j \in RuleIds /\ own[j].kind = "rules"
    BY DEF RuleIds
  <2>3. FileOK(own[j], j)
    BY <2>2 DEF FilesOK
  <2> QED BY <2>1, <2>2, <2>3, KindsOfFiles DEF Loadable
<1>6. /\ invented \in Seq(defs) /\ Len(invented) \in Nat /\ DOMAIN invented = 1..Len(invented)
      /\ \A d \in defs : \E i \in 1..Len(invented) : invented[i] = d
      /\ \A i \in 1..Len(invented) : invented[i] \in defs
  <2> HIDE DEF defs
  <2> QED BY <1>4, SetToSeqLists, LenProperties, ElementOfSeq
<1>7. /\ shipped \in Seq(RbDefs) /\ Len(shipped) = n
      /\ \A i \in 1..n : Countable(shipped[i]) /\ shipped[i].id = RbShipped[i].id
  <2>1. shipped \in [1..n -> RbDefs]
    BY <1>3
  <2>2. \A i \in 1..n : Countable(shipped[i]) /\ shipped[i].id = RbShipped[i].id
    BY <1>3
  <2> HIDE DEF shipped, at
  <2> QED BY <2>1, <2>2, <1>1, FunctionIsSeq
<1>8. invented \in Seq(RbDefs)
  <2>1. invented \in [1..Len(invented) -> RbDefs]
    BY <1>5, <1>6
  <2> QED BY <2>1, <1>6, IsASeq
<1> HIDE DEF shipped, invented, at, defs, n
<1>9. /\ known \in Seq(RbDefs) /\ Len(known) = n + Len(invented)
      /\ \A i \in 1..Len(known) : i \in 1..n \/ \E k \in 1..Len(invented) : i = n + k
      /\ \A i \in 1..n : i \in 1..Len(known) /\ known[i] = shipped[i]
      /\ \A k \in 1..Len(invented) : n + k \in 1..Len(known) /\ known[n + k] = invented[k]
  <2>1. Joined(RbDefs, shipped, invented, known)
    BY <1>7, <1>8, TwoLists
  <2> HIDE DEF known
  <2> QED BY <2>1, <1>7 DEF Joined
<1> HIDE DEF known
<1>13. \A i \in 1..Len(known) : Countable(known[i]) /\ Loadable(own, known[i].id)
  <2> TAKE i \in 1..Len(known)
  <2>1. CASE i \in 1..n
    BY <2>1, <1>1, <1>3, <1>7, <1>9 DEF Loadable
  <2>2. CASE \E k \in 1..Len(invented) : i = n + k
    BY <2>2, <1>5, <1>6, <1>9
  <2> QED BY <2>1, <2>2, <1>9
<1>14. ASSUME NEW j \in RuleIds, Loadable(own, j) PROVE \E i \in 1..Len(known) : known[i].id = j
  <2>1. CASE j \in ShippedIds
    <3>1. PICK i \in 1..n : RbShipped[i].id = j
      BY <2>1, <1>1 DEF ShippedIds
    <3> QED BY <3>1, <1>3, <1>7, <1>9
  <2>2. CASE j \notin ShippedIds
    <3>1. j \in ids
      BY <2>2, <1>14 DEF Loadable, RuleIds
    <3>2. PICK k \in 1..Len(invented) : invented[k] = own[j].def
      <4>1. own[j].def \in defs
        BY <3>1 DEF defs
      <4> QED BY <4>1, <1>6
    <3>3. own[j].def.id = j
      BY <3>1, <1>14, KindsOfFiles DEF FilesOK
    <3> QED BY <3>2, <3>3, <1>9
  <2> QED BY <2>1, <2>2
<1>15. known # <<>>
  BY <1>1, <1>6, <1>9, EmptySeq
<1> QED BY <1>2, <1>9, <1>13, <1>14, <1>15 DEF ListOK

\* The entries of a list of rules.
LEMMA EntriesAreRules ==
    ASSUME NEW known \in Seq(RbDefs)
    PROVE  /\ DOMAIN known = 1..Len(known) /\ Len(known) \in Nat
           /\ \A i \in 1..Len(known) : known[i] \in RbDefs /\ known[i].id \in RuleIds
<1>1. \A i \in 1..Len(known) : known[i] \in RbDefs
  BY ElementOfSeq
<1>2. \A d \in RbDefs : d.id \in RuleIds
  BY DEF RbDefs
<1> QED BY <1>1, <1>2, LenProperties

\* A contest is found in a list when an entry has its id.
LEMMA FoundInList ==
    ASSUME NEW known \in Seq(RbDefs), NEW id
    PROVE  FindDefinition(known, id) # {} <=> \E i \in 1..Len(known) : known[i].id = id
<1>1. DOMAIN known = 1..Len(known)
  BY LenProperties
<1> QED BY <1>1 DEF FindDefinition, ToSet

\* openDatabase() on a fresh file picks a contest of the list.
LEMMA FirstChoiceIsListed ==
    ASSUME NEW known \in Seq(RbDefs), known # <<>>
    PROVE  \E i \in 1..Len(known) : FirstChoice(known) = known[i].id
<1> DEFINE fits == {i \in DOMAIN known : known[i].vhf /\ known[i].allModes /\ ~known[i].everyday}
<1>1. DOMAIN known = 1..Len(known) /\ Len(known) \in Nat /\ 1 \in 1..Len(known)
  BY LenProperties, EmptySeq
<1>2. CASE fits = {}
  BY <1>1, <1>2 DEF FirstChoice
<1>3. CASE fits # {}
  <2>1. fits \in SUBSET Nat
    BY <1>1
  <2> HIDE DEF fits
  <2>2. \E i \in fits : \A j \in fits : i <= j
    BY <2>1, <1>3, LeastExists
  <2>3. (CHOOSE i \in fits : \A j \in fits : i <= j) \in fits
    BY <2>2
  <2>4. FirstChoice(known) = known[CHOOSE i \in fits : \A j \in fits : i <= j].id
    BY <1>3 DEF FirstChoice, fits
  <2>5. \A i \in fits : i \in 1..Len(known)
    BY <1>1 DEF fits
  <2> QED BY <2>3, <2>4, <2>5
<1> QED BY <1>2, <1>3

\* The editor opens on an entry of its list.
LEMMA PreselectedIsListed ==
    ASSUME NEW known \in Seq(RbDefs), known # <<>>
    PROVE  Preselected(known) \in 1..Len(known)
<1>1. DOMAIN known = 1..Len(known) /\ Len(known) \in Nat /\ 1 \in 1..Len(known)
  BY LenProperties, EmptySeq
<1> QED BY <1>1 DEF Preselected

\* The form of an entry.
LEMMA FormIsEditor ==
    ASSUME NEW list \in Seq(RbDefs), NEW i \in 1..Len(list)
    PROVE  /\ FormOf(list, i) \in RbEditors /\ FormOf(list, i).at \in 1..Len(FormOf(list, i).list)
           /\ i \in Nat
<1>1. Len(list) \in Nat /\ list[i] \in RbDefs
  BY LenProperties, ElementOfSeq
<1>2. i \in Nat
  BY <1>1
<1> QED BY <1>1, <1>2 DEF FormOf, RbEditors

\* A write, whole or broken off, or a reset changes one file.
LEMMA OneFileChanged ==
    ASSUME NEW own, FilesOK(own), NEW id \in RuleIds, NEW file, FileOK(file, id),
           NEW new, new = [own EXCEPT ![id] = file]
    PROVE  /\ FilesOK(new) /\ new[id] = file /\ new = [j \in RuleIds |-> new[j]]
           /\ \A j \in RuleIds \ {id} : new[j] = own[j] /\ (Loadable(new, j) <=> Loadable(own, j))
BY DEF FilesOK, Loadable

-----------------------------------------------------------------------------
(* The steps *)

\* The editor's and the picker's steps leave files and list alone.
LEMMA EditorStepsKeep ==
    ASSUME RuleBookAssumption, RbInv,
           \/ OpenRulesEditor
           \/ rbEditor.open /\ (\/ \E at \in DOMAIN rbEditor.list : SelectRules(at)
                                \/ \E id \in RbOwnIds : CreateDraft(id)
                                \/ \E f \in RbFields : ToggleField(f)
                                \/ ToggleScoring \/ CancelEditor)
    PROVE  RbInv'
<1>1. rbEditor.open => rbEditor \in RbEditors /\ rbEditor.at \in 1..Len(rbEditor.list) /\ rbEditor.list \in Seq(RbDefs)
                       /\ DOMAIN rbEditor.list = 1..Len(rbEditor.list) /\ rbEditor.form \in RbDefs
  <2>1. rbEditor.open => rbEditor \in RbEditors /\ rbEditor.at \in 1..Len(rbEditor.list)
    BY DEF RbInv, Shut
  <2>2. rbEditor \in RbEditors => rbEditor.list \in Seq(RbDefs) /\ rbEditor.form \in RbDefs
    BY DEF RbEditors
  <2> QED BY <2>1, <2>2, EntriesAreRules
<1>2. rbKnown \in Seq(RbDefs) /\ rbKnown # <<>>
  BY DEF RbInv, ListOK
<1> SUFFICES /\ UNCHANGED <<rbOwn, rbKnown, rbActive, rbShown, rbTorn>>
             /\ rbEditor' = Shut \/ (rbEditor' \in RbEditors /\ rbEditor'.at \in 1..Len(rbEditor'.list))
  BY DEF RbInv
<1>3. CASE OpenRulesEditor
  BY <1>2, <1>3, PreselectedIsListed, FormIsEditor DEF OpenRulesEditor
<1>4. ASSUME rbEditor.open, NEW at \in DOMAIN rbEditor.list, SelectRules(at)
      PROVE  /\ UNCHANGED <<rbOwn, rbKnown, rbActive, rbShown, rbTorn>>
             /\ rbEditor' \in RbEditors /\ rbEditor'.at \in 1..Len(rbEditor'.list)
  BY <1>1, <1>4, FormIsEditor DEF SelectRules
<1>5. ASSUME rbEditor.open, NEW id \in RbOwnIds, CreateDraft(id)
      PROVE  /\ UNCHANGED <<rbOwn, rbKnown, rbActive, rbShown, rbTorn>>
             /\ rbEditor' \in RbEditors /\ rbEditor'.at \in 1..Len(rbEditor'.list)
  <2> DEFINE chosen == rbEditor.list[rbEditor.at]
             kept == IF chosen.fields = {} THEN {"serial", "grid"} ELSE chosen.fields
             draft == [chosen EXCEPT !.id = id, !.schedule = FALSE, !.everyday = FALSE, !.vhf = TRUE, !.fields = kept]
             list == Append(rbEditor.list, draft)
  <2>1. chosen \in RbDefs
    BY <1>1, <1>5, ElementOfSeq
  <2>2. id \in RuleIds /\ kept \in SUBSET RbFieldNames
    <3>1. chosen.fields \in SUBSET RbFieldNames
      BY <2>1 DEF RbDefs
    <3>2. {"serial", "grid"} \in SUBSET RbFieldNames
      BY DEF RbFieldNames
    <3> QED BY <3>1, <3>2 DEF RuleIds
  <2> HIDE DEF chosen, kept
  <2>3. draft \in RbDefs
    BY <2>1, <2>2 DEF RbDefs
  <2>4. /\ rbEditor' = FormOf(list, Len(list))
        /\ UNCHANGED <<rbOwn, rbKnown, rbActive, rbShown, rbTorn>>
    BY <1>5 DEF CreateDraft, chosen, kept
  <2> HIDE DEF draft
  <2>5. list \in Seq(RbDefs) /\ Len(list) \in 1..Len(list)
    <3>1. list \in Seq(RbDefs) /\ Len(list) = Len(rbEditor.list) + 1 /\ Len(rbEditor.list) \in Nat
      BY <1>1, <1>5, <2>3, AppendProperties, LenProperties
    <3> QED BY <3>1
  <2> HIDE DEF list
  <2> QED BY <2>4, <2>5, FormIsEditor
<1>6. ASSUME rbEditor.open, NEW f \in RbFields, ToggleField(f)
      PROVE  /\ UNCHANGED <<rbOwn, rbKnown, rbActive, rbShown, rbTorn>>
             /\ rbEditor' \in RbEditors /\ rbEditor'.at \in 1..Len(rbEditor'.list)
  <2> DEFINE kept == IF f \in rbEditor.form.fields THEN rbEditor.form.fields \ {f} ELSE rbEditor.form.fields \cup {f}
             form == [rbEditor.form EXCEPT !.fields = kept]
  <2>1. kept \in SUBSET RbFieldNames
    BY <1>1, <1>6 DEF RbDefs, RbFieldNames
  <2>2. form \in RbDefs
    <3> HIDE DEF kept
    <3> QED BY <2>1, <1>1, <1>6 DEF RbDefs
  <2>3. rbEditor' = [rbEditor EXCEPT !.form = form] /\ UNCHANGED <<rbOwn, rbKnown, rbActive, rbShown, rbTorn>>
    BY <1>6 DEF ToggleField
  <2> HIDE DEF form
  <2> QED BY <2>2, <2>3, <1>1, <1>6 DEF RbEditors
<1>7. ASSUME rbEditor.open, ToggleScoring
      PROVE  /\ UNCHANGED <<rbOwn, rbKnown, rbActive, rbShown, rbTorn>>
             /\ rbEditor' \in RbEditors /\ rbEditor'.at \in 1..Len(rbEditor'.list)
  <2> DEFINE form == [rbEditor.form EXCEPT !.distance = ~rbEditor.form.distance]
  <2>1. form \in RbDefs
    <3> DEFINE b == ~rbEditor.form.distance
    <3>1. b \in BOOLEAN
      OBVIOUS
    <3> HIDE DEF b
    <3>2. [rbEditor.form EXCEPT !.distance = b] \in RbDefs
      BY <3>1, <1>1, <1>7 DEF RbDefs
    <3> QED BY <3>2 DEF b
  <2>2. rbEditor' = [rbEditor EXCEPT !.form = form] /\ UNCHANGED <<rbOwn, rbKnown, rbActive, rbShown, rbTorn>>
    BY <1>7 DEF ToggleScoring
  <2> HIDE DEF form
  <2> QED BY <2>1, <2>2, <1>1, <1>7 DEF RbEditors
<1>8. CASE CancelEditor
  BY <1>8 DEF CancelEditor
<1> QED BY <1>3, <1>4, <1>5, <1>6, <1>7, <1>8

\* A saved contest is loadable and becomes the active one; half a file is remembered.
LEMMA SavingKeeps ==
    ASSUME RuleBookAssumption, RbInv, rbEditor.open, SaveRules
    PROVE  RbInv'
<1> DEFINE id == rbEditor.list[rbEditor.at].id
           def == [rbEditor.form EXCEPT !.id = id]
<1>1. rbEditor \in RbEditors /\ rbEditor.at \in 1..Len(rbEditor.list)
  BY DEF RbInv, Shut
<1>2. id \in RuleIds
  <2>1. rbEditor.list[rbEditor.at] \in RbDefs
    BY <1>1, ElementOfSeq DEF RbEditors
  <2> QED BY <2>1 DEF RbDefs
<1>3. def \in RbDefs /\ def.id = id
  <2> HIDE DEF id
  <2> QED BY <1>1, <1>2 DEF RbEditors, RbDefs
<1>4. Countable(def)
  <2>1. ValidateRules(def)
    BY DEF SaveRules
  <2> QED BY <2>1 DEF ValidateRules, Countable
<1> DEFINE whole == Saved(WrittenBack(def))
           half == Broken
<1>5. FileOK(whole, id) /\ whole.kind = "rules"
  <2> HIDE DEF id, def
  <2>1. WrittenBack(def) \in RbDefs /\ WrittenBack(def).id = id /\ Countable(WrittenBack(def))
    BY <1>3, <1>4 DEF WrittenBack, RbDefs, Countable
  <2> QED BY <2>1 DEF FileOK, Saved
<1>6. FileOK(half, id) /\ half.kind = "broken"
  BY DEF FileOK, Broken
<1>7. UNCHANGED rbShown
  BY DEF SaveRules
<1>8. \/ /\ rbOwn' = [rbOwn EXCEPT ![id] = whole] /\ rbKnown' = LoadAvailable(rbOwn')
         /\ rbActive' = AfterSave(id, rbKnown') /\ rbEditor' = Shut /\ rbTorn' = rbTorn \ {id}
      \/ /\ rbOwn' = [rbOwn EXCEPT ![id] = half] /\ rbTorn' = rbTorn \cup {id}
         /\ UNCHANGED <<rbKnown, rbActive, rbEditor>>
  BY <1>3 DEF SaveRules
<1> HIDE DEF id, def, whole, half
<1>9. FilesOK(rbOwn)
  BY DEF RbInv
<1>10. CASE /\ rbOwn' = [rbOwn EXCEPT ![id] = whole] /\ rbKnown' = LoadAvailable(rbOwn')
            /\ rbActive' = AfterSave(id, rbKnown') /\ rbEditor' = Shut /\ rbTorn' = rbTorn \ {id}
  <2>1. /\ FilesOK(rbOwn') /\ rbOwn'[id] = whole /\ rbOwn' = [j \in RuleIds |-> rbOwn'[j]]
    <3> DEFINE new == [rbOwn EXCEPT ![id] = whole]
    <3>1. rbOwn' = new
      BY <1>10
    <3>2. \A n : n = new => n = [rbOwn EXCEPT ![id] = whole]
      OBVIOUS
    <3> HIDE DEF new
    <3>3. /\ FilesOK(new) /\ new[id] = whole /\ new = [j \in RuleIds |-> new[j]]
          /\ \A j \in RuleIds \ {id} : new[j] = rbOwn[j] /\ (Loadable(new, j) <=> Loadable(rbOwn, j))
      BY <3>2, <1>2, <1>5, <1>9, OneFileChanged
    <3> QED BY <3>1, <3>3
  <2>2. ListOK(rbKnown', rbOwn', rbTorn')
    BY <2>1, <1>10, LoadedListIsRight
  <2>3. Loadable(rbOwn', id)
    BY <2>1, <1>5 DEF Loadable
  <2>4. FindDefinition(rbKnown', id) # {}
    BY <2>2, <2>3, <1>2, FoundInList DEF ListOK
  <2>5. rbActive' = id
    BY <2>4, <1>10 DEF AfterSave
  <2>6. rbTorn' \subseteq RuleIds /\ rbShown' \in RuleIds
    BY <1>7, <1>10 DEF RbInv
  <2> QED BY <2>1, <2>2, <2>3, <2>5, <2>6, <1>2, <1>10 DEF RbInv
<1>11. CASE /\ rbOwn' = [rbOwn EXCEPT ![id] = half] /\ rbTorn' = rbTorn \cup {id}
            /\ UNCHANGED <<rbKnown, rbActive, rbEditor>>
  <2>1. /\ FilesOK(rbOwn') /\ rbOwn'[id] = half /\ rbOwn' = [j \in RuleIds |-> rbOwn'[j]]
        /\ \A j \in RuleIds \ {id} : Loadable(rbOwn', j) <=> Loadable(rbOwn, j)
    <3> DEFINE new == [rbOwn EXCEPT ![id] = half]
    <3>1. rbOwn' = new
      BY <1>11
    <3>2. \A n : n = new => n = [rbOwn EXCEPT ![id] = half]
      OBVIOUS
    <3> HIDE DEF new
    <3>3. /\ FilesOK(new) /\ new[id] = half /\ new = [j \in RuleIds |-> new[j]]
          /\ \A j \in RuleIds \ {id} : new[j] = rbOwn[j] /\ (Loadable(new, j) <=> Loadable(rbOwn, j))
      BY <3>2, <1>2, <1>6, <1>9, OneFileChanged
    <3> QED BY <3>1, <3>3
  <2>2. \A j \in RuleIds : Loadable(rbOwn', j) => Loadable(rbOwn, j)
    BY <2>1, <1>6 DEF Loadable
  <2>3. \A j \in RuleIds : j \in rbTorn \/ Loadable(rbOwn, j) => j \in rbTorn' \/ Loadable(rbOwn', j)
    BY <2>1, <1>11
  <2>4. \A i \in 1..Len(rbKnown) : rbKnown[i].id \in RuleIds
    BY EntriesAreRules DEF RbInv, ListOK
  <2>5. ListOK(rbKnown', rbOwn', rbTorn')
    <3>1. rbKnown' = rbKnown /\ ListOK(rbKnown, rbOwn, rbTorn)
      BY <1>11 DEF RbInv
    <3> QED BY <3>1, <2>2, <2>3, <2>4 DEF ListOK
  <2> QED BY <2>1, <2>3, <2>5, <1>2, <1>7, <1>11 DEF RbInv
<1> QED BY <1>8, <1>10, <1>11

\* A contest whose rules are taken away is not the active one afterwards.
LEMMA ResettingKeeps ==
    ASSUME RuleBookAssumption, RbInv, rbEditor.open, ResetRules
    PROVE  RbInv'
<1> DEFINE id == rbEditor.list[rbEditor.at].id
<1>1. id \in RuleIds
  <2>1. rbEditor \in RbEditors /\ rbEditor.at \in 1..Len(rbEditor.list)
    BY DEF RbInv, Shut
  <2>2. rbEditor.list[rbEditor.at] \in RbDefs
    BY <2>1, ElementOfSeq DEF RbEditors
  <2> QED BY <2>2 DEF RbDefs
<1>2. /\ rbOwn' = [rbOwn EXCEPT ![id] = NoFile] /\ rbKnown' = LoadAvailable(rbOwn')
      /\ rbActive' = AfterDelete(id, rbKnown') /\ rbEditor' = Shut /\ UNCHANGED <<rbShown, rbTorn>>
  BY DEF ResetRules
<1> HIDE DEF id
<1>3. FilesOK(rbOwn) /\ FileOK(NoFile, id)
  BY DEF RbInv, FileOK
<1>4. /\ FilesOK(rbOwn') /\ rbOwn' = [j \in RuleIds |-> rbOwn'[j]]
      /\ \A j \in RuleIds \ {id} : Loadable(rbOwn', j) <=> Loadable(rbOwn, j)
  <2> DEFINE new == [rbOwn EXCEPT ![id] = NoFile]
  <2>1. rbOwn' = new
    BY <1>2
  <2>2. \A n : n = new => n = [rbOwn EXCEPT ![id] = NoFile]
    OBVIOUS
  <2> HIDE DEF new
  <2>3. /\ FilesOK(new) /\ new[id] = NoFile /\ new = [j \in RuleIds |-> new[j]]
        /\ \A j \in RuleIds \ {id} : new[j] = rbOwn[j] /\ (Loadable(new, j) <=> Loadable(rbOwn, j))
    BY <2>2, <1>1, <1>3, OneFileChanged
  <2> QED BY <2>1, <2>3
<1>5. /\ ListOK(rbKnown', rbOwn', rbTorn') /\ \A i \in 1..Len(rbKnown') : Loadable(rbOwn', rbKnown'[i].id)
  BY <1>2, <1>4, LoadedListIsRight
<1>6. rbKnown' \in Seq(RbDefs) /\ 1 \in 1..Len(rbKnown') /\ rbKnown'[1].id \in RuleIds
  <2>1. rbKnown' \in Seq(RbDefs) /\ 1 \in 1..Len(rbKnown')
    BY <1>5, EmptySeq, LenProperties DEF ListOK
  <2> QED BY <2>1, EntriesAreRules
<1>7. rbActive' \in RuleIds /\ (rbActive' \in rbTorn' \/ Loadable(rbOwn', rbActive'))
  <2>1. CASE rbActive = id /\ FindDefinition(rbKnown', id) = {}
    BY <2>1, <1>2, <1>5, <1>6 DEF AfterDelete
  <2>2. CASE rbActive = id /\ FindDefinition(rbKnown', id) # {}
    <3>1. rbActive' = id
      BY <2>2, <1>2 DEF AfterDelete
    <3>2. PICK i \in 1..Len(rbKnown') : rbKnown'[i].id = id
      BY <2>2, <1>6, FoundInList
    <3> QED BY <3>1, <3>2, <1>1, <1>5
  <2>3. CASE rbActive # id
    <3>1. rbActive' = rbActive
      BY <2>3, <1>2 DEF AfterDelete
    <3> QED BY <3>1, <2>3, <1>2, <1>4 DEF RbInv
  <2> QED BY <2>1, <2>2, <2>3
<1> QED BY <1>2, <1>4, <1>5, <1>7 DEF RbInv

\* The picker, and a start with the database or without.
LEMMA PickingKeeps ==
    ASSUME RuleBookAssumption, RbInv,
           (\E at \in DOMAIN rbKnown : PickContest(at)) \/ RestartRules \/ StartAfresh
    PROVE  RbInv'
<1>1. CASE \E at \in DOMAIN rbKnown : PickContest(at)
  <2>1. PICK i \in DOMAIN rbKnown : PickContest(i)
    BY <1>1
  <2>2. i \in 1..Len(rbKnown)
    BY LenProperties DEF RbInv, ListOK
  <2>3. rbKnown[i].id \in RuleIds /\ (rbKnown[i].id \in rbTorn \/ Loadable(rbOwn, rbKnown[i].id))
    BY <2>2, EntriesAreRules DEF RbInv, ListOK
  <2> QED BY <2>1, <2>3 DEF PickContest, RbInv
<1>2. FilesOK(rbOwn)
  BY DEF RbInv
<1>3. CASE RestartRules
  <2>1. ListOK(rbKnown', rbOwn, rbTorn)
    BY <1>2, <1>3, LoadedListIsRight DEF RestartRules
  <2> QED BY <2>1, <1>3 DEF RestartRules, RbInv
<1>4. CASE StartAfresh
  <2>1. ListOK(rbKnown', rbOwn, rbTorn) /\ \A i \in 1..Len(rbKnown') : Loadable(rbOwn, rbKnown'[i].id)
    BY <1>2, <1>4, LoadedListIsRight DEF StartAfresh
  <2>2. PICK i \in 1..Len(rbKnown') : FirstChoice(rbKnown') = rbKnown'[i].id
    BY <2>1, FirstChoiceIsListed DEF ListOK
  <2>3. rbKnown'[i].id \in RuleIds
    BY <2>1, <2>2, EntriesAreRules DEF ListOK
  <2> QED BY <2>1, <2>2, <2>3, <1>4 DEF StartAfresh, RbInv
<1> QED BY <1>1, <1>3, <1>4

\* Every step of the editor, the picker and a start keeps the invariant.
LEMMA RbInvariant ==
    ASSUME RuleBookAssumption, RbInv, RbNext
    PROVE  RbInv'
<1>1. CASE OpenRulesEditor
  BY <1>1, EditorStepsKeep
<1>2. CASE EditorStep
  BY <1>2, EditorStepsKeep, SavingKeeps, ResettingKeeps DEF EditorStep
<1>3. CASE (\E at \in DOMAIN rbKnown : PickContest(at)) \/ RestartRules \/ StartAfresh
  BY <1>3, PickingKeeps
<1> QED BY <1>1, <1>2, <1>3 DEF RbNext

\* A first start establishes it.
LEMMA RbStarts ==
    ASSUME RuleBookAssumption, RbInit
    PROVE  RbInv
<1> DEFINE own == [i \in RuleIds |-> NoFile]
<1>1. FilesOK(own)
  BY DEF FilesOK, FileOK
<1>2. rbOwn = own /\ rbKnown = LoadAvailable(own) /\ rbActive = FirstChoice(rbKnown) /\ rbShown = rbActive
      /\ rbEditor = Shut /\ rbTorn = {}
  BY DEF RbInit
<1>3. own = [j \in RuleIds |-> own[j]]
  OBVIOUS
<1> HIDE DEF own
<1>4. ListOK(rbKnown, own, rbTorn) /\ \A i \in 1..Len(rbKnown) : Loadable(own, rbKnown[i].id)
  BY <1>1, <1>2, LoadedListIsRight
<1>5. PICK i \in 1..Len(rbKnown) : FirstChoice(rbKnown) = rbKnown[i].id
  BY <1>4, FirstChoiceIsListed DEF ListOK
<1>6. rbKnown[i].id \in RuleIds
  BY <1>4, <1>5, EntriesAreRules DEF ListOK
<1> QED BY <1>1, <1>2, <1>3, <1>4, <1>5, <1>6 DEF RbInv

\* It has the types and the property in it.
LEMMA RbShows ==
    ASSUME RbInv
    PROVE  RulesStayUsable /\ RbTypeOK
<1>1. rbKnown \in Seq(RbDefs) /\ DOMAIN rbKnown = 1..Len(rbKnown)
  BY LenProperties DEF RbInv, ListOK
<1>2. RulesStayUsable
  <2>1. rbActive \in rbTorn \/ FindDefinition(rbKnown, rbActive) # {}
    BY <1>1, FoundInList DEF RbInv, ListOK
  <2>2. \A i \in DOMAIN rbKnown : rbKnown[i].distance => {"grid", "serial"} \subseteq rbKnown[i].fields
    BY <1>1 DEF RbInv, ListOK, Countable
  <2> QED BY <2>1, <2>2 DEF RulesStayUsable
<1>3. DOMAIN rbOwn = RuleIds /\ \A i \in RuleIds : rbOwn[i].kind \in {"none", "broken", "rules"}
  BY KindsOfFiles DEF RbInv, FilesOK
<1>4. \A i \in DOMAIN rbKnown : rbKnown[i].id \in RuleIds
  BY <1>1, EntriesAreRules
<1>5. rbEditor.open => rbEditor.at \in DOMAIN rbEditor.list
  <2>1. rbEditor.open => rbEditor \in RbEditors /\ rbEditor.at \in 1..Len(rbEditor.list)
    BY DEF RbInv, Shut
  <2>2. rbEditor \in RbEditors => rbEditor.list \in Seq(RbDefs)
    BY DEF RbEditors
  <2> QED BY <2>1, <2>2, EntriesAreRules
<1> QED BY <1>2, <1>3, <1>4, <1>5 DEF RbTypeOK, RbInv

-----------------------------------------------------------------------------
(* The recording *)

\* A recording: its index leads into its sound.
ArFile == [data : Nat, header : Nat, marks : SUBSET Nat, cut : BOOLEAN]
Indexed(file) == file \in ArFile /\ \A s \in file.marks : s <= file.data
\* A file nobody writes any more says how long it is, if the disk let it.
ClosedFile(file) == ~file.cut /\ file.data < ArWrap => file.header = file.data

\* The recorder with its files.
RollOK(r) ==
    /\ r = [open |-> r.open, files |-> r.files]
    /\ IsFiniteSet(DOMAIN r.files) /\ r.files = [n \in DOMAIN r.files |-> r.files[n]]
    /\ NoRecording \notin DOMAIN r.files /\ r.open \in DOMAIN r.files \cup {NoRecording}
    /\ \A n \in DOMAIN r.files : Indexed(r.files[n]) /\ (n # r.open => ClosedFile(r.files[n]))
\* No file, sound or index line of f is missing in g, and only the open one differs.
Holds(g, f, open) ==
    \A n \in DOMAIN f :
        /\ n \in DOMAIN g /\ (n # open => g[n] = f[n])
        /\ g[n].data >= f[n].data /\ f[n].marks \subseteq g[n].marks

ArInv ==
    /\ RollOK(Recorder) /\ (arOpen # NoRecording => arCapture # CaptureOff)
    /\ arSet \in [on : BOOLEAN, folder : BOOLEAN, device : SoundDevices, roll : ArRolls]
    /\ arCapture \in SoundDevices \cup {CaptureOff}
    /\ arSays \in {"start", "stop", "choose folder"}
    /\ arNow \in 1..ArHorizon /\ arFeeds \in 0..ArMaxFeeds /\ arFaults \in 0..ArMaxFaults

-----------------------------------------------------------------------------
(* Files *)

\* The recorder's clock and counters.
LEMMA RollNumbers ==
    ASSUME AudioAssumption, ArInv
    PROVE  /\ arNow \in Nat \ {0} /\ ArHorizon \in Nat /\ ArMaxFeeds \in Nat /\ ArMaxFaults \in Nat
           /\ arNow \in 1..ArHorizon /\ arFeeds \in 0..ArMaxFeeds /\ arFaults \in 0..ArMaxFaults
<1>1. ArHorizon \in Nat /\ ArMaxFeeds \in Nat /\ ArMaxFaults \in Nat
  BY DEF AudioAssumption
<1>2. arNow \in 1..ArHorizon /\ arFeeds \in 0..ArMaxFeeds /\ arFaults \in 0..ArMaxFaults
  BY DEF ArInv
<1> QED BY <1>1, <1>2

\* The running number makes a name new: there are more numbers than names.
LEMMA FreeNameIsFree ==
    ASSUME NEW second, NEW names, IsFiniteSet(names)
    PROVE  \E n \in Nat \ {0} : FreeName(second, names) = <<second, n>> /\ <<second, n>> \notin names
<1> DEFINE c == Cardinality(names)
           free == {n \in 1..(c + 1) : <<second, n>> \notin names}
<1>1. c \in Nat
  BY FS_CardinalityType
<1>2. free # {}
  <2> SUFFICES ASSUME free = {} PROVE FALSE
    OBVIOUS
  <2> DEFINE f == [n \in 1..(c + 1) |-> <<second, n>>]
  <2>1. f \in Injection(1..(c + 1), names)
    <3>1. f \in [1..(c + 1) -> names]
      OBVIOUS
    <3>2. IsInjective(f)
      BY DEF IsInjective
    <3> QED BY <3>1, <3>2 DEF Injection, IsInjective
  <2>2. Cardinality(1..(c + 1)) = c + 1
    BY <1>1, FS_Interval
  <2> HIDE DEF f
  <2>3. c + 1 <= c
    BY <2>1, <2>2, FS_Injection
  <2> QED BY <2>3, <1>1
<1>3. free \in SUBSET Nat
  BY <1>1
<1>4. FreeName(second, names) = <<second, Min(free)>>
  BY DEF FreeName
<1>5. Min(free) \in free
  <2> HIDE DEF free
  <2>1. \E n \in free : \A m \in free : n <= m
    BY <1>2, <1>3, LeastExists
  <2> QED BY <2>1 DEF Min
<1>6. Min(free) \in Nat \ {0} /\ <<second, Min(free)>> \notin names
  BY <1>1, <1>5
<1> HIDE DEF free, c
<1> QED BY <1>4, <1>6

\* A file put among the others.
LEMMA FilePut ==
    ASSUME NEW f, IsFiniteSet(DOMAIN f), NEW name, NEW file
    PROVE  /\ DOMAIN With(f, name, file) = DOMAIN f \cup {name} /\ IsFiniteSet(DOMAIN f \cup {name})
           /\ With(f, name, file) = [n \in DOMAIN With(f, name, file) |-> With(f, name, file)[n]]
           /\ With(f, name, file)[name] = file
           /\ \A n \in DOMAIN f \ {name} : With(f, name, file)[n] = f[n]
BY FS_AddElement DEF With

\* Closing writes the header or cannot, and no more.
LEMMA ClosingKeeps ==
    ASSUME AudioAssumption, NEW r, RollOK(r), NEW taken \in BOOLEAN
    PROVE  /\ RollOK(CloseFile(r, taken)) /\ CloseFile(r, taken).open = NoRecording
           /\ Holds(CloseFile(r, taken).files, r.files, r.open)
<1>1. CASE r.open = NoRecording
  <2>1. CloseFile(r, taken) = r
    BY <1>1 DEF CloseFile
  <2>2. \A n \in DOMAIN r.files : r.files[n].data >= r.files[n].data
    BY DEF RollOK, Indexed, ArFile
  <2> QED BY <2>1, <2>2, <1>1 DEF Holds
<1>2. CASE r.open # NoRecording
  <2> DEFINE old == r.files[r.open]
             new == Patched(old, taken)
             files == With(r.files, r.open, new)
  <2>1. r.open \in DOMAIN r.files /\ Indexed(old) /\ IsFiniteSet(DOMAIN r.files) /\ NoRecording \notin DOMAIN r.files
    BY <1>2 DEF RollOK
  <2>2. CloseFile(r, taken) = [open |-> NoRecording, files |-> files]
    BY <1>2 DEF CloseFile
  <2>3. Indexed(new) /\ ClosedFile(new) /\ new.data = old.data /\ new.marks = old.marks
    <3> HIDE DEF old
    <3> DEFINE h == old.data % ArWrap
    <3>1. old \in ArFile /\ old.data \in Nat
      BY <2>1 DEF Indexed, ArFile
    <3>2. h \in Nat /\ (old.data < ArWrap => h = old.data)
      BY <3>1 DEF AudioAssumption
    <3>3. \/ taken /\ new = [old EXCEPT !.header = h]
          \/ ~taken /\ new = [old EXCEPT !.cut = TRUE]
      BY DEF Patched
    <3> HIDE DEF h, new
    <3>4. CASE taken
      <4>1. new \in ArFile /\ new.data = old.data /\ new.marks = old.marks /\ new.header = h
        BY <3>1, <3>2, <3>3, <3>4 DEF ArFile
      <4> QED BY <3>2, <4>1, <2>1 DEF Indexed, ClosedFile
    <3>5. CASE ~taken
      <4>1. new \in ArFile /\ new.data = old.data /\ new.marks = old.marks /\ new.cut = TRUE
        BY <3>1, <3>3, <3>5 DEF ArFile
      <4> QED BY <4>1, <2>1 DEF Indexed, ClosedFile
    <3> QED BY <3>4, <3>5
  <2> HIDE DEF new
  <2>4. /\ DOMAIN files = DOMAIN r.files \cup {r.open} /\ IsFiniteSet(DOMAIN files)
        /\ files = [n \in DOMAIN files |-> files[n]] /\ files[r.open] = new
        /\ \A n \in DOMAIN r.files \ {r.open} : files[n] = r.files[n]
    <3> DEFINE f == r.files
               name == r.open
    <3>1. IsFiniteSet(DOMAIN f) /\ files = With(f, name, new)
      BY <2>1
    <3> HIDE DEF f, name, files
    <3>2. /\ DOMAIN files = DOMAIN f \cup {name} /\ IsFiniteSet(DOMAIN files)
          /\ files = [n \in DOMAIN files |-> files[n]] /\ files[name] = new
          /\ \A n \in DOMAIN f \ {name} : files[n] = f[n]
      BY <3>1, FilePut
    <3> QED BY <3>2 DEF f, name
  <2> HIDE DEF files
  <2>5. DOMAIN files = DOMAIN r.files
    BY <2>1, <2>4
  <2>6. \A n \in DOMAIN files : Indexed(files[n]) /\ ClosedFile(files[n])
    BY <2>3, <2>4, <2>5 DEF RollOK
  <2>7. RollOK([open |-> NoRecording, files |-> files])
    BY <2>1, <2>4, <2>5, <2>6 DEF RollOK
  <2>8. Holds(files, r.files, r.open)
    <3>1. \A n \in DOMAIN r.files : r.files[n].data \in Nat
      BY DEF RollOK, Indexed, ArFile
    <3>2. \A n \in DOMAIN r.files : /\ files[n].data = r.files[n].data /\ files[n].marks = r.files[n].marks
                                   /\ (n # r.open => files[n] = r.files[n])
      BY <2>3, <2>4
    <3> QED BY <3>1, <3>2, <2>5 DEF Holds
  <2> QED BY <2>2, <2>7, <2>8
<1> QED BY <1>1, <1>2

\* A new file takes no other's name.
LEMMA OpeningKeeps ==
    ASSUME AudioAssumption, NEW r, RollOK(r), r.open = NoRecording, arNow \in Nat \ {0}, NEW ok \in BOOLEAN
    PROVE  RollOK(OpenNewFile(r, ok)) /\ Holds(OpenNewFile(r, ok).files, r.files, NoRecording)
<1>0. \A n \in DOMAIN r.files : r.files[n].data \in Nat
  BY DEF RollOK, Indexed, ArFile
<1>1. CASE ~ok
  BY <1>0, <1>1 DEF OpenNewFile, Holds
<1>2. CASE ok
  <2> DEFINE name == FreeName(arNow, DOMAIN r.files)
             files == With(r.files, name, FreshFile)
  <2>1. IsFiniteSet(DOMAIN r.files) /\ NoRecording \notin DOMAIN r.files
    BY DEF RollOK
  <2>2. name \notin DOMAIN r.files /\ name # NoRecording
    <3>1. PICK n \in Nat \ {0} : FreeName(arNow, DOMAIN r.files) = <<arNow, n>> /\ <<arNow, n>> \notin DOMAIN r.files
      BY <2>1, FreeNameIsFree
    <3> QED BY <3>1 DEF NoRecording
  <2>3. OpenNewFile(r, ok) = [open |-> name, files |-> files]
    BY <1>2 DEF OpenNewFile
  <2> HIDE DEF name
  <2>4. /\ DOMAIN files = DOMAIN r.files \cup {name} /\ IsFiniteSet(DOMAIN files)
        /\ files = [n \in DOMAIN files |-> files[n]] /\ files[name] = FreshFile
        /\ \A n \in DOMAIN r.files \ {name} : files[n] = r.files[n]
    BY <2>1, FilePut
  <2> HIDE DEF files
  <2>5. Indexed(FreshFile)
    <3>1. {} \in SUBSET Nat
      OBVIOUS
    <3> QED BY <3>1 DEF Indexed, FreshFile, ArFile
  <2>6. \A n \in DOMAIN files : Indexed(files[n]) /\ (n # name => ClosedFile(files[n]))
    BY <2>2, <2>4, <2>5 DEF RollOK
  <2>7. RollOK([open |-> name, files |-> files])
    BY <2>1, <2>2, <2>4, <2>6 DEF RollOK
  <2>8. Holds(files, r.files, NoRecording)
    BY <1>0, <2>2, <2>4 DEF Holds
  <2> QED BY <2>3, <2>7, <2>8
<1> QED BY <1>1, <1>2

\* What holds more than what holds all of f holds all of f.
LEMMA HoldsOn ==
    ASSUME NEW f, NEW g, NEW h, NEW open, NEW then, Holds(g, f, open), Holds(h, g, then),
           then = open \/ then \notin DOMAIN f,
           \A n \in DOMAIN f : f[n].data \in Nat, \A n \in DOMAIN g : g[n].data \in Nat,
           \A n \in DOMAIN h : h[n].data \in Nat
    PROVE  Holds(h, f, open)
<1> SUFFICES ASSUME NEW n \in DOMAIN f
             PROVE  /\ n \in DOMAIN h /\ (n # open => h[n] = f[n])
                    /\ h[n].data >= f[n].data /\ f[n].marks \subseteq h[n].marks
  BY DEF Holds
<1>1. /\ n \in DOMAIN g /\ (n # open => g[n] = f[n])
      /\ g[n].data >= f[n].data /\ f[n].marks \subseteq g[n].marks
  BY DEF Holds
<1>2. /\ n \in DOMAIN h /\ (n # then => h[n] = g[n])
      /\ h[n].data >= g[n].data /\ g[n].marks \subseteq h[n].marks
  BY <1>1 DEF Holds
<1>3. f[n].data \in Nat /\ g[n].data \in Nat /\ h[n].data \in Nat
  BY <1>1, <1>2
<1> QED BY <1>1, <1>2, <1>3

\* The length of a file is a number.
LEMMA LengthsAreNumbers ==
    ASSUME NEW r, RollOK(r)
    PROVE  \A n \in DOMAIN r.files : r.files[n].data \in Nat
BY DEF RollOK, Indexed, ArFile

\* The open file changes, but holds what it held.
LEMMA WritingKeeps ==
    ASSUME AudioAssumption, NEW r, RollOK(r), r.open # NoRecording, NEW file, Indexed(file),
           file.data >= r.files[r.open].data, r.files[r.open].marks \subseteq file.marks
    PROVE  LET files == [r.files EXCEPT ![r.open] = file]
           IN  /\ RollOK([open |-> r.open, files |-> files]) /\ files[r.open] = file
               /\ Holds(files, r.files, r.open)
               /\ [r EXCEPT !.files = files] = [open |-> r.open, files |-> files]
<1> DEFINE files == [r.files EXCEPT ![r.open] = file]
<1>1. r.open \in DOMAIN r.files /\ IsFiniteSet(DOMAIN r.files) /\ NoRecording \notin DOMAIN r.files
  BY DEF RollOK
<1>2. [r EXCEPT !.files = files] = [open |-> r.open, files |-> files]
  BY DEF RollOK
<1>3. /\ DOMAIN files = DOMAIN r.files /\ files = [n \in DOMAIN files |-> files[n]] /\ files[r.open] = file
      /\ \A n \in DOMAIN r.files \ {r.open} : files[n] = r.files[n]
  BY <1>1 DEF RollOK
<1> HIDE DEF files
<1>4. \A n \in DOMAIN files : Indexed(files[n]) /\ (n # r.open => ClosedFile(files[n]))
  BY <1>3 DEF RollOK
<1>5. RollOK([open |-> r.open, files |-> files])
  BY <1>1, <1>3, <1>4 DEF RollOK
<1>6. Holds(files, r.files, r.open)
  <2>1. \A n \in DOMAIN r.files : r.files[n].data \in Nat
    BY LengthsAreNumbers
  <2> SUFFICES ASSUME NEW n \in DOMAIN r.files
               PROVE  /\ n \in DOMAIN files /\ (n # r.open => files[n] = r.files[n])
                      /\ files[n].data >= r.files[n].data /\ r.files[n].marks \subseteq files[n].marks
    BY DEF Holds
  <2>2. CASE n = r.open
    BY <2>2, <1>3
  <2>3. CASE n # r.open
    BY <2>1, <2>3, <1>3
  <2> QED BY <2>2, <2>3
<1> QED BY <1>2, <1>3, <1>5, <1>6 DEF files

-----------------------------------------------------------------------------
(* The steps *)

\* Sound that arrives is appended, and a file is closed before another is opened.
LEMMA FeedingKeeps ==
    ASSUME AudioAssumption, ArInv, NEW n \in 1..ArChunk, NEW written \in BOOLEAN, NEW room \in BOOLEAN,
           NEW opens \in BOOLEAN, NEW taken \in BOOLEAN
    PROVE  LET r == FeedRecorder(Recorder, n, written, room, opens, taken)
           IN  RollOK(r) /\ Holds(r.files, arFiles, arOpen) /\ (r.open # NoRecording => arOpen # NoRecording)
<1> DEFINE old == Recorder
           file == [old.files[old.open] EXCEPT !.data = @ + n]
           grown == [old EXCEPT !.files[old.open].data = @ + n]
<1>1. RollOK(old) /\ old.open = arOpen /\ old.files = arFiles /\ arNow \in Nat \ {0}
  BY RollNumbers DEF ArInv, Recorder
<1>2. Holds(arFiles, arFiles, arOpen)
  BY <1>1, LengthsAreNumbers DEF Holds
<1>3. CASE old.open = NoRecording
  BY <1>1, <1>2, <1>3 DEF FeedRecorder
<1>4. CASE old.open # NoRecording
  <2>1. /\ RollOK(CloseFile(old, taken)) /\ CloseFile(old, taken).open = NoRecording /\ Holds(CloseFile(old, taken).files, arFiles, arOpen)
    BY <1>1, ClosingKeeps
  <2>2. old.open \in DOMAIN old.files /\ Indexed(old.files[old.open])
    BY <1>1, <1>4 DEF RollOK
  <2>3. /\ Indexed(file) /\ file.data >= old.files[old.open].data /\ old.files[old.open].marks \subseteq file.marks
    <3> DEFINE was == old.files[old.open]
               sum == was.data + n
    <3>1. was \in ArFile /\ was.data \in Nat /\ was.marks \in SUBSET Nat /\ \A s \in was.marks : s <= was.data
      BY <2>2 DEF Indexed, ArFile
    <3>2. n \in Nat
      BY DEF AudioAssumption
    <3>3. sum \in Nat /\ sum >= was.data /\ \A s \in was.marks : s <= sum
      BY <3>1, <3>2
    <3>4. file = [was EXCEPT !.data = sum]
      OBVIOUS
    <3> HIDE DEF was, sum, file
    <3>5. file \in ArFile /\ file.data = sum /\ file.marks = was.marks
      BY <3>1, <3>3, <3>4 DEF ArFile
    <3> QED BY <3>1, <3>3, <3>5 DEF Indexed, was
  <2>4. grown = [old EXCEPT !.files = [old.files EXCEPT ![old.open] = file]]
    <3>1. old = [open |-> old.open, files |-> old.files]
      BY <1>1 DEF RollOK
    <3> QED BY <3>1, <2>2
  <2> HIDE DEF file, grown, old
  <2>5. RollOK(grown) /\ grown.open = old.open /\ Holds(grown.files, arFiles, arOpen)
    <3> DEFINE files == [old.files EXCEPT ![old.open] = file]
    <3>1. /\ RollOK([open |-> old.open, files |-> files]) /\ Holds(files, old.files, old.open)
          /\ [old EXCEPT !.files = files] = [open |-> old.open, files |-> files]
      BY <1>1, <1>4, <2>3, WritingKeeps
    <3>2. grown = [old EXCEPT !.files = files]
      BY <2>4
    <3> HIDE DEF files
    <3> QED BY <3>1, <3>2, <1>1
  <2>6. /\ RollOK(CloseFile(grown, taken)) /\ CloseFile(grown, taken).open = NoRecording
        /\ Holds(CloseFile(grown, taken).files, grown.files, arOpen)
    BY <2>5, <1>1, ClosingKeeps
  <2>7. Holds(CloseFile(grown, taken).files, arFiles, arOpen)
    <3> DEFINE closed == CloseFile(grown, taken)
    <3> HIDE DEF closed
    <3>1. RollOK(closed) /\ Holds(closed.files, grown.files, arOpen)
      BY <2>6 DEF closed
    <3> QED BY <3>1, <2>5, <1>1, HoldsOn, LengthsAreNumbers DEF closed
  <2>8. /\ RollOK(OpenNewFile(CloseFile(grown, taken), opens))
        /\ Holds(OpenNewFile(CloseFile(grown, taken), opens).files, arFiles, arOpen)
    <3> DEFINE closed == CloseFile(grown, taken)
               opened == OpenNewFile(closed, opens)
    <3>1. RollOK(closed) /\ closed.open = NoRecording /\ Holds(closed.files, arFiles, arOpen)
      BY <2>6, <2>7
    <3> HIDE DEF closed
    <3>2. RollOK(opened) /\ Holds(opened.files, closed.files, NoRecording)
      BY <3>1, <1>1, OpeningKeeps
    <3> HIDE DEF opened
    <3>3. RollOK(opened) /\ Holds(opened.files, arFiles, arOpen)
      <4>1. NoRecording \notin DOMAIN arFiles
        BY <1>1 DEF RollOK
      <4> QED BY <3>1, <3>2, <4>1, <1>1, HoldsOn, LengthsAreNumbers
    <3> QED BY <3>3 DEF opened, closed
  <2> DEFINE r == FeedRecorder(Recorder, n, written, room, opens, taken)
  <2>9. r \in {CloseFile(old, taken), grown, CloseFile(grown, taken), OpenNewFile(CloseFile(grown, taken), opens)}
    BY <1>4 DEF FeedRecorder, grown, old
  <2> QED BY <2>1, <2>5, <2>6, <2>7, <2>8, <2>9, <1>1, <1>4
<1> QED BY <1>3, <1>4

\* Whatever the settings become, a file is open only with the device.
LEMMA ApplyingKeeps ==
    ASSUME AudioAssumption, ArInv, NEW s, s.device \in SoundDevices,
           NEW deviceOk \in BOOLEAN, NEW fileOk \in BOOLEAN, NEW taken \in BOOLEAN
    PROVE  LET next == ApplyAudio(s, deviceOk, fileOk, taken)
           IN  /\ RollOK(next.r) /\ Holds(next.r.files, arFiles, arOpen)
               /\ next.capture \in SoundDevices \cup {CaptureOff}
               /\ next.r.open # NoRecording => next.capture # CaptureOff
<1>1. RollOK(Recorder) /\ Recorder.open = arOpen /\ Recorder.files = arFiles /\ arNow \in Nat \ {0}
      /\ (arOpen # NoRecording => arCapture # CaptureOff) /\ arCapture \in SoundDevices \cup {CaptureOff}
  BY RollNumbers DEF ArInv, Recorder
<1>2. Holds(arFiles, arFiles, arOpen)
  BY <1>1, LengthsAreNumbers DEF Holds
<1> DEFINE closed == CloseFile(Recorder, taken)
<1>3. RollOK(closed) /\ closed.open = NoRecording /\ Holds(closed.files, arFiles, arOpen)
  BY <1>1, ClosingKeeps
<1> HIDE DEF closed
<1>4. DeviceOf(s.device) \in SoundDevices /\ DeviceOf(s.device) # CaptureOff
  BY DEF DeviceOf, SoundDevices, Inbuilt, CaptureOff
<1>5. ASSUME NEW r, RollOK(r), r.open = NoRecording, Holds(r.files, arFiles, arOpen)
      PROVE  LET next == StartBoth(s.device, r, deviceOk, fileOk)
             IN  /\ RollOK(next.r) /\ Holds(next.r.files, arFiles, arOpen)
                 /\ next.capture \in SoundDevices \cup {CaptureOff}
                 /\ next.r.open # NoRecording => next.capture # CaptureOff
  <2> DEFINE opened == OpenNewFile(r, TRUE)
  <2>1. RollOK(opened) /\ Holds(opened.files, r.files, NoRecording)
    BY <1>1, <1>5, OpeningKeeps
  <2> HIDE DEF opened
  <2>2. Holds(opened.files, arFiles, arOpen)
    <3>1. NoRecording \notin DOMAIN arFiles
      BY <1>1 DEF RollOK
    <3> QED BY <2>1, <3>1, <1>1, <1>5, HoldsOn, LengthsAreNumbers
  <2> QED BY <2>1, <2>2, <1>4, <1>5 DEF StartBoth, opened
<1> DEFINE next == ApplyAudio(s, deviceOk, fileOk, taken)
<1>6. \/ next = [capture |-> CaptureOff, r |-> closed]
      \/ arCapture = CaptureOff /\ next = StartBoth(s.device, Recorder, deviceOk, fileOk)
      \/ next = StartBoth(s.device, closed, deviceOk, fileOk)
      \/ next = [capture |-> arCapture, r |-> Recorder]
  BY DEF ApplyAudio, closed
<1> HIDE DEF next
<1> SUFFICES /\ RollOK(next.r) /\ Holds(next.r.files, arFiles, arOpen)
             /\ next.capture \in SoundDevices \cup {CaptureOff}
             /\ next.r.open # NoRecording => next.capture # CaptureOff
  BY DEF next
<1>7. CASE next = [capture |-> CaptureOff, r |-> closed]
  BY <1>3, <1>7
<1>8. CASE arCapture = CaptureOff /\ next = StartBoth(s.device, Recorder, deviceOk, fileOk)
  BY <1>1, <1>2, <1>5, <1>8
<1>9. CASE next = StartBoth(s.device, closed, deviceOk, fileOk)
  BY <1>3, <1>5, <1>9
<1>10. CASE next = [capture |-> arCapture, r |-> Recorder]
  BY <1>1, <1>2, <1>10
<1> QED BY <1>6, <1>7, <1>8, <1>9, <1>10

\* The button's text.
LEMMA TextOfButton ==
    ASSUME NEW open, NEW s
    PROVE  ButtonText(open, s) \in {"start", "stop", "choose folder"}
BY DEF ButtonText

\* A setting applied keeps the invariant and every recording.
LEMMA SettingAudioKeeps ==
    ASSUME AudioAssumption, ArInv, NEW s \in [on : BOOLEAN, folder : BOOLEAN, device : SoundDevices, roll : ArRolls],
           SetAudio(s), UNCHANGED <<arNow, arFeeds>>
    PROVE  ArInv' /\ Holds(arFiles', arFiles, arOpen)
<1>1. PICK deviceOk \in BOOLEAN, fileOk \in BOOLEAN, taken \in BOOLEAN :
        LET next == ApplyAudio(s, deviceOk, fileOk, taken)
            missed == IF deviceOk /\ fileOk /\ taken THEN 0 ELSE 1
        IN  /\ arFaults' = arFaults + missed /\ arFaults' <= ArMaxFaults /\ arSet' = s
            /\ arCapture' = next.capture /\ arOpen' = next.r.open /\ arFiles' = next.r.files
            /\ arSays' = ButtonText(next.r.open, s)
  BY DEF SetAudio
<1> DEFINE next == ApplyAudio(s, deviceOk, fileOk, taken)
           missed == IF deviceOk /\ fileOk /\ taken THEN 0 ELSE 1
<1>2. /\ RollOK(next.r) /\ Holds(next.r.files, arFiles, arOpen) /\ next.capture \in SoundDevices \cup {CaptureOff}
      /\ (next.r.open # NoRecording => next.capture # CaptureOff)
  BY ApplyingKeeps
<1>3. missed \in Nat
  OBVIOUS
<1>4. /\ arFaults' = arFaults + missed /\ arFaults' <= ArMaxFaults /\ arSet' = s
      /\ arCapture' = next.capture /\ arOpen' = next.r.open /\ arFiles' = next.r.files
      /\ arSays' \in {"start", "stop", "choose folder"}
  BY <1>1, TextOfButton
<1> HIDE DEF next, missed
<1>5. RollOK(Recorder')
  <2>1. next.r = [open |-> next.r.open, files |-> next.r.files]
    BY <1>2 DEF RollOK
  <2>2. Recorder' = next.r
    BY <2>1, <1>4 DEF Recorder
  <2> QED BY <2>2, <1>2
<1>6. arFaults' \in 0..ArMaxFaults
  <2>1. arFaults + missed <= ArMaxFaults
    BY <1>4
  <2>2. arFaults + missed \in 0..ArMaxFaults
    BY <2>1, <1>3, RollNumbers, CountedOn
  <2> QED BY <2>2, <1>4
<1> QED BY <1>2, <1>4, <1>5, <1>6 DEF ArInv

\* A start after an end or a crash: no file is open and the others are kept.
LEMMA StartingKeeps ==
    ASSUME AudioAssumption, ArInv, NEW r, RollOK([open |-> NoRecording, files |-> r.files]), StartsWith(r),
           arFaults' \in 0..ArMaxFaults
    PROVE  ArInv'
<1>1. /\ arSet' = [arSet EXCEPT !.on = FALSE] /\ arCapture' = CaptureOff /\ arOpen' = NoRecording
      /\ arFiles' = r.files /\ arSays' = ButtonText(NoRecording, arSet) /\ UNCHANGED <<arNow, arFeeds>>
  BY DEF StartsWith
<1>2. arSet' \in [on : BOOLEAN, folder : BOOLEAN, device : SoundDevices, roll : ArRolls]
  BY <1>1 DEF ArInv
<1>3. arSays' \in {"start", "stop", "choose folder"}
  BY <1>1, TextOfButton
<1>4. RollOK(Recorder')
  BY <1>1 DEF Recorder
<1> QED BY <1>1, <1>2, <1>3, <1>4 DEF ArInv

\* Every step of the recorder keeps the invariant and every recording.
LEMMA ArInvariant ==
    ASSUME AudioAssumption, ArInv, ArNext
    PROVE  ArInv' /\ Holds(arFiles', arFiles, arOpen)
<1>1. RollOK(Recorder) /\ Recorder.open = arOpen /\ Recorder.files = arFiles /\ arNow \in Nat \ {0}
  BY RollNumbers DEF ArInv, Recorder
<1>2. Holds(arFiles, arFiles, arOpen)
  BY <1>1, LengthsAreNumbers DEF Holds
<1>3. CASE PressRecord
  <2> DEFINE s == [arSet EXCEPT !.on = ~arSet.on]
  <2>1. s \in [on : BOOLEAN, folder : BOOLEAN, device : SoundDevices, roll : ArRolls]
    <3> DEFINE b == ~arSet.on
    <3>1. b \in BOOLEAN
      OBVIOUS
    <3> HIDE DEF b
    <3>2. [arSet EXCEPT !.on = b] \in [on : BOOLEAN, folder : BOOLEAN, device : SoundDevices, roll : ArRolls]
      BY <3>1 DEF ArInv
    <3> QED BY <3>2 DEF b
  <2>2. SetAudio(s) /\ UNCHANGED <<arNow, arFeeds>>
    BY <1>3 DEF PressRecord
  <2> HIDE DEF s
  <2> QED BY <2>1, <2>2, SettingAudioKeeps
<1>4. CASE SaveAudioSettings
  <2>1. PICK folder \in BOOLEAN, device \in SoundDevices, roll \in ArRolls :
           /\ SetAudio([arSet EXCEPT !.folder = folder, !.device = device, !.roll = roll])
           /\ UNCHANGED <<arNow, arFeeds>>
    BY <1>4 DEF SaveAudioSettings
  <2> DEFINE s == [arSet EXCEPT !.folder = folder, !.device = device, !.roll = roll]
  <2>2. s \in [on : BOOLEAN, folder : BOOLEAN, device : SoundDevices, roll : ArRolls]
    BY <2>1 DEF ArInv
  <2>3. SetAudio(s) /\ UNCHANGED <<arNow, arFeeds>>
    BY <2>1
  <2> HIDE DEF s
  <2> QED BY <2>2, <2>3, SettingAudioKeeps
<1>5. CASE SoundArrives
  <2>1. PICK n \in 1..ArChunk, written \in BOOLEAN, room \in BOOLEAN, opens \in BOOLEAN, taken \in BOOLEAN :
          LET r == FeedRecorder(Recorder, n, written, room, opens, taken)
              missed == IF written /\ room /\ opens /\ taken THEN 0 ELSE 1
          IN  /\ arFaults + missed <= ArMaxFaults /\ arFaults' = arFaults + missed
              /\ arOpen' = r.open /\ arFiles' = r.files /\ arSays' = ButtonText(r.open, arSet)
    BY <1>5 DEF SoundArrives
  <2> DEFINE r == FeedRecorder(Recorder, n, written, room, opens, taken)
             missed == IF written /\ room /\ opens /\ taken THEN 0 ELSE 1
  <2>2. RollOK(r) /\ Holds(r.files, arFiles, arOpen) /\ (r.open # NoRecording => arOpen # NoRecording)
    BY <2>1, FeedingKeeps
  <2>3. missed \in Nat
    OBVIOUS
  <2>4. /\ arFaults + missed <= ArMaxFaults /\ arFaults' = arFaults + missed
        /\ arOpen' = r.open /\ arFiles' = r.files /\ arSays' \in {"start", "stop", "choose folder"}
    BY <2>1, TextOfButton
  <2>5. arFeeds < ArMaxFeeds /\ arFeeds' = arFeeds + 1 /\ UNCHANGED <<arSet, arCapture, arNow>>
    BY <1>5 DEF SoundArrives
  <2> HIDE DEF r, missed
  <2>6. RollOK(Recorder')
    <3>1. r = [open |-> r.open, files |-> r.files]
      BY <2>2 DEF RollOK
    <3>2. Recorder' = r
      BY <3>1, <2>4 DEF Recorder
    <3> QED BY <3>2, <2>2
  <2>7. arFaults' \in 0..ArMaxFaults /\ arFeeds' \in 0..ArMaxFeeds
    <3>1. arFaults + missed \in 0..ArMaxFaults
      BY <2>3, <2>4, RollNumbers, CountedOn
    <3>2. arFeeds + 1 \in 0..ArMaxFeeds
      BY <2>5, RollNumbers
    <3> QED BY <3>1, <3>2, <2>4, <2>5
  <2>8. arOpen' # NoRecording => arCapture' # CaptureOff
    BY <2>2, <2>4, <2>5 DEF ArInv
  <2> QED BY <2>2, <2>4, <2>5, <2>6, <2>7, <2>8 DEF ArInv
<1>6. CASE MarkQso
  <2> DEFINE was == arFiles[arOpen]
             marks == was.marks \cup {was.data}
             file == [was EXCEPT !.marks = marks]
             files == [arFiles EXCEPT ![arOpen] = file]
  <2>1. arOpen # NoRecording /\ arFiles' = [arFiles EXCEPT ![arOpen] = file]
        /\ UNCHANGED <<arSet, arCapture, arOpen, arSays, arNow, arFeeds, arFaults>>
    BY <1>6 DEF MarkQso
  <2>2. Indexed(was)
    BY <1>1, <2>1 DEF RollOK
  <2>3. Indexed(file) /\ file.data >= was.data /\ was.marks \subseteq file.marks
    <3> HIDE DEF was
    <3>1. was \in ArFile /\ was.data \in Nat /\ was.marks \in SUBSET Nat /\ \A s \in was.marks : s <= was.data
      BY <2>2 DEF Indexed, ArFile
    <3>2. marks \in SUBSET Nat /\ \A s \in marks : s <= was.data
      BY <3>1
    <3> HIDE DEF marks
    <3>3. file \in ArFile /\ file.data = was.data /\ file.marks = marks
      BY <3>1, <3>2 DEF ArFile
    <3> QED BY <3>1, <3>2, <3>3 DEF Indexed, marks
  <2> HIDE DEF file
  <2>4. RollOK([open |-> arOpen, files |-> files]) /\ Holds(files, arFiles, arOpen)
    <3> DEFINE r == Recorder
    <3>1. RollOK(r) /\ r.open = arOpen /\ r.files = arFiles
      BY <1>1
    <3> HIDE DEF r
    <3>2. LET new == [r.files EXCEPT ![r.open] = file]
          IN  RollOK([open |-> r.open, files |-> new]) /\ Holds(new, r.files, r.open)
      BY <3>1, <2>1, <2>3, WritingKeeps
    <3> QED BY <3>1, <3>2
  <2>5. Recorder' = [open |-> arOpen, files |-> files]
    BY <2>1 DEF Recorder
  <2> QED BY <2>1, <2>4, <2>5 DEF ArInv
<1>7. CASE SecondPasses
  <2>1. arNow' \in 1..ArHorizon /\ UNCHANGED <<arSet, arCapture, arOpen, arFiles, arSays, arFeeds, arFaults>>
    <3>1. arNow < ArHorizon /\ arNow' = arNow + 1
          /\ UNCHANGED <<arSet, arCapture, arOpen, arFiles, arSays, arFeeds, arFaults>>
      BY <1>7 DEF SecondPasses
    <3> QED BY <3>1, RollNumbers
  <2>2. Recorder' = Recorder
    BY <2>1 DEF Recorder
  <2> QED BY <2>1, <2>2, <1>2 DEF ArInv
<1>8. CASE QuitAndStart
  <2>0. PICK taken \in BOOLEAN : StartsWith(CloseFile(Recorder, taken)) /\ arFaults' \in 0..ArMaxFaults
    <3>1. CASE StartsWith(CloseFile(Recorder, TRUE)) /\ UNCHANGED arFaults
      BY <3>1 DEF ArInv
    <3>2. CASE arFaults < ArMaxFaults /\ StartsWith(CloseFile(Recorder, FALSE)) /\ arFaults' = arFaults + 1
      <4>1. arFaults' \in 0..ArMaxFaults
        BY <3>2, RollNumbers
      <4> QED BY <3>2, <4>1
    <3> QED BY <3>1, <3>2, <1>8 DEF QuitAndStart
  <2> DEFINE r == CloseFile(Recorder, taken)
  <2>1. StartsWith(r) /\ arFaults' \in 0..ArMaxFaults
    BY <2>0
  <2>2. RollOK(r) /\ r.open = NoRecording /\ Holds(r.files, arFiles, arOpen)
    BY <1>1, ClosingKeeps
  <2> HIDE DEF r
  <2>3. r = [open |-> NoRecording, files |-> r.files]
    BY <2>2 DEF RollOK
  <2>4. ArInv'
    BY <2>1, <2>2, <2>3, StartingKeeps
  <2> QED BY <2>1, <2>2, <2>4 DEF StartsWith
<1>9. CASE CrashAndStart
  <2> DEFINE was == arFiles[arOpen]
             file == [was EXCEPT !.cut = TRUE]
             r == [Recorder EXCEPT !.files[arOpen].cut = TRUE]
  <2>1. arOpen # NoRecording /\ arFaults < ArMaxFaults /\ StartsWith(r) /\ arFaults' = arFaults + 1
    BY <1>9 DEF CrashAndStart
  <2>2. Indexed(was)
    BY <1>1, <2>1 DEF RollOK
  <2>3. Indexed(file) /\ file.cut = TRUE /\ file.data >= was.data /\ was.marks \subseteq file.marks
    <3> HIDE DEF was
    <3>1. was \in ArFile /\ was.data \in Nat
      BY <2>2 DEF Indexed, ArFile
    <3>2. file \in ArFile /\ file.data = was.data /\ file.marks = was.marks /\ file.cut = TRUE
      BY <3>1 DEF ArFile
    <3> QED BY <3>1, <3>2, <2>2 DEF Indexed
  <2>4. r = [open |-> arOpen, files |-> [arFiles EXCEPT ![arOpen] = file]]
    <3>1. Recorder = [open |-> arOpen, files |-> arFiles]
      BY DEF Recorder
    <3> DEFINE q == [open |-> arOpen, files |-> arFiles]
    <3>2. [q EXCEPT !.files[arOpen].cut = TRUE] = [q EXCEPT !.files = [q.files EXCEPT ![arOpen].cut = TRUE]]
      OBVIOUS
    <3>3. r = [q EXCEPT !.files[arOpen].cut = TRUE]
      BY <3>1
    <3>4. [arFiles EXCEPT ![arOpen].cut = TRUE] = [arFiles EXCEPT ![arOpen] = file]
      OBVIOUS
    <3> HIDE DEF r, file
    <3> QED BY <3>2, <3>3, <3>4
  <2> HIDE DEF file, r
  <2>5. RollOK(r) /\ r.open = arOpen /\ r.files[arOpen] = file /\ Holds(r.files, arFiles, arOpen)
    <3> DEFINE old == Recorder
    <3>1. RollOK(old) /\ old.open = arOpen /\ old.files = arFiles
      BY <1>1
    <3> HIDE DEF old
    <3>2. LET new == [old.files EXCEPT ![old.open] = file]
          IN  RollOK([open |-> old.open, files |-> new]) /\ Holds(new, old.files, old.open) /\ new[old.open] = file
      BY <3>1, <2>1, <2>3, WritingKeeps
    <3> QED BY <3>1, <3>2, <2>4
  <2>6. RollOK([open |-> NoRecording, files |-> r.files])
    <3>1. ClosedFile(file)
      BY <2>3 DEF ClosedFile
    <3> QED BY <3>1, <2>5 DEF RollOK
  <2>7. arFaults' \in 0..ArMaxFaults
    BY <2>1, RollNumbers
  <2>8. ArInv'
    BY <2>1, <2>6, <2>7, StartingKeeps
  <2> QED BY <2>1, <2>5, <2>8 DEF StartsWith
<1> QED BY <1>3, <1>4, <1>5, <1>6, <1>7, <1>8, <1>9 DEF ArNext

\* The first start establishes it.
LEMMA ArStarts ==
    ASSUME AudioAssumption, ArInit
    PROVE  ArInv
<1>1. arSet \in [on : BOOLEAN, folder : BOOLEAN, device : SoundDevices, roll : ArRolls]
  <2>1. PICK folder \in BOOLEAN, device \in SoundDevices, roll \in ArRolls :
          arSet = [on |-> FALSE, folder |-> folder, device |-> device, roll |-> roll]
    BY DEF ArInit
  <2> QED BY <2>1
<1>2. /\ arCapture = CaptureOff /\ arOpen = NoRecording /\ arFiles = [n \in {} |-> FreshFile]
      /\ arSays \in {"start", "stop", "choose folder"} /\ arNow = 1 /\ arFeeds = 0 /\ arFaults = 0
  BY TextOfButton DEF ArInit
<1>3. RollOK(Recorder)
  BY <1>2, FS_EmptySet DEF RollOK, Recorder
<1>4. arNow \in 1..ArHorizon /\ arFeeds \in 0..ArMaxFeeds /\ arFaults \in 0..ArMaxFaults
  <2>1. ArHorizon \in Nat \ {0} /\ ArMaxFeeds \in Nat /\ ArMaxFaults \in Nat
    BY DEF AudioAssumption
  <2>2. 1 \in 1..ArHorizon /\ 0 \in 0..ArMaxFeeds /\ 0 \in 0..ArMaxFaults
    BY <2>1
  <2> QED BY <2>2, <1>2
<1> QED BY <1>1, <1>2, <1>3, <1>4 DEF ArInv

\* It has the types and the property in it.
LEMMA ArShows ==
    ASSUME ArInv
    PROVE  FinishedIsPlayable /\ ArTypeOK
<1>1. Recorder.open = arOpen /\ Recorder.files = arFiles
  BY DEF Recorder
<1>2. /\ arOpen \in DOMAIN arFiles \cup {NoRecording}
      /\ \A n \in DOMAIN arFiles : Indexed(arFiles[n]) /\ (n # arOpen => ClosedFile(arFiles[n]))
  BY <1>1 DEF ArInv, RollOK
<1>3. \A n \in DOMAIN arFiles : arFiles[n].data \in Nat /\ arFiles[n].marks \subseteq Nat
  BY <1>2 DEF Indexed, ArFile
<1>4. FinishedIsPlayable
  BY <1>2 DEF FinishedIsPlayable, Indexed, ClosedFile, ArInv
<1> QED BY <1>2, <1>3, <1>4 DEF ArTypeOK, ArInv

-----------------------------------------------------------------------------
(* All of them, in the instance that is checked *)

\* A part moves alone.
LEMMA DeskPartsMoveAlone ==
    ASSUME [DeskNext]_deskVars
    PROVE  /\ part' = part
           /\ part = "panels" => [PnNext]_pnVars
           /\ part = "rotors" => [RpNext]_rpVars
           /\ part = "map" => [MvNext]_mvVars
           /\ part = "settings" => [StNext]_stVars
           /\ part = "rules" => [RbNext]_rbVars
           /\ part = "audio" => [ArNext]_arVars
           /\ part = "spots" => [SpNext]_spVars
           /\ part = "waterfall" => [WfNext]_wfVars
<1>1. CASE DeskNext
  BY <1>1 DEF DeskNext
<1>2. CASE UNCHANGED deskVars
  BY <1>2 DEF deskVars
<1> QED
  BY <1>1, <1>2

DisplayInv == (part = "spots" => SpInv) /\ (part = "waterfall" => WfInv)

\* A cluster's line that was ever asked for is dialed again, no spot is put together
\* from pieces of two lines or connections, and the bandmap shows spots of its band
\* alone and strikes out exactly the stations worked, but for the last turn of its
\* timer (DxClusterClient, BandmapModel); nothing is said of a spot's age.  The
\* waterfall shows no line of another scale, server or order than the one it
\* names, and one that is wanted is on its way (SpectrumClient, SpectrumWidget).
THEOREM DisplaysStayTrue == DeskSpec => []DisplaysAreTrue
<1>1. DeskInit => DisplayInv
  BY SpotAssumption, WaterfallAssumption, SpStarts, WfStarts DEF DeskInit, SpotsInit, WaterfallInit, DisplayInv
<1>2. DisplayInv /\ [DeskNext]_deskVars => DisplayInv'
  BY SpotAssumption, WaterfallAssumption, DeskPartsMoveAlone, SpInvariant, WfInvariant DEF DisplayInv
<1>3. DisplayInv => DisplaysAreTrue
  BY SpShows, WfShows DEF DisplayInv, DisplaysAreTrue
<1> QED
  BY <1>1, <1>2, <1>3, PTL DEF DeskSpec

\* Any step of the rules and of the recorder, stuttering included.
LEMMA RbStep ==
    ASSUME RbInv, [RbNext]_rbVars
    PROVE  RbInv'
<1>1. CASE RbNext
  BY <1>1, RuleBookAssumption, RbInvariant
<1>2. CASE UNCHANGED rbVars
  BY <1>2 DEF rbVars, RbInv, FilesOK, FileOK, ListOK, Loadable
<1> QED
  BY <1>1, <1>2

\* Nothing of a file is lost by standing still.
LEMMA ArStep ==
    ASSUME ArInv, [ArNext]_arVars
    PROVE  ArInv' /\ Holds(arFiles', arFiles, arOpen)
<1>1. CASE ArNext
  BY <1>1, AudioAssumption, ArInvariant
<1>2. CASE UNCHANGED arVars
  <2>1. Recorder' = Recorder /\ arFiles' = arFiles
    BY <1>2 DEF arVars, Recorder
  <2>2. ArInv'
    BY <1>2, <2>1 DEF arVars, ArInv, RollOK
  <2>3. RollOK(Recorder) /\ Recorder.files = arFiles
    BY DEF ArInv, Recorder
  <2> QED
    BY <2>1, <2>2, <2>3, LengthsAreNumbers DEF Holds
<1> QED
  BY <1>1, <1>2

ChoiceInv == (part = "settings" => StInv) /\ (part = "rules" => RbInv)

\* The log is measured from the locator the settings hold, and a second setting is
\* never offered that is not there (AppController::setSettings, SettingsDialog);
\* whatever is edited, saved, torn or reset, the contest that is active can be
\* worked by (ContestRulesDialog).
THEOREM SettingsStayRight == DeskSpec => []SettingsHold
<1>1. DeskInit => ChoiceInv
  BY SettingsAssumption, RuleBookAssumption, StStarts, RbStarts DEF DeskInit, SettingsInit, RulesInit, ChoiceInv
<1>2. ChoiceInv /\ [DeskNext]_deskVars => ChoiceInv'
  BY SettingsAssumption, DeskPartsMoveAlone, StInvariant, RbStep DEF ChoiceInv
<1>3. ChoiceInv => SettingsHold
  BY StShows, RbShows DEF ChoiceInv, SettingsHold
<1> QED
  BY <1>1, <1>2, <1>3, PTL DEF DeskSpec

SoundInv == part = "audio" => ArInv
SoundPlays == part = "audio" => FinishedIsPlayable

\* However the recording ends or rolls on: a file that is closed and that neither a
\* crash nor the disk cut off names its length, the index leads into it, no file,
\* sound or index line gets lost, and a file that is closed stays as it is
\* (QsoAudioRecorder).
THEOREM SoundStaysKept == DeskSpec => SoundIsKept
<1>1. DeskInit => SoundInv
  BY AudioAssumption, ArStarts DEF DeskInit, AudioInit, SoundInv
<1>2. SoundInv /\ [DeskNext]_deskVars => SoundInv'
  BY DeskPartsMoveAlone, ArStep DEF SoundInv
<1>3. SoundInv => SoundPlays
  BY ArShows DEF SoundInv, SoundPlays
<1>4. SoundInv /\ SoundPlays' /\ [DeskNext]_deskVars
          => [part = "audio" => FinishedIsPlayable' /\ NothingIsLost]_deskVars
  <2> SUFFICES ASSUME SoundInv, SoundPlays', [DeskNext]_deskVars, part = "audio"
               PROVE  FinishedIsPlayable' /\ NothingIsLost
    OBVIOUS
  <2>1. Holds(arFiles', arFiles, arOpen) /\ part' = "audio"
    BY DeskPartsMoveAlone, ArStep DEF SoundInv
  <2>2. NothingIsLost
    BY <2>1 DEF Holds, NothingIsLost
  <2> QED
    BY <2>1, <2>2 DEF SoundPlays
<1> QED
  BY <1>1, <1>2, <1>3, <1>4, PTL DEF DeskSpec, SoundIsKept
=============================================================================
