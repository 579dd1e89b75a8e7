------------------------------ MODULE SpotLink ------------------------------
(***************************************************************************)
(* Spots: the line to the DX cluster (core/DxClusterClient), its reading   *)
(* chunk by chunk, the spots of the chat (core/SpotParser), the model      *)
(* behind the bandmap (core/BandmapModel) and what the bandmap shows       *)
(* (MainWindow::refreshBandmap).  Time is counted in units longer than the *)
(* bandmap's own timer; SpDay of them make a day in UTC.                   *)
(***************************************************************************)
EXTENDS Integers, Sequences, FiniteSets, SequencesExt

CONSTANTS
    SpStations,    \* who can be spotted: [call, band]
    SpHosts,       \* cluster servers the operator can enter
    SpDay,         \* units of a day
    SpMaxAge,      \* BandmapModel::kDefaultMaxAgeMinutes, in units
    SpCap,         \* kMaxBufferBytes, in chunks
    SpHorizon,     \* bound: units of time
    SpMaxSent,     \* bound: lines the servers send
    SpMaxEvents    \* bound: failures of the line, changes of settings and log

SpotAssumption ==
    /\ \A s \in SpStations : DOMAIN s = {"call", "band"}
    /\ SpDay \in Nat \ {0} /\ SpMaxAge \in Nat /\ SpCap \in Nat \ {0}
    /\ SpHorizon \in Nat /\ SpMaxSent \in Nat /\ SpMaxEvents \in Nat
ASSUME SpotAssumption

VARIABLES
    spLink,     \* the client: [sock, host, loggedIn, retry, limit, line]
    spHost,     \* ContestSettings::clusterHost
    spWire,     \* chunks sent and not read
    spBuffer,   \* m_readBuffer, in chunks
    spMap,      \* BandmapModel::m_spots: call -> [band, grid, stamp, heard, whole]
    spShown,    \* what the bandmap draws: call -> struck out?
    spBand,     \* m_currentBand
    spLog,      \* stations worked, as the dupe check sees them
    spStale,    \* the log was corrected after the bandmap was last drawn (history)
    spNow, spSent, spEvents

spLinkVars == <<spLink, spHost, spWire, spBuffer>>
spMapVars == <<spMap, spShown, spBand, spLog, spStale>>
spVars == <<spLinkVars, spMapVars, spNow, spSent, spEvents>>

NoHost == "no host"
SpBands == {s.band : s \in SpStations}
SpCalls == {s.call : s \in SpStations}

-----------------------------------------------------------------------------
(* The bandmap                                                             *)

\* DxClusterClient::parseDxSpotLine: the line carries hours and minutes only.
StampOf(clock) == (spNow - (spNow % SpDay)) + clock

\* A re-spot moves the station and keeps its locator.
AddSpot(map, call, spot) ==
    [c \in DOMAIN map \cup {call} |->
        IF c # call THEN map[c]
        ELSE [spot EXCEPT !.grid = @ \/ (call \in DOMAIN map /\ map[call].grid)]]

\* spotsForBand() drops what is too old; the rest is shown, struck out when worked.
Young(map, now) == {c \in DOMAIN map : map[c].stamp >= now - SpMaxAge}
Struck(call, band, log) == [call |-> call, band |-> band] \in log
RefreshBandmap(map, band, log, now) ==
    /\ spMap' = [c \in Young(map, now) |-> map[c]]
    /\ spShown' = [c \in {y \in Young(map, now) : map[y].band = band} |-> Struck(c, band, log)]
    /\ spBand' = band /\ spLog' = log /\ spStale' = FALSE

NoteSpot(station, grid, stamp, whole) ==
    RefreshBandmap(AddSpot(spMap, station.call, [band |-> station.band, grid |-> grid, stamp |-> stamp,
                                                 heard |-> spNow, whole |-> whole]),
                   spBand, spLog, spNow)

-----------------------------------------------------------------------------
(* The line: sock is "off", "dialing" or "up"; retry and limit are the two *)
(* timers; line numbers the connections.                                   *)

ClusterUp == spLink.sock = "up"
WithRetry(link) == [link EXCEPT !.retry = link.host # NoHost]

\* connectToCluster(): a socket on its way keeps dialing the host it was given.
Dialed(link, host) ==
    IF link.sock = "up" THEN link
    ELSE [link EXCEPT !.sock = "dialing", !.host = host, !.loggedIn = FALSE, !.limit = TRUE]
ConnectToCluster(link, host) ==
    /\ spLink' = Dialed(link, host)
    /\ spBuffer' = IF link.sock = "up" THEN spBuffer ELSE <<>>

\* Every saved setting ends in applySettings().
SaveClusterSettings ==
    /\ spEvents < SpMaxEvents
    /\ \E host \in SpHosts \cup {NoHost} :
          /\ spHost' = host
          /\ IF host = NoHost \/ ClusterUp THEN UNCHANGED <<spLink, spBuffer>> ELSE ConnectToCluster(spLink, host)
    /\ spEvents' = spEvents + 1
    /\ UNCHANGED <<spWire, spMapVars, spNow, spSent>>

SocketConnects ==
    /\ spLink.sock = "dialing"
    /\ spLink' = [spLink EXCEPT !.sock = "up", !.limit = FALSE, !.line = @ + 1]
    /\ spWire' = <<>>
    /\ UNCHANGED <<spHost, spBuffer, spMapVars, spNow, spSent, spEvents>>

\* onSocketError(): a refused dial brings no disconnected().
SocketFails_GivesUp ==
    /\ spLink.sock = "dialing" /\ spEvents < SpMaxEvents
    /\ spLink' = [spLink EXCEPT !.sock = "off", !.limit = FALSE]
    /\ spEvents' = spEvents + 1
    /\ UNCHANGED <<spHost, spWire, spBuffer, spMapVars, spNow, spSent>>
SocketFails ==
    /\ spLink.sock = "dialing" /\ spEvents < SpMaxEvents
    /\ spLink' = WithRetry([spLink EXCEPT !.sock = "off"])
    /\ spEvents' = spEvents + 1
    /\ UNCHANGED <<spHost, spWire, spBuffer, spMapVars, spNow, spSent>>

\* m_connectTimer runs out.
ConnectTimesOut ==
    /\ spLink.limit /\ spEvents < SpMaxEvents
    /\ spLink' = IF ClusterUp THEN [spLink EXCEPT !.limit = FALSE]
                 ELSE WithRetry([spLink EXCEPT !.sock = "off", !.limit = FALSE])
    /\ spEvents' = spEvents + 1
    /\ UNCHANGED <<spHost, spWire, spBuffer, spMapVars, spNow, spSent>>

\* onDisconnected(): what was read of an unfinished line stays in the buffer.
LinkDrops ==
    /\ ClusterUp /\ spEvents < SpMaxEvents
    /\ spLink' = WithRetry([spLink EXCEPT !.sock = "off", !.loggedIn = FALSE])
    /\ spWire' = <<>>
    /\ spEvents' = spEvents + 1
    /\ UNCHANGED <<spHost, spBuffer, spMapVars, spNow, spSent>>

RetryDue ==
    /\ spLink.retry
    /\ ConnectToCluster([spLink EXCEPT !.retry = FALSE], spLink.host)
    /\ UNCHANGED <<spHost, spWire, spMapVars, spNow, spSent, spEvents>>

\* A server sends its prompt, without a newline, or a spot in two pieces: the
\* time of a spot is that of its spotter.
Chunk(part, station, clock) == [part |-> part, station |-> station, clock |-> clock, line |-> spLink.line]
ServerSends ==
    /\ ClusterUp /\ spSent < SpMaxSent
    /\ \E s \in SpStations, clock \in {((spNow + d) % SpDay) : d \in {0, SpDay - 1}} :
          spWire' \in {spWire \o <<Chunk("head", s, clock), Chunk("tail", s, clock)>>,
                       Append(spWire, Chunk("prompt", s, clock))}
    /\ spSent' = spSent + 1
    /\ UNCHANGED <<spLink, spHost, spBuffer, spMapVars, spNow, spEvents>>

\* A line is a spot when it begins as one; its end gives the time.
IsSpot(line) == Head(line).part = "head"
Whole(line) == Len(line) = 2 /\ line[1].line = line[2].line /\ line[1].station = line[2].station

\* onReadyRead(), for one chunk.  Too much without a newline is dropped.
ReadChunk ==
    /\ ClusterUp /\ spWire # <<>>
    /\ spWire' = Tail(spWire)
    /\ LET chunk == Head(spWire)
           all == Append(spBuffer, chunk)
       IN  IF Len(all) > SpCap THEN spBuffer' = <<>> /\ UNCHANGED <<spLink, spMapVars>>
           ELSE IF chunk.part = "tail" THEN
               /\ spBuffer' = <<>>
               /\ UNCHANGED spLink
               /\ IF IsSpot(all) THEN NoteSpot(all[1].station, FALSE, StampOf(chunk.clock), Whole(all))
                  ELSE UNCHANGED spMapVars
           ELSE IF chunk.part = "prompt" /\ ~spLink.loggedIn THEN
               spBuffer' = <<>> /\ spLink' = [spLink EXCEPT !.loggedIn = TRUE] /\ UNCHANGED spMapVars
           ELSE spBuffer' = all /\ UNCHANGED <<spLink, spMapVars>>
    /\ UNCHANGED <<spHost, spNow, spSent, spEvents>>

\* SpotParser::parseDxSpotLine: a spot of the chat has a locator and its full time.
ChatSpot ==
    /\ spSent < SpMaxSent
    /\ \E s \in SpStations, grid \in BOOLEAN : NoteSpot(s, grid, spNow, TRUE)
    /\ spSent' = spSent + 1
    /\ UNCHANGED <<spLinkVars, spNow, spEvents>>

-----------------------------------------------------------------------------
(* Log, band and time                                                      *)

\* handleLogRequested().
LogSpotted ==
    /\ spEvents < SpMaxEvents
    /\ \E s \in SpStations \ spLog : RefreshBandmap(spMap, spBand, spLog \cup {s}, spNow)
    /\ spEvents' = spEvents + 1
    /\ UNCHANGED <<spLinkVars, spNow, spSent>>

\* refreshAfterLogChange() leaves the bandmap to its timer.
CorrectLog ==
    /\ spEvents < SpMaxEvents
    /\ spLog' \in SUBSET SpStations /\ spLog' # spLog
    /\ spStale' = TRUE
    /\ spEvents' = spEvents + 1
    /\ UNCHANGED <<spLinkVars, spMap, spShown, spBand, spNow, spSent>>

ChangeBand ==
    /\ \E band \in SpBands \ {spBand} : RefreshBandmap(spMap, band, spLog, spNow)
    /\ UNCHANGED <<spLinkVars, spNow, spSent, spEvents>>

\* bandmapTimer runs out many times in a unit.
TimePasses ==
    /\ spNow < SpHorizon
    /\ spNow' = spNow + 1
    /\ RefreshBandmap(spMap, spBand, spLog, spNow')
    /\ UNCHANGED <<spLinkVars, spSent, spEvents>>

NeverDialed == [sock |-> "off", host |-> NoHost, loggedIn |-> FALSE, retry |-> FALSE, limit |-> FALSE, line |-> 0]

SpInit ==
    /\ spHost \in SpHosts \cup {NoHost}
    /\ spLink = IF spHost = NoHost THEN NeverDialed ELSE Dialed(NeverDialed, spHost)
    /\ spWire = <<>> /\ spBuffer = <<>>
    /\ spMap = [c \in {} |-> 0] /\ spShown = [c \in {} |-> FALSE]
    /\ spBand \in SpBands /\ spLog = {} /\ spStale = FALSE
    /\ spNow = 0 /\ spSent = 0 /\ spEvents = 0

SpNext ==
    \/ SaveClusterSettings \/ SocketConnects \/ SocketFails \/ ConnectTimesOut \/ LinkDrops
    \/ RetryDue \/ ServerSends \/ ReadChunk \/ ChatSpot
    \/ LogSpotted \/ CorrectLog \/ ChangeBand \/ TimePasses

SpSpec == SpInit /\ [][SpNext]_spVars

-----------------------------------------------------------------------------
(* The properties                                                          *)

\* The fields have the shapes of the members of DxClusterClient and BandmapModel.
SpTypeOK ==
    /\ spLink.sock \in {"off", "dialing", "up"} /\ spLink.host \in SpHosts \cup {NoHost}
    /\ {spLink.loggedIn, spLink.retry, spLink.limit, spStale} \subseteq BOOLEAN
    /\ spHost \in SpHosts \cup {NoHost} /\ Len(spBuffer) <= SpCap
    /\ DOMAIN spMap \subseteq SpCalls /\ DOMAIN spShown \subseteq DOMAIN spMap
    /\ spBand \in SpBands /\ spLog \subseteq SpStations
    /\ spNow \in 0..SpHorizon /\ spSent \in 0..SpMaxSent /\ spEvents \in 0..SpMaxEvents

\* A line that is down and was ever asked for is dialed again: a timer of the
\* client runs whatever ended the last attempt (onSocketError(): a server not
\* reachable "is never dialed again" otherwise).
KeepsDialing == spLink.host # NoHost /\ ~ClusterUp => spLink.retry \/ spLink.limit

\* No spot is put together from pieces of two connections or of two lines.
SpotsAreWhole == \A c \in DOMAIN spMap : spMap[c].whole

\* The bandmap shows the band's spots and strikes out exactly the stations
\* worked, unless the log was corrected within the last turn of its timer.
StrikesOutTheWorked ==
    ~spStale => \A c \in DOMAIN spShown :
                    spMap[c].band = spBand /\ spShown[c] = ([call |-> c, band |-> spBand] \in spLog)

\* What the bandmap relies on, from the socket to the picture.
BandmapIsTrue == KeepsDialing /\ SpotsAreWhole /\ StrikesOutTheWorked

\* A spot leaves the bandmap when it is too old (core/BandmapModel.h: "dropped
\* again after maxAgeMinutes"): nothing shown was received longer ago.
SpotsAgeOut == \A c \in DOMAIN spShown : spNow - spMap[c].heard <= SpMaxAge
=============================================================================
