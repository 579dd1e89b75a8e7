------------------------------ MODULE SiteData ------------------------------
(***************************************************************************)
(* What the program fetches for the place it stands at: the elevation      *)
(* tiles of core/terrain with the classes of the paths, the ring of the    *)
(* rotor dials and the rim of the map, and the weather of WeatherClient.   *)
(*                                                                         *)
(* A class is modelled by the place it was worked out for.  A handler that *)
(* finds a tile on the disk is called back by it before it is done, and    *)
(* again for every further tile; what all those calls leave behind does    *)
(* not depend on their order and is written down at once.                  *)
(***************************************************************************)
EXTENDS Naturals

CONSTANTS
    SdPlaces,    \* own locators
    SdTargets,   \* far ends: locators of stations, and those the sweep makes up
    SdTiles,     \* elevation tiles
    SdPaths,     \* the tiles between a place and a far end
    SdSweep,     \* the far ends of a place's sweep
    SdHorizon,   \* the tiles a place's skyline is made of
    SdMaxMoves, SdMaxFaults   \* bounds

SiteDataAssumption ==
    /\ "" \notin SdPlaces
    /\ SdPaths \in [SdPlaces -> [SdTargets -> SUBSET SdTiles]]
    /\ SdSweep \in [SdPlaces -> SUBSET SdTargets]
    /\ SdHorizon \in [SdPlaces -> SUBSET SdTiles]
    /\ SdMaxMoves \in Nat /\ SdMaxFaults \in Nat
ASSUME SiteDataAssumption

VARIABLES sd,        \* the program and the disk, see SdTypeOK
          sdMoves, sdFaults

sdVars == <<sd, sdMoves, sdFaults>>

NoPlace == ""

SdTypeOK ==
    /\ sd \in [own: SdPlaces \cup {NoPlace}, asked: SUBSET SdTargets,
               class: SUBSET (SdTargets \X SdPlaces), ring: SUBSET (SdTargets \X SdPlaces),
               loaded: SUBSET SdTiles, pending: SUBSET SdTiles,
               whole: SUBSET SdTiles, half: SUBSET SdTiles,
               rim: SUBSET SdTiles, rimOf: SdPlaces \cup {NoPlace},
               site: SdPlaces \cup {NoPlace}, weather: SdPlaces \cup {NoPlace},
               inquiries: SUBSET SdPlaces]
    /\ sdMoves \in 0..SdMaxMoves /\ sdFaults \in 0..SdMaxFaults
    /\ sd.loaded \cap sd.pending = {} /\ sd.whole \cap sd.half = {}

-----------------------------------------------------------------------------
(* core/terrain *)

\* ensureTileAvailable(): from the disk, else from the network; half a file goes.
Fetch(s, need) ==
    LET missing == need \ (s.loaded \cup s.pending)
    IN [s EXCEPT !.loaded = @ \cup (missing \cap s.whole),
                 !.pending = @ \cup (missing \ s.whole), !.half = @ \ missing]

\* recomputeAll(): a path is judged when all its tiles are there, and keeps
\* its class until then.
RecomputeAll(s) ==
    IF s.own = NoPlace THEN s
    ELSE LET f == Fetch(s, UNION {SdPaths[s.own][t] : t \in s.asked})
             judged == {t \in f.asked : SdPaths[f.own][t] \subseteq f.loaded}
         IN [f EXCEPT !.class =
                 {c \in @ : c[1] \notin judged} \cup (judged \X {f.own})]

\* classification(): a far end asked for the first time is remembered.
Asked(s, targets) ==
    IF s.own = NoPlace THEN s ELSE RecomputeAll([s EXCEPT !.asked = @ \cup targets])

\* horizonProfileForOwnStation(): once per place.
Skyline(s) ==
    IF s.own = s.rimOf THEN s
    ELSE LET f == Fetch(s, SdHorizon[s.own])
         IN RecomputeAll([f EXCEPT !.rim = SdHorizon[f.own] \cap f.loaded, !.rimOf = f.own])

\* sectorSweep(): the far ends around the place, asked for like any other.
SectorSweep(s) == Asked(s, SdSweep[s.own])

RefreshTerrainSectors(s) ==
    IF s.own = NoPlace THEN [s EXCEPT !.ring = {}]
    ELSE LET swept == Skyline(SectorSweep(s))
         IN [swept EXCEPT !.ring = {c \in swept.class : c[1] \in SdSweep[s.own]}]

\* classificationChanged() reaches the ring.
Announced(before, after) ==
    IF after.class = before.class THEN after ELSE RefreshTerrainSectors(after)

TilesChanged(s) == Announced(s, RecomputeAll(s))

-----------------------------------------------------------------------------
(* core/WeatherClient *)

\* Mutant: the first location stays.
SetOwnGrid_First(s) ==
    IF s.own = NoPlace \/ s.site # NoPlace THEN s
    ELSE [s EXCEPT !.site = s.own, !.inquiries = @ \cup {s.own}]

SetOwnGrid(s) ==
    IF s.own \in {NoPlace, s.site} THEN s
    ELSE [s EXCEPT !.site = s.own, !.inquiries = @ \cup {s.own}]

\* The ten minutes of the timer.
AskWeather ==
    /\ sd.site # NoPlace
    /\ sd' = [sd EXCEPT !.inquiries = @ \cup {sd.site}]
    /\ UNCHANGED <<sdMoves, sdFaults>>

WeatherAnswers(p) ==
    /\ p \in sd.inquiries
    /\ sd' = [sd EXCEPT !.inquiries = @ \ {p}, !.weather = p]
    /\ UNCHANGED <<sdMoves, sdFaults>>

\* An error, an answer that cannot be read, or none before the time is up.
WeatherFails(p) ==
    /\ p \in sd.inquiries /\ sdFaults < SdMaxFaults
    /\ sd' = [sd EXCEPT !.inquiries = @ \ {p}]
    /\ sdFaults' = sdFaults + 1 /\ UNCHANGED sdMoves

-----------------------------------------------------------------------------
\* A locator is saved, in the settings or in the contest picker.
MoveTo(p) ==
    /\ p # sd.own /\ sdMoves < SdMaxMoves
    /\ sd' = RefreshTerrainSectors(SetOwnGrid(TilesChanged([sd EXCEPT !.own = p])))
    /\ sdMoves' = sdMoves + 1 /\ UNCHANGED sdFaults

\* A chat line or spot with a locator: GeoFilter::classify().
HearStation(t) ==
    /\ t \notin sd.asked
    /\ sd' = Announced(sd, Asked(sd, {t}))
    /\ UNCHANGED <<sdMoves, sdFaults>>

\* A download is complete; the copy on the disk may fail and is then removed.
TileArrives(t, kept) ==
    /\ t \in sd.pending
    /\ kept \/ sdFaults < SdMaxFaults
    /\ sd' = TilesChanged([sd EXCEPT !.pending = @ \ {t}, !.loaded = @ \cup {t},
                                     !.whole = IF kept THEN @ \cup {t} ELSE @])
    /\ sdFaults' = IF kept THEN sdFaults ELSE sdFaults + 1
    /\ UNCHANGED sdMoves

\* Mutant: a failed tile wakes nobody.
TileFails_Silently(t) ==
    /\ t \in sd.pending /\ sdFaults < SdMaxFaults
    /\ sd' = [sd EXCEPT !.pending = @ \ {t}]
    /\ sdFaults' = sdFaults + 1 /\ UNCHANGED sdMoves

\* A download fails; all paths are looked at again, which asks for it anew.
TileFails(t) ==
    /\ t \in sd.pending /\ sdFaults < SdMaxFaults
    /\ sd' = TilesChanged([sd EXCEPT !.pending = @ \ {t}])
    /\ sdFaults' = sdFaults + 1 /\ UNCHANGED sdMoves

Fresh(own, whole, half) ==
    RefreshTerrainSectors(SetOwnGrid(
        [own |-> own, asked |-> {}, class |-> {}, ring |-> {}, loaded |-> {}, pending |-> {},
         whole |-> whole, half |-> half, rim |-> {}, rimOf |-> NoPlace,
         site |-> NoPlace, weather |-> NoPlace, inquiries |-> {}]))

\* The program ends and is started again; "torn" are the tiles it was writing.
SdRestart(torn) ==
    /\ torn \subseteq sd.pending /\ sdFaults < SdMaxFaults
    /\ sd' = Fresh(sd.own, sd.whole, sd.half \cup torn)
    /\ sdFaults' = sdFaults + 1 /\ UNCHANGED sdMoves

SdInit ==
    /\ \E own \in SdPlaces \cup {NoPlace} : sd = Fresh(own, {}, {})
    /\ sdMoves = 0 /\ sdFaults = 0

SdNext ==
    \/ \E p \in SdPlaces \cup {NoPlace} : MoveTo(p)
    \/ \E t \in SdTargets : HearStation(t)
    \/ \E t \in SdTiles, kept \in BOOLEAN : TileArrives(t, kept)
    \/ \E t \in SdTiles : TileFails(t)
    \/ AskWeather
    \/ \E p \in SdPlaces : WeatherAnswers(p) \/ WeatherFails(p)
    \/ \E torn \in SUBSET sd.pending : SdRestart(torn)

SdSpec == SdInit /\ [][SdNext]_sdVars

\* A request for the weather has a transfer timeout, and the timer fires: weak
\* fairness of WeatherAnswers(p) and AskWeather, each of which is over and over
\* taken or impossible, and its step makes it impossible.  The download of a
\* tile has no timeout (SrtmTileLoader::startDownload): it may stall for ever.
SdFairness ==
    /\ \A p \in SdPlaces : []<>(p \notin sd.inquiries)
    /\ []<>(sd.site \in sd.inquiries \cup {NoPlace})

-----------------------------------------------------------------------------
(* Properties *)

\* No path waits for a tile that nobody is fetching any more: not after a
\* failed download, a move, a half written file or a restart.
TilesAreOnTheirWay ==
    sd.own # NoPlace =>
        UNION {SdPaths[sd.own][t] : t \in sd.asked} \subseteq sd.loaded \cup sd.pending

ClassOf(t) == {c[2] : c \in {d \in sd.class : d[1] = t}}

\* A path whose tiles are all there has the class of the place the station
\* stands at now.
LoadedPathsAreJudged ==
    sd.own # NoPlace =>
        \A t \in sd.asked : SdPaths[sd.own][t] \subseteq sd.loaded => ClassOf(t) = {sd.own}

\* "a sector that resolves later reaches the compass ring live": the ring of
\* the dials shows, for every direction of the sweep from the present place,
\* the class the manager holds.
RingShowsTheClasses ==
    sd.own # NoPlace => sd.ring = {c \in sd.class : c[1] \in SdSweep[sd.own]}

\* The terrain shown and the tiles at hand belong together.
TerrainIsTrue == TilesAreOnTheirWay /\ LoadedPathsAreJudged /\ RingShowsTheClasses

\* Once the station stays where it is, the weather shown is in the end the
\* weather there, whatever late answers were still under way; and every path that
\* was asked for is judged from there if no download stalls.
PathsAreJudgedFrom(p) == \A t \in sd.asked : ClassOf(t) = {p}
DownloadsEnd == \A t \in SdTiles : []<>(t \notin sd.pending)
SiteDataSettles ==
    \A p \in SdPlaces : <>[](sd.own = p) =>
        /\ <>[](sd.weather = p)
        /\ DownloadsEnd => <>[]PathsAreJudgedFrom(p)

\* "a bearing whose samples all fall on missing tiles reports 0 (flat)"
\* (HorizonProfile.h): a bearing whose tile is there reports the terrain.
RimFollowsTheTiles ==
    sd.own # NoPlace => SdHorizon[sd.own] \cap sd.loaded \subseteq sd.rim

=============================================================================
