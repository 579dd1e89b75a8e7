----------------------------- MODULE MCDeskLive -----------------------------
(***************************************************************************)
(* What has to go on by itself, in small instances for TLC: rig and rotor   *)
(* links, the start of a second program, the update, the scoreboard, the    *)
(* readiness window, terrain and weather.  As in MCDeskLog a behaviour is   *)
(* one of a single part, and the others lie asleep; so do their fairness    *)
(* conditions, which are those of the modules.                              *)
(***************************************************************************)
EXTENDS HamlibLink, SingleInstance, SelfUpdate, OnlineBoard, Readiness, SiteData

CONSTANT Parts   \* the parts that are looked at
VARIABLE part    \* the part of this behaviour
liveVars == <<part, rigVars, procVars, updVars, boardVars, rdyVars, sdVars>>

-----------------------------------------------------------------------------
(* Values for the constants *)

\* Two stations and a made-up far end, over one tile or two.
PathsOfTwoPlaces == [home |-> [n |-> {"t1"}, h |-> {"t1"}, s |-> {"t1", "t2"}],
                     hill |-> [n |-> {"t2"}, h |-> {"t2"}, s |-> {"t2"}]]
OneDirection == [home |-> {"n"}, hill |-> {"h"}]
Skylines == [home |-> {"t1"}, hill |-> {"t1", "t2"}]

-----------------------------------------------------------------------------
Asleep == 0

LinkInit ==
    IF part = "link" THEN RigInit
    ELSE /\ what = Asleep /\ slot = Asleep /\ rigWorld = Asleep /\ misread = Asleep /\ hungUp = Asleep
         /\ rigClicks = Asleep /\ rigFaults = Asleep
StartInit ==
    IF part = "start" THEN ProcInit
    ELSE /\ proc = Asleep /\ build = Asleep /\ holder = Asleep /\ socket = Asleep /\ inbox = Asleep
         /\ wish = Asleep /\ gap = Asleep /\ procFaults = Asleep
UpdateInit ==
    IF part = "update" THEN UpdInit
    ELSE /\ kind = Asleep /\ release = Asleep /\ dialog = Asleep /\ package = Asleep /\ disk = Asleep
         /\ script = Asleep /\ up = Asleep /\ stranded = Asleep /\ updFaults = Asleep
ScoreInit ==
    IF part = "board" THEN BoardInit
    ELSE /\ boardOn = Asleep /\ boardTimer = Asleep /\ boardNews = Asleep
         /\ boardCalm = Asleep /\ boardSince = Asleep
ReadyInit ==
    IF part = "ready" THEN RdyInit
    ELSE /\ rdyOpen = Asleep /\ rdyShown = Asleep /\ station = Asleep /\ rdyOnline = Asleep /\ clockAhead = Asleep
         /\ clockAsked = Asleep /\ clockResult = Asleep /\ clockAge = Asleep /\ clockSince = Asleep
SiteInit == IF part = "site" THEN SdInit ELSE sd = Asleep /\ sdMoves = Asleep /\ sdFaults = Asleep

LiveInit ==
    part \in Parts /\ LinkInit /\ StartInit /\ UpdateInit /\ ScoreInit /\ ReadyInit /\ SiteInit

LiveNext ==
    \/ part = "link" /\ RigNext /\ UNCHANGED <<part, procVars, updVars, boardVars, rdyVars, sdVars>>
    \/ part = "start" /\ ProcNext /\ UNCHANGED <<part, rigVars, updVars, boardVars, rdyVars, sdVars>>
    \/ part = "update" /\ UpdNext /\ UNCHANGED <<part, rigVars, procVars, boardVars, rdyVars, sdVars>>
    \/ part = "board" /\ BoardNext /\ UNCHANGED <<part, rigVars, procVars, updVars, rdyVars, sdVars>>
    \/ part = "ready" /\ RdyNext /\ UNCHANGED <<part, rigVars, procVars, updVars, boardVars, sdVars>>
    \/ part = "site" /\ SdNext /\ UNCHANGED <<part, rigVars, procVars, updVars, boardVars, rdyVars>>

\* The modules' fairness, each in the behaviours of its part.  Where an action
\* takes its own guard away, weak fairness says that the guard is false again and
\* again, and TLC is spared the action: attempts end, timers go off.
LinkFairness ==
    /\ []<>(part = "link" => slot.line # "dialing")
    /\ []<>(part = "link" => ~(slot.poll /\ slot.awaiting = "none" /\ slot.queue = <<>>))
    /\ []<>(part = "link" => ~slot.retry)
    /\ []<>(part = "link" => ~(slot.deadline /\ (AnswerIsComing => rigFaults < RigMaxFaults)))
    /\ []<>(part = "link" => ~slot.cooling)
    /\ WF_rigVars(part = "link" /\ \E n \in 1..3 : Read(n))
    /\ WF_rigVars(part = "link" /\ \E reply \in Replies : Answer(reply))
StartFairness ==
    \A p \in Pids : WF_procVars(part = "start" /\ ProcStep(p)) /\ WF_procVars(part = "start" /\ ReadLines(p))
BoardFairness == WF_boardVars(part = "board" /\ BoardMinute)
ReadyFairness ==
    WF_rdyVars(part = "ready" /\ (ServerAnswers \/ NoServer)) /\ WF_rdyVars(part = "ready" /\ RefreshTimer)
SiteFairness ==
    /\ \A p \in SdPlaces : []<>(part = "site" => p \notin sd.inquiries)
    /\ []<>(part = "site" => sd.site \in sd.inquiries \cup {NoPlace})

LiveSpec ==
    /\ LiveInit /\ [][LiveNext]_liveVars
    /\ LinkFairness /\ StartFairness /\ BoardFairness /\ ReadyFairness /\ SiteFairness

-----------------------------------------------------------------------------
(* The properties of the parts, each looked at in the behaviours of its part. *)

\* Type invariant: those of the parts.
LiveTypeOK ==
    /\ part \in Parts
    /\ part = "link" => RigTypeOK
    /\ part = "start" => ProcTypeOK
    /\ part = "update" => UpdTypeOK
    /\ part = "board" => BoardTypeOK
    /\ part = "ready" => RdyTypeOK
    /\ part = "site" => SdTypeOK

\* Watched, polled, read rightly and with a fitting daemon, see HamlibLink
\* (RigctldClient, RotctldClient, AppController::superviseRigctld).
LinkIsSound == part = "link" => NeverSilentlyDead /\ AnswersBelong /\ DaemonFitsSettings
\* Rig and rotor come back, see HamlibLink.
LinkComesBack == []<>(part = "link" => ~Usable \/ (slot.line = "up" /\ slot.awaiting = "none"))
\* One process per database, and one whole program on the disk, see SingleInstance
\* (SingleInstanceGuard) and SelfUpdate (SelfUpdater::install).
OneWholeProgram ==
    /\ part = "start" => OneWorksOnTheLog
    /\ part = "update" => OnlyWholePrograms /\ ProgramStays
\* A start ends with a window in front, and a check of the clock with a result or
\* a server that was asked, see SingleInstance and Readiness (ClockCheck::start).
WhatWasAskedForEnds ==
    /\ (part = "start" /\ wish) ~> (part = "start" /\ (~wish \/ procFaults > 0))
    /\ (part = "ready" /\ rdyOpen) ~> (part = "ready" /\ (rdyShown.clock.asked \/ ~rdyOpen))
\* The scoreboard learns of every QSO, see OnlineBoard (MainWindow::refreshScoreboard):
\* of those in between as often as there is a lull, and of the last ones when the
\* operator has stopped.
EveryQsoIsTold ==
    /\ []<>(part = "board" => ThereIsALull) => []<>(part = "board" => AllIsTold)
    /\ <>[][part = "board" => ~BoardIsBusy]_boardVars => <>[](part = "board" => AllIsTold)
\* Paths and ring, see SiteData (TerrainDataManager).
TerrainMatchesTiles == part = "site" => TerrainIsTrue
\* Late answers of an old place do not last, whether or not a download stalls;
\* if none does, every path is judged in the end, see SiteData (WeatherClient,
\* TerrainDataManager, SrtmTileLoader::startDownload).
SiteComesToRest ==
    \A p \in SdPlaces : <>[](part = "site" /\ sd.own = p) =>
        /\ <>[](part = "site" /\ sd.weather = p)
        /\ (\A t \in SdTiles : []<>(part = "site" => t \notin sd.pending))
               => <>[](part = "site" /\ PathsAreJudgedFrom(p))
=============================================================================
