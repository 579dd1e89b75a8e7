SPECIFICATION LiveSpec
CONSTANTS
    Parts = {"link", "start", "update", "board", "ready", "site"}
    RigKinds = {"rig", "rotor"}
    Launches = {1, 2}
    TailApart = FALSE
    RigMaxClicks = 3
    RigMaxFaults = 2
    Pids = {1, 2, 3}
    Builds = {1, 2}
    ProcMaxFaults = 2
    UpdDialogs = {1}
    UpdKinds = {"mac", "appimage", "portable", "setup", "none"}
    Blocks = 2
    UpdMaxFaults = 3
    BoardIntervals = {2, 3}
    BoardHorizon = 6
    ClockUrls = 3
    ClockErrors = {0, 1, 3}
    RdyHorizon = 4
    SdPlaces = {"home", "hill"}
    SdTargets = {"n", "h", "s"}
    SdTiles = {"t1", "t2"}
    SdPaths <- PathsOfTwoPlaces
    SdSweep <- OneDirection
    SdHorizon <- Skylines
    SdMaxMoves = 2
    SdMaxFaults = 2
INVARIANTS
    LiveTypeOK
    LinkIsSound
    OneWholeProgram
    TerrainMatchesTiles
PROPERTIES
    LinkComesBack
    WhatWasAskedForEnds
    EveryQsoIsTold
    SiteComesToRest
CHECK_DEADLOCK FALSE
