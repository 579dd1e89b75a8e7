SPECIFICATION DeskSpec
CONSTANTS
    Parts = {"panels", "rotors", "map", "settings", "rules", "audio", "spots", "waterfall"}
    Panels = {1, 2}
    PnCompact = {2}
    PnNames = {1, 2}
    PnMaxSteps = 3
    RpCircle = 4
    RpLabels = {"2m", "70cm"}
    RpMaxSteps = 6
    MvAngles = {30, 60}
    MvCalls = {"a", "b", "c"}
    MvBearing <- ThreeBearings
    MvKm <- ThreeDistances
    MvHeadings = {0, 90}
    MvMaxSteps = 5
    StGrids = {"home", "hill"}
    StHome = "home"
    StContests = {"may", "june"}
    StFirst = "may"
    StBands = {"144"}
    StMaxQsos = 1
    StMaxFaults = 1
    StMaxEdits = 1
    RbShipped <- TwoShipped
    RbOwnIds = {"own"}
    RbFields = {"grid", "serial"}
    RbMaxFaults = 2
    RbMaxEdits = 3
    ArRolls = {0, 2}
    ArChunk = 2
    ArWrap = 4
    ArHorizon = 2
    ArMaxFeeds = 2
    ArMaxFiles = 2
    ArMaxFaults = 1
    SpStations <- OneOnTwoBands
    SpHosts = {"h1"}
    SpDay = 4
    SpMaxAge = 1
    SpCap = 2
    SpHorizon = 3
    SpMaxSent = 3
    SpMaxEvents = 1
    WfHosts = {"h1", "h2"}
    WfWidths = {256, 734}
    WfMaxLines = 3
    WfMaxEvents = 5
INVARIANTS
    DeskTypeOK
    WindowIsAsChosen
    SettingsHold
    DisplaysAreTrue
PROPERTIES
    SoundIsKept
CHECK_DEADLOCK FALSE
