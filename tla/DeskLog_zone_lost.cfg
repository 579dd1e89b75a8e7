SPECIFICATION DeskSpec
CONSTANTS
    Parts = {"table"}
    ErCalls = {"OE5A", "OE5AB"}
    ErEarlier <- NothingEarlier
    ErCallbook <- OneInCallbook
    ErBands = {"144", "432"}
    ErEsm = {"run"}
    ErMaxQsos = 1
    ErMaxAsked = 1
    ErMaxLogins = 2
    LtWidths = {530, 645, 900}
    LtFirstWidth = 100
    LtContests <- FourContests
    LtMaxRows = 1
    LtMaxEdits = 1
    ResBands <- BandsInOrder
    ResStations <- FiveStations
    ResTimes = {0, 2, 300}
    ResScoring = "distance_km"
    ResMaxQsos = 3
    ChkStations <- FlawedStations
    ChkSerials = {0, 1, 2, 3}
    ChkMaxRows = 3
    CalRules <- FiveRules
    CalYears <- TwoYears
    CalTest = 86400
    CalMaxQsos = 2
    SkContests = {"may", "june"}
    SkCalls = {"OK1A"}
    SkBands = {"144"}
    SkLeads = {1}
    SkHorizon = 6
    SkMaxMade = 2
    SkMaxFaults = 1
    FdSpots <- ThreeSpots
    FdContests = {"may", "june"}
    FdBands = {"144", "432"}
    FdSites = {"home", "hill"}
    FdMaxLines = 2
    FdMaxArrivals = 3
    FdMaxHandled = 1
PROPERTIES
    LeavingACellKeepsTheRow
CHECK_DEADLOCK FALSE
