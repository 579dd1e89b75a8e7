SPECIFICATION Spec
CONSTANTS
    Contests = {"VHF"}
    Home = Home
    Portable = Portable
    Other = Other
    Calls <- TwoStations
    Bands = {"144"}
    Modes = {"SSB"}
    MaxTime = 1
    MinuteLen = 1
    DayLen = 1
    Faults = {"journal"}
    MaxQsos = 3
    MaxJournal = 0
    DefaultContest = "VHF"
    BandsOf <- EveryBand
    FirstBand <- Lowest
    BaseCall <- Merged
    RuleSets <- PerBandOnly
    ShippedRules <- AllPerBand
INVARIANTS
    OneCountsPerStation
SYMMETRY Spellings
