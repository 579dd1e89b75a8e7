SPECIFICATION Spec
CONSTANTS
    Contests = {"VHF", "UHF"}
    Calls = {"OE5A"}
    Bands = {"144"}
    Modes = {"SSB"}
    MaxTime = 0
    MinuteLen = 1
    DayLen = 1
    Faults = {"journal"}
    MaxQsos = 2
    MaxJournal = 0
    DefaultContest = "VHF"
    BandsOf <- EveryBand
    FirstBand <- Lowest
    BaseCall <- EachItsOwn
    RuleSets <- NoRules
    ShippedRules <- AllPerBand
INVARIANTS
    OneCountsPerStation
