SPECIFICATION Spec
CONSTANTS
    Contests = {"VHF"}
    Calls = {"OE5A"}
    Bands = {"144", "432"}
    Modes = {"SSB"}
    MaxTime = 2
    MinuteLen = 2
    DayLen = 2
    Faults = {"database"}
    MaxQsos = 2
    MaxJournal = 2
    DefaultContest = "VHF"
    BandsOf <- EveryBand
    FirstBand <- Lowest
    BaseCall <- EachItsOwn
    RuleSets <- PerBandOnly
    ShippedRules <- AllPerBand
INVARIANTS
    TypeOK
    JournalCoversLog
PROPERTIES
    ImportBringsBackEveryLine
