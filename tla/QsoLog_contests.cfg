SPECIFICATION Spec
CONSTANTS
    Contests = {"VHF", "UHF"}
    Calls = {"OE5A"}
    Bands = {"144", "432"}
    Modes = {"SSB"}
    MaxTime = 0
    MinuteLen = 1
    DayLen = 1
    Faults = {"journal", "insert", "query", "flag"}
    MaxQsos = 2
    MaxJournal = 1
    DefaultContest = "VHF"
    BandsOf <- UhfBands
    FirstBand <- Lowest
    BaseCall <- EachItsOwn
    RuleSets <- TwoRuleSets
    ShippedRules <- AllPerBand
INVARIANTS
    TableRowsAreCurrent
    PreviewIsOwnNumber
    SharedNumbersAreAnnounced
PROPERTIES
    KeepsTheLogbook
