SPECIFICATION FairSpec
CONSTANTS
    KeepEvery = 1
    BucketLen = 2
    KeepFiles = 4
    HasStick = FALSE
    ClockStepsBack = FALSE
    Faults = {}
    MaxClock = 5
    MaxWrites = 2
    MaxPerMinute = 2
INVARIANTS
    UnchangedMeansSaved
PROPERTIES
    ReplacedStateIsSaved
    NoGapInHistory
    LogGetsSaved
