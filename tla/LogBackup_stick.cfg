SPECIFICATION Spec
CONSTANTS
    KeepEvery = 0
    BucketLen = 1
    KeepFiles = 2
    HasStick = TRUE
    ClockStepsBack = TRUE
    Faults = {"snapshot", "mirror", "copy"}
    MaxClock = 2
    MaxWrites = 1
    MaxPerMinute = 1
INVARIANTS
    TypeOK
    InternalDiskStaysEmpty
