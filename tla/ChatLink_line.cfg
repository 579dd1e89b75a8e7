CONSTANTS
    Rooms = {2, 3, 4}
    Bands <- ThreeBands
    RoomOf <- RoomOfThreeBands
    DefaultRoom = 2
    MaxAttempts = 16
    MaxClicks = 4
SPECIFICATION FairSpec
INVARIANTS TypeOK BeliefIsTrue NeverForgotten IntentionHasAReason
PROPERTY ComesBack
CHECK_DEADLOCK FALSE
