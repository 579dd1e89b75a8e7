CONSTANTS
    Rooms = {2}
    Bands <- OneBand
    RoomOf <- RoomOfOneBand
    DefaultRoom = 2
    MaxAttempts = 31
    MaxClicks = 1
SPECIFICATION Spec
INVARIANT NeverForgotten
CHECK_DEADLOCK FALSE
