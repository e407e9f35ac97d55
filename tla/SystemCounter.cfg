CONSTANTS
    LowRange = 5
    CountLimit = 42
    Frequency = 17
    Precision = 4
    MicroPerSecond = 10
    MicroPerMilli = 2
    UnsignedRange = 8
    Waits = {0, 1, 12}
    MilliWaits = {1}
SPECIFICATION FairSpec
INVARIANTS
    TicksWithinCall
    ReadsWithinCall
PROPERTIES
    DelayNotShort
    DelayEnds
CHECK_DEADLOCK FALSE
