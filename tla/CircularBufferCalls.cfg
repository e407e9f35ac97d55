CONSTANTS
    Size = 3
    Room = 4
    Overlap = FALSE
    LastItem = 9
SPECIFICATION Spec
INVARIANTS
    RingHoldsQueue
PROPERTIES
    GetReturnsOldest
    EmptyIsTrue
