CONSTANTS
    Size = 3
    Room = 1
    Overlap = TRUE
    LastItem = 3
SPECIFICATION Spec
INVARIANT FullFlagTrue
