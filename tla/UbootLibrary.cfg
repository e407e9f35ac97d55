SPECIFICATION Spec
CONSTANTS
    Trees <- FourNodes
    Paths <- Requests
    Room = 13
    Prunings <- PruningResults
    Copies = {1, 2, 3}
    MaxBlocks = 4
INVARIANTS
    IInv
    WholeOrNothing
    DriversFindLibrary
    PointersLive
    OnlyRequiredEnabled
PROPERTIES
    OnlyRetriesLoseDma
CHECK_DEADLOCK FALSE
