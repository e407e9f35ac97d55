CONSTANTS
    RegionSize = 8
    RegionAlign = 2
    FrameSize = 16
    SizeRange = 256
    PaddrOffset = 64
    Pools <- OnePool
    Requests <- SmallRequests
    NullFree = FALSE
SPECIFICATION Spec
INVARIANTS
    Separation
    Conservation
    HeadersFit
    PaddrCorrect
    FullyCoalesced
    Accounting
PROPERTIES
    FailureMeansNoRoom
    KeepsPromise
