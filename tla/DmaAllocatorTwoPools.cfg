CONSTANTS
    RegionSize = 8
    RegionAlign = 2
    FrameSize = 16
    SizeRange = 256
    PaddrOffset = 64
    Pools <- TwoPools
    Requests <- SmallRequests
    NullFree = TRUE
SPECIFICATION FairSpec
INVARIANTS
    IInv
    BooksInv
PROPERTY AllocReturns
CHECK_DEADLOCK FALSE
