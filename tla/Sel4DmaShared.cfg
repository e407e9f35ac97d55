CONSTANTS
    MaxAllocs = 3
    Memory <- ThreeLines
    PhysOffset = 100
    Sizes = {1}
    Buffers <- NestedBuffers
    Values = {d1}
    SharedBuffers = TRUE
SPECIFICATION Spec
INVARIANTS
    TableInv
PROPERTIES
    TableMatchesPool
    ShutdownReturnsAll
