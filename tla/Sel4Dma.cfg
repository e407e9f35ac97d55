CONSTANTS
    MaxAllocs = 2
    Memory <- ThreeLines
    PhysOffset = 100
    Sizes = {0, 1}
    Buffers <- WideBuffer
    Values = {d1, d2}
    SharedBuffers = FALSE
SYMMETRY ValuesAlike
SPECIFICATION Spec
INVARIANTS
    DeviceWritesSurvive
    DriversKeepTheirs
    AddressesTranslate
PROPERTIES
    UnmapDelivers
    FlushSends
