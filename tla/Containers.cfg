SPECIFICATION Spec
CONSTANTS
    Elems = {1, 2, 3, 4}
    Key <- MCKey
    Group <- MCGroup
    ArraySize = 6
    QueueSize = 4
INVARIANTS WellFormed VisitsAll
PROPERTY KeepsPromise
