SPECIFICATION Spec
CONSTANTS
    Elems = {1, 2, 3, 4, 5, 6, 7, 8}
    Key <- MCKey
    Group <- MCGroup
    CellOf <- MCCell
INVARIANTS RedBlack VisitsAll
PROPERTY KeepsPromise
