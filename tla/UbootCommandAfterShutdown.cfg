SPECIFICATION Spec
CONSTANTS
    Prunings = {TRUE, FALSE}
    Copies = {1}
    MaxBlocks = 2
INVARIANTS FlagTellsTruth
CHECK_DEADLOCK FALSE
