SPECIFICATION Spec
CONSTANTS
    Numbers <- MCNumbers
    Strings <- MCStrings
    Others <- MCOthers
    Sample <- MCSample
    Before = {2,24}
    MaxScalars = 1
    MaxSent = 3
INVARIANT Decodes
PROPERTY CallsRight
CHECK_DEADLOCK FALSE
