SPECIFICATION Spec
CONSTANTS
    Names <- MCNames
    Hash <- MCHash
    Values = {v, w}
    NULL = NULL
    Starting = 4
    MaxCells = 8
INVARIANTS
    TypeOK
    EveryItemFound
    NothingLost
    NeverFull
PROPERTY MapSpec
