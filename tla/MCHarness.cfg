SPECIFICATION FairSpec
CONSTANTS
    Asks <- MCAsks
    MaxTries = 2
    NULL = NULL
INVARIANT VerdictsTrue
PROPERTY ScriptEnds
CHECK_DEADLOCK FALSE
