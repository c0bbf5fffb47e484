SPECIFICATION FairSpec
CONSTANTS
    Movies = {m1, m2}
    MaxMovies = 2
    MaxAttempts = 2
    MaxCollections = 2
    NULL = NULL
INVARIANTS
    OnlyItsOwn
    SuccessMeansAll
PROPERTIES PromiseSpec RunEnds
CHECK_DEADLOCK FALSE
