CONSTANTS
    Words <- SessionWords
    Answers <- FewAnswers
    Stale = {"", "2x"}
    MaxAhead = 2
    atoi <- AtoiOf
SPECIFICATION Spec
INVARIANTS
    CalledAsTyped
