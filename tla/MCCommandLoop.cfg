CONSTANTS
    Words <- MostWords
    Answers <- SomeAnswers
    Stale = {"", "2x"}
    MaxAhead = 2
    atoi <- AtoiOf
SPECIFICATION FairSpec
INVARIANTS
    TypeOK
    InStep
    AnswersAsTyped
    UnderflowOnlyAtEnd
PROPERTIES
    ExitObeyed
    SilentAtEnd
