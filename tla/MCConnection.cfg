CONSTANTS
    Total = 3
    Replies <- AllReplies
    NoLength = NoLength
    NoReply = NoReply
    MaxRead = 3
SPECIFICATION FairSpec
CHECK_DEADLOCK FALSE
INVARIANTS
    TypeOK
    RequestIntact
    CompleteReply
PROPERTIES
    ExchangeEnds
