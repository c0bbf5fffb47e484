CONSTANTS
    Total = 3
    Replies <- NoContentReplies
    NoLength = NoLength
    NoReply = NoReply
    MaxRead = 3
SPECIFICATION FairSpec
CHECK_DEADLOCK FALSE
PROPERTIES
    ResponseReceived
