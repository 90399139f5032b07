SPECIFICATION Spec
CONSTANTS
    Kind <- TwoMessages
    ConversationOf <- OneOfTwo
    MaxAttempts = 3
    MaxCached = 9
    MaxArrivals = 2
    MaxCrashes = 0
    MaxReplays = 1
    MayStop = FALSE
    DbMayFail = TRUE
    MayThrow = {}
INVARIANT AcknowledgedIsKept
CHECK_DEADLOCK FALSE
