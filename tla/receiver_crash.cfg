SPECIFICATION Spec
CONSTANTS
    Kind <- WithFailures
    ConversationOf <- OneOfThree
    MaxAttempts = 3
    MaxCached = 2
    MaxArrivals = 6
    MaxCrashes = 1
    MaxReplays = 0
    MayStop = TRUE
    DbMayFail = TRUE
    MayThrow = {2}
INVARIANT TypeOK
INVARIANT ConsumedIsKept
INVARIANT AcknowledgedIsKept
INVARIANT SavedOnce
CHECK_DEADLOCK FALSE
