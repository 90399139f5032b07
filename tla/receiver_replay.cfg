SPECIFICATION Spec
CONSTANTS
    Kind <- WithDrops
    ConversationOf <- OneOfFour
    MaxAttempts = 3
    MaxCached = 9
    MaxArrivals = 4
    MaxCrashes = 0
    MaxReplays = 2
    MayStop = FALSE
    DbMayFail = FALSE
    MayThrow = {3}
INVARIANT SavedOnce
CHECK_DEADLOCK FALSE
