SPECIFICATION FairSpec
CONSTANTS
    Kind <- ThreeMessages
    ConversationOf <- TwoOfThree
    MaxAttempts = 3
    MaxCached = 9
    MaxArrivals = 6
    MaxCrashes = 1
    MaxReplays = 0
    MayStop = FALSE
    DbMayFail = FALSE
    MayThrow = {1}
INVARIANT SavedInOrder
PROPERTY EventuallySaved
PROPERTY TableDrains
CHECK_DEADLOCK FALSE
