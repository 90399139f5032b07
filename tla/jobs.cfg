SPECIFICATION FairSpec
CONSTANTS
    alice = alice
    bob = bob
    KeyOf <- ThreeKeys
    OwnInsert = {2}
    Malformed = {3}
    MaxAttempts = 2
    MaxCrashes = 1
    DbMayFail = TRUE
INVARIANT TypeOK
INVARIANT OneAtATime
INVARIANT QueuedOnce
INVARIANT KeptUntilFinished
INVARIANT SettledIsGone
INVARIANT StartedInOrder
PROPERTY AddedIsFinished
CHECK_DEADLOCK FALSE
