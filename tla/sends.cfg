SPECIFICATION FairSpec
CONSTANTS
    alice = alice
    bob = bob
    me = me
    Recipients <- Two
    Me = me
    Receipts <- DeliveredAndRead
    MaxAttempts = 2
    MaxRetries = 1
    MayLeave <- OneLeaves
    MaxCrashes = 1
    MaxCleanups = 1
    ForgetHeld = FALSE
INVARIANT TypeOK
INVARIANT EveryReceiptCounts
PROPERTY NotSentTwice
 
PROPERTY EventuallySettled
CHECK_DEADLOCK FALSE
