SPECIFICATION Spec
CONSTANTS
    us = us
    other = other
    None = None
    People = {us, other}
    Us = us
    InitLists <- TheInitLists
    MaxAttempts = 2
    PageSize = 2
    Unsupported = {2}
    OthersKinds <- TheOthersKinds
    OurKinds <- TheOurKinds
    MaxRevision = 2
    MaxTroubles = 1
INVARIANT TypeOK
INVARIANT UpToDate
INVARIANT HandledIsIncluded
CHECK_DEADLOCK FALSE
