SPECIFICATION Spec
CONSTANTS
    batch = batch
    job = job
    storeInJob = storeInJob
    envelopes = envelopes
    batch2 = batch2
    storeInBatch2 = storeInBatch2
    send = send
    senderKey = senderKey
    remove = remove
    removeAll = removeAll
    zone1 = zone1
    zone2 = zone2
    global = global
    session = session
    row = row
    session2 = session2
    key = key
    none = none
    Nobody = none
    GlobalZone = global
    Zones <- AllZones
    Keys <- AllKeys
    CachedKeys <- TheCachedKeys
    Final <- TheFinal
    Calls <- OverlapCalls
    ZoneOf <- OverlapZoneOf
    Parent <- OverlapParent
    Kind <- OverlapKind
    KeyOf <- OverlapKeyOf
    DbMayFail = TRUE
    TasksMayTimeOut = FALSE
INVARIANT HeldOnlyByActiveUsers
CHECK_DEADLOCK FALSE
