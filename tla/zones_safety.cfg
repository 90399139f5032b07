SPECIFICATION Spec
CONSTANTS
    batch = batch
    job = job
    storeInJob = storeInJob
    envelopes = envelopes
    batch2 = batch2
    storeInBatch2 = storeInBatch2
    send = send
    senderKey = senderKey
    remove = remove
    removeAll = removeAll
    zone1 = zone1
    zone2 = zone2
    global = global
    session = session
    row = row
    session2 = session2
    key = key
    none = none
    Nobody = none
    GlobalZone = global
    Zones <- AllZones
    Keys <- AllKeys
    CachedKeys <- TheCachedKeys
    Final <- TheFinal
    Calls <- SafetyCalls
    ZoneOf <- SafetyZoneOf
    Parent <- SafetyParent
    Kind <- SafetyKind
    KeyOf <- SafetyKeyOf
    DbMayFail = TRUE
    TasksMayTimeOut = TRUE
INVARIANT TypeOK
INVARIANT ZoneMutex
INVARIANT NoLostWakeup
INVARIANT AllOrNothing
CHECK_DEADLOCK FALSE
