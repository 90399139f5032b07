SPECIFICATION FairSpec
CONSTANTS
    laptop = laptop
    desktop = desktop
    alice = alice
    bob = bob
    none = none
    None = none
    Devices = {laptop, desktop}
    Conversations = {alice, bob}
    MaxChanges = 3
    MaxTroubles = 1
    Edits <- TheEdits
    FillingEdits <- TheFillingEdits
INVARIANT TypeOK
INVARIANT OneRecordEach
INVARIANT SyncedMeansSame
INVARIANT WritesAreValid
PROPERTY DevicesCatchUp
PROPERTY ChangesAreUploaded
CHECK_DEADLOCK FALSE
