SPECIFICATION FairSpec
CONSTANTS
    direct = direct
    group = group
    alice = alice
    Conversations = {direct, group}
    Contacts = {alice}
    Members <- TheContacts
    Groups = {group}
    ConversationOf <- TwoAndOne
    MaxAttempts = 2
    MaxTroubles = 2
INVARIANT TypeOK
INVARIANT NoOneWaitsInVain
INVARIANT CancelledIsNotSent
INVARIANT RegisteredIsTended
PROPERTY ChallengeIsStarted
CHECK_DEADLOCK FALSE
