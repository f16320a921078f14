CONSTANTS
    None = None
    Informers = {"acd"}
    Revisions = {1, 2}
    Healths = {"Healthy"}
    SyncStatuses = {"OutOfSync", "Synced"}
    MaxChanges = 3
    MaxQueue = 2
    MaxLost = 1
    MaxRestarts = 1
SPECIFICATION FairSpec
INVARIANTS
    TypeOK
    LastMessageIsCurrent
PROPERTIES
    ImplementsRelay
    EventuallyTold
    DeletionTold
CHECK_DEADLOCK FALSE
