CONSTANTS
    Now = 3
    None = None
    Statuses <- AnyStatuses
    Types = {"ci", "other"}
    MaxChanges = 0
    MaxQueue = 1
    MaxLost = 0
    MaxInformers = 1
SPECIFICATION Spec
INVARIANTS
    TypeOK
    StatusMatchesReference
    ReassessStable
CHECK_DEADLOCK FALSE
