CONSTANTS
    Now = 3
    None = None
    Statuses <- AnyStatuses
    Types = {"ci"}
    MaxChanges = 0
    MaxQueue = 1
    MaxLost = 0
    MaxInformers = 1
SPECIFICATION Spec
INVARIANTS
    SucceededMeansMainSucceeded
CHECK_DEADLOCK FALSE
