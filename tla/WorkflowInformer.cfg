CONSTANTS
    None = None
    Informers = {"ci", "cd"}
    Configurations <- BothWays
    CiNamespace = "devtron-ci"
    CdNamespace = "devtron-cd"
    Namespace = "devtron-ci"
    RetryCount = 1
    MaxChanges = 3
    MaxQueue = 1
    MaxLost = 2
    MaxRestarts = 1
SPECIFICATION FairSpec
INVARIANTS
    TypeOK
    LastStatusIsCurrent
PROPERTIES
    ImplementsRelay
    EventuallyTold
CHECK_DEADLOCK FALSE
