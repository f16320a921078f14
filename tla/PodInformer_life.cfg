CONSTANTS
    Now = 3
    None = None
    Statuses <- LifeStatuses
    Types = {"cd"}
    MaxChanges = 2
    MaxQueue = 1
    MaxLost = 1
    MaxInformers = 2
SPECIFICATION FairSpec
PROPERTIES
    DeletedMeansGone
    NoRegression
    EventuallyReported
    KilledPodReported
CHECK_DEADLOCK FALSE
