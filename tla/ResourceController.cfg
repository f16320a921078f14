SPECIFICATION FairSpec
CONSTANTS
    Keys <- OnePod
    Type = "api_v1.Pod"
    ResourceType = "pod"
    EventHandlers = {"slack"}
    None = None
    MaxRetries = 1
    MaxTime = 2
    MaxChanges = 3
    MaxQueue = 1
    MaxFaults = 2
CHECK_DEADLOCK FALSE
INVARIANTS TypeOK NoStaleFailures OwedIsQueued
PROPERTIES CreationNotified DeletionNotified
