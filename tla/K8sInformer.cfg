CONSTANTS
    c1 = c1
    ch1 = ch1
    ch2 = ch2
    ch3 = ch3
    Clusters = {c1}
    NoCluster = NoCluster
    Chans = {ch1, ch2, ch3}
    NoChan = NoChan
    NoInformer = NoInformer
    MaxConfig = 1
    MaxQueue = 1
    MaxFaults = 1
SPECIFICATION FairSpec
INVARIANTS
    TypeOK
    RegistryInv
PROPERTIES
    NoNewOrphans
    DoubleCloseOnlyAtShutdown
    EventuallyCurrent
    DeleteUnregisters
