CONSTANTS
    c1 = c1
    c2 = c2
    ch1 = ch1
    ch2 = ch2
    ch3 = ch3
    Clusters = {c1, c2}
    NoCluster = NoCluster
    Chans = {ch1, ch2, ch3}
    NoChan = NoChan
    NoInformer = NoInformer
    MaxConfig = 0
    MaxQueue = 1
    MaxFaults = 1
SPECIFICATION RemovalSpec
SYMMETRY ChanClusterSymmetry
INVARIANTS
    AtMostOneOrphan
    NothingLeftRunning
    WatchedOnlyIfMissed
