CONSTANTS
    c1 = c1
    ch1 = ch1
    ch2 = ch2
    ch3 = ch3
    Clusters = {c1}
    NoCluster = NoCluster
    Chans = {ch1, ch2, ch3}
    NoChan = NoChan
    NoInformer = NoInformer
    MaxConfig = 1
    MaxQueue = 2
    MaxFaults = 1
SPECIFICATION Spec
SYMMETRY ChanSymmetry
INVARIANT
    SyncClosesExisting
