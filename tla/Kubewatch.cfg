SPECIFICATION FairSpec
INVARIANTS
    TypeOK
    OrderlyExit
    WatchUntilSignal
PROPERTIES
    GracefulStaysGraceful
    SignalEnds
