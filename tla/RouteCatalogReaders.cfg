CONSTANTS
    o1 = o1
    o2 = o2
    s1 = s1
    s2 = s2
    r1 = r1
    r2 = r2
    d1 = d1
    Owners <- OneOwner
    Slots <- OneSlot
    Relays <- OneRelay
    DirectRoutes <- OneDirect
    Readers <- AppAndPublisher
    HostMutates = TRUE
    MaxRoutes = 2
    MaxRelayRoutes = 2
    Lag = 1
    MaxTime = 2
    MaxGeneration = 1
    MaxRevision = 3
SPECIFICATION FairSpec
INVARIANTS
    CommitSawItsSnapshot
    ShutdownIsObserved
PROPERTIES
    WatchCatchesUp
CHECK_DEADLOCK FALSE
