CONSTANTS
    o1 = o1
    o2 = o2
    s1 = s1
    s2 = s2
    r1 = r1
    r2 = r2
    d1 = d1
    Owners <- TwoOwners
    Slots <- TwoSlots
    Relays <- TwoRelays
    DirectRoutes <- OneDirect
    Readers <- NoReaders
    HostMutates = TRUE
    MaxRoutes = 2
    MaxRelayRoutes = 2
    Lag = 1
    MaxTime = 2
    MaxGeneration = 2
    MaxRevision = 5
SPECIFICATION Spec
SYMMETRY Symmetry
INVARIANTS
    TypeOK
    WithinLimits
    EveryRouteHasItsOwner
    FencedOwnerLeftNothing
PROPERTIES
    OnlyOwnerRemoves
    ClearedForGood
    ImplementsLedger
CHECK_DEADLOCK FALSE
