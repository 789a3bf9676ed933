SPECIFICATION Spec
CONSTANTS
    s1 = s1
    s2 = s2
    r1 = r1
    r2 = r2
    Slots <- OneSlot
    Relays <- TwoRelays
    MaxEpoch = 2
    MaxGen = 2
    MaxHandle = 2
    Disturbances = {"reassign", "ready", "force"}
    CallsTimeOut = FALSE
    StartRollsBack = TRUE
CHECK_DEADLOCK FALSE
SYMMETRY RelaySymmetry
INVARIANTS
    TypeOK
    RouteHasReservation
    NoFriendlyFire
    ReservationsAreOwned
