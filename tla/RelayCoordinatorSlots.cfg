SPECIFICATION Spec
CONSTANTS
    s1 = s1
    s2 = s2
    r1 = r1
    r2 = r2
    Slots <- TwoSlots
    Relays <- OneRelay
    MaxEpoch = 2
    MaxGen = 1
    MaxHandle = 2
    Disturbances = {"lapse", "end", "fail", "force"}
    CallsTimeOut = TRUE
    StartRollsBack = TRUE
CHECK_DEADLOCK FALSE
SYMMETRY FullSymmetry
INVARIANTS
    RouteHasReservation
    GracefulStopReleasesAll
PROPERTIES
    HealthyNotReported
