SPECIFICATION FairSpec
CONSTANTS
    s1 = s1
    s2 = s2
    r1 = r1
    r2 = r2
    Slots <- OneSlot
    Relays <- OneRelay
    MaxEpoch = 1
    MaxGen = 2
    MaxHandle = 2
    Disturbances = {"lapse"}
    CallsTimeOut = FALSE
    StartRollsBack = TRUE
CHECK_DEADLOCK FALSE
PROPERTIES
    LostRouteWithdrawn
    DrainEnds
    RetirementEnds
