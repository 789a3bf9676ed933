SPECIFICATION Spec
CONSTANTS
    s1 = s1
    s2 = s2
    r1 = r1
    r2 = r2
    Slots <- OneSlot
    Relays <- OneRelay
    MaxEpoch = 1
    MaxGen = 1
    MaxHandle = 1
    Disturbances = {"lapse"}
    CallsTimeOut = TRUE
    StartRollsBack = TRUE
CHECK_DEADLOCK FALSE
INVARIANT
    NeverAbandonsCleanups
