SPECIFICATION FairSpec
CONSTANTS
    Callers = {"c1", "c2"}
    MaxAttempts = 2
CHECK_DEADLOCK FALSE
PROPERTY EveryWaitEnds
