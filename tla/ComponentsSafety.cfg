SPECIFICATION MCSpec
CONSTANTS
    Subjects = {"keys", "task", "robot peer", "credential", "session", "authority", "reservations", "circuits", "streams", "admissions", "observations", "protocols", "advertiser", "peer"}
    Keys = {"k1", "k2", "k3"}
    Claims = {"a"}
    Ttl = 1
    Skew = 1
    Overlap = 2
    Staleness = 1
    MaxGeneration = 2
    MaxTime = 2
    NoKey = "none"
    NoCredential = NoCredential
    task_MaxTasks = 1
    task_MaxEvents = 3
    task_MaxQueue = 2
    task_Faults = {"network", "expire", "cancel", "invalid", "peer", "abandon",
                   "unauthorized"}
    robot_Waiters = {"w1", "w2"}
    robot_MaxGrant = 2
    token_Callers = {"c1", "c2"}
    token_MaxAttempts = 2
    auth_Callers = {"c1", "c2"}
    auth_MaxToken = 3
    sup_Hosts = {"h1"}
    sup_Readers = {"r1"}
    sup_Refreshers = {"f1", "f2"}
    sup_MaxCred = 2
    res_Callers = {"c1"}
    res_MaxGen = 2
    res_MaxConn = 3
    res_MaxQueued = 1
    hop_Openers = {"o1", "o2", "o3"}
    hop_Permits = 1
    hop_MaxConn = 3
    str_MaxRequests = 3
    str_Conns = {"n1"}
    str_Capacity = 1
    str_Threshold = 2
    str_Window = 1
    str_IdleReset = 1
    str_MaxTime = 2
    adm_Callers = {"a1", "a2"}
    adm_Keys = {"x", "y"}
    adm_Ttl = 1
    adm_MaxEntry = 3
    adm_MaxLease = 2
    adm_MaxTime = 2
    obs_Peers = {"p"}
    obs_Domains = {"d", "e"}
    obs_MaxLive = 2
    obs_Streams = {"s"}
    obs_Capacity = 1
    obs_MaxTime = 1
    obs_Lives = {1}
    prot_Users = {"u1", "u2"}
    prot_Protocols = {"p1"}
    prot_Concurrency = 2
    prot_Capacity = 1
    prot_MaxGen = 3
    prot_MaxStreams = 3
    adv_Values = {"v1", "v2"}
    adv_Attempts = 2
    adv_MaxLate = 1
    peer_Waiters = {"w1", "w2"}
    peer_MaxChanges = 2
CHECK_DEADLOCK FALSE
INVARIANTS
    ComponentsTypeOK
    DmsSeesWholeTask
    OutcomesAreHonest
    ShownIsBacked
    SingleFlight
    RotationIsSafe
    RefreshedMeansReplaced
    AcceptanceIsOwn
    HeldCircuitStaysUp
    TrustedKeyIsKept
PROPERTIES
    PermitCoversLease
    ActsOnCurrentState
    NothingAfterTheEnd
