SPECIFICATION MachineFairSpec
CONSTANTS
    Subjects = {"task", "robot peer", "credential", "session", "authority"}
    Keys = {"k1"}
    Claims = {"a"}
    Ttl = 1
    Skew = 1
    Overlap = 2
    Staleness = 1
    MaxGeneration = 2
    MaxTime = 0
    NoKey = "none"
    NoCredential = NoCredential
    task_MaxTasks = 1
    task_MaxEvents = 1
    task_MaxQueue = 1
    task_Faults = {"network", "expire", "cancel", "peer", "unauthorized"}
    robot_Waiters = {"w1"}
    robot_MaxGrant = 2
    token_Callers = {"c1"}
    token_MaxAttempts = 1
    auth_Callers = {"c1"}
    auth_MaxToken = 3
    sup_Hosts = {}
    sup_Readers = {}
    sup_Refreshers = {"f1"}
    sup_MaxCred = 2
    res_Callers = {"c1"}
    res_MaxGen = 1
    res_MaxConn = 2
    res_MaxQueued = 1
    hop_Openers = {"o1", "o2"}
    hop_Permits = 1
    hop_MaxConn = 2
    str_MaxRequests = 2
    str_Conns = {"n1", "n2"}
    str_Capacity = 1
    str_Threshold = 1
    str_Window = 0
    str_IdleReset = 1
    str_MaxTime = 0
    adm_Callers = {"a1"}
    adm_Keys = {"x"}
    adm_Ttl = 0
    adm_MaxEntry = 1
    adm_MaxLease = 1
    adm_MaxTime = 0
    obs_Peers = {"p"}
    obs_Domains = {"d"}
    obs_MaxLive = 1
    obs_Streams = {"s"}
    obs_Capacity = 1
    obs_MaxTime = 1
    obs_Lives = {1}
    prot_Users = {"u1"}
    prot_Protocols = {"p1"}
    prot_Concurrency = 1
    prot_Capacity = 1
    prot_MaxGen = 1
    prot_MaxStreams = 2
    adv_Values = {"v1"}
    adv_Attempts = 1
    adv_MaxLate = 1
    peer_Waiters = {"w1"}
    peer_MaxChanges = 1
CHECK_DEADLOCK FALSE
PROPERTIES
    MachineClosingEnds
    MachineCallsReturn
    LostAuthorityTakesEffect
