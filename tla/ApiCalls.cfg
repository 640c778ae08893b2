SPECIFICATION ApiSpec
CONSTANTS
    a = a
    b = b
    p = p
    key = key
    web = web
    None = none
    UserSlots = 2
    SystemSlots = 2
    Configs <- MCConfigs
    Peers = {p}
    Label <- MCLabel
    Callers = {c1, c2}
    MaxCalls = 4
    MaxJobs = 1
    MaxFaults = 1
INVARIANTS ApiTypeOK StoredAsHeld 
CHECK_DEADLOCK FALSE
