SPECIFICATION ProtocolSpec
CONSTANTS
    Slots = {s1, s2}
    Uris = {u1, u2}
    Topics = {t1, t2}
    NoUri = NoUri
    SUB_MAX = 1
    MaxClients = 2
    Hosts = {h1, h2}
    NoHost = NoHost
    Commands <- MCCommands
    Inputs <- MCInputs
SYMMETRY Symmetry
INVARIANTS
    ProtocolTypeOK
    SessionShared
    
CHECK_DEADLOCK FALSE
