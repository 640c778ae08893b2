SPECIFICATION Spec
CONSTANTS
    SLOTS = 2
    Peers = {p1}
    LegacyPeer = LegacyPeer
    MaxKeys = 2
    MaxFailures = 1
    MaxClears = 1
    Phrases = {a, b}
    LOCKOUT = 2
    PairTasks = {ble, tcp}
    CliTasks = {tcp}
    TimerTask = timer
    MaxBoots = 2
INVARIANTS
    TypeOK
    
    GuessesRemembered
SYMMETRY PhraseSymmetry
CHECK_DEADLOCK FALSE
