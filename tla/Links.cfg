SPECIFICATION Spec
CONSTANTS
    Keys = {k1, k2}
    Nonces = {n1, n2}
    NONCE_WINDOW = 1
    Slots = {s1}
    Ble = ble
    MaxConns = 2
    AtOnce = 1
    MaxFailed = 1
SYMMETRY KeyAndNonceSymmetry
INVARIANTS TypeOK  WaiterMeetsDispatcher
CHECK_DEADLOCK FALSE
