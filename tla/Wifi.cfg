SPECIFICATION WifiSpec
CONSTANTS
    Nets = {n1, n2}
    None = none
    Commands = {c1}
    EventTask = sys_evt
    RadioTasks = {c1, sys_evt, host}
    FAILS_BEFORE_SWAP = 2
    MaxToggles = 1
    n1 = n1
    n2 = n2
    Provisioned <- MCProvisioned
    MaxErrors = 1
    MaxHappenings = 1
INVARIANTS WifiTypeOK
PROPERTIES  RadiosReturn
CHECK_DEADLOCK FALSE
