SPECIFICATION Spec
CONSTANTS
    InputTasks = {input}
    CliTasks = {usb, tcp}
    TimerTask = timer
    Slots = {s1, s2}
    MaxChanges = 2
    MaxFaults = 2
INVARIANTS
    TypeOK
    ChangesTracked
PROPERTIES
    DirtyReachesFlash
