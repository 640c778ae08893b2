SPECIFICATION Spec
CONSTANTS
    SlotCount = 2
    Detents <- OneDetent
    SetTo = {101}
    StoredValues = {50}
    Bindings <- Remotes
    Absent = Absent
    InitialBinding <- LampAndBlind
    CliTasks = {c1}
    QueueLen = 2
    ErrLimit = 1
    FailLimit = 2
    ProbeTicks = 1
    NoBinding = NoBinding
    NoJob = NoJob
    MaxEvents = 3
INVARIANTS
    TypeOK
    NothingLostOnTheWay
PROPERTIES
    ProbesSpaced
    Settles
