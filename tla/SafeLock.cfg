SPECIFICATION Spec
CONSTANTS
    MaxSegments = 2
    MaxTicks = 2
    EntryCount = 2
    StoreChoices <- StrictDoor
    InitialStore <- DoorAndLamp
    NoEntry = NoEntry
    IdleTicks = 2
    MaxSeconds = 3
    MaxInputs = 5
    MaxCommands = 1
INVARIANTS
    TypeOK
    AttemptIsWhatWasTyped
    LockSound
PROPERTIES
    AttemptEnds
