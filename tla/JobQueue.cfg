SPECIFICATION Spec
CONSTANTS
    Producers = {p1, p2}
    SdCmd = cmd
    Blocks = {b1, b2, b3}
    NoBlock = NoBlock
    QueueLen = 1
    MaxJobs = 4
INVARIANTS
    TypeOK
    BlocksOwned
PROPERTIES
    TestReturns
