SPECIFICATION Spec
CONSTANTS
    good = good
    bad = bad
    Images <- MCImages
    Early <- MCEarly
    Version <- MCVersion
    Manifests <- MCManifests
    None = none
    SD_CRASH_LIMIT = 3
    MaxEvents = 1
    Workers = {w1, w2}
INVARIANTS TypeOK UpdatesSafe RecoveryAfterFaults
PROPERTIES CrashLoopEnds
