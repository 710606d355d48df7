SPECIFICATION Spec
CONSTANTS
    Parallelism = 1
    MaxCrashes = 0
    MaxRequests = 1
    MaxSignals = 2
CHECK_DEADLOCK FALSE
INVARIANTS
    RequestsFinish
