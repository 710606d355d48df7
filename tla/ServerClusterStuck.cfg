SPECIFICATION FairSpec
CONSTANTS
    Parallelism = 2
    MaxCrashes = 0
    MaxRequests = 1
    MaxSignals = 1
CHECK_DEADLOCK FALSE
PROPERTIES
    ShutdownCompletes
