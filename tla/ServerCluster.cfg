SPECIFICATION FairSpec
CONSTANTS
    Parallelism = 2
    MaxCrashes = 2
    MaxRequests = 1
    MaxSignals = 2
CHECK_DEADLOCK FALSE
INVARIANTS
    TypeOK
    Accounted
    
    
    CutOnlyWhenToldTwice
    RoutesLeadToWorkers
PROPERTIES
    StrengthRestored
    
