SPECIFICATION FairSpec
CONSTANTS
    w1 = w1
    w2 = w2
    s1 = s1
    Worker <- MCWorker
    Stage <- MCStage
    MaxPolls = 2
CHECK_DEADLOCK FALSE
INVARIANTS
    TypeOK
    ReadyIsEarned
    NoFalseAlarm
    RegistryIsExact
    NoOrphanResponse
PROPERTIES
    RegistryDrains
    ImplementsContract
