SPECIFICATION FairSpec
CONSTANTS
    r1 = r1
    r2 = r2
    NaN = NaN
    Requests = {r1, r2}
    Timeouts <- MCTimeouts
    MaxExecution = 3
    ExecutionPadding = 1
    MaxTimeout = 2
    UpstreamPadding = 1
    Threshold = 1
    Wait = 1
    Authenticated = TRUE
    Sockets = 1
    MaxTime = 6
INVARIANTS TypeOK CallsEndInTime SentIsUnderWay
 
CHECK_DEADLOCK FALSE
