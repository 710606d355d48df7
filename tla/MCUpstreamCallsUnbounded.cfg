SPECIFICATION Spec
CONSTANTS
    r1 = r1
    r2 = r2
    NaN = NaN
    Requests = {r1}
    Timeouts <- MCTimeouts
    MaxExecution = 3
    ExecutionPadding = 1
    MaxTimeout = 2
    UpstreamPadding = 1
    Threshold = 1
    Wait = 1
    Authenticated = FALSE
    Sockets = 1
    MaxTime = 6
INVARIANT AllotmentIsBounded
CHECK_DEADLOCK FALSE
