SPECIFICATION ServeSpec
CONSTANTS
    p1 = p1
    p2 = p2
    Id = {p1, p2}
    RefreshEvery = 1
    Fudge = 3
    MaxDelay = 1
    MaxLag = 1
    MaxTime = 5
    Requests = {"r1"}
    MaxCacheSize = 1
    None = None
SYMMETRY Symmetry
CHECK_DEADLOCK FALSE
INVARIANTS UnknownIsReloaded RemovedIsRefused PublishedIsKnown ServeTypeOK
PROPERTIES StaysKnown
