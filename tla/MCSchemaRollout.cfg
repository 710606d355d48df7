SPECIFICATION Spec
CONSTANTS
    p1 = p1
    j1 = j1
    j2 = j2
    Pods = {p1}
    Jobs = {j1, j2}
    MaxVersion = 3
    MaxLegacy = 2
    MaxCommits = 2
    TryCache = TRUE
    Seeded = TRUE
    None = None
SYMMETRY Symmetry
INVARIANTS TypeOK  WorkersAgree
 
CHECK_DEADLOCK FALSE
