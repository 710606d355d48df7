SPECIFICATION Spec
CONSTANTS
    ca = ca
    cb = cb
    cc = cc
    cd = cd
    ce = ce
    cf = cf
    cg = cg
    Context = {ca, cb, cc, cd}
    ForwardHeaders <- MCForwardHeaders
    LegacyContextOf <- MCLegacyContextOf
    BatchIgnoreHeaders = {"guid", "guid2"}
    InsecureAllowedHeaders = {"guid", "guid2"}
    HashOf <- MCHashOf
    DeadlineOf <- MCDeadlineOf
    Operation = {"query", "mutation"}
    Wait = 2
    MaxSizes = {4}
    MaxLoads = 4
INVARIANTS
    EveryRequestIsSent
