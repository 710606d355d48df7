SPECIFICATION FairSpec
CONSTANTS
    r1 = r1
    r2 = r2
    one = one
    two = two
    odd = odd
    bad = bad
    graphql = graphql
    taql = taql
    NonstitchedRoles = {taql}
    Overrides <- MCOverrides
    MaxBuilds = 1
    i1 = i1
    i2 = i2
    None = None
    Requests = {r1, r2}
    Texts = {one, two, odd, bad}
    Ids = {i1, i2}
    Code <- MCCode
    Unparsable = {bad}
    Invalid = {odd}
    Uncompilable = {odd}
    Shared = {two}
    Kinds <- MCKinds
    Jit = TRUE
    RunUntrusted = FALSE
    MaxDocuments = 2
    MaxPersisted = 1
INVARIANTS TypeOK  CompiledOnce WarmedIsNotParsed
 
CHECK_DEADLOCK FALSE
