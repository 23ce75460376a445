SPECIFICATION Spec
CONSTANTS
    Requests = {q1, q2}
    Recs = {r1, r2}
    Scopes = {s1}
    Roots = {root1}
    RootOf <- OneRoot
    root1 = root1
    Certified = {}
    Items = {i1, i2}
    NoRec = NoRec
    PageSize = 1
    Ttl = 1
    MaxTime = 0
    MaxVersion = 1
    MaxEvents = 1
SYMMETRY Interchangeable
CHECK_DEADLOCK FALSE
INVARIANTS
    BuildInvariant
    OneCursor
    EveryDelta
    NoTempLeak
    DisposeClean
