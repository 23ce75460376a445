SPECIFICATION Spec
CONSTANTS
    Requests = {q1, q2}
    Recs = {r1, r2}
    Scopes = {s1, s2}
    Roots = {root1}
    RootOf <- OneRoot
    root1 = root1
    Certified = {s2}
    Items = {i1}
    NoRec = NoRec
    PageSize = 1
    Ttl = 1
    MaxTime = 1
    MaxVersion = 1
    MaxEvents = 1
SYMMETRY Interchangeable
CHECK_DEADLOCK FALSE
INVARIANTS
    SingleFlight
    NoOrphanWorker
    ConsumersOwned
PROPERTIES
    AbortJustified
    CursorRemembered
