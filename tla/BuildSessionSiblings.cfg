SPECIFICATION Spec
CONSTANTS
    Requests = {q1, q2}
    Recs = {r1}
    Scopes = {s1}
    Roots = {root1}
    RootOf <- OneRoot
    root1 = root1
    Certified = {}
    Items = {i1}
    NoRec = NoRec
    PageSize = 1
    Ttl = 1
    MaxTime = 0
    MaxVersion = 0
    MaxEvents = 1
CHECK_DEADLOCK FALSE
INVARIANTS
    SiblingsUnharmed
