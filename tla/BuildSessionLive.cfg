SPECIFICATION FairSpec
CONSTANTS
    Requests = {q1, q2}
    Recs = {r1}
    Scopes = {s1}
    Roots = {root1, root2}
    RootOf <- OneRoot
    root1 = root1
    Certified = {}
    Items = {i1, i2}
    NoRec = NoRec
    PageSize = 1
    Ttl = 1
    MaxTime = 0
    MaxVersion = 0
    MaxEvents = 1
CHECK_DEADLOCK FALSE
PROPERTIES
    RequestsAnswered
    ReadsAnswered
    DisposeFinishes
    FeedsPaged
