SPECIFICATION Spec
CONSTANTS
    Requests = {q1, q2}
    Dims = {d1, d2}
    Ids = {i1}
    NoId = NoId
    Selections = {Whole, part}
    Whole = Whole
    None = None
    Submits = {u1}
    Completions = {c1, c2}
    LedgerLimit = 2
SYMMETRY Interchangeable
CHECK_DEADLOCK FALSE
INVARIANTS
    SessionInvariant
    ReleasedEmpty
    LeaseWhileWorking
    MarkedWithEvidence
    FinalSyncs
    SyncedOnce
