SPECIFICATION FairSpec
CONSTANTS
    Rescans = {r1}
    Paths = {p}
    Versions = {Absent, v1, v2}
    Absent = Absent
    None = None
    MaxCommits = 3
    MaxEvents = 1
    Faults = {"inside", "head", "snapshot", "mergeBase"}
INVARIANTS
    CheckpointCovered
PROPERTIES
    ResetOnlyForeign
    CatchesUp
CHECK_DEADLOCK FALSE
