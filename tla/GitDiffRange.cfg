SPECIFICATION Spec
CONSTANTS
    Rescans = {r1}
    Paths = {p}
    Versions = {Absent, v1, v2}
    Absent = Absent
    None = None
    MaxCommits = 3
    MaxEvents = 1
    Faults = {"range"}
INVARIANTS
    CheckpointCovered
CHECK_DEADLOCK FALSE
