SPECIFICATION Spec
CONSTANTS
    Calls = {c1, c2, c3, c4}
    Projects = {p1, p2}
    c1 = c1
    c2 = c2
    c3 = c3
    c4 = c4
    p1 = p1
    p2 = p2
    Home = Home
    None = None
    Overlap = FALSE
    Deadlines = FALSE
    Faults = {"init", "migrate"}
SYMMETRY Symmetry
INVARIANTS
    OwnDatabase
    SharedUsable
    CwdRestored
    NoLeak
CHECK_DEADLOCK FALSE
