SPECIFICATION Spec
CONSTANTS
    Calls = {c1, c2}
    Projects = {p1, p2}
    c1 = c1
    c2 = c2
    p1 = p1
    p2 = p2
    Home = Home
    None = None
    Overlap = TRUE
    Deadlines = FALSE
    Faults = {}
SYMMETRY Symmetry
INVARIANTS
    OwnDatabase
CHECK_DEADLOCK FALSE
