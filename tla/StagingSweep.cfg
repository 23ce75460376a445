SPECIFICATION TimerSpec
CONSTANTS
    Calls = {c1, c2, c3}
    Projects = {p1}
    Items = {i1, i2}
    WorkOf <- Work
    i1 = i1
    i2 = i2
    None = None
    Cap = 1
    MinInterval = 2
    VectorInterval = 3
    Throws = TRUE
    Envelope = TRUE
INVARIANTS
    FlagTrue
PROPERTIES
    SweepsSpaced
    ReconcilesSpaced
    ToolContinues
    Drained
