SPECIFICATION TimerSpec
CONSTANTS
    Calls = {c1, c2}
    Projects = {p1, p2}
    c1 = c1
    c2 = c2
    p1 = p1
    p2 = p2
    Home = Home
    None = None
    Overlap = TRUE
    Deadlines = TRUE
    Faults = {"init", "migrate", "close"}
INVARIANTS
    TypeOK
    SharedOpen
PROPERTIES
    ClosedByReplacement
    AnswerFinal
    EveryCallAnswered
CHECK_DEADLOCK FALSE
