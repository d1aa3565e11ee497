SPECIFICATION FairSpec
CONSTANTS
    a = a
    b = b
    p1 = p1
    p2 = p2
    NoRepo = NoRepo
    Repo = {a, b}
    Pull = {p1, p2}
    Home <- TwoHome
    Local = {p1}
    Gated = {b}
    Allowed <- Switching
    Faults = FALSE
PROPERTIES
    QueueAdvances
CHECK_DEADLOCK FALSE
