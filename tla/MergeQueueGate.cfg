SPECIFICATION Spec
CONSTANTS
    a = a
    b = b
    p1 = p1
    p2 = p2
    NoRepo = NoRepo
    Repo = {a}
    Pull = {p1, p2}
    Home <- OneHome
    Local = {p1, p2}
    Gated = {a}
    Allowed <- Reviewing
    Faults = FALSE
PROPERTY
    GateHoldsToTheEnd
CHECK_DEADLOCK FALSE
