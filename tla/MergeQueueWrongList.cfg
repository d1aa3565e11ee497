SPECIFICATION Spec
CONSTANTS
    a = a
    b = b
    p1 = p1
    p2 = p2
    NoRepo = NoRepo
    Repo = {a, b}
    Pull = {p1, p2}
    Home <- TwoHome
    Local = {p1, p2}
    Gated = {}
    Allowed <- Switch
    Faults = FALSE
PROPERTY
    EntryLeavesForReason
CHECK_DEADLOCK FALSE
