SPECIFICATION Spec
CONSTANTS
    a = a
    b = b
    p1 = p1
    p2 = p2
    NoRepo = NoRepo
    Repo = {a}
    Pull = {p1, p2}
    Home <- OneHome
    Local = {p1, p2}
    Gated = {}
    Allowed <- Closing
    Faults = FALSE
PROPERTY
    MergesWhatWasQueued
CHECK_DEADLOCK FALSE
