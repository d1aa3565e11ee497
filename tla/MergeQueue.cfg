SPECIFICATION Spec
CONSTANTS
    a = a
    b = b
    p1 = p1
    p2 = p2
    NoRepo = NoRepo
    Repo = {a}
    Pull = {p1, p2}
    Home <- OneHome
    Local = {p1}
    Gated = {a}
    Allowed <- OneRepo
    Faults = TRUE
INVARIANTS
    TypeOK
    NumbersAreDistinct
    NoLostWakeup
PROPERTIES
    GateHolds
    MergesInOrder
    EntryLeavesForReason
CHECK_DEADLOCK FALSE
