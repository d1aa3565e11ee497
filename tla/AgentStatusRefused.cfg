SPECIFICATION Spec
CONSTANTS
    Session = {s1}
    State = {a, b}
    None = None
    Report = {1, 2}
    MaxEntries = 1
    MaxNews = 2
INVARIANTS
    RefusalIsNotBelieved
CHECK_DEADLOCK FALSE
