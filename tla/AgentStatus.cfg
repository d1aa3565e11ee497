SPECIFICATION FairSpec
CONSTANTS
    Session = {s1, s2}
    State = {a, b}
    None = None
    Report = {1, 2}
    MaxEntries = 1
    MaxNews = 2
INVARIANTS
    InFlightIsWatched
    BelievedInOrder
PROPERTIES
    NothingWaitsForever
CHECK_DEADLOCK FALSE
