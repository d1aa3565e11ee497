SPECIFICATION Spec
CONSTANTS
    ann = ann
    ben = ben
    cat = cat
    dan = dan
    r1 = r1
    r2 = r2
    NoMember = NoMember
    Member = {ann, ben, cat, dan}
    Hired <- AnnOwns
    Clerk = {}
    Moves = {}
    Caller = {r1, r2}
    Ops <- AllOps
    Case = {1}
    Reporting = {"account_devices"}
    Threshold = 2
    Inactivity = 1
    Grace = 1
    MaxTime = 2
    MaxBusy = 2
    Named = {ben}
INVARIANT
    HistoryIsTrue
CHECK_DEADLOCK FALSE
