SPECIFICATION OrgSpec
CONSTANTS
    ann = ann
    ben = ben
    cat = cat
    dan = dan
    NoMember = NoMember
    Member = {ann, ben, cat, dan}
    Hired <- AnnOwns
    Clerk = {}
    Moves <- Reshuffle
    Caller = {r}
    Ops = {}
    Named = {ben}
    Case = {1}
    Reporting = {"nodes"}
    Threshold = 2
    Inactivity = 1
    Grace = 1
    MaxTime = 2
    MaxBusy = 2
    Letter = {1}
    Offers = {"owner"}
    Guest = {g1, g2}
    Post = {p}
    MaxCrowd = 3
PROPERTY
    SingleUse
CHECK_DEADLOCK FALSE
