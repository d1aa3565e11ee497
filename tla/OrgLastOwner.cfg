SPECIFICATION OrgSpec
CONSTANTS
    ann = ann
    ben = ben
    cat = cat
    dan = dan
    NoMember = NoMember
    Member = {ann, ben, cat, dan}
    Hired <- TwoOwn
    Clerk = {k1, k2}
    Moves <- StepBack
    Caller = {}
    Ops <- Transfer
    Named = {ben}
    Case = {1}
    Reporting = {"nodes"}
    Threshold = 2
    Inactivity = 1
    Grace = 1
    MaxTime = 2
    MaxBusy = 2
    Letter = {1}
    Offers = {"owner"}
    Guest = {}
    Post = {}
    MaxCrowd = 2
INVARIANT
    LastOwnerStays
CHECK_DEADLOCK FALSE
