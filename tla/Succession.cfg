SPECIFICATION Spec
CONSTANTS
    ann = ann
    ben = ben
    cat = cat
    dan = dan
    r1 = r1
    r2 = r2
    NoMember = NoMember
    Member = {ann, ben, cat}
    Hired <- AnnOwns
    Clerk = {k}
    Moves <- Leaves
    Caller = {r1, r2}
    Ops <- AllOps
    Case = {1, 2}
    Reporting = {"account_devices"}
    Threshold = 1
    Inactivity = 1
    Grace = 0
    MaxTime = 1
    MaxBusy = 2
    Named = {ben}
SYMMETRY Symmetric
INVARIANTS
    TypeOK
    OneGrace
    OutcomeIsRecorded
PROPERTIES
    ImplementsLife
    RolesAreEarned
    OpensOnlyIfInactive
CHECK_DEADLOCK FALSE
