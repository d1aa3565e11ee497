SPECIFICATION FairSpec
CONSTANTS
    MaxShift = 1
    MaxFrames = 2
    MaxDepth = 3
INVARIANTS
    TypeOK
    NeverStranded
    OneAttempt
PROPERTIES
    ImplementsLink
    LinkRecovers
CHECK_DEADLOCK FALSE
