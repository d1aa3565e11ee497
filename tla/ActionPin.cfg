SPECIFICATION Spec
CONSTANTS
    ci = ci
    deploy = deploy
    lint = lint
    c1 = c1
    c2 = c2
    p1 = p1
    p2 = p2
    None = None
    Repo <- OneRepo
    Workflow <- TwoFiles
    RepoOf <- TwoIn
    Commit <- TwoCommits
    PathRank <- TwoRank
    Needs <- TwoNeeds
    At <- TwoAt
    Tagged = {}
    NumRunners = 2
    MaxId = 3
    PullPageOpen = TRUE
    CrashAnywhere = FALSE
    CanRestart = TRUE
    Faults = {}
INVARIANTS
    PinHeldWhileRunning
