SPECIFICATION Spec
CONSTANTS
    ci = ci
    deploy = deploy
    lint = lint
    c1 = c1
    c2 = c2
    p1 = p1
    p2 = p2
    None = None
    Repo <- OneRepo
    Workflow <- ThreeFiles
    RepoOf <- ThreeIn
    Commit <- TwoCommits
    PathRank <- NeedsLast
    Needs <- ThreeNeeds
    At <- ThreeAt
    Tagged = {}
    NumRunners = 2
    MaxId = 4
    PullPageOpen = TRUE
    CrashAnywhere = FALSE
    CanRestart = TRUE
    Faults = {}
PROPERTIES
    NeedsBeforeStart
