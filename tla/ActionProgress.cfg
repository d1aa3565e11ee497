SPECIFICATION FairSpec
CONSTANTS
    ci = ci
    deploy = deploy
    lint = lint
    c1 = c1
    c2 = c2
    p1 = p1
    p2 = p2
    None = None
    Repo <- OneRepo
    Workflow <- TwoFiles
    RepoOf <- TwoIn
    Commit <- OneCommit
    PathRank <- TwoRank
    Needs <- TwoNeeds
    At <- OneAt
    Tagged = {}
    NumRunners = 2
    MaxId = 3
    PullPageOpen = FALSE
    CrashAnywhere = FALSE
    CanRestart = FALSE
    Faults = {"bind", "verify", "repository", "dedicated", "start"}
PROPERTIES
    QueueAdvances
