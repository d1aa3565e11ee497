SPECIFICATION Spec
CONSTANTS
    ci = ci
    deploy = deploy
    lint = lint
    c1 = c1
    c2 = c2
    p1 = p1
    p2 = p2
    None = None
    Repo <- TwoRepos
    Workflow <- ThreeFiles
    RepoOf <- ReleaseIn
    Commit <- TwoCommits
    PathRank <- NeedsLast
    Needs <- NoNeeds
    At <- ReleaseAt
    Tagged = {c1}
    NumRunners = 2
    MaxId = 3
    PullPageOpen = FALSE
    CrashAnywhere = FALSE
    CanRestart = FALSE
    Faults = {}
INVARIANTS
    LandedPublishesItsRepository
