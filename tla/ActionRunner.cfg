SPECIFICATION MCSpec
CONSTANTS
    r1 = r1
    r2 = r2
    r3 = r3
    NoRunId = NoRunId
    RunId <- Runs
    NumSteps <- Steps
    StartFails = TRUE
INVARIANTS
    TypeOK
    ChildHasDeadline
    IdleIsQuiet
PROPERTIES
    NoStepAfterDeadline
    SuccessIsComplete
    ImplementsRunLife
    StartedRunsSettle
