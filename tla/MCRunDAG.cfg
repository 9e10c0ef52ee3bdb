SPECIFICATION FairSpec
CONSTANTS
    Steps = {1, 2, 3, 4}
    Names = {1, 2, 3, 4}
    Graphs <- Shapes
    HasRollback = {1, 3}
    Confirms = {2, 3}
    NonInteractive = FALSE
    NumChecks = 0
    MaxParallel = 2
INVARIANTS
    InFlightExact
    QuietBeforeRollback
    ParentsBeforeCommand
    DependentsUndoneFirst
    RollbackIsComplete
PROPERTIES
    FollowsScheduler
    KeepsContract
    Returns
CHECK_DEADLOCK FALSE
