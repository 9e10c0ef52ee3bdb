SPECIFICATION Spec
CONSTANTS
    Steps = {1, 2, 3}
    Names = {1, 2, 3}
    HasRollback = {1, 2}
    Confirms = {1, 3}
    NonInteractive = FALSE
    NumChecks = 1
INVARIANTS
    SuccessMeansCompleted
CHECK_DEADLOCK FALSE
