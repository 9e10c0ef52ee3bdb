SPECIFICATION AuditFairSpec
CONSTANTS
    Steps = {1, 2, 3}
    Names = {1, 2, 3}
    HasRollback = {1, 2}
    Confirms = {1, 3}
    NonInteractive = FALSE
    NumChecks = 1
    MaxLost = 1
INVARIANTS
    TrailIsFaithful
    HistoryExplainsTheOutcome
    RollbackAccounting
PROPERTIES
    KeepsContract
    RunIsClosed
CHECK_DEADLOCK FALSE
