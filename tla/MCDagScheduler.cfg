SPECIFICATION SchedSpec
CONSTANTS
    Steps = {1, 2, 3, 4}
    Names = {0, 1, 2, 3, 4}
    Graphs <- AllGraphs
INVARIANTS
    PendingCounts
    DependenciesFirst
    NothingStranded
PROPERTIES
    ImplementsStepOrder
CHECK_DEADLOCK FALSE
