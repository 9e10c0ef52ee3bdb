SPECIFICATION Spec
CONSTANTS
    Ids <- MCIds
    Instants = {200, 250, 256, 410}
    Retention = 150
    MaxRows = 2
INVARIANTS
    PruneTakesRunsWhole
    NewestFirstToTheSecond
CHECK_DEADLOCK FALSE
