SPECIFICATION FairSpec
CONSTANTS
    NumSteps = 3
    Gated = {1, 3}
    MaxSignals = 3
    MaxTyped = 2
INVARIANTS
    OneLineIsLostAtMost
PROPERTIES
    ImplementsMailbox
    BothEnd
CHECK_DEADLOCK FALSE
