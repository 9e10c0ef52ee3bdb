SPECIFICATION ProcFairSpec
CONSTANTS
    Children = {c1, c2}
    Streams = {"stdout", "stderr"}
    TimeoutSet = TRUE
    ParentCauses = {"parent deadline", "cancel"}
    Natures <- MCNatures
INVARIANTS
    OutputIsFinal
    StatusIsHonest
PROPERTIES
    ReturnsAfterDeadline
CHECK_DEADLOCK FALSE
