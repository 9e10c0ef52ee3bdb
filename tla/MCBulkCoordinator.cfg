SPECIFICATION FairSpec
CONSTANTS
    NumJobs = 3
    UpperBound = 2
    Requests <- AskedFor
    Codes <- ExitCodes
INVARIANTS
    SlotsExact
    FailFastStopsWaiting
    SequentialStopsAtFailure
    ReportComplete
PROPERTIES
    Returns
CHECK_DEADLOCK FALSE
