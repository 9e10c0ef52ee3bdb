SPECIFICATION Spec
CONSTANTS
    a = a
    b = b
    c = c
    Scripts = {a, b, c}
    Jobs = {1, 2}
    JobOf <- MCJobOf
    Texts <- MCTexts
    MaxToken = 2
    PipeSize = 1
    MaxCapture = 3
    MaxFaults = 1
INVARIANTS
    LinesArriveInOrder
    CaptureIsAPrefix
PROPERTIES
    OutputNeverStopsTheScript
CHECK_DEADLOCK FALSE
