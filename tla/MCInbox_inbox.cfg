CONSTANTS
    MaxPending = 2
    Window = 3
    MaxRev = 5
    MaxFaults = 2
SPECIFICATION Spec
PROPERTIES NoSkippedRevision CatchesUp
CHECK_DEADLOCK FALSE
