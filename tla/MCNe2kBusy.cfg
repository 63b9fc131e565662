SPECIFICATION Spec
CONSTANTS
    PSTART = 2
    PSTOP = 6
    MaxSend = 2
    MaxRecv = 1
    MaxBad = 0
INVARIANT BusyMeansQueued
CHECK_DEADLOCK FALSE
