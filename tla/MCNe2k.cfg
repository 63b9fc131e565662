SPECIFICATION Spec
CONSTANTS
    PSTART = 2
    PSTOP = 6
    MaxSend = 3
    MaxRecv = 3
    MaxBad = 1
INVARIANTS TypeOK ReceivedInOrder NoLostEdge FrameIsThere LoadedOnce RxBacklogExact TxWaitsOnlyIfHidden
PROPERTIES NoReentry DeviceServed
CHECK_DEADLOCK FALSE
