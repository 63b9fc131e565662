SPECIFICATION Spec
CONSTANTS
    NF = 16
    K0 = 2
    KMAX = 10
    E = 8
    D = 3
    MemMap <- PcMap
    Upper = 48
    Loader = {"map"}
    Available <- PcRam
    Leftover <- BlankOrDirty
    Touched = {10, 11, 16, 17}
    MaxHeap = 6
INVARIANT SingleOwner
CHECK_DEADLOCK FALSE
