SPECIFICATION Spec
CONSTANTS
    NF = 16
    K0 = 2
    KMAX = 10
    E = 8
    D = 3
    MemMap <- PcMap
    Upper = 48
    Loader = {"map", "mem", "none"}
    Available <- PcRam
    Leftover <- BlankOrDirty
    Touched = {10, 11, 16, 17}
    MaxHeap = 6
INVARIANTS TypeOK SharedOnlyByRace IdentityKept FaultsMapTheirFrame
PROPERTY Served
CHECK_DEADLOCK FALSE
