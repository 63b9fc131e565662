SPECIFICATION Spec
CONSTANTS
    NF = 17
    K0 = 3
    KF = 17
    E = 5
    D = 6
    Q = 5
    CW = 5
    MaxSpaces = 5
    Touched = {15, 17, 18, 20, 21, 25}
INVARIANTS TypeOK Isolated ReachedIsCounted
CHECK_DEADLOCK FALSE
