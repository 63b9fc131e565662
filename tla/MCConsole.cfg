SPECIFICATION Spec
CONSTANTS
    R = 3
    C = 3
    Y0 = 1
    Digits = 4
    Strings <- Texts
INVARIANTS TypeOK TextKept StaleOnlyInFirstColumn
