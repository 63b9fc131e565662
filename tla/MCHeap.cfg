SPECIFICATION Spec
CONSTANTS
    p1 = p1
    p2 = p2
    Pages = {p1, p2}
    PAGE = 80
    Requests = {1, 6, 44}
SYMMETRY PageSymmetry
INVARIANTS TypeOK Tiled Disjoint
PROPERTY HeldBlockFixed
