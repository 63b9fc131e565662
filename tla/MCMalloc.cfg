SPECIFICATION Spec
CONSTANTS
    Frames = 2
    PAGE = 80
    Requests = {1, 26}
INVARIANTS TypeOK FreeListExact HeldIntact
PROPERTIES GrowOnlyWhenFull MallocReturns ImplementsHeap
