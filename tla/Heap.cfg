SPECIFICATION HeapSpec
CONSTANTS
    AddrSpace = 512
    Base = 128
    PAGE_SIZE = 16
    InitialPages = 3
    MaxPages = 5
    Sizes = {1, 4}
INVARIANT
    StaysInHeap
CHECK_DEADLOCK FALSE
