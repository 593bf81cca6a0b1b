SPECIFICATION Spec
CONSTANTS
    WSIZE = 4
    CHUNKSIZE = 32
    MAX_HEAP = 136
    SIZE_MOD = 1024
    INT_MOD = 1024
    BASE = 8
    Requests = {0, 1, 12, 40, 100}
    MaxRequest = 100
INVARIANTS TypeOK HeapConsistent NoAdjacentFree FreeListExact LiveAreUsed AllGivenBack
PROPERTY APISpec
