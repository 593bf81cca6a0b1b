SPECIFICATION WordsSpec
CONSTANTS
    WSIZE = 8
    CHUNKSIZE = 48
    MAX_HEAP = 208
    SIZE_MOD = 4096
    INT_MOD = 1024
    BASE = 16
    Requests = {0, 8, 24, 64}
    MaxRequest = 64
    MaxCalls = 9
    Ids = {1, 2, 3, 4}
    Balanced = TRUE
INVARIANTS NoFailure PayloadsIntact  BeyondCheckheap SearchComplete
PROPERTY BlocksSpec
