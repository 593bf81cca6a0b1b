SPECIFICATION WordsSpec
CONSTANTS
    WSIZE = 4
    CHUNKSIZE = 16
    MAX_HEAP = 104
    SIZE_MOD = 1024
    INT_MOD = 1024
    BASE = 8
    Requests = {0, 4, 20, 44}
    MaxRequest = 44
    MaxCalls = 9
    Ids = {1, 2, 3, 4}
    Balanced = FALSE
INVARIANT ListInHeap
