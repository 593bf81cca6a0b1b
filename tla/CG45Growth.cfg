SPECIFICATION SegSpec
CONSTANTS
    WSIZE = 4
    CHUNKSIZE = 96
    MAX_HEAP = 240
    SIZE_MOD = 4096
    INT_MOD = 4096
    BASE = 16
    Requests = {0, 8, 24, 56}
    MaxRequest = 56
    MaxCalls = 6
    Ids = {1, 2, 3, 4}
    Balanced = TRUE
    Tested = {"cg45"}
    NUM_LISTS = 3
    Spares = {"first comes back"}
INVARIANT PayloadsSound
