SPECIFICATION Spec
CONSTANTS
    WSIZE = 4
    CHUNKSIZE = 32
    MAX_HEAP = 56
    SIZE_MOD = 256
    INT_MOD = 256
    Bases = {8, 64}
    Incrs <- MCIncrs
INVARIANTS HeapBounded ChunksDisjoint
PROPERTY HeapNeverShrinks
