SPECIFICATION Spec
CONSTANTS
    Traces <- MCTraces
    NumFiles = 2
    Repeats = 2
    Ids = {0, 128}
    Base = 2
    Top = 8
    Pointers = {1, 2, 4, 5, 6}
    LibcPointers = {1}
    Chunk = 6
    Alignment = 2
    AnyPackage = FALSE
    MaxLength = 3
    Sizes = {1, 4}
INVARIANT NoFalseAlarm
