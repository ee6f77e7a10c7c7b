CONSTANTS
    BDY_NLEVELS = 3
    NPages = 8
    ReservedUnit = 1
    ReservedN = 1
    MapUnit = 0
    KernelPages = {0}
    MaxN = 2
SPECIFICATION Spec
INVARIANTS BitsExact EntriesMatch
PROPERTY ImplementsBlocks
