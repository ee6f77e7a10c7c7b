CONSTANTS
    t1 = t1
    t2 = t2
    NoThread = NoThread
    Thread <- TwoThreads
    NSizes = 2
    NObj <- Few
    LowWater = 2
    NVa = 8
    NPte = 2
    FbPages = 4
    FbSections = 1
    NRam = 7
    Want = {0, 1, 3}
SPECIFICATION Spec
SYMMETRY Symmetry
CHECK_DEADLOCK FALSE
INVARIANTS OneOwner ListsMatch OnlyRefillsBlock NeverDry RangesApart NothingMappedOver MappingsKept
