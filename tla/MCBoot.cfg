CONSTANTS
    UINTPTR_MAX = 60
    Ranges <- MCRanges
    MaxEntries = 3
    Kernel <- MCKernel
    Modules <- MCModules
    BALLOC_MAX_RANGES = 9
    PAGE_SIZE = 2
    Align = 1
    Tables = 2
    BOOTSTRAP_MEM = 15
    MAX_PMEM_SIZE = 100
    Header = 1
    PerUnit = 4
SPECIFICATION BootSpec
CHECK_DEADLOCK FALSE
INVARIANTS
    RangesApart
    FreeExactly
    ListedKnown
    HandsOver
