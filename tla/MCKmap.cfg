CONSTANTS
    ENTRIES = 4
    HIGHER_BASE = 128
    VIRTUAL_BASE = 248
    KMAP_PAGES = 8
    KMAP_ORDERS = 3
    Buffer = {9}
    Machine <- MCMachine
SPECIFICATION KmapSpec
CONSTRAINT Explored
INVARIANTS
    WindowTiled
    MappedExactly
    FindsRoom
