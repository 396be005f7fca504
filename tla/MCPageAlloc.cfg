CONSTANTS
    Zones <- MCZones
    FreeRanges <- MCFreeRanges
    MAX_ORDER = 2
    Stale <- MCStale
SPECIFICATION PageSpec
INVARIANTS
    PagesAccounted
    MergesExact
    AllFreeRestores
