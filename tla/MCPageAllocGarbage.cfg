CONSTANTS
    Zones <- SmallZones
    FreeRanges <- SmallFreeRanges
    MAX_ORDER = 2
    Stale <- SmallStale
SPECIFICATION PageSpec
INVARIANT MergesListed
