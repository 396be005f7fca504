CONSTANTS
    CacheSizes <- MCCacheSizes
    LargeSizes <- MCLargeSizes
    ReallocSizes <- MCReallocSizes
    PAGE_SHIFT = 12
    MAX_ORDER = 18
    OBJS_PER_WORD = 64
    WORD_SZ = 8
    MIN_POOL_OBJS = 8
    mem_pool_size <- MCPoolSize
    pool_struct = 48
SPECIFICATION LayoutSpec
INVARIANTS
    RequestServed
