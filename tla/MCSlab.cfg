CONSTANTS
    Block = {b1, b2, b3}
    Thread = {t1, t2}
    obj_count = 3
    OBJS_PER_WORD = 2
    Whole = Whole
    NoPiece = NoPiece
SPECIFICATION SlabSpec
SYMMETRY Blocks
INVARIANTS
    OneHome
    PoolsExact
PROPERTY
    ImplementsHeap
