CONSTANTS
    kthread = kthread
    Thread = {kthread, a, b, c}
    NoThread = NoThread
    SLICE = 1
    MaxPreempt = 0
    Faults = FALSE
    Mutex = {m}
    NoMutex = NoMutex
    Cond = {cv}
SPECIFICATION SyncSpec
SYMMETRY Slots
INVARIANTS
    NoLostWakeup
    SyncInv
PROPERTIES
    HandedInOrder
    ImplementsMonitor
