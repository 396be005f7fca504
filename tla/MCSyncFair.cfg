CONSTANTS
    kthread = kthread
    Thread = {kthread, a, b}
    NoThread = NoThread
    SLICE = 1
    MaxPreempt = 0
    Faults = FALSE
    Mutex = {m}
    NoMutex = NoMutex
    Cond = {cv}
SPECIFICATION FairSync
PROPERTIES
    LockerGetsMutex
    BroadcastReachesAll
