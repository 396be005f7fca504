CONSTANTS
    kthread = kthread
    Thread = {kthread, a, b}
    NoThread = NoThread
    SLICE = 2
    MaxPreempt = 1
    Faults = TRUE
SPECIFICATION FairThreads
INVARIANTS
    NoRunnableLost
    ThreadsInv
PROPERTIES
    PreemptHolds
    QueueIsFair
    IdleOnlyWhenNothingRuns
    QueuedRuns
    ExitingFinishes
    JoinReturns
\* a fault or BUG() stops the machine
CHECK_DEADLOCK FALSE
