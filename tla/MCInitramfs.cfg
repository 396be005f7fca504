CONSTANTS
    NoName = NoName
    Null = Null
    Wild = Wild
    Thread = {t1, t2}
    MaxSize = 1
    Name <- MCName
    DirName <- MCDirName
    Length <- MCLength
    RAMFS_MAX_FILENAME_SIZE = 256
    MaxEntries = 5
    Scenario <- MCScenario
SPECIFICATION FairLoad
INVARIANTS
    TreeSound
    LockedWhileOpen
    NamesLoaded
PROPERTIES
    FinishedStay
    OpenReturns
\* a fault stops the machine
CHECK_DEADLOCK FALSE
