CONSTANTS
    NoName = NoName
    Null = Null
    Wild = Wild
    Thread = {t1, t2}
    MaxSize = 1
    Name <- MCName
    DirName <- MCDirName
    Length <- MCLength
    RAMFS_MAX_FILENAME_SIZE = 256
    MaxEntries = 5
    Scenario <- LoadOnly
SPECIFICATION LoadSpec
INVARIANT FilesLoaded
CHECK_DEADLOCK FALSE
