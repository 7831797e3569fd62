\* A newest version inside a block, flushed before the process ends.
SPECIFICATION RecoverySpec
CONSTANTS
    v1 = v1
    Tombstone = Tombstone
    NoEntry = NoEntry
    NoThread = NoThread
    Nil = Nil
    Keys <- MCThreeKeys
    Values <- MCValues
    Batches <- MCOuterThenInner
    MaxTs = 2
    Writers = {w1}
    Readers = {}
    Forcers = {}
    FlushThread = ft
    TargetSstSize = 3
    NumMemtableLimit = 1
    FlushToL0 = TRUE
    MaxLevels = 1
    MaxFaults = 0
    BlockEntries = 3
    BufferedRecords = 0
    MaxCrashes = 1
PROPERTIES
    CommitTsCoversData
CHECK_DEADLOCK FALSE
