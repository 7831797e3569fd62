\* The background compaction overlapping with writes and flushes.
SPECIFICATION CompactionSpec
CONSTANTS
    v1 = v1
    Tombstone = Tombstone
    NoEntry = NoEntry
    NoThread = NoThread
    Nil = Nil
    Keys <- MCKeys
    Values <- MCValues
    Batches <- MCBatches
    MaxTs = 3
    Writers = {w1}
    Readers = {}
    Forcers = {}
    FlushThread = ft
    TargetSstSize = 1
    NumMemtableLimit = 1
    FlushToL0 = TRUE
    MaxLevels = 2
    MaxFaults = 0
    CompactionThread = ct
    FullCompactors = {}
    Policies <- MCSimpleOnly
    SstCells = 2
    MaxSstId = 6
PROPERTIES
    CompactionKeepsFlushes
CHECK_DEADLOCK FALSE
