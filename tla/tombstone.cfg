\* force_full_compaction alone, as in its tests.
SPECIFICATION CompactionSpec
CONSTANTS
    v1 = v1
    Tombstone = Tombstone
    NoEntry = NoEntry
    NoThread = NoThread
    Nil = Nil
    Keys <- MCKeys
    Values <- MCValues
    Batches <- MCBatches
    MaxTs = 3
    Writers = {w1}
    Readers = {}
    Forcers = {}
    FlushThread = ft
    TargetSstSize = 1
    NumMemtableLimit = 1
    FlushToL0 = TRUE
    MaxLevels = 1
    MaxFaults = 0
    CompactionThread = ct
    FullCompactors = {fc}
    Policies <- MCNoneOnly
    SstCells = 2
    MaxSstId = 6
PROPERTIES
    DeletedStaysDeleted
CHECK_DEADLOCK FALSE
