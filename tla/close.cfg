\* close against a writer and the flush thread, with failing I/O.
SPECIFICATION CloseSpec
CONSTANTS
    k1 = k1
    v1 = v1
    Tombstone = Tombstone
    NoEntry = NoEntry
    NoThread = NoThread
    Nil = Nil
    Keys <- MCKeys
    Values <- MCValues
    Batches <- MCBatches
    MaxTs = 3
    Writers = {w1}
    Readers = {}
    Forcers = {cl}
    Closer = cl
    FlushThread = ft
    TargetSstSize = 1
    NumMemtableLimit = 1
    FlushToL0 = TRUE
    MaxLevels = 1
    MaxFaults = 1
INVARIANTS
    CloseTypeOK
PROPERTIES
    CloseFlushesAll
    NothingFlushedAfterClose
    JoinReturns
CHECK_DEADLOCK FALSE
