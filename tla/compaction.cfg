\* Simple and leveled compaction and force_full_compaction, with one I/O
\* failure, while a client writes and memtables are frozen and flushed.
SPECIFICATION CompactionSpec
CONSTANTS
    v1 = v1
    Tombstone = Tombstone
    NoEntry = NoEntry
    NoThread = NoThread
    Nil = Nil
    Keys <- MCKeys
    Values <- MCValues
    Batches <- MCBatches
    MaxTs = 2
    Writers = {w1}
    Readers = {}
    Forcers = {}
    FlushThread = ft
    TargetSstSize = 1
    NumMemtableLimit = 1
    FlushToL0 = TRUE
    MaxLevels = 2
    MaxFaults = 1
    CompactionThread = ct
    FullCompactors = {fc}
    Policies <- MCPolicies
    SstCells = 1
    MaxSstId = 8
INVARIANTS
    CompactionTypeOK
    FilesMatchState
    LevelsAreRuns
    PanicsOnlyOnEmptySst
PROPERTIES
    OnlyDropsTombstones
CONSTRAINT NotRaced
CHECK_DEADLOCK FALSE
