\* Tiered compaction under a reader, who is never made to wait.
SPECIFICATION CompactionSpec
CONSTANTS
    v1 = v1
    Tombstone = Tombstone
    NoEntry = NoEntry
    NoThread = NoThread
    Nil = Nil
    Keys <- MCKeys
    Values <- MCValues
    Batches <- MCBatches
    MaxTs = 3
    Writers = {w1}
    Readers = {r1}
    Forcers = {}
    FlushThread = ft
    TargetSstSize = 1
    NumMemtableLimit = 1
    FlushToL0 = FALSE
    MaxLevels = 2
    MaxFaults = 0
    CompactionThread = ct
    FullCompactors = {}
    Policies <- MCTieredPolicies
    SstCells = 2
    MaxSstId = 8
INVARIANTS
    PanicsOnlyOnEmptySst
PROPERTIES
    OnlyDropsTombstones
    SnapshotIsStable
CONSTRAINT NotRaced
CHECK_DEADLOCK FALSE
