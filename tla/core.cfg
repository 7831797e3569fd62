\* Two writers, a transaction and the flush thread; memtables of one record.
SPECIFICATION Spec
CONSTANTS
    k1 = k1
    k2 = k2
    v1 = v1
    Tombstone = Tombstone
    NoEntry = NoEntry
    NoThread = NoThread
    Nil = Nil
    Keys <- MCKeys
    Values <- MCValues
    Batches <- MCBatches
    MaxTs = 3
    Writers = {w1, w2}
    Readers = {r1}
    Forcers = {}
    FlushThread = ft
    TargetSstSize = 2
    NumMemtableLimit = 1
    FlushToL0 = TRUE
    MaxLevels = 1
    MaxFaults = 0
INVARIANTS
    TypeOK
    BatchIsWhole
    SnapshotReadsAgree
    FlushedContentIsFinal
    NoFlushPanic
    ManifestRecoversState
PROPERTIES
    ImplementsKvStore
SYMMETRY WriterSymmetry
