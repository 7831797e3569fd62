# TLA+ specifications of tiny-lsm

tiny-lsm is an LSM-tree storage engine in Rust (the Mini-LSM course, with MVCC
timestamps under way). This directory holds TLA+ modules that model it, TLC
configurations that check them on small instances, and theorems proved with
TLAPS for every value of the constants.

    tlc -workers 2 -config core.cfg MCLsmStorage     # model-check one run
    tlapm LsmStorageProofs.tla                       # check the proofs of a module

## 1. The system

| Part | State | Operations | Modelled by |
|---|---|---|---|
| Storage engine (`lsm_storage.rs`) | `state: Arc<RwLock<Arc<LsmStorageState>>>` (memtable, imm_memtables, l0_sstables, levels, sstables), `state_lock`, `next_sst_id` | `write_batch`/`put`/`delete`, `try_freeze`, `force_freeze_memtable`, `force_flush`, `force_flush_next_imm_memtable`, `get`, `scan`, `new_txn` | `LsmStorage` |
| Timestamps (`mvcc.rs`) | `write_lock`, `ts.0` (commit timestamp) | `latest_commit_ts`, `update_commit_ts`, `new_txn` | `LsmStorage` |
| Flush thread (`compact.rs`) | none of its own | `trigger_flush` every 50 ms | `LsmStorage` |
| Memtable (`mem_table.rs`) | skip map, `approximate_size`, WAL | `put`, `put_batch`, `scan`, `flush`, `create_with_wal`, `recover_from_wal` | `LsmStorage`, `LsmRecovery`, `LsmIterators` |
| Iterators (`iterators/*`, `lsm_iterator.rs`) | cursors, a heap | `create`, `next`, `key`, `value` | `LsmIterators` (cursors), `VersionedTables` (what they yield) |
| Compaction (`compact.rs`) | tasks; the state of the engine and the SST files | `trigger_compaction` every 50 ms, `force_full_compaction`, `compact` | `LsmCompaction` |
| Controllers (`compact/*.rs`) | options | `generate_compaction_task`, `apply_compaction_result` of three policies | `CompactionControllers` |
| Simulator (`bin/compaction-simulator.rs`) | `MockStorage` | flush, compact until there is no task | `CompactionSimulator` |
| Recovery (`lsm_storage.rs` `open`, `manifest.rs`, `wal.rs`) | MANIFEST, WAL files | `open`, `Manifest::recover`, `Wal::recover` | `LsmRecovery` |
| Close (`lsm_storage.rs`) | notifier channels, join handles | `close`, `drop` | `LsmClose` |
| Transactions (`mvcc/txn.rs`) | `local_storage`, key hashes | `get`, `scan`, `put`, `delete`, `commit` (a stub) | `LsmTransaction`; repeated reads in `LsmStorage` |
| SSTs, blocks, filters (`table*`, `block*`) | files, block cache | build, open, seek, prune | `SsTables`, `BloomFilter` |

**How they interact.** Client threads serialise on `mvcc.write_lock`, insert a
batch in the current memtable under a read guard of `state`, and freeze that
memtable when it is large enough. The flush thread writes the oldest immutable
memtable to an SST without holding any lock, then takes `state_lock` and the
write guard and moves the id from `imm_memtables` to `l0_sstables` (or to a new
tier). The compaction thread rewrites SSTs. Readers clone the `Arc` of the state
once and read on, whatever replaces it meanwhile. Every change of the state
builds a whole new `LsmStorageState` and replaces the old one.

**What is hard in it.** The state is copied under one guard and replaced under
another, so anything in between is lost unless `state_lock` covers both;
`force_flush_next_imm_memtable` picks its memtable before it takes that lock; a
failed write leaves its records at a timestamp the next batch uses; the lists
are ordered newest first and the merging iterators trust that order; a crash can
fall between a state change and its manifest record. `PROJECT.json` lists these
hazards at their lines, with the properties aimed at each.

At this commit `Manifest::create`, `recover` and `add_record_when_init`,
`Wal::put_batch` and `Transaction::commit` are `unimplemented!()`, and
`Watermark` is a stub. The manifest is modelled as what its callers require of
it, a durable append-only log; the others are not modelled.

## 2. Modules

* **VersionedTables** is the data: a *cell* is a user key with a timestamp, a
  *table* the content of one memtable or one SST. `MergeIterator`,
  `TwoMergeIterator` and `SstConcatIterator` are functions from tables to the
  table their iteration yields, `Entries` the order of its cells in a file; `ValueAt` is what `get_with_ts` returns from it.
* **KvStore** is the abstract specification: one multi-version map and a commit
  timestamp. `Stage` adds a cell at the next timestamp, `Commit` advances it.
* **LsmStorage** is the engine. Its variables are named after the code's fields
  and locals; `state` is a record of the fields of `LsmStorageState`, whose
  memtables are named by id. Locals that survive a step (`batch`, `write_ts`,
  `new_state`, `flush_id`, `snapshot`) are functions of the thread. An action is
  what a thread does between two points where others can run: a lock
  acquisition, the release of one, one insertion of a batch, one file operation.
  `AllocateId`, `WriteReturns`, `Frozen` and `Flushed` are the shared parts.
  `RecordsOf` to `NewestFirst` are the lists `open` reads from the manifest.
* **CompactionControllers** has no variables: the tasks and the results of the
  three policies, as operators on a record with `l0_sstables` and `levels`. It
  is instantiated twice.
* **CompactionSimulator** drives it as `bin/compaction-simulator.rs` does: flush
  one SST, compact until there is no task. `MockStorage` holds no data; the
  variable `holds` adds the records a real compaction would have put in each
  SST, so that losing or misplacing one can be said.
* **LsmCompaction** extends LsmStorage with the compaction thread and with
  threads calling `force_full_compaction`. A compaction is five actions, at the
  points where others can run: the task from one snapshot of the state, the
  merge, the clone of the state for its replacement, the replacement
  (`force_full_compaction` edits the current state instead), the removal of
  files. `EngineStep` is any step of LsmStorage. Nothing keeps compactions apart
  from writes, freezes, flushes or each other, because nothing in the code does. The
  auxiliary variable `raced` records whether an installation has overtaken another
  one (`Races`); no action reads it.
* **LsmClose** extends LsmStorage with `close` (without a WAL): the message to
  the flush thread, the join, the read guard `close` keeps, the freeze and the
  loop. The closing thread runs the code of a forcer. `During` is a step of
  LsmStorage beside `close`: while the guard is held no step that needs the
  write guard is possible. The join of the compaction thread is left out (it is
  the same as the other), and so is parking_lot's making new readers wait behind
  a waiting writer, which could only block more.
* **SsTables** is an SST file: the sorted entries of a table cut into blocks, the
  block meta with first and last keys, `max_ts` as `open` computes it, the two
  tests that rule an SST out, and seeking to a position (block, index).
  **BloomFilter** is the filter as the set of its bits, with the probes of the
  code on hashes of `HashBits` bits.
* **LsmRecovery** extends LsmStorage with a WAL per memtable, failing appends,
  and `Reopen`: the process ends at any step and `open` builds the state from
  the manifest, the WALs and the SSTs. Of each WAL up to `BufferedRecords`
  records may be lost while somebody holds the memtable: nothing flushes the
  `BufWriter` but its drop. `UnloggedStep` is any step of LsmStorage that touches
  no WAL.
* **LsmIterators** is the iterators as cursors: a record whose `kind` names the
  Rust type (`mem`, `local`, `sst`, `concat`, `merge`, `two`, `lsm`), and
  `IsValid`, `KeyOf`, `ValueOf`, `NextOf` by kind. Memtables and a transaction's
  writes change under a cursor and are handed in as `live`.
* **LsmTransaction** is one transaction over an arrangement of two batches in six
  layers, chosen at the start: `get_with_ts` and `scan_with_ts` as they build
  their iterators, the local workspace, the scan's iterator step by step, and a
  writer that inserts newer versions in the memtable under it.
* The **MC** modules give TLC its constants.
* The **Proofs** modules hold the theorems (section 4): VersionedTablesProofs about
  the merges, LsmStorageProofs the inductive invariant of the engine,
  LsmRefinementProofs the refinement, LsmReadProofs what readers and writers rely
  on, LsmManifestProofs the manifest, LsmCloseProofs `close`, LsmRecoveryProofs
  crashes and restarts, LsmCompactionProofs compaction.

Abstractions in LsmStorage: a memtable's size is counted in insertions; values
are one value and the tombstone; a read sees the whole of each table (pruning, seeks and
ranges are LsmTransaction's);
the RwLock is visible only where a guard is held across a step, which is
`put_batch` (`ReadGuardHeld`). Threads that return an error drop their guards,
as Rust does; a panic drops them too and ends the thread.

Abstractions in the compaction modules: the options are records in a set, so
that one run covers many settings; sizes are in the unit of `base_level_size`;
the simulator's random key ranges are three fixed ones, two of which share one
key; its statistics are left out. In LsmCompaction an SST is full after
`SstCells` entries (the code counts the bytes of finished blocks), and an SST
left without entries, which has no block to read, makes a compaction that reads
it panic (`CanRead`); a reader that meets one is not modelled. A record of the
engine's `sstables` map is its id: what is in it cannot change. An SST written by a
compaction has no memtable of its id; `memtables` repeats its content there, which
nothing reads, so that one invariant speaks of all SSTs.

Abstractions in the modules of reads and recovery: keys are integers and not
empty (`MemTableIterator::is_valid` takes an empty key for the end); blocks are
cut after `BlockEntries` entries instead of bytes; prefix compression, checksums,
16-bit lengths and the block cache are left out; hashes of the read set are the
keys themselves; block reads do not fail; the layers under an open scan stay (a
reader keeps its snapshot, which LsmStorage shows to be enough). A crash loses
buffered records whole: a record torn in the middle would make `Wal::recover`
panic. The first `open` of a directory is over before the first crash.

`FlushedAtOldEnd`, `FrozenStillActive` and the other definitions marked
*Mutant* are plausible bugs. Nothing uses them; each replaces the definition
that follows it to show that a property would catch that bug.

## 3. What TLC checks

| Run | Instance | Properties |
|---|---|---|
| `core` | 2 writers, 1 transaction, flush thread, 2 keys, 3 commits, 3 batches (one writes a key twice), freeze after 2 insertions, no faults | `TypeOK`, `BatchIsWhole`, `SnapshotReadsAgree`, `FlushedContentIsFinal`, `NoFlushPanic`, `ManifestRecoversState`, `ImplementsKvStore` |
| `force_flush` | 1 writer, `force_flush` against the flush thread, tiers, 1 commit, 2 faults, put and delete of one key, `FairSpec` | `FlushedContentIsFinal`, `ImplementsKvStore`, `OldestIsFlushed`, `WritesReturn` |
| `simulator` | 7 flushes under 76 settings: simple with 1-4 levels, tiered with 2-4 tiers, leveled with 2-3 levels | `TypeOK`, `NeverPanics`, `NothingLost`, `NewerAbove`, `BottomTaskHoldsOldest`, `SettledAsTested` |
| `compaction` | 1 writer, flush thread, compaction thread, `force_full_compaction`, 2 commits of 2 keys, 1 fault, one entry in an SST, ids up to 8; simple and leveled | `CompactionTypeOK`, `FilesMatchState`, `LevelsAreRuns`, `PanicsOnlyOnEmptySst`, `OnlyDropsTombstones` |
| `compaction_tiered` | tiers and a transaction, without faults and `force_full_compaction`, 3 commits, two entries in an SST, ids up to 8; merging all tiers, or two of three | `PanicsOnlyOnEmptySst`, `OnlyDropsTombstones`, `SnapshotIsStable` |
| `close` | 1 writer, flush thread, `close`, 3 commits, 1 fault | `CloseTypeOK`, `CloseFlushesAll`, `NothingFlushedAfterClose`, `JoinReturns` |
| `recovery` | 1 writer, flush thread, WAL, tiers, 2 commits of 2 keys (a batch of two records, one of three), 1 fault, 2 restarts, 1 buffered record | `RecoveryTypeOK`, `DirectoryCanBeOpened`, `AckedIsRead` |
| `scan` | 1 transaction with two calls, 3 keys, 63 arrangements of two batches at two timestamps, 5 ranges, a writer with two records | `TxnTypeOK`, `GetReadsSnapshot`, `ScanReadsSnapshot` |
| `lost_update`, `tombstone`, `close_hangs`, `recovery_ts` | see below | violated: `CompactionKeepsFlushes`, `DeletedStaysDeleted`, `CloseReturns`, `CommitTsCoversData` |

* `core` shows that every interleaving of batches, freezes, flushes and reads is
  a behaviour of `KvStore`, that a transaction gets the answers of the current
  state at its timestamp although it reads an old one, that the flush thread
  alone never trips the assertion of `force_flush_next_imm_memtable`, and that
  the manifest can rebuild the lists at every instant. Deadlock is checked: the
  writers stop at `MaxTs` but the transaction can always go on.
* `force_flush` has the behaviours its comment warns of ("Only call this in test
  cases due to race conditions"): two flushers pick the same memtable and one
  panics (`FlushPanics`). It shows that no content is lost or reordered all the
  same. A failed batch and its retry use the same timestamp with different
  values, so the order of `levels` matters. It really stops (panicked threads),
  hence CHECK_DEADLOCK FALSE. Under `FairSpec`
  it shows that a failed flush is retried and the oldest memtable of a backlog
  flushed, unless the flush thread has panicked, and that no order of locks
  keeps a writer waiting.
* `simulator` shows that the policies keep every record, in order of age, and
  settle in the shape `check_compaction_ratio` of the tests asserts, with two
  exceptions named below. It stops
  after `Iterations` flushes, hence CHECK_DEADLOCK FALSE, as in the compaction
  runs, where `MaxTs` and `MaxSstId` stop the clients.
* `compaction` and `compaction_tiered` show that compaction takes nothing out of
  the merged view but delete markers (`OnlyDropsTombstones`), that every SST of
  the state is on disk, and nothing else is once all is quiet, and that the
  levels stay sorted runs, while clients write and memtables are frozen and flushed
  at every point of a compaction. An SST or a tier flushed while a compaction merges
  is in the state it clones later, and must stay in its place. What breaks the code
  is an installation that overtakes another (`lost_update`): a replacement computed
  from a state that is no longer the current one, or installed under a freeze that
  has cloned the state, or under another compaction that has its task from it
  (`Races`). From then on `raced` holds and the properties say nothing: the run goes up to that step and no further (CONSTRAINT
  `NotRaced`), which loses nothing, since `raced` is never reset and each property of
  these runs but the type invariant is conditioned on it. What the step itself does is `lost_update`'s
  question, which has no constraint.

* `close` shows that the join ends whatever the flush thread was doing, also
  after a failed flush, that no flush ends after `close` did, and that Ok means
  flushed. It says less than it seems: `close` returns Ok only when there is
  nothing left to freeze or flush when it takes its guard (see `close_hangs`).
  The writer stops at `MaxTs`, hence CHECK_DEADLOCK FALSE.

* `recovery` shows that the order of files, records and state changes is right:
  whenever the process ends, every file that replay needs is there, no value that
  was acknowledged and reached its WAL is shadowed by a failed attempt or by the
  order in which recovery stacks memtables and SSTs (it puts tiers into L0). A WAL
  left by a crash makes a later freeze fail (`FreezeCreateFails`) and nothing else.
  What is lost is only what a `BufWriter` held back: the process ends, the machine does not.
* `scan` shows that what a `get` and a scan give is `ValueAt` of the merged
  layers, whatever pruning, seeks, block and SST boundaries, merge order, markers
  and newer versions lie between, while a writer inserts in the memtable being
  scanned. A failed attempt at the last batch, frozen by `force_flush`, lies below it with other values at the
  same timestamp, so that the tie-break of the merges matters. The transaction
  and the writer stop: CHECK_DEADLOCK FALSE.

**What the code does not do.** Four runs state what a comment or a test says
and are violated:

* `lost_update`: `trigger_compaction` clones the state,
  prepares its replacement and installs it without `state_lock`. A freeze in
  between is undone: the new memtable id and the frozen memtable leave the
  state, and acknowledged writes with them. The comment of
  `apply_compaction_result` asks implementers to think about just this case.
* `tombstone`: a compaction to the bottom drops a delete marker and keeps the
  older versions of the key, as MVCC needs; the deleted key is back. The test of
  `week2_day1.rs` expects the marker to stay while `TS_ENABLED`.
* `close_hangs`: a put, then `close`. It takes a read guard and, holding it,
  freezes the memtable, which waits for the write guard: the thread waits for
  itself. The tests of `week2_day5.rs` call `close().unwrap()` after writes and
  assert that the memtables are empty then.

* `recovery_ts`: two batches leave an SST whose newest version lies between two
  older ones in a block. `SsTable::open` reads timestamps from block boundaries
  only, so the engine restarts with a commit timestamp below data it holds.

More limits were met and are kept out by the bounds and options of the passing
runs:

* With `max_merge_width` below the number of tiers, `bottom_tier_included` is
  true although older tiers remain (`tiered.rs:111`), so `BottomTaskHoldsOldest`
  fails. With `num_tiers = 1` or `min_merge_width = 1` tiered compaction never
  settles. With `num_tiers = 4` it settles at tiers of 1, 1 and 1 (fewer tiers than
  `num_tiers` are left alone), for which `check_compaction_ratio` would fail: the
  size ratio (`tests/harness.rs:398`) with `size_ratio = 1`, and the space
  amplification (`:409`) with `max_size_amplification_percent = 100`. Every test and
  the command line use three tiers; `TieredSettled` states the two ratios for
  `num_tiers` up to three (`TestedTiers`), the number of tiers and the empty L0 for all.
* `force_full_compaction` reads and writes `levels[0]` whatever the policy is: under
  the tiered policy it panics while there is no tier, and rewrites the newest tier as
  one numbered 1. No run calls it there.
* Leveled compaction waits for *more* SSTs in L0 than its trigger
  (`leveled.rs:98`); the test harness asserts that fewer remain
  (`tests/harness.rs:363`). `SettledAsTested` leaves that assertion out.
* `recovery` has `BlockEntries = 2`, where every entry is at a boundary of its
  block, so that the recovered commit timestamp is right and `AckedIsRead` speaks of
  the rest of recovery; with longer blocks batches take timestamps of recovered cells
  again after the fault of `recovery_ts`, and can overwrite what was acknowledged.
* A memtable holds more than a `BufWriter` holds back in `recovery` (3 records
  against 1, for 2 MB against 8 KB). When all of it is held back, as with a tiny
  `target_sst_size` or after `force_flush`, a crash recovers a frozen memtable
  that is empty, its flush writes an SST without blocks, and scans and the next
  `open` panic on it (`table.rs:168`).
* `recovery` has no `force_flush`. With it, a failed batch and a failed `Flush`
  record, recovery puts an older memtable above a newer SST, and the failed
  batch's value replaces an acknowledged one at the same timestamp.
* WAL records carry no batch boundary: half a batch can come back after a crash,
  and so can the records of a batch that failed; both are committed then. The
  newest memtables may come back whole while an older one lost its tail.
  `AckedIsRead` says nothing of the records that were cut.

**Bounds.** `Iterations` (flushes of the simulator; seven reach every level and
a second round of compactions into it), `MaxSstId` (no compaction starts once
that many ids are used, since `force_full_compaction` rewrites the same data any
number of times; the numbers leave room for a compaction of what a compaction has
written, and for the flushes beside it), `MaxTs` (commits), `MaxFaults` (failing I/O
calls) and the set `Batches`. Two insertions fill a memtable in `core`, so that three commits make
several freezes, a backlog and flushes behind a reader; the two-record batch
makes half-written batches possible. `MaxCrashes` (a second restart finds what
the first one left) and `BufferedRecords` bound recovery. `MaxCalls` is two: a
get or a write before a scan, or a write during one; three keys and blocks of two
entries put a key at, before and behind each boundary, and `HashBits`,
`FilterBits` and `FilterProbes` are small enough for two keys to collide.

**Fairness.** `Fairness` asks that a thread inside an operation keeps running
(mutexes are granted when free) and that the flush thread's ticker fires for as
long as a tick has something to do, which is what `tick(50 ms)` in a loop gives.
`CloseFairness` adds that the closing thread keeps running and that the flush
thread sees its message, which `select!` offers it at every turn.
Nothing obliges a client to start an operation, and nothing obliges an I/O call
to succeed beyond the bound on faults.

## 4. What is proved

For any threads, keys, values, batches, limits and number of faults, from
`TablesAssumption`, `StorageAssumption`, `CloserAssumption`, `SsTablesAssumption`,
`RecoveryAssumption` and `CompactionAssumption` (sets of threads are disjoint, keys are finitely many
integers where SSTs are cut into blocks, `Tombstone \in Values`, `NoEntry \notin Values`, `Nil` is neither a
number nor a state, batches are sequences of records, limits are positive, the
closing thread is a forcer, a policy finds the levels that
`LsmStorageState::create` makes for it):

| Theorem | States |
|---|---|
| `LsmStorageProofs!TypeCorrect` | `Spec => []TypeOK` |
| `LsmStorageProofs!FlushedContentFinal` | `Spec => []FlushedContentIsFinal` |
| `LsmStorageProofs!NoPanicWithoutForceFlush` | if `Forcers = {}`, `Spec => []NoFlushPanic` |
| `LsmRefinementProofs!StorageImplementsKvStore` | `Spec => ImplementsKvStore` |
| `LsmReadProofs!ReadersAgree` | `Spec => []SnapshotReadsAgree` |
| `LsmReadProofs!BatchesAreWhole` | `Spec => []BatchIsWhole` |
| `LsmReadProofs!CommittedCellsKept` | `Spec => KV!CommittedCellsKept` |
| `LsmManifestProofs!ManifestRecovers` | `Spec => []ManifestRecoversState` |
| `LsmCloseProofs!CloseTypeCorrect` | `CloseSpec => []CloseTypeOK` |
| `LsmCloseProofs!CloseFlushes` | `CloseSpec => CloseFlushesAll` |
| `LsmCloseProofs!ClosedIsQuiet` | if `Forcers = {Closer}`, `CloseSpec => NothingFlushedAfterClose` |
| `LsmRecoveryProofs!RecoveryTypeCorrect` | `RecoverySpec => []RecoveryTypeOK` |
| `LsmRecoveryProofs!FlushedContentFinalAfterCrash` | `RecoverySpec => []FlushedContentIsFinal` |
| `LsmRecoveryProofs!ReplayFindsEveryWal` | `RecoverySpec => []ReplayFindsWals` |
| `LsmRecoveryProofs!ManifestRecoversAfterCrash` | `RecoverySpec => []ManifestRecoversState` |
| `LsmRecoveryProofs!DirectoryAlwaysOpens` | if `OnlyFullOnesFreeze`, `RecoverySpec => []DirectoryCanBeOpened` |
| `LsmRecoveryProofs!RecoveredTsCovers` | `RecoverySpec => OnlyInsideBlocksMissed` |
| `LsmRecoveryProofs!AckedIsReadForGood` | if `Forcers = {}`, `RecoverySpec /\ CommitTsCoversData => []AckedIsRead` |
| `LsmCompactionProofs!CompactionInvariant` | `CompactionSpec => [](raced \/ CompInv)` |
| `LsmCompactionProofs!FilesFollowState` | `CompactionSpec => []FilesMatchState` |
| `LsmCompactionProofs!PanicsOnEmptySstOnly` | if `FullCompactors = {} \/ FlushToL0`, `CompactionSpec => []PanicsOnlyOnEmptySst` |
| `LsmCompactionProofs!SnapshotsStable` | `CompactionSpec => SnapshotIsStable` |
| `LsmCompactionProofs!OnlyTombstonesDropped` | if `Forcers = {}`, `CompactionSpec => OnlyDropsTombstones` |

**The inductive invariant.** `TypeOK` is not inductive. `IInv` adds what the
code relies on without saying so: a thread in a critical section is the one its
mutex names (`LocksHeld`), a writer past `write_lock.lock()` works at
`commit_ts + 1` (`WriteInProgress`), every id in the state was allocated and the
active memtable is in no list (`IdsInState`), a prepared copy is still the
current state plus a fresh and empty memtable (`CopyIsCurrent`: this is what
`state_lock` is for), and the memtable being flushed is not the active one, with
its file, once built, equal to it (`FlushingIsFrozen`). One lemma per action
shows that it keeps each conjunct. TLC checked this invariant, and each one named
below, on the runs above before it was proved.

**No panic.** `NoPanicWithoutForceFlush` adds `FlushSolo`: between picking a
memtable and installing it, it stays the last of `imm_memtables`, because
freezes push at the other end. The assumption is the comment of `force_flush`
("Only call this in test cases due to race conditions"): `force_flush` shows the
panic without it.

**Refinement.** The mapping takes `versions` to `View(state)`, the merge of all
layers. `ViewIsStacked` writes the view as active memtable over immutable ones
over L0 over levels; `MergeFirst` and `MergeLast` (VersionedTablesProofs) say what
a table added at either end of a merged list does; so a freeze pushes an empty
table on top, a flush moves a table from the end of one list to the head of the
next, which leaves the stack equal (`StackedFlushToL0`, `StackedFlushToTier`:
under the tiered policy L0 stays empty, `TiersAlone`), and an insertion changes
one cell of it (`StackedPut`). `StepView` sums it up: nothing but `PutRecord`
changes the view.

**Readers.** `CommittedContentStays` is the fact behind every reader: insertions
go beyond the commit timestamp, an SST of the state is written again only with
what it holds, and the `sstables` map only grows. `SnapshotsCurrent` says that
up to a reader's timestamp the state it cloned and the engine's hold the same
cells. It does not compare the two states layer by layer (they need have no
layer in common): the view of the old state keeps its cells because the tables
it names do, the view of the new one by the refinement, and they were equal when
the reader cloned. `ValueAtAgrees` goes from cells to what `get_with_ts` returns.

**Batches.** `BatchesInView` says, until something fails, that no cell lies
beyond the timestamp being written, none at it when nobody writes, and that it
holds the last value among the records inserted so far (`LastAmong`). The
hypothesis `faults = 0` is real: after a failed batch its cells stay at the
timestamp the next one uses.

**Manifest.** `NewestFirst` chooses an enumeration, so what the proof needs first
is that there is only one (`EnumerationUnique`: look at the first place where two
of them differ). `Lists` then relates a list of ids to the records it comes
from, and a record appended adds an id at its head (`ListsNewer`), a `Flush`
record takes away the last memtable (`ListsFront`). `ManifestInv` keeps `Lists`
for L0 and for the memtables, with the one that is recorded and not yet
installed counted between the two steps of a freeze; it needs that no id is
recorded twice as a memtable.

**Close.** `CloseInv` adds to `IInv` that close's snapshot stays the state, that
its thread does nothing outside its guard, that the flush thread is gone before
it takes it (`CloseOrder`), and that the memtable holds nothing as old as the
call unless a freeze is under way (`MemtableIsNewer`). A freeze of close can end
in two ways only (`FreezeEnds`), one of which its own guard makes impossible
(`NoSwap`) and the other an error: so Ok means that there was nothing to freeze,
which is the finding of `close_hangs` seen from the other side. `ClosedIsQuiet`
assumes that no other thread calls `force_flush`: one that does still flushes
after `close`, which nothing in the code prevents.

**Recovery.** The invariants come in three layers, because the theorems need
different assumptions. `RecInv` needs none: it adds to `IInv` the types of the
WALs, that a file exists before a record names it (`FilesFirst`), and the
`Lists` of LsmManifestProofs in a form that failures and restarts keep; every
replay then finds a memtable to make active and its WAL. `Reopen` re-establishes
`IInv` from the manifest alone, which is why a second restart is no different
from the first.

`OpenInv` is about SSTs without blocks. A frozen memtable has `TargetSstSize`
insertions (`FreezesFull`), of which at most `faults` are missing from its log
(`SizeLogged`) and at most `BufferedRecords` are cut from it by a crash; so what
is recovered of it is not empty, and neither is its SST. That is
`OnlyFullOnesFreeze == Forcers = {} /\ TargetSstSize > BufferedRecords +
MaxFaults`. The code justifies it: a `BufWriter` holds 8 KiB, `target_sst_size`
is 1 MiB or more wherever it is set for use, and `force_flush` is for tests
(`lsm_storage.rs:273`). Where it does not hold the theorem is false (section 3).

`HeldInv` is about acknowledged values. Recovery changes the order of the
layers: tiers go to L0, and a flushed memtable whose `Flush` record was lost
comes back above SSTs newer than it. The argument therefore does not use the
order: no cell is held by two layers (`OneHolder`), so that whatever the order
`View` finds the one that has it. What makes this so is that cells beyond the
commit timestamp are in the active memtable only (`CellsPublished`), where the
batch that takes over a failed one's timestamp overwrites them, in the map and,
by the order of its records, in what the log gives back (`Holds`, `BatchesHeld`).
`AckedHeld` keeps both for the acknowledged value, `LayersOnRecord` and
`SstsListed` see to it that no replay and no view leaves a layer out. Each restart
must find a commit timestamp that covers the data, or a later batch is written
over acknowledged cells: `CommitTsCoversData` is therefore a hypothesis of
`AckedIsReadForGood`. It is a real one: `recovery_ts` shows a behaviour that breaks it.
How far the fault goes is `RecoveredTsCovers`, which has no hypothesis: a cell that
the recovered timestamp misses lies strictly inside a block of an SST
(`OnlyInsideBlocksMissed`). Cells that came back from a WAL, and those at either end
of a block, are covered.

`Forcers = {}` cannot be dropped. TLC finds, with one key, two faults and one
crash: a batch fails after its record is logged; `force_flush` freezes that
memtable and flushes it, but its `Flush` record is not written; the next batch
takes the same timestamp in the new memtable, is acknowledged and flushed; after
a crash the older memtable is recovered from its WAL above that SST, and the
failed value is read.

**Compaction.** The theorems are about behaviours up to the step at which one
installation overtakes another (`raced`): beyond it the state really loses data,
which is the finding of `lost_update`. Nothing else is assumed of the schedule. A
compaction may start, read, merge and install while any number of writers, freezes
and flushes are under way and other compactions have begun; any I/O call may fail;
the policy is any of the four. What an invariant must say is therefore what a
compaction can rely on while the engine moves under it, which is the question the
comment at `simple_leveled.rs:98` leaves to the reader.

`CompInv` extends `IInv`. Of a compaction under way it says that its task still
fits the state (`TaskFits`, one shape for each policy): what it was to read is in the
map and in the lists where the controllers will look for it. A freeze or a flush
keeps this (`FitsStays`), since it adds SSTs at the top and takes none out; an
installation of another compaction does not, which is why `Races` counts it. The
SSTs written hold what the inputs hold but for delete markers (`Produced`,
`SameCells`), are in no list of the state and belong to no other compaction
(`FlightsApart`). A prepared replacement takes exactly the inputs out of the state it was made from and
puts the output in (`Replaces`). That `apply_compaction_result` achieves this is one
lemma for each policy; they rest on the state being in order (`InOrder`): each SST is
in one list of one level (`ListsApart`), the levels are numbered as the controllers
index them, and no tier is empty (`LevelsShape`). For the leveled policy it matters
that sorting a level keeps its SSTs (`SortedElements`) and that
`find_overlapping_ssts` takes a part of the level; that what it
takes is enough for levels to stay sorted is `LevelsAreRuns`, which is left to TLC.
`FilesKept` says which files are on disk besides those of the state, and
`SnapshotsSettled` that the SSTs of a snapshot never change, which is all
`SnapshotsStable` needs: their files may be gone, the open `SsTable` is not.
`PanicsOnEmptySstOnly` follows from `TaskFits`, which leaves an SST without entries
as the only thing `CanRead` can miss, and from `EmptyKept`: such an SST stays in the
state, because every compaction that would take it panics. Its hypothesis is that
`force_full_compaction`, which indexes `levels[0]`, is called only where the state is
created with levels.

`OnlyTombstonesDropped` is about the merged view, and its invariant compares
layers: two that hold the same cell hold the same value (`HoldersAgree`), so that
it does not matter that the output of a merge is no layer that was there before.
This needs cells beyond the commit timestamp to be in the active memtable alone
(`CellsPublished`), or a batch that takes over a failed one's timestamp would
disagree with a frozen record of it. `force_flush` can freeze such a memtable in
the middle of a batch: hence `Forcers = {}`. Then a compactor's step adds no cell to the
layers and takes none away but markers (`OnlyTombstonesLost`), and `ViewHolder`
says the same of the view.

The controllers remove ids from lists (`Without`) and concatenate tiers
(`FlattenSeq`) by recursion. The library's theorem on recursive functions takes an
operator, so `RecursionExists` (LsmCompactionProofs) proves the existence of such a
function for the values at hand, by looking at the least length for which there is none;
`EntriesAreCells` (VersionedTablesProofs) does the like for the order in which
entries reach a builder: numbering by cardinality hits each number once.

Model-checked only: the invariants of the simulator, whose policies' decisions are
about sizes and ages over a whole history of flushes; `LevelsAreRuns`; the invariants of LsmTransaction, whose iterators are
RECURSIVE operators; and the liveness properties `OldestIsFlushed`, `WritesReturn` and
`JoinReturns`: liveness under fairness is out of the prover's reach.

## 5. Not modelled, and the plan

Done: the engine (VersionedTables, KvStore, LsmStorage), with a theorem for every
safety property its runs check; `close` (LsmClose) and crash and recovery
(LsmRecovery), likewise; compaction in the engine (LsmCompaction), proved for all
policies but for `LevelsAreRuns`; the policies and their
simulator; the read path with its transaction (SsTables, BloomFilter, LsmIterators,
LsmTransaction). Next:

1. Proofs: `LevelsAreRuns`, for which a leveled task must be shown to take a
   contiguous part of a sorted level; for SsTables, that a seek
   lands on the first entry not before the cell. LsmIterators and LsmTransaction
   have RECURSIVE operators and stay with TLC.
2. Compaction and recovery together, once the code records compactions in the
   manifest (`compact.rs:365` does not) and `Manifest::recover` exists.

Not modelled, and why: `Transaction::commit`, `Manifest` and the watermark are
stubs at this commit; the command-line client parses and prints; `debug.rs`
formats; byte encodings of keys, blocks and WAL records are data below what the
properties tell apart (their 16-bit lengths are listed as a hazard); the block
cache returns what the file holds, as long as SST ids are not reused.
