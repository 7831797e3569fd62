------------------------------- MODULE LsmStorage -------------------------------
(***************************************************************************)
(* The storage engine of src/lsm_storage.rs without compaction and without *)
(* a WAL: client threads running write_batch, the background flush thread  *)
(* of compact.rs, threads that call force_flush, and transactions reading  *)
(* at a fixed timestamp.                                                   *)
(*                                                                         *)
(* The engine state is one immutable structure behind an Arc in an RwLock: *)
(* it is replaced as a whole, never updated in place, and what a thread    *)
(* cloned stays as it was.  The memtables it points to are shared and do   *)
(* change in place.  An action is what a thread does between two points    *)
(* where another thread can run: lock acquisitions, lock releases and the  *)
(* insertions of a batch.                                                  *)
(***************************************************************************)
EXTENDS VersionedTables, FiniteSets

CONSTANTS
    Writers,          \* client threads calling put, delete or write_batch
    Readers,          \* client threads reading at one timestamp (Transaction)
    Forcers,          \* threads calling MiniLsm::force_flush
    FlushThread,      \* the thread of spawn_flush_thread
    NoThread,         \* a mutex nobody holds
    Nil,              \* a local variable with no value
    Batches,          \* the batches writers may write: sequences of records
    TargetSstSize,    \* options.target_sst_size, in insertions
    NumMemtableLimit, \* options.num_memtable_limit
    FlushToL0,        \* compaction_controller.flush_to_l0(): FALSE for tiered
    MaxLevels,        \* how many levels there are when FlushToL0
    MaxFaults         \* BOUND: how many I/O calls may fail

Flushers == Forcers \cup {FlushThread}
Freezers == Forcers \cup Writers
Threads == Writers \cup Readers \cup Flushers
Records == [key : Keys, value : Values]

ASSUME StorageAssumption ==
    /\ Writers \cap (Readers \cup Flushers) = {}
    /\ Readers \cap Flushers = {}
    /\ FlushThread \notin Forcers
    /\ NoThread \notin Threads
    /\ Nil \notin Nat
    /\ Batches \subseteq Seq(Records)
    /\ TargetSstSize \in Nat \ {0}
    /\ NumMemtableLimit \in Nat \ {0}
    /\ FlushToL0 \in BOOLEAN
    /\ MaxLevels \in Nat \ {0}
    /\ MaxFaults \in Nat

VARIABLES
    state,        \* LsmStorageState behind state: Arc<RwLock<Arc<_>>>
    memtables,    \* content of every MemTable ever created, by id
    approx_size,  \* approximate_size of every MemTable, by id
    sst_tables,   \* content of every SST file ever built, by id
    next_sst_id,  \* AtomicUsize
    manifest,     \* records appended to the MANIFEST
    commit_ts,    \* mvcc.ts.0
    write_lock,   \* mvcc.write_lock: the thread holding it
    state_lock,   \* state_lock: the thread holding it
    pc,           \* where each thread is
    batch,        \* write_batch: the records being written
    inserted,     \* put_batch: how many of them are in the memtable
    write_ts,     \* write_batch: ts
    new_state,    \* force_freeze_memtable: new_storage_state
    flush_id,     \* force_flush_next_imm_memtable: id of memtable_to_flush
    read_ts,      \* Transaction.read_ts
    snapshot,     \* get_with_ts, scan_with_ts: snapshot
    faults        \* how many I/O calls have failed so far

engine == <<state, memtables, approx_size, sst_tables, next_sst_id, manifest>>
mvcc == <<commit_ts, write_lock, batch, inserted, write_ts>>
freeze == <<state_lock, new_state>>
reading == <<read_ts, snapshot>>
vars == <<engine, mvcc, freeze, flush_id, reading, pc, faults>>

-------------------------------------------------------------------------------
(* States and what a reader finds in one                                   *)

Ids == 0 .. next_sst_id - 1

(* memtable and imm_memtables name their MemTable by id; sstables is the   *)
(* key set of the HashMap; a level is <<number, ids>>.                     *)
States == [memtable : Nat,
           imm_memtables : Seq(Nat),
           l0_sstables : Seq(Nat),
           levels : Seq(Nat \X Seq(Nat)),
           sstables : SUBSET Nat]

ManifestRecords == [kind : {"NewMemtable", "Flush"}, id : Nat]

Last(s) == s[Len(s)]
Front(s) == SubSeq(s, 1, Len(s) - 1)
InsertFirst(x, s) == <<x>> \o s
IdsOf(s) == {s[i] : i \in DOMAIN s}

MemtableLayers(s) ==
    [i \in 1 .. Len(s.imm_memtables) + 1 |->
        memtables[IF i = 1 THEN s.memtable ELSE s.imm_memtables[i - 1]]]

L0Layers(s) == [i \in DOMAIN s.l0_sstables |-> sst_tables[s.l0_sstables[i]]]

LevelLayers(s) ==
    [i \in DOMAIN s.levels |->
        SstConcatIterator(
            [j \in DOMAIN s.levels[i][2] |-> sst_tables[s.levels[i][2][j]]])]

(* The iterator get_with_ts and scan_with_ts build over a snapshot.        *)
View(s) ==
    TwoMergeIterator(
        TwoMergeIterator(MergeIterator(MemtableLayers(s)),
                         MergeIterator(L0Layers(s))),
        MergeIterator(LevelLayers(s)))

-------------------------------------------------------------------------------
(* LsmStorageInner::open on a directory that does not exist yet            *)

InitState == [memtable |-> 0,
              imm_memtables |-> <<>>,
              l0_sstables |-> <<>>,
              levels |-> IF FlushToL0 THEN [i \in 1 .. MaxLevels |-> <<i, <<>>>>]
                         ELSE <<>>,
              sstables |-> {}]

Init ==
    /\ state = InitState
    /\ memtables = [id \in {0} |-> EmptyTable]
    /\ approx_size = [id \in {0} |-> 0]
    /\ sst_tables = [id \in {0} |-> EmptyTable]
    /\ next_sst_id = 1
    /\ manifest = <<>>
    /\ commit_ts = 0
    /\ write_lock = NoThread
    /\ state_lock = NoThread
    /\ pc = [t \in Threads |-> "idle"]
    /\ batch = [w \in Writers |-> <<>>]
    /\ inserted = [w \in Writers |-> 0]
    /\ write_ts = [w \in Writers |-> 0]
    /\ new_state = [t \in Freezers |-> Nil]
    /\ flush_id = [t \in Flushers |-> Nil]
    /\ read_ts = [r \in Readers |-> 0]
    /\ snapshot = [r \in Readers |-> Nil]
    /\ faults = 0

-------------------------------------------------------------------------------
Goto(t, label) == pc' = [pc EXCEPT ![t] = label]

(* state.read() is held while a batch is inserted; the other uses of the   *)
(* RwLock are too short to be seen between two actions.                    *)
ReadGuardHeld == \E w \in Writers : pc[w] = "put"

(* An I/O call returns Err, as long as the bound allows.                   *)
Fault == faults < MaxFaults /\ faults' = faults + 1

(* Mutant: next_sst_id.load() where the code has fetch_add(1).             *)
AllocateIdWithoutIncrement ==
    LET id == next_sst_id
    IN /\ next_sst_id' = id
       /\ memtables' = [i \in 0 .. id |-> IF i = id THEN EmptyTable ELSE memtables[i]]
       /\ approx_size' = [i \in 0 .. id |-> IF i = id THEN 0 ELSE approx_size[i]]
       /\ sst_tables' = [i \in 0 .. id |-> IF i = id THEN EmptyTable ELSE sst_tables[i]]

(* next_sst_id.fetch_add(1), together with the new id's objects.           *)
AllocateId ==
    LET id == next_sst_id
    IN /\ next_sst_id' = id + 1
       /\ memtables' = [i \in 0 .. id |-> IF i = id THEN EmptyTable ELSE memtables[i]]
       /\ approx_size' = [i \in 0 .. id |-> IF i = id THEN 0 ELSE approx_size[i]]
       /\ sst_tables' = [i \in 0 .. id |-> IF i = id THEN EmptyTable ELSE sst_tables[i]]

-------------------------------------------------------------------------------
(* write_batch                                                             *)

(* Mutant: two writers pick the same timestamp.                            *)
WriteBeginWithoutLock(w) ==
    /\ pc[w] = "idle"
    /\ commit_ts < MaxTs
    /\ write_lock' = w
    /\ write_ts' = [write_ts EXCEPT ![w] = commit_ts + 1]
    /\ \E b \in Batches :
        /\ batch' = [batch EXCEPT ![w] = b]
        /\ Goto(w, IF b = <<>> THEN "try_freeze" ELSE "put")
    /\ UNCHANGED <<engine, commit_ts, inserted, freeze, flush_id, reading, faults>>

(* Takes the write lock, picks the timestamp, and locks state for reading. *)
WriteBegin(w) ==
    /\ pc[w] = "idle"
    /\ write_lock = NoThread
    /\ commit_ts < MaxTs
    /\ write_lock' = w
    /\ write_ts' = [write_ts EXCEPT ![w] = commit_ts + 1]
    /\ \E b \in Batches :
        /\ batch' = [batch EXCEPT ![w] = b]
        /\ Goto(w, IF b = <<>> THEN "try_freeze" ELSE "put")
    /\ UNCHANGED <<engine, commit_ts, inserted, freeze, flush_id, reading, faults>>

(* One iteration of MemTable::put_batch; the last one drops the guard.     *)
PutRecord(w) ==
    LET record == batch[w][inserted[w] + 1]
        id == state.memtable
    IN /\ pc[w] = "put"
       /\ memtables' =
            [memtables EXCEPT ![id][<<record.key, write_ts[w]>>] = record.value]
       /\ approx_size' = [approx_size EXCEPT ![id] = @ + 1]
       /\ inserted' = [inserted EXCEPT ![w] = @ + 1]
       /\ Goto(w, IF inserted[w] + 1 = Len(batch[w]) THEN "try_freeze" ELSE "put")
       /\ UNCHANGED <<state, sst_tables, next_sst_id, manifest, commit_ts,
                      write_lock, batch, write_ts, freeze, flush_id, reading, faults>>

(* try_freeze reads the size of whatever memtable is current by now.       *)
TryFreeze(w) ==
    /\ pc[w] = "try_freeze"
    /\ Goto(w, IF approx_size[state.memtable] >= TargetSstSize
               THEN "freeze_lock" ELSE "commit")
    /\ UNCHANGED <<engine, mvcc, freeze, flush_id, reading, faults>>

(* write_batch returns, with or without an error, and drops its guards and *)
(* its local variables.                                                    *)
WriteReturns(w) ==
    /\ write_lock' = NoThread
    /\ batch' = [batch EXCEPT ![w] = <<>>]
    /\ inserted' = [inserted EXCEPT ![w] = 0]
    /\ write_ts' = [write_ts EXCEPT ![w] = 0]

(* update_commit_ts.                                                       *)
Commit(w) ==
    /\ pc[w] = "commit"
    /\ commit_ts' = write_ts[w]
    /\ WriteReturns(w)
    /\ Goto(w, "idle")
    /\ UNCHANGED <<engine, freeze, flush_id, reading, faults>>

-------------------------------------------------------------------------------
(* force_freeze_memtable, called by try_freeze and by force_flush          *)

(* Mutant: the state is copied and replaced without state_lock.            *)
FreezeWithoutLock(t) ==
    /\ pc[t] = "freeze_lock"
    /\ Goto(t, "freeze_copy")
    /\ UNCHANGED <<engine, mvcc, freeze, flush_id, reading, faults>>

FreezeLock(t) ==
    /\ pc[t] = "freeze_lock"
    /\ state_lock = NoThread
    /\ state_lock' = t
    /\ Goto(t, "freeze_copy")
    /\ UNCHANGED <<engine, mvcc, new_state, flush_id, reading, faults>>

(* Mutants: the frozen memtable stays active; it is pushed at the old end. *)
FrozenStillActive(s, id) ==
    [s EXCEPT !.imm_memtables = InsertFirst(s.memtable, @)]

FrozenAtOldEnd(s, id) ==
    [s EXCEPT !.memtable = id, !.imm_memtables = Append(@, s.memtable)]

(* s with its memtable pushed to imm_memtables and replaced by memtable id.*)
Frozen(s, id) ==
    [s EXCEPT !.memtable = id, !.imm_memtables = InsertFirst(s.memtable, @)]

(* Clones the state under a read guard, drops the guard, and prepares the  *)
(* next state with a fresh memtable.                                       *)
FreezeCopy(t) ==
    /\ pc[t] = "freeze_copy"
    /\ AllocateId
    /\ new_state' = [new_state EXCEPT ![t] = Frozen(state, next_sst_id)]
    /\ Goto(t, "freeze_record")
    /\ UNCHANGED <<state, manifest, mvcc, state_lock, flush_id, reading, faults>>

(* manifest.add_record(NewMemtable(id)) succeeds.                          *)
FreezeRecord(t) ==
    /\ pc[t] = "freeze_record"
    /\ manifest' = Append(manifest,
            [kind |-> "NewMemtable", id |-> new_state[t].memtable])
    /\ Goto(t, "freeze_swap")
    /\ UNCHANGED <<state, memtables, approx_size, sst_tables, next_sst_id,
                   mvcc, freeze, flush_id, reading, faults>>

(* Mutant: the failed freeze leaks its lock guard.                         *)
FreezeFailsLocked(t) ==
    /\ pc[t] = "freeze_record"
    /\ Fault
    /\ new_state' = [new_state EXCEPT ![t] = Nil]
    /\ \/ t \in Writers /\ WriteReturns(t)
       \/ t \notin Writers /\ UNCHANGED <<write_lock, batch, inserted, write_ts>>
    /\ Goto(t, "idle")
    /\ UNCHANGED <<engine, commit_ts, state_lock, flush_id, reading>>

(* It fails: `?` returns the error through every caller, all guards drop   *)
(* and a write_batch ends without update_commit_ts.                        *)
FreezeFails(t) ==
    /\ pc[t] = "freeze_record"
    /\ Fault
    /\ new_state' = [new_state EXCEPT ![t] = Nil]
    /\ state_lock' = NoThread
    /\ \/ t \in Writers /\ WriteReturns(t)
       \/ t \notin Writers /\ UNCHANGED <<write_lock, batch, inserted, write_ts>>
    /\ Goto(t, "idle")
    /\ UNCHANGED <<engine, commit_ts, flush_id, reading>>

(* Installs the copy made by FreezeCopy; state_lock is dropped.            *)
FreezeSwap(t) ==
    /\ pc[t] = "freeze_swap"
    /\ ~ ReadGuardHeld
    /\ state' = new_state[t]
    /\ new_state' = [new_state EXCEPT ![t] = Nil]
    /\ state_lock' = NoThread
    /\ Goto(t, IF t \in Writers THEN "commit" ELSE "flush_check")
    /\ UNCHANGED <<memtables, approx_size, sst_tables, next_sst_id, manifest,
                   mvcc, flush_id, reading, faults>>

-------------------------------------------------------------------------------
(* force_flush and the flush thread                                        *)

(* force_flush: freezes unless the memtable is empty at this moment.       *)
ForceFlush(f) ==
    /\ pc[f] = "idle"
    /\ Goto(f, IF memtables[state.memtable] # EmptyTable
               THEN "freeze_lock" ELSE "flush_check")
    /\ UNCHANGED <<engine, mvcc, freeze, flush_id, reading, faults>>

ForceFlushCheck(f) ==
    /\ pc[f] = "flush_check"
    /\ Goto(f, IF state.imm_memtables # <<>> THEN "flush_pick" ELSE "idle")
    /\ UNCHANGED <<engine, mvcc, freeze, flush_id, reading, faults>>

(* Mutant: the active memtable is not counted against the limit.           *)
TriggerFlushLate ==
    /\ pc[FlushThread] = "idle"
    /\ Len(state.imm_memtables) > NumMemtableLimit
    /\ Goto(FlushThread, "flush_pick")
    /\ UNCHANGED <<engine, mvcc, freeze, flush_id, reading, faults>>

(* A tick of the flush thread that finds too many memtables; a tick that   *)
(* does not changes nothing.                                               *)
TriggerFlush ==
    /\ pc[FlushThread] = "idle"
    /\ 1 + Len(state.imm_memtables) > NumMemtableLimit
    /\ Goto(FlushThread, "flush_pick")
    /\ UNCHANGED <<engine, mvcc, freeze, flush_id, reading, faults>>

(* force_flush_next_imm_memtable clones the oldest immutable memtable...   *)
FlushPick(t) ==
    /\ pc[t] = "flush_pick"
    /\ IF state.imm_memtables = <<>>
       THEN /\ Goto(t, "idle")
            /\ UNCHANGED flush_id
       ELSE /\ Goto(t, "flush_build")
            /\ flush_id' = [flush_id EXCEPT ![t] = Last(state.imm_memtables)]
    /\ UNCHANGED <<engine, mvcc, freeze, reading, faults>>

(* Mutant: the SST is built from the active memtable.                      *)
FlushBuildActive(t) ==
    /\ pc[t] = "flush_build"
    /\ sst_tables' = [sst_tables EXCEPT ![flush_id[t]] = memtables[state.memtable]]
    /\ Goto(t, "flush_lock")
    /\ UNCHANGED <<state, memtables, approx_size, next_sst_id, manifest, mvcc,
                   freeze, flush_id, reading, faults>>

(* ...writes its content to the SST file of the same id...                 *)
FlushBuild(t) ==
    /\ pc[t] = "flush_build"
    /\ sst_tables' = [sst_tables EXCEPT ![flush_id[t]] = memtables[flush_id[t]]]
    /\ Goto(t, "flush_lock")
    /\ UNCHANGED <<state, memtables, approx_size, next_sst_id, manifest, mvcc,
                   freeze, flush_id, reading, faults>>

(* ...or fails to: trigger_flush's caller logs the error and ticks on.     *)
FlushFails(t) ==
    /\ pc[t] = "flush_build"
    /\ Fault
    /\ flush_id' = [flush_id EXCEPT ![t] = Nil]
    /\ Goto(t, "idle")
    /\ UNCHANGED <<engine, mvcc, freeze, reading>>

(* ...takes state_lock...                                                  *)
FlushLock(t) ==
    /\ pc[t] = "flush_lock"
    /\ state_lock = NoThread
    /\ state_lock' = t
    /\ Goto(t, "flush_install")
    /\ UNCHANGED <<engine, mvcc, new_state, flush_id, reading, faults>>

(* ...and, under the write guard, moves the id from the memtables to the   *)
(* SSTs.  Both locks are dropped at the end, by a panic too.               *)
FlushIsOldest(t) ==
    /\ state.imm_memtables # <<>>
    /\ Last(state.imm_memtables) = flush_id[t]

(* Mutant: a flushed memtable becomes the oldest SST, not the newest.      *)
FlushedAtOldEnd(s, id) ==
    LET popped == [s EXCEPT !.imm_memtables = Front(@), !.sstables = @ \cup {id}]
    IN IF FlushToL0
       THEN [popped EXCEPT !.l0_sstables = Append(@, id)]
       ELSE [popped EXCEPT !.levels = Append(@, <<id, <<id>>>>)]

Flushed(s, id) ==
    LET popped == [s EXCEPT !.imm_memtables = Front(@), !.sstables = @ \cup {id}]
    IN IF FlushToL0
       THEN [popped EXCEPT !.l0_sstables = InsertFirst(id, @)]
       ELSE [popped EXCEPT !.levels = InsertFirst(<<id, <<id>>>>, @)]

FlushInstall(t) ==
    /\ pc[t] = "flush_install"
    /\ ~ ReadGuardHeld
    /\ FlushIsOldest(t)
    /\ state' = Flushed(state, flush_id[t])
    /\ \/ /\ manifest' = Append(manifest, [kind |-> "Flush", id |-> flush_id[t]])
          /\ UNCHANGED faults
       \/ Fault /\ UNCHANGED manifest
    /\ flush_id' = [flush_id EXCEPT ![t] = Nil]
    /\ state_lock' = NoThread
    /\ Goto(t, "idle")
    /\ UNCHANGED <<memtables, approx_size, sst_tables, next_sst_id, mvcc,
                   new_state, reading>>

(* pop().unwrap() on an empty vector, or assert_eq!(mem.id(), sst_id).     *)
FlushPanics(t) ==
    /\ pc[t] = "flush_install"
    /\ ~ ReadGuardHeld
    /\ ~ FlushIsOldest(t)
    /\ flush_id' = [flush_id EXCEPT ![t] = Nil]
    /\ state_lock' = NoThread
    /\ Goto(t, "panicked")
    /\ UNCHANGED <<engine, mvcc, new_state, reading, faults>>

-------------------------------------------------------------------------------
(* Transactions: new_txn fixes read_ts; each get or scan then snapshots    *)
(* the state on its own and reads it through that timestamp.               *)

NewTxn(r) ==
    /\ pc[r] = "idle"
    /\ read_ts' = [read_ts EXCEPT ![r] = commit_ts]
    /\ Goto(r, "txn")
    /\ UNCHANGED <<engine, mvcc, freeze, flush_id, snapshot, faults>>

ReadSnapshot(r) ==
    /\ pc[r] = "txn"
    /\ snapshot' = [snapshot EXCEPT ![r] = state]
    /\ Goto(r, "reading")
    /\ UNCHANGED <<engine, mvcc, freeze, flush_id, read_ts, faults>>

(* The iterator is dropped, or the transaction ends as well.               *)
ReadEnd(r) ==
    /\ pc[r] = "reading"
    /\ snapshot' = [snapshot EXCEPT ![r] = Nil]
    /\ \/ /\ Goto(r, "txn")
          /\ UNCHANGED read_ts
       \/ /\ Goto(r, "idle")
          /\ read_ts' = [read_ts EXCEPT ![r] = 0]
    /\ UNCHANGED <<engine, mvcc, freeze, flush_id, faults>>

-------------------------------------------------------------------------------
WriterStep(w) == WriteBegin(w) \/ PutRecord(w) \/ TryFreeze(w) \/ Commit(w)

FreezeStep(t) ==
    FreezeLock(t) \/ FreezeCopy(t) \/ FreezeRecord(t) \/ FreezeFails(t) \/ FreezeSwap(t)

FlushStep(t) ==
    \/ FlushPick(t) \/ FlushBuild(t) \/ FlushFails(t)
    \/ FlushLock(t) \/ FlushInstall(t) \/ FlushPanics(t)

ReaderStep(r) == NewTxn(r) \/ ReadSnapshot(r) \/ ReadEnd(r)

Next ==
    \/ \E w \in Writers : WriterStep(w)
    \/ \E t \in Freezers : FreezeStep(t)
    \/ \E f \in Forcers : ForceFlush(f) \/ ForceFlushCheck(f)
    \/ TriggerFlush
    \/ \E t \in Flushers : FlushStep(t)
    \/ \E r \in Readers : ReaderStep(r)

Spec == Init /\ [][Next]_vars

(***************************************************************************)
(* A thread inside an operation keeps running, and the flush thread ticks  *)
(* every 50 ms for as long as the engine is open.  Nothing obliges clients *)
(* to start a write, a read or a force_flush.                              *)
(***************************************************************************)
Fairness ==
    /\ \A w \in Writers :
        WF_vars(PutRecord(w) \/ TryFreeze(w) \/ Commit(w) \/ FreezeStep(w))
    /\ \A f \in Forcers : WF_vars(FreezeStep(f) \/ ForceFlushCheck(f))
    /\ \A t \in Flushers : WF_vars(FlushStep(t))
    /\ WF_vars(TriggerFlush)

FairSpec == Spec /\ Fairness

-------------------------------------------------------------------------------
(* What LsmStorageInner::open finds in the manifest                        *)

(* Record 0, of memtable 0, is the one a new directory starts with; it is  *)
(* written only when there is a WAL, and only then read for its memtable.  *)
Record(n) == IF n = 0 THEN [kind |-> "NewMemtable", id |-> 0] ELSE manifest[n]

RecordsOf(kind) == {n \in 0 .. Len(manifest) : Record(n).kind = kind}

FlushRecords == RecordsOf("Flush")

(* all_memtables without flushed_memtables.                                *)
LiveRecords ==
    {n \in RecordsOf("NewMemtable") : \A m \in FlushRecords : Record(m).id # Record(n).id}

(* The ids of some records, each inserted before those of the records that *)
(* precede it.                                                             *)
Descending(at) ==
    CHOOSE p \in [1 .. Cardinality(at) -> at] :
        \A i, j \in 1 .. Cardinality(at) : i < j => p[i] > p[j]

NewestFirst(at) ==
    LET p == Descending(at)
    IN [i \in 1 .. Cardinality(at) |-> Record(p[i]).id]

-------------------------------------------------------------------------------
(* Properties                                                              *)

PcLabels == {"idle", "put", "try_freeze", "commit",
             "freeze_lock", "freeze_copy", "freeze_record", "freeze_swap",
             "flush_check", "flush_pick", "flush_build", "flush_lock",
             "flush_install", "panicked", "txn", "reading"}

(* The variables hold values of their types; every id in use was allocated.*)
TypeOK ==
    /\ state \in States
    /\ next_sst_id \in Nat
    /\ memtables \in [Ids -> Tables]
    /\ approx_size \in [Ids -> Nat]
    /\ sst_tables \in [Ids -> Tables]
    /\ manifest \in Seq(ManifestRecords)
    /\ commit_ts \in 0 .. MaxTs
    /\ write_lock \in Writers \cup {NoThread}
    /\ state_lock \in Threads \cup {NoThread}
    /\ pc \in [Threads -> PcLabels]
    /\ batch \in [Writers -> Seq(Records)]
    /\ inserted \in [Writers -> Nat]
    /\ write_ts \in [Writers -> 0 .. MaxTs]
    /\ new_state \in [Freezers -> States \cup {Nil}]
    /\ flush_id \in [Flushers -> Nat \cup {Nil}]
    /\ read_ts \in [Readers -> 0 .. MaxTs]
    /\ snapshot \in [Readers -> States \cup {Nil}]
    /\ faults \in 0 .. MaxFaults

(***************************************************************************)
(* The engine implements the abstract store: whatever is frozen, flushed,  *)
(* retried or read at the same time, the merged view of its layers changes *)
(* only as one map would, and never in a committed cell.                   *)
(***************************************************************************)
KV == INSTANCE KvStore WITH versions <- View(state)

ImplementsKvStore == KV!Spec

(***************************************************************************)
(* When write_batch is about to publish its timestamp, that timestamp      *)
(* holds exactly its batch, the last record of a key winning, wherever the *)
(* memtable it went to is by now.  (After a failed batch, cells that were  *)
(* never published may remain there: see README, hazards.)                 *)
(***************************************************************************)
LastValue(b, k) ==
    LET at == {i \in DOMAIN b : b[i].key = k}
    IN IF at = {} THEN NoEntry
       ELSE b[CHOOSE i \in at : \A j \in at : j <= i].value

BatchIsWhole ==
    \A w \in Writers :
        pc[w] = "commit" /\ faults = 0 =>
            \A k \in Keys : View(state)[<<k, write_ts[w]>>] = LastValue(batch[w], k)

(***************************************************************************)
(* A reader working on the Arc it cloned returns what the engine's current *)
(* state holds at its timestamp, however many freezes and flushes have     *)
(* replaced that state since.                                              *)
(***************************************************************************)
SnapshotReadsAgree ==
    \A r \in Readers :
        pc[r] = "reading" =>
            \A k \in Keys : ValueAt(View(snapshot[r]), k, read_ts[r])
                            = ValueAt(View(state), k, read_ts[r])

(***************************************************************************)
(* No insertion reaches a memtable after its content was written to its    *)
(* SST: what a flush installs is all the memtable will ever hold.          *)
(***************************************************************************)
FlushedContentIsFinal ==
    \A id \in state.sstables : sst_tables[id] = memtables[id]

(***************************************************************************)
(* With the flush thread alone flushing, pop().unwrap() and                *)
(* assert_eq!(mem.id(), sst_id) never fail, although the memtable was      *)
(* chosen before the lock was taken.                                       *)
(***************************************************************************)
NoFlushPanic == \A t \in Flushers : pc[t] # "panicked"

(***************************************************************************)
(* Replaying the manifest at any instant (a crash can come between any two *)
(* steps) yields the L0 list of the live state in its order, and its       *)
(* memtables newest first, but for one memtable recorded and not yet       *)
(* installed.                                                              *)
(***************************************************************************)
ManifestRecoversState ==
    faults = 0 =>
        LET unflushed == NewestFirst(LiveRecords)
            live == InsertFirst(state.memtable, state.imm_memtables)
        IN /\ FlushToL0 => NewestFirst(FlushRecords) = state.l0_sstables
           /\ \/ unflushed = live
              \/ unflushed # <<>> /\ Tail(unflushed) = live

(***************************************************************************)
(* A memtable that is the oldest of too many is flushed in the end: a      *)
(* failed flush is retried, and later freezes do not push it aside.  Only  *)
(* the panic of a flush thread that a force_flush overtook leaves it there.*)
(***************************************************************************)
Backlogged(id) ==
    /\ 1 + Len(state.imm_memtables) > NumMemtableLimit
    /\ Last(state.imm_memtables) = id

OldestIsFlushed ==
    \A id \in 0 .. MaxTs + MaxFaults :
        Backlogged(id) ~> id \in state.sstables \/ pc[FlushThread] = "panicked"

(* A write_batch that began returns: no order of locks keeps it waiting.   *)
WritesReturn == \A w \in Writers : pc[w] # "idle" ~> pc[w] = "idle"
===============================================================================
