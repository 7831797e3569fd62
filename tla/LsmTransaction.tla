----------------------------- MODULE LsmTransaction -----------------------------
(***************************************************************************)
(* One transaction of mvcc/txn.rs over the layers of an engine: get, put,  *)
(* delete and a scan with its iterator, while a writer puts newer versions *)
(* in the memtable the scan is reading.  options.serializable is on.       *)
(*                                                                         *)
(* The history of the store and the layer each batch of it has come to are *)
(* chosen at the start; the layers under the memtable do not change (that  *)
(* they may is LsmStorage's subject: a scan keeps the snapshot it took).   *)
(***************************************************************************)
EXTENDS LsmIterators

CONSTANTS
    Histories,     \* what was committed: sequences of batches [keys -> values]
    Placements,    \* for each batch of a history, the layer that holds it
    FailedAttempt, \* what an attempt at the last batch that failed had inserted
    LevelEntries,  \* how many entries an SST of a level holds
    Incoming,      \* what the writer inserts: sequences of <<key, value>>
    Ranges,        \* bounds of scans: pairs of a lower and an upper one
    MaxCalls       \* BOUND: how many calls the transaction makes

ASSUME TransactionAssumption ==
    /\ \A h \in Histories : Len(h) + 1 = MaxTs
    /\ \A p \in Placements : \A i, j \in DOMAIN p : i <= j => p[i] >= p[j]
    /\ LevelEntries \in Nat \ {0}
    /\ MaxCalls \in Nat

VARIABLES
    memtables,     \* the memtable and the immutable one
    l0_sstables,   \* SSTs, newest first
    levels,        \* for each level, its SSTs in key order
    incoming,      \* what the writer's batch has still to insert
    read_ts,       \* Transaction.read_ts
    local_storage, \* Transaction.local_storage
    key_hashes,    \* Transaction.key_hashes.1, the set every call inserts in;
                   \* the keys stand for their hashes
    iter,          \* the open TxnIterator
    got,           \* for the properties: the last get, its key and result
    range,         \* ... the bounds of the open scan
    yielded,       \* ... the keys and values the scan stood on so far
    touched,       \* ... the keys the transaction wrote since the scan began
    calls          \* how many calls the transaction made

store == <<memtables, l0_sstables, levels, incoming, read_ts>>
scan == <<iter, range, yielded, touched>>
txnVars == <<store, local_storage, key_hashes, scan, got, calls>>

-------------------------------------------------------------------------------
(* The layers at the start                                                 *)

(* An attempt at the last batch had failed and its memtable was frozen (by *)
(* force_flush): cells at the same timestamp, one layer below the batch.   *)
LayerTable(history, placement, layer) ==
    LET last == Len(history)
        Held(c) == placement[c[2]] = layer
        Left(c) == /\ c[2] = last
                   /\ c[1] \in DOMAIN FailedAttempt
                   /\ placement[last] + 1 = layer
                   /\ \A n \in 1 .. last - 1 : placement[n] >= layer
    IN [c \in Cells |->
        IF c[2] \notin 1 .. last \/ c[1] \notin DOMAIN history[c[2]] THEN NoEntry
        ELSE IF Held(c) THEN history[c[2]][c[1]]
        ELSE IF Left(c) THEN FailedAttempt[c[1]]
        ELSE NoEntry]

NonEmpty(tables) == SelectSeq(tables, LAMBDA t : CellsOf(t) # {})

(* Compaction writes SSTs of a certain size, also between two versions of  *)
(* one key.                                                                *)
Run(table) ==
    LET entries == Entries(table)
        Sst(n) == [c \in Cells |->
                    IF \E i \in DOMAIN entries :
                        entries[i] = c /\ (i - 1) \div LevelEntries = n - 1
                    THEN table[c] ELSE NoEntry]
    IN [n \in 1 .. (Len(entries) + LevelEntries - 1) \div LevelEntries |-> Sst(n)]

TxnInit ==
    /\ \E h \in Histories, p \in Placements :
        LET Layer(n) == LayerTable(h, p, n)
        IN /\ Len(p) = Len(h)
           /\ memtables = <<Layer(1), Layer(2)>>
           /\ l0_sstables = NonEmpty(<<Layer(3), Layer(4)>>)
           /\ levels = <<Run(Layer(5)), Run(Layer(6))>>
           /\ read_ts \in 1 .. Len(h)
    /\ incoming \in Incoming
    /\ local_storage = [k \in Keys |-> NoEntry]
    /\ key_hashes = {}
    /\ iter = Nil
    /\ range = Nil
    /\ yielded = <<>>
    /\ touched = {}
    /\ got = Nil
    /\ calls = 0

-------------------------------------------------------------------------------
(* get_with_ts and scan_with_ts on the layers                              *)

Live == [memtables |-> memtables, local |-> local_storage]
Included(key) == [kind |-> "included", key |-> key]

MemtableIters(lower, upper) ==
    MergeCreate([i \in DOMAIN memtables |-> MemTableScan(i, lower, upper, Live)])

KeepTable(key, table) == KeyWithin(key, table) /\ MayContain(Filter(table), key)

GetIters(key) ==
    LET from == <<key, TsRangeBegin>>
        Kept(tables) == SelectSeq(tables, LAMBDA t : KeepTable(key, t))
        l0 == Kept(l0_sstables)
    IN TwoMerge(
        TwoMerge(MemtableIters(Included(key), Included(key)),
                 MergeCreate([i \in DOMAIN l0 |-> SstSeek(l0[i], from)])),
        MergeCreate([i \in DOMAIN levels |-> ConcatSeek(Kept(levels[i]), from)]))

(* The loop of get_with_ts stops at another key.                           *)
RECURSIVE PastNewer(_, _)
PastNewer(it, key) ==
    IF IsValid(it) /\ KeyOf(it)[1] = key /\ KeyOf(it)[2] > read_ts
    THEN PastNewer(NextOf(it, Live), key) ELSE it

GetWithTs(key) ==
    LET at == PastNewer(GetIters(key), key)
    IN IF IsValid(at) /\ KeyOf(at)[1] = key /\ ValueOf(at) # Tombstone
       THEN ValueOf(at) ELSE NoEntry

(* An SST or a run from the lower bound on: first, or where the seek got.  *)
From(lower, first, sought) ==
    CASE lower.kind = "unbounded" -> first
      [] lower.kind = "included" -> sought
      [] lower.kind = "excluded" -> SkipKey(sought, lower.key, Live)

ScanIters(lower, upper) ==
    LET Overlapping(tables) ==
            SelectSeq(tables, LAMBDA t : RangeOverlap(lower, upper, t))
        from == <<lower.key, TsRangeBegin>>
        L0Iter(t) == From(lower, SstFirst(t), SstSeek(t, from))
        LevelIter(run) == From(lower, ConcatFirst(run), ConcatSeek(run, from))
        l0 == Overlapping(l0_sstables)
    IN TwoMerge(
        TwoMerge(MemtableIters(lower, upper),
                 MergeCreate([i \in DOMAIN l0 |-> L0Iter(l0[i])])),
        MergeCreate([i \in DOMAIN levels |-> LevelIter(Overlapping(levels[i]))]))

ScanWithTs(lower, upper) == LsmNew(ScanIters(lower, upper), upper, read_ts, Live)

-------------------------------------------------------------------------------
(* The writer: write_batch inserts record after record in the memtable,   *)
(* at the timestamp after the last one; nothing is published before the    *)
(* scan that is open has its timestamp.                                    *)

WriterTs == MaxTs

Insert ==
    /\ incoming # <<>>
    /\ LET record == Head(incoming)
       IN memtables' = [memtables EXCEPT ![1][<<record[1], WriterTs>>] = record[2]]
    /\ incoming' = Tail(incoming)
    /\ UNCHANGED <<l0_sstables, levels, read_ts, local_storage, key_hashes, scan,
                   got, calls>>

-------------------------------------------------------------------------------
(* The transaction                                                         *)

Called ==
    /\ calls < MaxCalls
    /\ calls' = calls + 1

(* Mutant: a local delete marker does not hide the stored value.           *)
ReadThroughMarker(key) ==
    IF local_storage[key] \notin {NoEntry, Tombstone} THEN local_storage[key]
    ELSE GetWithTs(key)

Read(key) ==
    CASE local_storage[key] = Tombstone -> NoEntry
      [] local_storage[key] = NoEntry -> GetWithTs(key)
      [] OTHER -> local_storage[key]

Get(key) ==
    /\ iter = Nil
    /\ Called
    /\ key_hashes' = key_hashes \cup {key}
    /\ got' = <<key, Read(key)>>
    /\ UNCHANGED <<store, local_storage, scan>>

(* put, and delete, which puts an empty value.                             *)
Write(key, value) ==
    /\ Called
    /\ key_hashes' = key_hashes \cup {key}
    /\ local_storage' = [local_storage EXCEPT ![key] = value]
    /\ touched' = IF iter = Nil THEN touched ELSE touched \cup {key}
    /\ got' = Nil
    /\ UNCHANGED <<store, iter, range, yielded>>

(* Mutant: the scan stands on what the transaction deleted.                *)
StayOnDelete(it) == it

(* move_to_non_delete.                                                     *)
RECURSIVE MoveToNonDelete(_)
MoveToNonDelete(it) ==
    IF IsValid(it) /\ ValueOf(it) = Tombstone
    THEN MoveToNonDelete(SkipKey(it, KeyOf(it)[1], Live)) ELSE it

(* record_read_key, where the iterator is left: create and next call it.   *)
RecordReadKey(it) == IF IsValid(it) THEN {KeyOf(it)[1]} ELSE {}

(* The iterator is left on an entry or at the end.                         *)
StandAt(it) ==
    /\ iter' = it
    /\ yielded' = IF IsValid(it) THEN Append(yielded, <<KeyOf(it)[1], ValueOf(it)>>)
                  ELSE yielded

Scan(lower, upper) ==
    LET it == MoveToNonDelete(TwoMerge(LocalScan(lower, upper, Live),
                                       ScanWithTs(lower, upper)))
    IN /\ iter = Nil
       /\ Called
       /\ StandAt(it)
       /\ key_hashes' = key_hashes \cup RecordReadKey(it)
       /\ range' = <<lower, upper>>
       /\ got' = Nil
       /\ UNCHANGED <<store, local_storage, touched>>

ScanNext ==
    LET it == MoveToNonDelete(SkipKey(iter, KeyOf(iter)[1], Live))
    IN /\ iter # Nil
       /\ IsValid(iter)
       /\ StandAt(it)
       /\ key_hashes' = key_hashes \cup RecordReadKey(it)
       /\ UNCHANGED <<store, local_storage, range, touched, got, calls>>

TxnNext ==
    \/ Insert
    \/ \E k \in Keys, v \in Values : Write(k, v)
    \/ \E k \in Keys : Get(k)
    \/ \E bounds \in Ranges : Scan(bounds[1], bounds[2])
    \/ ScanNext

TxnSpec == TxnInit /\ [][TxnNext]_txnVars

-------------------------------------------------------------------------------
(* Properties                                                              *)

(* What the store holds at the transaction's timestamp, under its writes.  *)
AllTables == memtables \o l0_sstables \o levels[1] \o levels[2]

Expected(key) ==
    CASE local_storage[key] = Tombstone -> NoEntry
      [] local_storage[key] = NoEntry ->
            ValueAt(MergeIterator(AllTables), key, read_ts)
      [] OTHER -> local_storage[key]

(* The variables hold values of their types; an iterator comes with the    *)
(* bounds it was created for.                                              *)
TxnTypeOK ==
    /\ memtables \in Seq(Tables)
    /\ l0_sstables \in Seq(Tables)
    /\ levels \in Seq(Seq(Tables))
    /\ incoming \in Seq(Keys \X Values)
    /\ read_ts \in 1 .. WriterTs - 1
    /\ local_storage \in [Keys -> Values \cup {NoEntry}]
    /\ key_hashes \subseteq Keys
    /\ iter = Nil <=> range = Nil
    /\ range # Nil => range \in Ranges
    /\ yielded \in Seq(Keys \X (Values \ {Tombstone}))
    /\ touched \subseteq Keys
    /\ got # Nil => got \in Keys \X (Values \cup {NoEntry})
    /\ calls \in 0 .. MaxCalls

(***************************************************************************)
(* get returns the newest version at the transaction's timestamp, or its   *)
(* own write: neither a Bloom filter, nor a key range, nor a seek into the *)
(* blocks of an SST or of a run skips it, nor does a newer version, or one *)
(* still being written, show.                                              *)
(***************************************************************************)
GetReadsSnapshot == got # Nil => got[2] = Expected(got[1])

(***************************************************************************)
(* A scan gives, each once and in order, exactly the keys of its range     *)
(* that the transaction sees, with their values, up to where it stands,    *)
(* while the memtable under it takes new versions.  (A key the transaction *)
(* writes during the scan may come with its old or its new value.)         *)
(***************************************************************************)
InBounds(key) ==
    /\ AfterLower(range[1], <<key, 1>>)
    /\ BeforeUpper(range[2], <<key, 1>>)

Passed(key) == IsValid(iter) => key <= KeyOf(iter)[1]

ScanReadsSnapshot ==
    iter # Nil =>
        /\ \A i, j \in DOMAIN yielded : i < j => yielded[i][1] < yielded[j][1]
        /\ \A k \in Keys \ touched :
            {y[2] : y \in {yielded[i] : i \in {j \in DOMAIN yielded : yielded[j][1] = k}}}
            = IF InBounds(k) /\ Passed(k) THEN {Expected(k)} \ {NoEntry} ELSE {}
===============================================================================
