------------------------------- MODULE LsmRecovery ------------------------------
(***************************************************************************)
(* The engine with a WAL (options.enable_wal), the death of its process at *)
(* any step, and LsmStorageInner::open on what it left behind: the         *)
(* manifest, the WAL of each memtable and the SST files.                   *)
(*                                                                         *)
(* A WAL is a BufWriter that nothing flushes before the memtable is        *)
(* dropped: records that were appended last may never reach the file.      *)
(* What reached a file stays there: the process dies, not the machine.     *)
(***************************************************************************)
EXTENDS LsmStorage, SsTables

CONSTANTS
    BufferedRecords, \* how many records a BufWriter can hold back
    MaxCrashes       \* BOUND: how many times the process dies

ASSUME RecoveryAssumption == BufferedRecords \in Nat /\ MaxCrashes \in Nat

VARIABLES
    wal,      \* the WAL files: the records appended, how many surely on file
    crashes,  \* how many times the process died
    acked     \* for the properties: what write_batch returned Ok for

recoveryVars == <<vars, wal, crashes, acked>>

NewWal == [log |-> <<>>, durable |-> 0]

(* After the first open of a new directory; the record it appends,         *)
(* NewMemtable(0), comes before all of manifest.                           *)
RecoveryInit ==
    /\ Init
    /\ wal = [id \in {0} |-> NewWal]
    /\ crashes = 0
    /\ acked = EmptyTable

-------------------------------------------------------------------------------
(* The WAL while the engine runs                                           *)

(* MemTable::put inserts in the map, and then appends to the WAL.          *)
LoggedPut(w) ==
    LET record == batch[w][inserted[w] + 1]
        entry == <<<<record.key, write_ts[w]>>, record.value>>
    IN /\ PutRecord(w)
       /\ wal' = [wal EXCEPT ![state.memtable].log = Append(@, entry)]
       /\ UNCHANGED <<crashes, acked>>

(* The append fails: the cell stays in the map, write_batch returns Err.   *)
PutFails(w) ==
    LET record == batch[w][inserted[w] + 1]
        id == state.memtable
    IN /\ pc[w] = "put"
       /\ Fault
       /\ memtables' =
            [memtables EXCEPT ![id][<<record.key, write_ts[w]>>] = record.value]
       /\ approx_size' = [approx_size EXCEPT ![id] = @ + 1]
       /\ WriteReturns(w)
       /\ Goto(w, "idle")
       /\ UNCHANGED <<state, sst_tables, next_sst_id, manifest, commit_ts, freeze,
                      flush_id, reading, wal, crashes, acked>>

(* Mutant: the file is created by the first put.                           *)
FreezeWithoutFile(t) == FreezeCopy(t) /\ UNCHANGED <<wal, crashes, acked>>

(* force_freeze_memtable creates the WAL of the new memtable...            *)
FreezeWithWal(t) ==
    /\ FreezeCopy(t)
    /\ next_sst_id \notin DOMAIN wal
    /\ wal' = [id \in DOMAIN wal \cup {next_sst_id} |->
                    IF id = next_sst_id THEN NewWal ELSE wal[id]]
    /\ UNCHANGED <<crashes, acked>>

(* ...which fails if the file is there (create_new): a crash may have left *)
(* one whose id no record names.  The id is spent all the same.            *)
FreezeCreateFails(t) ==
    /\ pc[t] = "freeze_copy"
    /\ AllocateId
    /\ \/ next_sst_id \in DOMAIN wal /\ UNCHANGED faults
       \/ Fault
    /\ state_lock' = NoThread
    /\ \/ t \in Writers /\ WriteReturns(t)
       \/ t \notin Writers /\ UNCHANGED <<write_lock, batch, inserted, write_ts>>
    /\ Goto(t, "idle")
    /\ UNCHANGED <<state, manifest, commit_ts, new_state, flush_id, reading,
                   wal, crashes, acked>>

(* update_commit_ts, and write_batch returns Ok.                           *)
AckedCommit(w) ==
    /\ Commit(w)
    /\ acked' = [c \in Cells |->
                    IF c[2] = write_ts[w] /\ LastValue(batch[w], c[1]) # NoEntry
                    THEN LastValue(batch[w], c[1]) ELSE acked[c]]
    /\ UNCHANGED <<wal, crashes>>

(* The other steps of LsmStorage touch no WAL.                             *)
UnloggedStep ==
    /\ \/ \E w \in Writers : WriteBegin(w) \/ TryFreeze(w)
       \/ \E t \in Freezers :
            FreezeLock(t) \/ FreezeRecord(t) \/ FreezeFails(t) \/ FreezeSwap(t)
       \/ \E f \in Forcers : ForceFlush(f) \/ ForceFlushCheck(f)
       \/ TriggerFlush
       \/ \E t \in Flushers : FlushStep(t)
       \/ \E r \in Readers : ReaderStep(r)
    /\ UNCHANGED <<wal, crashes, acked>>

-------------------------------------------------------------------------------
(* open on an existing directory                                           *)

(* flushed_memtables, newest first, also under the tiered policy; and the  *)
(* rest of all_memtables, newest first.                                    *)
Flushes == NewestFirst(FlushRecords)
Unflushed == NewestFirst(LiveRecords)

(* Nothing open does returns an error or panics: there is a memtable to    *)
(* recover, every WAL is there, and every SST has a first block.           *)
CanOpen ==
    /\ Unflushed # <<>>
    /\ IdsOf(Unflushed) \subseteq DOMAIN wal
    /\ \A id \in IdsOf(Flushes) : CellsOf(sst_tables[id]) # {}

(* Mutant: an entry that is there already is kept.                         *)
WalRecoverKeepsFirst(log) ==
    [c \in Cells |->
        LET at == {i \in DOMAIN log : log[i][1] = c}
        IN IF at = {} THEN NoEntry
           ELSE log[CHOOSE i \in at : \A j \in at : i <= j][2]]

(* Wal::recover inserts one record after the other.                        *)
WalRecover(log) ==
    [c \in Cells |->
        LET at == {i \in DOMAIN log : log[i][1] = c}
        IN IF at = {} THEN NoEntry
           ELSE log[CHOOSE i \in at : \A j \in at : j <= i][2]]

(* Mutant: the timestamps of the SSTs only.                                *)
SstsMaxTs(recovered) ==
    NewestIn({<<0, MaxTsOpened(sst_tables[id])>> : id \in IdsOf(Flushes)})

(* "Recover the commit timestamp from the max ts seen across all data."    *)
RecoveredMaxTs(recovered) ==
    NewestIn({<<0, MaxTsOpened(sst_tables[id])>> : id \in IdsOf(Flushes)}
             \cup UNION {CellsOf(recovered[id]) : id \in IdsOf(Unflushed)})

RecoveredNextId ==
    LET used == {Record(n).id : n \in 0 .. Len(manifest)}
    IN 1 + CHOOSE id \in used : \A other \in used : other <= id

(* A memtable somebody still points to has not dropped its BufWriter.      *)
MemtablesOf(s) == {s.memtable} \cup IdsOf(s.imm_memtables)

Referenced ==
    MemtablesOf(state)
    \cup UNION {MemtablesOf(snapshot[r]) : r \in {q \in Readers : snapshot[q] # Nil}}
    \cup UNION {MemtablesOf(new_state[t]) : t \in {q \in Freezers : new_state[q] # Nil}}
    \cup ({flush_id[t] : t \in Flushers} \ {Nil})

InBuffer(id) ==
    LET unwritten == Len(wal[id].log) - wal[id].durable
    IN IF id \notin Referenced THEN 0
       ELSE IF unwritten < BufferedRecords THEN unwritten ELSE BufferedRecords

OnFile(id, lost) == SubSeq(wal[id].log, 1, Len(wal[id].log) - lost)

(* The memtables a new process recovers when the end of each log is lost.  *)
RecoveredTables(lost) ==
    [id \in 0 .. RecoveredNextId - 1 |->
        IF id \in IdsOf(Unflushed) THEN WalRecover(OnFile(id, lost[id]))
        ELSE memtables[id]]

(* The cells of the records lost.                                          *)
CutCells(lost) ==
    UNION {{wal[id].log[i][1] : i \in DOMAIN wal[id].log \ DOMAIN OnFile(id, lost[id])}
           : id \in IdsOf(Unflushed)}

(* The process ends, in a crash or not, and a new one opens the directory. *)
(* open only reads files: a crash in it changes nothing.                   *)
Reopen ==
    /\ crashes < MaxCrashes
    /\ CanOpen
    /\ \E lost \in [IdsOf(Unflushed) -> 0 .. BufferedRecords] :
        LET ids == 0 .. RecoveredNextId - 1
            recovered == RecoveredTables(lost)
        IN /\ \A id \in IdsOf(Unflushed) : lost[id] <= InBuffer(id)
           /\ state' = [memtable |-> Head(Unflushed),
                        imm_memtables |-> Tail(Unflushed),
                        l0_sstables |-> Flushes,
                        levels |-> InitState.levels,
                        sstables |-> IdsOf(Flushes)]
           /\ next_sst_id' = RecoveredNextId
           /\ memtables' = recovered
           /\ approx_size' = [id \in ids |->
                                IF id \in IdsOf(Unflushed)
                                THEN Cardinality(CellsOf(recovered[id]))
                                ELSE approx_size[id]]
           /\ sst_tables' = [id \in ids |-> sst_tables[id]]
           /\ commit_ts' = RecoveredMaxTs(recovered)
           /\ wal' = [id \in DOMAIN wal |->
                        IF id \in IdsOf(Unflushed)
                        THEN [log |-> OnFile(id, lost[id]),
                              durable |-> Len(OnFile(id, lost[id]))]
                        ELSE wal[id]]
           /\ acked' = [c \in Cells |-> IF c \in CutCells(lost) THEN NoEntry
                                         ELSE acked[c]]
    /\ write_lock' = NoThread
    /\ state_lock' = NoThread
    /\ pc' = [t \in Threads |-> "idle"]
    /\ batch' = [w \in Writers |-> <<>>]
    /\ inserted' = [w \in Writers |-> 0]
    /\ write_ts' = [w \in Writers |-> 0]
    /\ new_state' = [t \in Freezers |-> Nil]
    /\ flush_id' = [t \in Flushers |-> Nil]
    /\ read_ts' = [r \in Readers |-> 0]
    /\ snapshot' = [r \in Readers |-> Nil]
    /\ crashes' = crashes + 1
    /\ UNCHANGED <<manifest, faults>>

RecoveryNext ==
    \/ \E w \in Writers : LoggedPut(w) \/ PutFails(w) \/ AckedCommit(w)
    \/ \E t \in Freezers : FreezeWithWal(t) \/ FreezeCreateFails(t)
    \/ UnloggedStep
    \/ Reopen

RecoverySpec == RecoveryInit /\ [][RecoveryNext]_recoveryVars

-------------------------------------------------------------------------------
(* Properties                                                              *)

(* The variables hold values of their types, also after a restart.         *)
RecoveryTypeOK ==
    /\ TypeOK
    /\ DOMAIN wal \in SUBSET Nat
    /\ \A id \in DOMAIN wal :
        /\ wal[id].log \in Seq(Cells \X Values)
        /\ wal[id].durable \in 0 .. Len(wal[id].log)
    /\ crashes \in 0 .. MaxCrashes
    /\ acked \in Tables

(***************************************************************************)
(* Whenever the process dies, between any two steps of a freeze or a       *)
(* flush, the directory can be opened: every file a manifest record names  *)
(* was created before the record, and no SST on record is empty.           *)
(***************************************************************************)
DirectoryCanBeOpened == CanOpen

(***************************************************************************)
(* What write_batch returned Ok for is read, with its value, for good:     *)
(* whatever batch failed at the same timestamp, and after any number of    *)
(* restarts, unless its record was among those a BufWriter held back.      *)
(***************************************************************************)
AckedIsRead == \A c \in Cells : acked[c] # NoEntry => View(state)[c] = acked[c]

(***************************************************************************)
(* "Recover the commit timestamp from the max ts seen across all data":    *)
(* no cell of the opened engine is newer than its commit timestamp, or the *)
(* next batches would be written over cells that are there.                *)
(***************************************************************************)
CommitTsCoversData ==
    [][crashes' # crashes =>
        \A c \in Cells : View(state)'[c] # NoEntry => c[2] <= commit_ts']_recoveryVars
===============================================================================
