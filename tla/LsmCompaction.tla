----------------------------- MODULE LsmCompaction -----------------------------
(***************************************************************************)
(* The storage engine of LsmStorage with the compaction half of compact.rs:*)
(* the background thread of spawn_compaction_thread, and client threads    *)
(* calling force_full_compaction.  They share the engine's state with the  *)
(* writers, the flush thread and the readers, and take no state_lock.      *)
(***************************************************************************)
EXTENDS LsmStorage, FiniteSets

CONSTANTS
    CompactionThread, \* the thread of spawn_compaction_thread
    FullCompactors,   \* threads calling force_full_compaction
    Policies,         \* the possible options.compaction_options
    SstCells,         \* entries after which estimated_size is target_sst_size
    MaxSstId          \* BOUND: no compaction starts once ids have reached it

Compactors == FullCompactors \cup {CompactionThread}
Policy == INSTANCE CompactionControllers

ASSUME CompactionAssumption ==
    /\ Keys \subseteq Nat /\ IsFiniteSet(Keys)
    /\ CompactionThread \notin FullCompactors
    /\ Compactors \cap Threads = {}
    /\ SstCells \in Nat \ {0}
    /\ MaxSstId \in Nat
    /\ \A p \in Policies :
        /\ p.kind \in {"none", "simple", "tiered", "leveled"}
        \* the levels LsmStorageState::create gives them
        /\ FlushToL0 = (p.kind # "tiered")
        /\ p.kind = "none" => MaxLevels = 1
        /\ p.kind \in {"simple", "leveled"} => p.max_levels = MaxLevels
        /\ p.kind = "leveled" => /\ p.base_level_size \in Nat
                                 /\ p.level_size_multiplier \in Nat \ {0}
        /\ p.kind = "tiered" => /\ p.num_tiers \in Nat \ {0}
                                /\ p.min_merge_width \in Nat
                                /\ p.max_merge_width \in Nat \ {0}

VARIABLES
    policy,       \* options.compaction_options: its kind and its options
    files,        \* the SST files on disk, by id
    cpc,          \* where each compactor is
    task,         \* trigger_compaction: compaction_task
    output,       \* trigger_compaction: output; force_full_compaction: new_sst_ids
    replacement,  \* trigger_compaction: new_state
    removed_ssts  \* SSTs whose files are to be removed

compaction == <<policy, files, cpc, task, output, replacement, removed_ssts>>

(* Not in the code, for the properties to speak of; no action reads it.    *)
VARIABLE raced    \* whether an installation has overtaken another one: Races

compactionVars == <<vars, compaction, raced>>

-------------------------------------------------------------------------------
(* SSTs as the controllers and the merging iterators see them              *)

(* Keys as numbers: by user key, newer timestamps first.                   *)
Rank(c) == c[1] * (MaxTs + 1) + MaxTs - c[2]

(* An SST without entries has empty first and last keys.                   *)
KeyRange(id) ==
    LET ranks == {Rank(c) : c \in CellsOf(sst_tables[id])}
    IN [table_size |-> Cardinality(ranks),
        first_key |-> IF ranks = {} THEN -1 ELSE Policy!Min(ranks),
        last_key |-> IF ranks = {} THEN -1 ELSE Policy!Max(ranks)]

(* Looking up an SST that is not in the map panics: FilesMatchState.       *)
Ssts == [id \in Ids |-> KeyRange(id)]

Contents(ids) == [i \in DOMAIN ids |-> sst_tables[ids[i]]]

-------------------------------------------------------------------------------
(* compact: the content and the number of the SSTs a task produces         *)

(* A task of kind "full" or "simple" or "leveled" has two lists of SSTs, a *)
(* tiered one a list of tiers.                                             *)
Inputs(t) ==
    IF t.kind = "tiered" THEN Policy!TieredFilesToRemove(t.task)
    ELSE t.task.upper_level_sst_ids \o t.task.lower_level_sst_ids

(* L0 is merged, a level is one run.                                       *)
UpperIterator(t) ==
    LET ssts == Contents(t.task.upper_level_sst_ids)
    IN IF t.kind = "full" \/ t.task.upper_level = Policy!L0
       THEN MergeIterator(ssts) ELSE SstConcatIterator(ssts)

Merged(t) ==
    IF t.kind = "tiered"
    THEN MergeIterator([i \in DOMAIN t.task.tiers |->
                            SstConcatIterator(Contents(t.task.tiers[i][2]))])
    ELSE TwoMergeIterator(UpperIterator(t),
                          SstConcatIterator(Contents(t.task.lower_level_sst_ids)))

CompactToBottomLevel(t) ==
    CASE t.kind = "full" -> TRUE
      [] t.kind = "tiered" -> t.task.bottom_tier_included
      [] OTHER -> t.task.is_lower_level_bottom_level

Restricted(table, cells) == [c \in Cells |-> IF c \in cells THEN table[c] ELSE NoEntry]

(* Mutant: the entry that finds the builder full is lost.                  *)
GenerateSstLosesEntry(table, to_bottom) ==
    LET sorted == Entries(table)
        kept == Policy!Without(sorted, {c \in Cells : to_bottom /\ table[c] = Tombstone})
        before(i) == (i - 1) * (SstCells + 1)
        chunk(i) == SubSeq(kept, before(i) + 1, Policy!Min({before(i) + SstCells, Len(kept)}))
    IN [i \in 1 .. (Len(kept) + SstCells) \div (SstCells + 1) |->
            Restricted(table, IdsOf(chunk(i)))]

(* compact_generate_sst_from_iter: a delete marker reaching the bottom is  *)
(* dropped; an SST is built after SstCells entries, and the last one from  *)
(* what is left.  When only delete markers were left it has no entry.      *)
GenerateSst(table, to_bottom) ==
    LET sorted == Entries(table)
        kept == Policy!Without(sorted, {c \in Cells : to_bottom /\ table[c] = Tombstone})
        chunk(i) == SubSeq(kept, (i - 1) * SstCells + 1,
                           Policy!Min({i * SstCells, Len(kept)}))
        n == (Len(kept) + SstCells - 1) \div SstCells
        ends_dropped == /\ sorted # <<>>
                        /\ Len(kept) % SstCells = 0
                        /\ kept = <<>> \/ Last(kept) # Last(sorted)
        chunks == [i \in 1 .. n |-> Restricted(table, IdsOf(chunk(i)))]
    IN IF ends_dropped THEN Append(chunks, EmptyTable) ELSE chunks

Listed(s) == IdsOf(s.l0_sstables) \cup UNION {IdsOf(s.levels[i][2]) : i \in DOMAIN s.levels}

(* sstables.get(id).unwrap(), and reading block 0 of an SST without blocks.*)
CanRead(s, ids) == \A id \in IdsOf(ids) : id \in s.sstables /\ CellsOf(sst_tables[id]) # {}

-------------------------------------------------------------------------------
CompactionInit ==
    /\ Init
    /\ policy \in Policies
    /\ files = {}
    /\ cpc = [c \in Compactors |-> "idle"]
    /\ task = [c \in Compactors |-> Nil]
    /\ output = [c \in Compactors |-> <<>>]
    /\ replacement = [c \in Compactors |-> Nil]
    /\ removed_ssts = [c \in Compactors |-> <<>>]
    /\ raced = FALSE

CGoto(c, label) == cpc' = [cpc EXCEPT ![c] = label]

CompactionReturns(c, label) ==
    /\ CGoto(c, label)
    /\ task' = [task EXCEPT ![c] = Nil]
    /\ output' = [output EXCEPT ![c] = <<>>]
    /\ replacement' = [replacement EXCEPT ![c] = Nil]
    /\ removed_ssts' = [removed_ssts EXCEPT ![c] = <<>>]

MayCompact == next_sst_id < MaxSstId

(* trigger_compaction: a task from the state under the read guard.         *)
Tasks == CASE policy.kind = "simple" -> Policy!SimpleTask(policy, state)
           [] policy.kind = "tiered" -> Policy!TieredTask(policy, state)
           [] policy.kind = "leveled" -> Policy!LeveledTask(policy, state, Ssts)
           [] policy.kind = "none" -> {}

(* leveled.rs looks up every SST of the levels, and panics if one is not in*)
(* the map.                                                                *)
CanPlan(s) == policy.kind = "leveled" => Listed(s) \subseteq s.sstables

TriggerCompaction(c) ==
    /\ c = CompactionThread
    /\ cpc[c] = "idle"
    /\ MayCompact
    /\ IF CanPlan(state)
       THEN /\ \E t \in Tasks :
                 task' = [task EXCEPT ![c] = [kind |-> policy.kind, task |-> t]]
            /\ CGoto(c, "merge")
            /\ UNCHANGED <<output, replacement, removed_ssts>>
       ELSE CompactionReturns(c, "panicked")
    /\ UNCHANGED <<vars, policy, files>>

(* force_full_compaction reads L0 and the first level, which must exist.   *)
ForceFullCompaction(c) ==
    /\ c \in FullCompactors
    /\ cpc[c] = "idle"
    /\ MayCompact
    /\ IF state.levels = <<>>
       THEN CompactionReturns(c, "panicked")
       ELSE /\ task' = [task EXCEPT ![c] =
                    [kind |-> "full",
                     task |-> [upper_level_sst_ids |-> state.l0_sstables,
                               lower_level_sst_ids |-> state.levels[1][2]]]]
            /\ CGoto(c, "merge")
            /\ UNCHANGED <<output, replacement, removed_ssts>>
    /\ UNCHANGED <<vars, policy, files>>

(* Mutant: next_sst_id is read once and advanced by one.                   *)
BuildSstsAdvancesOnce(ssts) ==
    LET first == next_sst_id
        last == first + Len(ssts) - 1
        extended(f, new(_)) == [i \in 0 .. last |-> IF i < first THEN f[i] ELSE new(i)]
    IN /\ next_sst_id' = first + 1
       /\ memtables' = extended(memtables, LAMBDA i : ssts[i - first + 1])
       /\ approx_size' = extended(approx_size, LAMBDA i : 0)
       /\ sst_tables' = extended(sst_tables, LAMBDA i : ssts[i - first + 1])

(* next_sst_id() and SsTableBuilder::build, once for every SST.  There is  *)
(* no MemTable of these ids and nobody looks one up; for one to say of all *)
(* SSTs that they hold what was to be in them, memtables repeats it.       *)
BuildSsts(ssts) ==
    LET first == next_sst_id
        last == first + Len(ssts) - 1
        extended(f, new(_)) == [i \in 0 .. last |-> IF i < first THEN f[i] ELSE new(i)]
    IN /\ next_sst_id' = last + 1
       /\ memtables' = extended(memtables, LAMBDA i : ssts[i - first + 1])
       /\ approx_size' = extended(approx_size, LAMBDA i : 0)
       /\ sst_tables' = extended(sst_tables, LAMBDA i : ssts[i - first + 1])

(* compact, on a snapshot of its own; an error leaves the SSTs built so far*)
(* on disk, and the id of the one that failed is used up.                  *)
Merge(c) ==
    LET ssts == GenerateSst(Merged(task[c]), CompactToBottomLevel(task[c]))
        ids(n) == [i \in 1 .. n |-> next_sst_id + i - 1]
        after == IF c = CompactionThread THEN "copy" ELSE "full_install"
    IN /\ cpc[c] = "merge"
       /\ \/ /\ ~ CanRead(state, Inputs(task[c]))
             /\ CompactionReturns(c, "panicked")
             /\ UNCHANGED <<memtables, approx_size, sst_tables, next_sst_id, files, faults>>
          \/ /\ CanRead(state, Inputs(task[c]))
             /\ BuildSsts(ssts)
             /\ output' = [output EXCEPT ![c] = ids(Len(ssts))]
             /\ files' = files \cup IdsOf(ids(Len(ssts)))
             /\ CGoto(c, after)
             /\ UNCHANGED <<task, replacement, removed_ssts, faults>>
          \/ /\ CanRead(state, Inputs(task[c]))
             /\ Fault
             /\ \E n \in DOMAIN ssts :
                  /\ BuildSsts(SubSeq(ssts, 1, n))
                  /\ files' = files \cup IdsOf(ids(n - 1))
             /\ CompactionReturns(c, "idle")
       /\ UNCHANGED <<policy, state, manifest, mvcc, freeze, flush_id, reading, pc>>

(* Mutant: the compacted SSTs stay in the sstables map.                    *)
CompactedKeepsRemoved(s, t, out) ==
    LET ssts == [id \in s.sstables \cup IdsOf(out) |-> KeyRange(id)]
        added == [s EXCEPT !.sstables = @ \cup IdsOf(out)]
    IN CASE t.kind = "simple" -> Policy!SimpleApply(added, t.task, out)
         [] t.kind = "tiered" -> Policy!TieredApply(added, t.task, out)
         [] t.kind = "leveled" -> Policy!LeveledApply(added, ssts, t.task, out, FALSE)

(* The state after a task of trigger_compaction, from the state s.         *)
Compacted(s, t, out) ==
    LET ssts == [id \in s.sstables \cup IdsOf(out) |-> KeyRange(id)]
        added == [s EXCEPT !.sstables = @ \cup IdsOf(out)]
        applied ==
            CASE t.kind = "simple" -> Policy!SimpleApply(added, t.task, out)
              [] t.kind = "tiered" -> Policy!TieredApply(added, t.task, out)
              [] t.kind = "leveled" -> Policy!LeveledApply(added, ssts, t.task, out, FALSE)
    IN [applied EXCEPT !.sstables = @ \ IdsOf(Inputs(t))]

(* Sorting a level looks up the SSTs that stay in it.                      *)
Applies(s, t) ==
    CASE t.kind = "simple" -> TRUE
      [] t.kind = "tiered" -> Policy!TieredApplies(s, t.task)
      [] t.kind = "leveled" ->
            /\ Policy!LeveledApplies(s, t.task)
            /\ IdsOf(s.levels[t.task.lower_level][2]) \subseteq s.sstables

(* Clones the state under a read guard and works out its replacement...    *)
CompactionCopy(c) ==
    /\ cpc[c] = "copy"
    /\ IF Applies(state, task[c])
       THEN /\ replacement' = [replacement EXCEPT ![c] = Compacted(state, task[c], output[c])]
            /\ removed_ssts' = [removed_ssts EXCEPT ![c] = Inputs(task[c])]
            /\ CGoto(c, "install")
            /\ UNCHANGED <<task, output>>
       ELSE CompactionReturns(c, "panicked")
    /\ UNCHANGED <<vars, policy, files>>

(* ...and puts it in place later.                                          *)
CompactionInstall(c) ==
    /\ cpc[c] = "install"
    /\ ~ ReadGuardHeld
    /\ state' = replacement[c]
    /\ CGoto(c, "remove")
    /\ UNCHANGED <<memtables, approx_size, sst_tables, next_sst_id, manifest, mvcc,
                   freeze, flush_id, reading, pc, faults,
                   policy, files, task, output, replacement, removed_ssts>>

(* Mutant: L0 keeps the SSTs that were compacted.                          *)
FullInstallKeepsL0(c) ==
    LET ssts_to_compact == Inputs(task[c])
    IN /\ cpc[c] = "full_install"
       /\ ~ ReadGuardHeld
       /\ state' = [state EXCEPT
                !.sstables = (@ \ IdsOf(ssts_to_compact)) \cup IdsOf(output[c]),
                !.levels[1] = <<1, output[c]>>]
       /\ removed_ssts' = [removed_ssts EXCEPT ![c] = ssts_to_compact]
       /\ CGoto(c, "remove")
       /\ UNCHANGED <<memtables, approx_size, sst_tables, next_sst_id, manifest, mvcc,
                      freeze, flush_id, reading, pc, faults,
                      policy, files, task, output, replacement>>

(* force_full_compaction edits the current state under the write guard.    *)
FullInstall(c) ==
    LET ssts_to_compact == Inputs(task[c])
    IN /\ cpc[c] = "full_install"
       /\ ~ ReadGuardHeld
       /\ state' = [state EXCEPT
                !.l0_sstables = Policy!Without(@, IdsOf(ssts_to_compact)),
                !.sstables = (@ \ IdsOf(ssts_to_compact)) \cup IdsOf(output[c]),
                !.levels[1] = <<1, output[c]>>]
       /\ removed_ssts' = [removed_ssts EXCEPT ![c] = ssts_to_compact]
       /\ CGoto(c, "remove")
       /\ UNCHANGED <<memtables, approx_size, sst_tables, next_sst_id, manifest, mvcc,
                      freeze, flush_id, reading, pc, faults,
                      policy, files, task, output, replacement>>

(* remove_file for each SST in turn; the first error ends it.              *)
RemoveFiles(c) ==
    LET ids == removed_ssts[c]
        first(n) == IdsOf(SubSeq(ids, 1, n))
    IN /\ cpc[c] = "remove"
       /\ \/ /\ IdsOf(ids) \subseteq files
             /\ files' = files \ IdsOf(ids)
             /\ UNCHANGED faults
          \/ \E n \in DOMAIN ids :
                /\ first(n - 1) \subseteq files
                /\ files' = files \ first(n - 1)
                /\ \/ ids[n] \notin files /\ UNCHANGED faults
                   \/ Fault
       /\ CompactionReturns(c, "idle")
       /\ UNCHANGED <<engine, mvcc, freeze, flush_id, reading, pc, policy>>

-------------------------------------------------------------------------------
(* A step of LsmStorage; a flush that builds its SST creates the file.     *)
Built == {flush_id[t] : t \in {t \in Flushers : pc[t] = "flush_build"
                                                /\ pc'[t] = "flush_lock"}}

EngineStep ==
    /\ Next
    /\ files' = files \cup Built
    /\ UNCHANGED <<policy, cpc, task, output, replacement, removed_ssts>>

CompactionStep(c) ==
    \/ TriggerCompaction(c) \/ ForceFullCompaction(c) \/ Merge(c)
    \/ CompactionCopy(c) \/ CompactionInstall(c) \/ FullInstall(c) \/ RemoveFiles(c)

(***************************************************************************)
(* No lock is held from the moment a compaction reads the state to the     *)
(* moment it installs its own, and state_lock is not taken at all.  This   *)
(* installation overtakes another one when the state has changed since it  *)
(* was copied (under the write guard, force_full_compaction only relies on *)
(* the first level), when a freeze has its copy of the old state still to  *)
(* install, or another compaction its task from the old state to carry out.*)
(***************************************************************************)
HasTask(c) == cpc[c] \in {"merge", "copy", "install", "full_install"}

Races ==
    \E c \in Compactors :
        /\ HasTask(c) /\ cpc'[c] = "remove"
        /\ \/ /\ cpc[c] = "install"
              /\ replacement[c] # Compacted(state, task[c], output[c])
           \/ /\ cpc[c] = "full_install"
              /\ state.levels[1][2] # task[c].task.lower_level_sst_ids
           \/ \E t \in Freezers : pc[t] \in {"freeze_record", "freeze_swap"}
           \/ \E d \in Compactors \ {c} : HasTask(d)

CompactionNext ==
    /\ EngineStep \/ \E c \in Compactors : CompactionStep(c)
    /\ raced' = (raced \/ Races)

CompactionSpec == CompactionInit /\ [][CompactionNext]_compactionVars

-------------------------------------------------------------------------------
(* Properties                                                              *)

(* The variables hold values of their types, the engine's own included.    *)
CompactionTypeOK ==
    /\ TypeOK
    /\ policy \in Policies
    /\ files \subseteq Ids
    /\ cpc \in [Compactors -> {"idle", "merge", "copy", "install", "full_install",
                              "remove", "panicked"}]
    /\ output \in [Compactors -> Seq(Ids)]
    /\ replacement \in [Compactors -> States \cup {Nil}]
    /\ removed_ssts \in [Compactors -> Seq(Ids)]
    /\ raced \in BOOLEAN

(***************************************************************************)
(* Until an installation overtakes another one, compaction changes nothing *)
(* a reader could find but the delete markers it drops: every version of   *)
(* every key is still in the merged view, whatever was written, frozen or  *)
(* flushed while the compaction was at work.                               *)
(***************************************************************************)
OnlyDropsTombstones ==
    [][\A c \in Cells :
            cpc' # cpc /\ ~ raced' =>
                \/ View(state)'[c] = View(state)[c]
                \/ View(state)[c] = Tombstone /\ View(state)'[c] = NoEntry]_compactionVars

(***************************************************************************)
(* Until then, every SST in L0 or a level is in the sstables map and on    *)
(* disk at every moment, and the map holds no other; when nothing is under *)
(* way and nothing failed, the disk holds no other either.                 *)
(***************************************************************************)
FilesMatchState ==
    ~ raced =>
        /\ Listed(state) = state.sstables
        /\ state.sstables \subseteq files
        /\ (/\ faults = 0
            /\ \A t \in Flushers : pc[t] \notin {"flush_lock", "flush_install", "panicked"}
            /\ \A c \in Compactors : cpc[c] = "idle") => files = state.sstables

(***************************************************************************)
(* What SstConcatIterator::check_sst_valid asserts of a level, until then: *)
(* its SSTs are in key order and do not overlap (SSTs left without an entry*)
(* aside).                                                                 *)
(***************************************************************************)
LevelsAreRuns ==
    ~ raced =>
        \A i \in DOMAIN state.levels :
            LET run == SelectSeq(state.levels[i][2],
                                 LAMBDA id : CellsOf(sst_tables[id]) # {})
            IN \A j \in 1 .. Len(run) - 1 :
                KeyRange(run[j]).last_key < KeyRange(run[j + 1]).first_key

(***************************************************************************)
(* No unwrap or assertion of a compaction fails until then, but for an SST *)
(* that an earlier compaction left without any entry.                      *)
(***************************************************************************)
PanicsOnlyOnEmptySst ==
    ~ raced /\ (\E c \in Compactors : cpc[c] = "panicked") =>
        \E id \in state.sstables : CellsOf(sst_tables[id]) = {}

(***************************************************************************)
(* What a reader finds in the state it holds on to does not change, until  *)
(* then, although compaction replaces the SSTs it is reading and flushes   *)
(* write new ones.  (Removing an SST does not close the file it was opened *)
(* with: a removed SST can still be read.)                                 *)
(***************************************************************************)
SnapshotIsStable ==
    [][\A r \in Readers :
            ~ raced' /\ pc[r] = "reading" /\ pc'[r] = "reading" =>
                \A k \in Keys :
                    ValueAt(View(snapshot[r])', k, read_ts[r])
                        = ValueAt(View(snapshot[r]), k, read_ts[r])]_compactionVars

(***************************************************************************)
(* apply_compaction_result "should only change `l0_sstables` and `levels`  *)
(* without changing memtables", for "the case where an L0 SST gets flushed *)
(* while the compactor generates new SSTs" (simple_leveled.rs): installing *)
(* a compaction leaves the engine's memtables alone, and in L0 every SST   *)
(* that was not compacted.                                                 *)
(***************************************************************************)
CompactionKeepsFlushes ==
    [][\A c \in Compactors :
            cpc[c] = "install" /\ cpc'[c] = "remove" =>
                /\ state'.memtable = state.memtable
                /\ state'.imm_memtables = state.imm_memtables
                /\ IdsOf(state.l0_sstables) \ IdsOf(Inputs(task[c]))
                        \subseteq IdsOf(state'.l0_sstables)]_compactionVars

(***************************************************************************)
(* The full-compaction test of tests/week2_day1.rs: after                  *)
(* force_full_compaction a deleted key is still deleted, also when no      *)
(* installation overtook another one.                                      *)
(***************************************************************************)
DeletedStaysDeleted ==
    [][cpc' # cpc /\ ~ raced' =>
        \A k \in Keys :
            ValueAt(View(state), k, commit_ts) = NoEntry =>
                ValueAt(View(state)', k, commit_ts) = NoEntry]_compactionVars
===============================================================================
