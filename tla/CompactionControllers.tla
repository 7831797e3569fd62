------------------------- MODULE CompactionControllers -------------------------
(***************************************************************************)
(* The three compaction policies of src/compact, as functions of the state *)
(* they are given.                                                         *)
(*                                                                         *)
(* A state s has the fields l0_sstables, a sequence of SST ids, and        *)
(* levels, a sequence of <<number, ids>>.  The leveled policy also reads   *)
(* the size and the key range of the SSTs: ssts maps an id to a record     *)
(* with table_size, first_key and last_key.  Option<Task> is a set with at *)
(* most one task.                                                          *)
(***************************************************************************)
EXTENDS Integers, Sequences, FiniteSets, SequencesExt, FiniteSetsExt

L0 == 0     \* upper_level when the code has None

Ids(seq) == {seq[i] : i \in DOMAIN seq}

(* What is left of a sequence without some of its elements.                *)
Without(seq, ids) ==
    LET kept[n \in 0 .. Len(seq)] ==
            IF n = 0 THEN <<>>
            ELSE IF seq[n] \in ids THEN kept[n - 1] ELSE Append(kept[n - 1], seq[n])
    IN kept[Len(seq)]

Files(s, i) == s.levels[i][2]

(* Mutant: one level too early.                                            *)
IsBottomLevelEarly(level, max_level) == level + 1 >= max_level

IsBottomLevel(level, max_level) == level = max_level

-------------------------------------------------------------------------------
(* simple_leveled.rs                                                       *)

(* Mutant: the ratio is taken the other way up.                            *)
CompactionRequiredInverted(options, upper_num_files, lower_num_files) ==
    /\ lower_num_files # 0
    /\ (upper_num_files * 100) \div lower_num_files < options.size_ratio_percent

(* Rust divides integers: the ratio is rounded down.                       *)
CompactionRequired(options, upper_num_files, lower_num_files) ==
    /\ upper_num_files # 0
    /\ (lower_num_files * 100) \div upper_num_files < options.size_ratio_percent

SimpleTask(options, s) ==
    LET max_level == Len(s.levels)
        unbalanced == {i \in 1 .. max_level - 1 :
            CompactionRequired(options, Len(Files(s, i)), Len(Files(s, i + 1)))}
        task(upper, ids, lower) ==
            [upper_level |-> upper, upper_level_sst_ids |-> ids,
             lower_level |-> lower, lower_level_sst_ids |-> Files(s, lower),
             is_lower_level_bottom_level |-> IsBottomLevel(lower, max_level)]
    IN IF Len(s.l0_sstables) >= options.level0_file_num_compaction_trigger
       THEN {task(L0, s.l0_sstables, 1)}
       ELSE {task(i, Files(s, i), i + 1) :
                i \in {i \in unbalanced : \A j \in unbalanced : i <= j}}

(* Mutant: L0 is emptied, also of an SST that was flushed meanwhile.       *)
SimpleApplyClearsL0(s, task, output) ==
    IF task.upper_level = L0
    THEN [s EXCEPT !.l0_sstables = <<>>, !.levels[1] = <<1, output>>]
    ELSE [s EXCEPT !.levels[task.upper_level] = <<task.upper_level, <<>>>>,
                   !.levels[task.lower_level] = <<task.lower_level, output>>]

SimpleApply(s, task, output) ==
    IF task.upper_level = L0
    THEN [s EXCEPT !.l0_sstables = Without(@, Ids(task.upper_level_sst_ids)),
                   !.levels[1] = <<1, output>>]
    ELSE [s EXCEPT !.levels[task.upper_level] = <<task.upper_level, <<>>>>,
                   !.levels[task.lower_level] = <<task.lower_level, output>>]

-------------------------------------------------------------------------------
(* tiered.rs                                                               *)

(* How many files the first n tiers hold.                                  *)
SizeOf(s, n) == Len(FlattenSeq([i \in 1 .. n |-> Files(s, i)]))

TieredTask(options, s) ==
    LET n == Len(s.levels)
        next_size(i) == Len(Files(s, i + 1))
        space_amplified ==
            SizeOf(s, n - 1) * 100
                >= options.max_size_amplification_percent * Len(Files(s, n))
        size_ratio_exceeded == {i \in 1 .. n - 1 :
            /\ next_size(i) * 100 > (100 + options.size_ratio) * SizeOf(s, i)
            /\ i >= options.min_merge_width}
        num_tiers_to_take == Min({n, options.max_merge_width})
        task(m, bottom) == [tiers |-> SubSeq(s.levels, 1, m),
                            bottom_tier_included |-> bottom]
    IN IF n < options.num_tiers THEN {}
       ELSE IF space_amplified THEN {task(n, TRUE)}
       ELSE IF size_ratio_exceeded # {} THEN {task(Min(size_ratio_exceeded), FALSE)}
       ELSE {task(num_tiers_to_take, n >= num_tiers_to_take)}

(* assert!(l0_sstables.is_empty()), assert_eq!(ffiles, files) and          *)
(* unreachable!("some tiers not found??").                                 *)
TieredApplies(s, task) == s.l0_sstables = <<>> /\ Ids(task.tiers) \subseteq Ids(s.levels)

TieredFilesToRemove(task) ==
    FlattenSeq([i \in DOMAIN task.tiers |-> task.tiers[i][2]])

(* Mutant: the new tier goes to the end, below older tiers.                *)
TieredApplyAtEnd(s, task, output) ==
    [s EXCEPT !.levels = Without(@, Ids(task.tiers)) \o <<<<output[1], output>>>>]

(* Mutants: the oldest tier merged stays; so do only the tiers above it.   *)
TieredApplyKeepsOldest(s, task, output) ==
    LET last == Max({i \in DOMAIN s.levels : s.levels[i] \in Ids(task.tiers)})
    IN [s EXCEPT !.levels = Without(SubSeq(@, 1, last - 1), Ids(task.tiers))
                            \o <<<<output[1], output>>>> \o SubSeq(@, last, Len(@))]

TieredApplyDropsOlder(s, task, output) ==
    LET last == Max({i \in DOMAIN s.levels : s.levels[i] \in Ids(task.tiers)})
    IN [s EXCEPT !.levels = Without(SubSeq(@, 1, last), Ids(task.tiers))
                            \o <<<<output[1], output>>>>]

(* The new tier takes the place of the last tier removed.                  *)
TieredApply(s, task, output) ==
    LET last == Max({i \in DOMAIN s.levels : s.levels[i] \in Ids(task.tiers)})
        retained(from, to) == Without(SubSeq(s.levels, from, to), Ids(task.tiers))
    IN [s EXCEPT !.levels = retained(1, last) \o <<<<output[1], output>>>>
                            \o retained(last + 1, Len(s.levels))]

-------------------------------------------------------------------------------
(* leveled.rs                                                              *)

Hull(ssts, ids) == [first_key |-> Min({ssts[id].first_key : id \in ids}),
                    last_key |-> Max({ssts[id].last_key : id \in ids})]

RangesOverlap(a, b) == ~ (a.last_key < b.first_key \/ a.first_key > b.last_key)

(* Mutant: an SST that only touches the range is taken for disjoint.       *)
FindOverlappingOpenEnd(s, ssts, ids, in_level) ==
    Without(Files(s, in_level), {id \in Ids(Files(s, in_level)) :
        \/ ssts[id].last_key <= Hull(ssts, ids).first_key
        \/ ssts[id].first_key >= Hull(ssts, ids).last_key})

FindOverlappingSsts(s, ssts, ids, in_level) ==
    Without(Files(s, in_level), {id \in Ids(Files(s, in_level)) :
        ~ RangesOverlap(ssts[id], Hull(ssts, ids))})

(* The sizes added up: a pair for every unit of size of every table.       *)
RealLevelSize(s, ssts, i) ==
    Cardinality(UNION {{id} \X (1 .. ssts[id].table_size) : id \in Ids(Files(s, i))})

(* From the last level up: a level is given a target once the level below  *)
(* has outgrown the base size.                                             *)
TargetLevelSize(options, s, ssts) ==
    LET base == options.base_level_size
        target[i \in 1 .. options.max_levels] ==
            IF i = options.max_levels THEN Max({RealLevelSize(s, ssts, i), base})
            ELSE IF target[i + 1] > base
                 THEN target[i + 1] \div options.level_size_multiplier
                 ELSE 0
    IN target

LeveledTask(options, s, ssts) ==
    LET max_level == options.max_levels
        target == TargetLevelSize(options, s, ssts)
        real(i) == RealLevelSize(s, ssts, i)
        base_level == Min({max_level} \cup {i \in 1 .. max_level : target[i] > 0})
        oversized == {i \in 1 .. max_level :
            Files(s, i) # <<>> /\ target[i] > 0 /\ real(i) > target[i]}
        \* the order of the (priority, level) pairs, as fractions
        before(i, j) == \/ real(i) * target[j] > real(j) * target[i]
                        \/ real(i) * target[j] = real(j) * target[i] /\ i >= j
        task(upper, ids, lower) ==
            [upper_level |-> upper, upper_level_sst_ids |-> ids,
             lower_level |-> lower,
             lower_level_sst_ids |-> FindOverlappingSsts(s, ssts, Ids(ids), lower),
             is_lower_level_bottom_level |-> IsBottomLevel(lower, max_level)]
    IN IF Len(s.l0_sstables) > options.level0_file_num_compaction_trigger
       THEN {task(L0, s.l0_sstables, base_level)}
       ELSE {task(i, <<Min(Ids(Files(s, i)))>>, i + 1) :
                i \in {i \in oversized : \A j \in oversized : before(i, j)}}

LeveledUpper(s, task) == IF task.upper_level = L0 THEN s.l0_sstables
                         ELSE Files(s, task.upper_level)

(* assert!(upper_level_sst_ids_set.is_empty()), and the same for the lower.*)
LeveledApplies(s, task) ==
    /\ Ids(task.upper_level_sst_ids) \subseteq Ids(LeveledUpper(s, task))
    /\ Ids(task.lower_level_sst_ids) \subseteq Ids(Files(s, task.lower_level))

(* Mutant: SSTs compacted from L0 stay in L0.                              *)
LeveledInstallKeepsL0(s, task, lower) ==
    LET upper == Without(LeveledUpper(s, task), Ids(task.upper_level_sst_ids))
        lowered == [s EXCEPT !.levels[task.lower_level][2] = lower]
    IN IF task.upper_level = L0 THEN lowered
       ELSE [lowered EXCEPT !.levels[task.upper_level][2] = upper]

LeveledInstall(s, task, lower) ==
    LET upper == Without(LeveledUpper(s, task), Ids(task.upper_level_sst_ids))
        lowered == [s EXCEPT !.levels[task.lower_level][2] = lower]
    IN IF task.upper_level = L0
       THEN [lowered EXCEPT !.l0_sstables = upper]
       ELSE [lowered EXCEPT !.levels[task.upper_level][2] = upper]

LeveledLower(s, task, output) ==
    Without(Files(s, task.lower_level), Ids(task.lower_level_sst_ids)) \o output

(* Mutant: the new SSTs go to the end of the level.                        *)
LeveledApplyUnsorted(s, ssts, task, output, in_recovery) ==
    LeveledInstall(s, task, LeveledLower(s, task, output))

(* sort_by is stable: an SST goes after those with a smaller first key, and*)
(* after those with the same one that were before it.                      *)
SortByFirstKey(seq, ssts) ==
    LET key(i) == ssts[seq[i]].first_key
        before(j, i) == key(j) < key(i) \/ (key(j) = key(i) /\ j <= i)
        place(i) == Cardinality({j \in DOMAIN seq : before(j, i)})
    IN [n \in DOMAIN seq |-> seq[CHOOSE i \in DOMAIN seq : place(i) = n]]

(* In recovery the SSTs are not open yet and the level stays unsorted.     *)
LeveledApply(s, ssts, task, output, in_recovery) ==
    LET lower == LeveledLower(s, task, output)
    IN LeveledInstall(s, task, IF in_recovery THEN lower
                               ELSE SortByFirstKey(lower, ssts))
===============================================================================
