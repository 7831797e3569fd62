-------------------------- MODULE CompactionSimulator --------------------------
(***************************************************************************)
(* bin/compaction-simulator.rs: flush one SST, compact until the policy    *)
(* has nothing more to do, and start again.  It drives the controllers on  *)
(* a MockStorage that has the shape of the engine's state and no data.     *)
(*                                                                         *)
(* The variable holds adds what the mock leaves out: which records a real  *)
(* compaction would have put in each SST.  A record is the SST a flush     *)
(* wrote it to and its key; a higher id is newer data.                     *)
(***************************************************************************)
EXTENDS CompactionControllers

CONSTANTS
    Options,     \* the option records to simulate; policy names the controller
    KeyRanges,   \* the key ranges generate_random_key_range may return
    Probes,      \* the keys whose records are followed
    SstSize,     \* sst_size_mb, in the unit of base_level_size
    Iterations   \* BOUND: iterations of the simulator

ASSUME SimulatorAssumption ==
    /\ \A o \in Options : o.policy \in {"simple", "tiered", "leveled"}
    /\ \A r \in KeyRanges : r.first_key \in Nat /\ r.last_key \in Nat
                            /\ r.first_key < r.last_key
    /\ Iterations \in Nat

VARIABLES
    options,          \* of the controller; never changes
    l0_sstables,      \* MockStorage.snapshot
    levels,
    sstables,         \* id -> table_size, first_key and last_key
    next_sst_id,
    file_list,        \* MockStorage: id -> the flushed SST it stems from
    total_flushes,
    num_compactions,  \* of this iteration
    pc,               \* "flush", "compact" or "panicked"
    holds             \* id -> the records in the SST

snapshot == [l0_sstables |-> l0_sstables, levels |-> levels]
vars == <<options, l0_sstables, levels, sstables, next_sst_id, file_list,
          total_flushes, num_compactions, pc, holds>>

-------------------------------------------------------------------------------
(* The leveled simulator gives SSTs key ranges; the others do not, and an  *)
(* SST of theirs may hold any key.                                         *)
Leveled == options.policy = "leveled"
NoRange == [first_key |-> Min(Probes), last_key |-> Max(Probes)]
Sst(range) == [table_size |-> SstSize, first_key |-> range.first_key,
               last_key |-> range.last_key]
InRange(range) == {k \in Probes : range.first_key <= k /\ k <= range.last_key}

Init ==
    /\ options \in Options
    /\ l0_sstables = <<>>
    /\ levels = IF options.policy = "tiered" THEN <<>>
                ELSE [i \in 1 .. options.max_levels |-> <<i, <<>>>>]
    /\ sstables = <<>>
    /\ next_sst_id = 1
    /\ file_list = <<>>
    /\ total_flushes = 0
    /\ num_compactions = 0
    /\ pc = "flush"
    /\ holds = <<>>

-------------------------------------------------------------------------------
(* check_keys, run after each dump of the leveled simulator.               *)
CheckKeys(lvls, ssts) ==
    \A i \in DOMAIN lvls :
        \A j \in 1 .. Len(lvls[i][2]) - 1 :
            ssts[lvls[i][2][j]].last_key < ssts[lvls[i][2][j + 1]].first_key

(* Mutant: the counter is read and not advanced.                           *)
IdAfterNone(n) == next_sst_id

(* generate_sst_id called n times; the ids are next_sst_id and on.         *)
IdAfter(n) == next_sst_id + n

(* flush_sst_to_l0 and flush_sst_to_new_tier                               *)
Flush ==
    LET id == next_sst_id
    IN /\ pc = "flush"
       /\ total_flushes < Iterations
       /\ next_sst_id' = IdAfter(1)
       /\ IF options.policy = "tiered"
          THEN /\ levels' = <<<<id, <<id>>>>>> \o levels
               /\ UNCHANGED l0_sstables
          ELSE /\ l0_sstables' = Append(l0_sstables, id)
               /\ UNCHANGED levels
       /\ file_list' = file_list @@ (id :> id)
       /\ total_flushes' = total_flushes + 1
       /\ num_compactions' = 0
       /\ pc' = "compact"
       /\ \E range \in IF Leveled THEN KeyRanges ELSE {NoRange} :
            /\ sstables' = sstables @@ (id :> Sst(range))
            /\ holds' = holds @@ (id :> {id} \X InRange(range))
       /\ UNCHANGED options

Task == CASE options.policy = "simple" -> SimpleTask(options, snapshot)
          [] options.policy = "tiered" -> TieredTask(options, snapshot)
          [] options.policy = "leveled" -> LeveledTask(options, snapshot, sstables)

Inputs(task) == IF options.policy = "tiered" THEN TieredFilesToRemove(task)
                ELSE task.upper_level_sst_ids \o task.lower_level_sst_ids

(* generate_random_split: n ranges that cover what the inputs cover.       *)
Split(range, i, n) ==
    LET len == range.last_key - range.first_key + 1
    IN [first_key |-> range.first_key + (len * (i - 1)) \div n,
        last_key |-> range.first_key + (len * i) \div n - 1]

CanSplit(range, n) == range.last_key - range.first_key + 1 >= n

Apply(task, ssts, output) ==
    CASE options.policy = "simple" -> SimpleApply(snapshot, task, output)
      [] options.policy = "tiered" -> TieredApply(snapshot, task, output)
      [] options.policy = "leveled" ->
            LeveledApply(snapshot, ssts, task, output, FALSE)

Applies(task) == CASE options.policy = "simple" -> TRUE
                   [] options.policy = "tiered" -> TieredApplies(snapshot, task)
                   [] options.policy = "leveled" -> LeveledApplies(snapshot, task)

MaxCompactions ==
    CASE options.policy = "simple" -> options.max_levels * 2
      [] options.policy = "tiered" -> options.num_tiers * 3
      [] options.policy = "leveled" ->
            options.level0_file_num_compaction_trigger * options.max_levels * 2

(* One SST is written for each one read.                                   *)
Compact ==
    /\ pc = "compact"
    /\ \E task \in Task :
        LET input == Inputs(task)
            n == Len(input)
            output == [i \in 1 .. n |-> next_sst_id + i - 1]
            first(id) == id - next_sst_id + 1
            range(i) == IF Leveled THEN Split(Hull(sstables, Ids(input)), i, n)
                        ELSE NoRange
            read == UNION {holds[id] : id \in Ids(input)}
            written(i) == IF Leveled
                          THEN {r \in read : r[2] \in InRange(range(i))}
                          ELSE holds[input[i]]
            after == Apply(task, sstables', output)
        IN /\ sstables' = sstables @@ [id \in Ids(output) |-> Sst(range(first(id)))]
           /\ l0_sstables' = after.l0_sstables
           /\ levels' = after.levels
           /\ next_sst_id' = IdAfter(n)
           /\ file_list' = [id \in (DOMAIN file_list \cup Ids(output)) \ Ids(input) |->
                IF id \in Ids(output) THEN input[first(id)] ELSE file_list[id]]
           /\ num_compactions' = num_compactions + 1
           /\ holds' = holds @@ [id \in Ids(output) |-> written(first(id))]
           /\ pc' = IF /\ Applies(task)
                       /\ Leveled => CanSplit(Hull(sstables, Ids(input)), n)
                       /\ Leveled => CheckKeys(levels', sstables')
                       /\ Ids(input) \subseteq DOMAIN file_list
                       /\ num_compactions' < MaxCompactions
                    THEN "compact" ELSE "panicked"
    /\ UNCHANGED <<options, total_flushes>>

(* generate_compaction_task returns None: the next iteration.              *)
Settle ==
    /\ pc = "compact"
    /\ Task = {}
    /\ pc' = "flush"
    /\ UNCHANGED <<options, l0_sstables, levels, sstables, next_sst_id, file_list,
                   total_flushes, num_compactions, holds>>

Next == Flush \/ Compact \/ Settle

Spec == Init /\ [][Next]_vars

-------------------------------------------------------------------------------
(* Properties                                                              *)

Listed == Ids(l0_sstables) \cup UNION {Ids(levels[i][2]) : i \in DOMAIN levels}
RecordsIn(ids) == UNION {holds[id] : id \in ids}

(* The variables hold values of their types; ids were handed out once.     *)
TypeOK ==
    /\ options \in Options
    /\ l0_sstables \in Seq(Nat)
    /\ levels \in Seq(Nat \X Seq(Nat))
    /\ next_sst_id \in Nat
    /\ DOMAIN sstables = 1 .. next_sst_id - 1
    /\ DOMAIN holds = DOMAIN sstables
    /\ file_list \in [DOMAIN file_list -> DOMAIN sstables]
    /\ total_flushes \in 0 .. Iterations
    /\ num_compactions \in Nat
    /\ pc \in {"flush", "compact", "panicked"}

(***************************************************************************)
(* No assertion of the simulator or of a controller fails: a task names    *)
(* SSTs that are where it says, files are removed once, the SSTs of a      *)
(* sorted level stay disjoint and in order, and compaction converges within*)
(* the bound the simulator gives it.                                       *)
(***************************************************************************)
NeverPanics == pc # "panicked"

(***************************************************************************)
(* Compaction moves every record ever flushed and loses and duplicates     *)
(* none; the files on disk are exactly the SSTs in the levels, each listed *)
(* once.                                                                   *)
(***************************************************************************)
NothingLost ==
    /\ Listed = DOMAIN file_list
    /\ RecordsIn(Listed) = RecordsIn(DOMAIN holds)
    /\ \A a, b \in Listed : a # b => holds[a] \cap holds[b] = {}
    /\ Cardinality(Listed)
         = Len(l0_sstables) + SizeOf(snapshot, Len(levels))

(***************************************************************************)
(* Of two records with one key in different levels, the one nearer the top *)
(* is newer; L0 is newer than all levels.                                  *)
(***************************************************************************)
NewerThan(upper, lower) ==
    \A r \in RecordsIn(upper), q \in RecordsIn(lower) : r[2] = q[2] => r[1] > q[1]

NewerAbove ==
    \A i \in DOMAIN levels :
        /\ NewerThan(Ids(l0_sstables), Ids(levels[i][2]))
        /\ \A j \in i + 1 .. Len(levels) : NewerThan(Ids(levels[i][2]), Ids(levels[j][2]))

(***************************************************************************)
(* A task said to reach the bottom, whose output therefore drops delete    *)
(* markers, leaves no older record of its keys in any other SST.  (With    *)
(* max_merge_width below the number of tiers tiered.rs sets the flag all   *)
(* the same: see README.)                                                  *)
(***************************************************************************)
ToBottom(task) == IF options.policy = "tiered" THEN task.bottom_tier_included
                  ELSE task.is_lower_level_bottom_level

BottomTaskHoldsOldest ==
    \A task \in Task :
        ToBottom(task) => NewerThan(Listed \ Ids(Inputs(task)), Ids(Inputs(task)))

(***************************************************************************)
(* What check_compaction_ratio of tests/harness.rs asserts of the levels   *)
(* once compaction has settled: for simple, L0 below the trigger and each  *)
(* level large enough for the one above; for tiered, no L0, not too many   *)
(* tiers, and above every tier no more than size_ratio allows and above the*)
(* last no more than the space amplification allows; for leveled, each     *)
(* level at most 1/multiplier + 0.5 of the last.  The two ratios of tiered *)
(* are asserted for up to 3 tiers, which is what every test and the command*)
(* line use: tiered.rs leaves fewer tiers than num_tiers alone, and with 4 *)
(* it may settle at tiers of 1, 1 and 1, where they do not hold.           *)
(***************************************************************************)
SimpleSettled ==
    /\ Len(l0_sstables) < options.level0_file_num_compaction_trigger
    /\ \A i \in 1 .. Len(levels) - 1 :
         Len(levels[i + 1][2]) * 100 >= Len(levels[i][2]) * options.size_ratio_percent

TestedTiers == 3

SizeRatioHolds ==
    Len(levels) > options.min_merge_width =>
        \A i \in 1 .. Len(levels) - 1 :
            SizeOf(snapshot, i) * 100
                <= (100 + options.size_ratio) * Len(Files(snapshot, i + 1))

SpaceAmplificationHolds ==
    Len(levels) > 1 =>
        SizeOf(snapshot, Len(levels) - 1) * 100
            <= options.max_size_amplification_percent * Len(Files(snapshot, Len(levels)))

TieredSettled ==
    /\ l0_sstables = <<>>
    /\ Len(levels) <= options.num_tiers
    /\ options.num_tiers <= TestedTiers => SizeRatioHolds /\ SpaceAmplificationHolds

LeveledSettled ==
    LET last == RealLevelSize(snapshot, sstables, options.max_levels)
    IN \A i \in 1 .. options.max_levels - 1 :
        LET m == options.level_size_multiplier ^ (options.max_levels - i)
        IN 2 * m * RealLevelSize(snapshot, sstables, i) <= (2 + m) * last

SettledAsTested ==
    pc = "flush" =>
        CASE options.policy = "simple" -> SimpleSettled
          [] options.policy = "tiered" -> TieredSettled
          [] options.policy = "leveled" -> LeveledSettled
===============================================================================
