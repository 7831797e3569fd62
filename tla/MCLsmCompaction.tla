---------------------------- MODULE MCLsmCompaction ----------------------------
(* Small instances of LsmCompaction for TLC.                               *)
EXTENDS LsmCompaction

CONSTANT v1

MCKeys == {1, 2}
MCValues == {v1, Tombstone}

Put(k) == [key |-> k, value |-> v1]
Del(k) == [key |-> k, value |-> Tombstone]

MCBatches == {<<Put(1), Put(2)>>, <<Del(1)>>}
MCPutOrDelete == {<<Put(1)>>, <<Del(1)>>}

MCSimple == [kind |-> "simple", size_ratio_percent |-> 100,
             level0_file_num_compaction_trigger |-> 1, max_levels |-> 2]
MCLeveled == [kind |-> "leveled", level0_file_num_compaction_trigger |-> 0,
              max_levels |-> 2, level_size_multiplier |-> 2, base_level_size |-> 1]
MCTiered == [kind |-> "tiered", num_tiers |-> 2, max_size_amplification_percent |-> 200,
             size_ratio |-> 1, min_merge_width |-> 2, max_merge_width |-> 1000]
(* Merges two tiers of three.                                              *)
MCTieredNarrow == [MCTiered EXCEPT !.num_tiers = 3, !.max_size_amplification_percent = 400,
                                   !.max_merge_width = 2]
MCNone == [kind |-> "none"]

(* The properties of passing runs say nothing of what follows a race.      *)
NotRaced == ~ raced

MCPolicies == {MCSimple, MCLeveled}
MCSimpleOnly == {MCSimple}
MCTieredPolicies == {MCTiered, MCTieredNarrow}
MCNoneOnly == {MCNone}
===============================================================================
