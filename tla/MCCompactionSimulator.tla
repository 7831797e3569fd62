-------------------------- MODULE MCCompactionSimulator --------------------------
(* Option sets and key ranges of CompactionSimulator for TLC.              *)
EXTENDS CompactionSimulator

MCSimple ==
    [policy : {"simple"}, size_ratio_percent : {100, 150, 200},
     level0_file_num_compaction_trigger : {1, 2, 3}, max_levels : 1 .. 4]

(* The default of max_merge_width is no limit.                             *)
MCTiered ==
    [policy : {"tiered"}, num_tiers : 2 .. 4, max_size_amplification_percent : {100, 200, 400},
     size_ratio : {1, 100}, min_merge_width : {2, 3}, max_merge_width : {1000}]

MCLeveled ==
    [policy : {"leveled"}, level0_file_num_compaction_trigger : {1, 2},
     max_levels : {2, 3}, level_size_multiplier : {2}, base_level_size : {64}]

MCOptions == MCSimple \cup MCTiered \cup MCLeveled

(* Two ranges with one key in common, and one across both.                 *)
MCKeyRanges ==
    {[first_key |-> 0, last_key |-> 127], [first_key |-> 127, last_key |-> 255],
     [first_key |-> 64, last_key |-> 191]}

MCProbes == {0, 64, 100, 127, 128, 200}
===============================================================================
