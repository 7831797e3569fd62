------------------------------ MODULE MCLsmClose ------------------------------
(* A small instance of LsmClose for TLC.                                   *)
EXTENDS LsmClose

CONSTANTS k1, v1

MCKeys == {k1}
MCValues == {v1, Tombstone}
MCBatches == {<<[key |-> k1, value |-> v1]>>, <<[key |-> k1, value |-> Tombstone]>>}
===============================================================================
