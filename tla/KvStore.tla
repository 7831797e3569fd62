-------------------------------- MODULE KvStore --------------------------------
(***************************************************************************)
(* What the storage engine promises: one multi-version map and one commit  *)
(* timestamp.  A write batch stages its cells at the next timestamp, where *)
(* no reader looks, and becomes visible as a whole when the timestamp is   *)
(* advanced.  Committed cells never change.  Memtables, SSTs, flushes and  *)
(* background threads do not exist at this level: freezing and flushing    *)
(* are stuttering steps.                                                   *)
(***************************************************************************)
EXTENDS VersionedTables

VARIABLES
    versions,   \* every cell the store holds
    commit_ts   \* the newest visible timestamp

kvVars == <<versions, commit_ts>>

Init ==
    /\ versions = EmptyTable
    /\ commit_ts = 0

(* A batch in progress writes one of its cells. *)
Stage(k, v) ==
    /\ commit_ts < MaxTs
    /\ versions' = [versions EXCEPT ![<<k, commit_ts + 1>>] = v]
    /\ UNCHANGED commit_ts

(* The batch in progress becomes visible. *)
Commit ==
    /\ commit_ts < MaxTs
    /\ commit_ts' = commit_ts + 1
    /\ UNCHANGED versions

Next ==
    \/ \E k \in Keys, v \in Values : Stage(k, v)
    \/ Commit

Spec == Init /\ [][Next]_kvVars

-------------------------------------------------------------------------------
TypeOK ==
    /\ versions \in Tables
    /\ commit_ts \in 0 .. MaxTs

(***************************************************************************)
(* Nothing is written beyond the timestamp of the batch in progress, so a  *)
(* reader at commit_ts never has to skip more than one batch.              *)
(***************************************************************************)
OnlyOneBatchAhead ==
    \A c \in Cells : c[2] > commit_ts + 1 => versions[c] = NoEntry

(***************************************************************************)
(* A committed cell keeps its value, or its absence, forever: this is what *)
(* makes a read at an old timestamp repeatable.                            *)
(***************************************************************************)
CommittedCellsKept ==
    [][ /\ \A c \in Cells : c[2] <= commit_ts => versions'[c] = versions[c]
        /\ commit_ts' >= commit_ts ]_kvVars
===============================================================================
