---------------------------- MODULE MCLsmTransaction ----------------------------
(* A small instance of LsmTransaction for TLC.                             *)
EXTENDS LsmTransaction, TLC

CONSTANT v1

MCKeys == 1 .. 3
MCValues == {v1, Tombstone}

(* Two of the keys set the same bits of a filter.                          *)
MCKeyHash == 1 :> 1 @@ 2 :> 6 @@ 3 :> 13

(* Two batches: what is deleted, covered, or left as it was.               *)
MCFirst == {1 :> v1 @@ 2 :> v1 @@ 3 :> v1, 2 :> v1, 1 :> v1 @@ 3 :> Tombstone}
MCSecond == {2 :> Tombstone, 1 :> Tombstone @@ 3 :> v1, 1 :> v1 @@ 2 :> v1}
MCHistories == {<<first, second>> : first \in MCFirst, second \in MCSecond}

(* The second batch was tried before, with other values.                   *)
MCFailedAttempt == 1 :> Tombstone @@ 2 :> v1

(* 1 memtable, 2 immutable one, 3 and 4 newer and older in L0, 5 and 6     *)
(* levels.                                                                 *)
MCPlacements == {<<1, 1>>, <<2, 1>>, <<3, 2>>, <<4, 3>>, <<5, 3>>, <<6, 5>>, <<5, 5>>}

(* One batch of new versions and deletions under an open scan.             *)
MCIncoming == {<< <<2, v1>>, <<3, Tombstone>> >>, << <<1, Tombstone>>, <<2, v1>> >>}

All == [kind |-> "unbounded", key |-> 0]
Excluded(key) == [kind |-> "excluded", key |-> key]
MCRanges == {<<All, All>>, <<Included(2), Excluded(3)>>, <<Excluded(1), All>>,
             <<All, Included(2)>>, <<Excluded(1), Included(2)>>}
===============================================================================
