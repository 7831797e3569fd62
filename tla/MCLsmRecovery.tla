----------------------------- MODULE MCLsmRecovery -----------------------------
(* Small instances of LsmRecovery for TLC.                                 *)
EXTENDS LsmRecovery

CONSTANT v1

MCValues == {v1, Tombstone}

Put(k) == [key |-> k, value |-> v1]
Del(k) == [key |-> k, value |-> Tombstone]

(* The second writes a key twice, may fail in between, and fills the       *)
(* memtable it goes to; the first leaves room.                             *)
MCKeys == 1 .. 2
MCBatches == {<<Del(1), Put(2)>>, <<Put(1), Del(1), Put(2)>>}

(* The newest version comes to lie between two older ones.                 *)
MCThreeKeys == 1 .. 3
MCOuterThenInner == {<<Put(1), Put(3)>>, <<Put(2)>>}
===============================================================================
