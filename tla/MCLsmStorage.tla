------------------------------ MODULE MCLsmStorage ------------------------------
(* Small instances of LsmStorage for TLC.                                  *)
EXTENDS LsmStorage, TLC

CONSTANTS k1, k2, v1

MCKeys == {k1, k2}
MCValues == {v1, Tombstone}

Put(k, v) == [key |-> k, value |-> v]
Del(k) == [key |-> k, value |-> Tombstone]

(* A single put, a batch over two keys, and one that writes a key twice.   *)
MCBatches == {<<Put(k1, v1)>>,
              <<Put(k1, v1), Put(k2, v1)>>,
              <<Put(k2, v1), Del(k2)>>}

(* For runs with more threads or failures.  A failed batch leaves its cell *)
(* at the timestamp of the next, so the two must differ to be told apart.  *)
MCOneKey == {k1}
MCPutOrDelete == {<<Put(k1, v1)>>, <<Del(k1)>>}

(* Writers only differ by name.                                            *)
WriterSymmetry == Permutations(Writers)
===============================================================================
