------------------------------- MODULE BloomFilter ------------------------------
(***************************************************************************)
(* bloom.rs: the filter of an SST as the set of its bits that are set, and *)
(* the probes with which it is built and asked.                            *)
(***************************************************************************)
EXTENDS VersionedTables

CONSTANTS
    KeyHash,       \* farmhash::fingerprint32
    HashBits,      \* BOUND: the width of a hash (32 in the code)
    FilterBits,    \* nbits
    FilterProbes   \* k; more than 30 asks nothing of the filter

ASSUME BloomAssumption ==
    /\ HashBits \in Nat \ {0}
    /\ KeyHash \in [Keys -> 0 .. 2 ^ HashBits - 1]
    /\ FilterBits \in Nat \ {0}
    /\ FilterProbes \in 1 .. 30

(* rotate_left by about half of the width.                                 *)
Delta(h) ==
    LET shift == HashBits \div 2
    IN ((h * 2 ^ shift) % 2 ^ HashBits) + (h \div 2 ^ (HashBits - shift))

(* The i-th probe: i wrapping additions of the delta.                      *)
Probe(h, i) == ((h + i * Delta(h)) % 2 ^ HashBits) % FilterBits

(* Mutant: every probe after the first is built from the next hash.        *)
FilterShifted(table) ==
    {Probe(KeyHash[c[1]], i + 1) :
        c \in {d \in Cells : table[d] # NoEntry}, i \in 0 .. FilterProbes - 1}

(* build_from_key_hashes: add pushes the hash of every entry's user key.   *)
Filter(table) ==
    {Probe(KeyHash[c[1]], i) :
        c \in {d \in Cells : table[d] # NoEntry}, i \in 0 .. FilterProbes - 1}

MayContain(filter, key) ==
    \A i \in 0 .. FilterProbes - 1 : Probe(KeyHash[key], i) \in filter
===============================================================================
