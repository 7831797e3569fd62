---------------------------- MODULE VersionedTables ----------------------------
(***************************************************************************)
(* The data every layer of the engine holds, and how the layers are read   *)
(* together.                                                               *)
(*                                                                         *)
(* A cell is a user key with a timestamp (key.rs orders them by key, then  *)
(* newest timestamp first).  A table is the content of one memtable or of  *)
(* one SST: at most one value per cell.  Deletion writes the empty value,  *)
(* here Tombstone; NoEntry says that a table does not hold the cell.       *)
(***************************************************************************)
EXTENDS Integers, Sequences, FiniteSets

CONSTANTS
    Keys,       \* user keys
    Values,     \* values a cell can hold, Tombstone among them
    Tombstone,  \* the empty value, which a delete writes
    NoEntry,    \* "this table has no such cell"
    MaxTs       \* BOUND: the largest commit timestamp of the model

ASSUME TablesAssumption ==
    /\ Tombstone \in Values
    /\ NoEntry \notin Values
    /\ MaxTs \in Nat

Cells == Keys \X (1 .. MaxTs)
Tables == [Cells -> Values \cup {NoEntry}]
EmptyTable == [c \in Cells |-> NoEntry]

-------------------------------------------------------------------------------
(* Order                                                                   *)

(* Key's Ord: user key first, then Reverse(ts).                            *)
Precedes(c, d) == c[1] < d[1] \/ (c[1] = d[1] /\ c[2] > d[2])
NotAfter(c, d) == c = d \/ Precedes(c, d)

CellsOf(table) == {c \in Cells : table[c] # NoEntry}

(* The order in which MemTable::flush and the merge of a compaction hand   *)
(* the cells to the builder.                                               *)
Entries(table) ==
    LET cells == CellsOf(table)
        Rank(c) == Cardinality({d \in cells : NotAfter(d, c)})
    IN [i \in 1 .. Cardinality(cells) |-> CHOOSE c \in cells : Rank(c) = i]

-------------------------------------------------------------------------------
(* The merging iterators, as functions of the tables they read.            *)

(***************************************************************************)
(* MergeIterator over a vector of iterators, one per table.  HeapWrapper   *)
(* orders equal keys by index, so the entry of the first table that holds  *)
(* the cell leaves the heap first, and MergeIterator::next then skips the  *)
(* other entries with that key.                                            *)
(***************************************************************************)
Holders(tables, c) == {i \in DOMAIN tables : tables[i][c] # NoEntry}

FirstOf(indices) == CHOOSE i \in indices : \A j \in indices : i <= j

MergeIterator(tables) ==
    [c \in Cells |->
        IF Holders(tables, c) = {} THEN NoEntry
        ELSE tables[FirstOf(Holders(tables, c))][c]]

(* TwoMergeIterator: on equal keys a's entry is produced and b's skipped.  *)
TwoMergeIterator(a, b) ==
    [c \in Cells |-> IF a[c] # NoEntry THEN a[c] ELSE b[c]]

(***************************************************************************)
(* SstConcatIterator walks the SSTs of one sorted run one after another;   *)
(* their key ranges are disjoint, so at most one of them holds a cell.     *)
(***************************************************************************)
SstConcatIterator(tables) == MergeIterator(tables)

(***************************************************************************)
(* What get_with_ts returns from the merged layers: it skips the versions  *)
(* newer than read_ts, and an absent key and an empty value are both None. *)
(***************************************************************************)
VersionsSeen(table, k, read_ts) ==
    {ts \in 1 .. MaxTs : ts <= read_ts /\ table[<<k, ts>>] # NoEntry}

ValueAt(table, k, read_ts) ==
    LET seen == VersionsSeen(table, k, read_ts)
        newest == CHOOSE ts \in seen : \A other \in seen : other <= ts
    IN IF seen = {} \/ table[<<k, newest>>] = Tombstone
       THEN NoEntry
       ELSE table[<<k, newest>>]
===============================================================================
