-------------------------------- MODULE SsTables --------------------------------
(***************************************************************************)
(* An SST file as SsTableBuilder writes it and SsTableIterator seeks in    *)
(* it: the sorted cells of a table, cut into blocks, with the first and    *)
(* the last key of each block in the block meta.  A block is cut by its    *)
(* size in bytes; here every entry has the same size.  A position in a     *)
(* file is a block and an index in it.                                     *)
(***************************************************************************)
EXTENDS VersionedTables

CONSTANT BlockEntries  \* how many entries options.block_size makes room for

(* A block holds the length of a key in 16 bits: there are finitely many.  *)
ASSUME SsTablesAssumption ==
    /\ Keys \subseteq Int
    /\ IsFiniteSet(Keys)
    /\ BlockEntries \in Nat \ {0}

-------------------------------------------------------------------------------
(* Blocks                                                                  *)

(* SsTableBuilder::add closes a block when the next entry does not fit,    *)
(* build closes the last one.                                              *)
Blocks(table) ==
    LET entries == Entries(table)
        Upto(b) == IF b * BlockEntries < Len(entries) THEN b * BlockEntries
                   ELSE Len(entries)
    IN [b \in 1 .. (Len(entries) + BlockEntries - 1) \div BlockEntries |->
            SubSeq(entries, (b - 1) * BlockEntries + 1, Upto(b))]

BlockMeta(table) ==
    [b \in DOMAIN Blocks(table) |->
        [first_key |-> Blocks(table)[b][1],
         last_key |-> Blocks(table)[b][Len(Blocks(table)[b])]]]

FirstKey(table) == BlockMeta(table)[1].first_key
LastKey(table) == BlockMeta(table)[Len(BlockMeta(table))].last_key

(* SsTable::open has only the block meta to take max_ts from; the builder  *)
(* has seen every entry.                                                   *)
NewestIn(cells) ==
    IF cells = {} THEN 0
    ELSE (CHOOSE c \in cells : \A d \in cells : d[2] <= c[2])[2]

MaxTsOpened(table) ==
    LET meta == BlockMeta(table)
    IN NewestIn({meta[b].first_key : b \in DOMAIN meta}
                \cup {meta[b].last_key : b \in DOMAIN meta})

-------------------------------------------------------------------------------
(* Pruning and seeking                                                     *)

KeyWithin(key, table) == FirstKey(table)[1] <= key /\ key <= LastKey(table)[1]

(* range_overlap; a bound is [kind, key].                                  *)
RangeOverlap(lower, upper, table) ==
    /\ ~ (upper.kind = "excluded" /\ upper.key <= FirstKey(table)[1])
    /\ ~ (upper.kind = "included" /\ upper.key < FirstKey(table)[1])
    /\ ~ (lower.kind = "excluded" /\ lower.key >= LastKey(table)[1])
    /\ ~ (lower.kind = "included" /\ lower.key > LastKey(table)[1])

(* Mutant: the block after the one that may hold the key.                  *)
FindBlockIdxAfter(table, cell) ==
    LET meta == BlockMeta(table)
        upto == Cardinality({b \in DOMAIN meta : NotAfter(meta[b].first_key, cell)})
    IN IF upto < Len(meta) THEN upto + 1 ELSE upto

(* partition_point(first_key <= cell).saturating_sub(1), counted from 1.   *)
FindBlockIdx(table, cell) ==
    LET meta == BlockMeta(table)
        upto == Cardinality({b \in DOMAIN meta : NotAfter(meta[b].first_key, cell)})
    IN IF upto = 0 THEN 1 ELSE upto

(* BlockIterator::seek_to_key: the first entry at or after the cell, or    *)
(* one past the last.                                                      *)
SeekInBlock(block, cell) ==
    1 + Cardinality({i \in DOMAIN block : Precedes(block[i], cell)})

(* Mutant: a seek that runs off its block stays there.                     *)
SettledInBlock(blocks, position) == position

(* Past the end of its block, the iterator goes to the start of the next.  *)
Settled(blocks, position) ==
    LET block == position[1]
    IN IF position[2] <= Len(blocks[block]) THEN position
       ELSE <<block + 1, 1>>

InTable(blocks, position) ==
    /\ position[1] <= Len(blocks)
    /\ position[2] <= Len(blocks[position[1]])

SeekToFirst(blocks) == <<1, 1>>

SeekToKey(table, cell) ==
    LET block == FindBlockIdx(table, cell)
    IN Settled(Blocks(table), <<block, SeekInBlock(Blocks(table)[block], cell)>>)

Advance(blocks, position) == Settled(blocks, <<position[1], position[2] + 1>>)

EntryAt(blocks, position) == blocks[position[1]][position[2]]
===============================================================================
