------------------------------ MODULE LsmIterators ------------------------------
(***************************************************************************)
(* The iterators a scan is made of, as cursors: records whose field kind   *)
(* names the Rust type.  Creating and advancing them follows the code; the *)
(* memtables and a transaction's local storage can change under them, and  *)
(* are handed in as live: [memtables, local].                              *)
(*                                                                         *)
(* A key is a cell.  The iterators over user keys give <<key, 0>>.         *)
(* User keys are not empty: MemTableIterator::is_valid takes an entry with *)
(* an empty key for the end.                                               *)
(***************************************************************************)
EXTENDS SsTables, BloomFilter

CONSTANT Nil   \* an iterator or an item that is not there

TsRangeBegin == MaxTs + 1
TsRangeEnd == 0

(* map_bound_lower, map_bound_upper: a bound is [kind, key].               *)
AfterLower(lower, c) ==
    /\ lower.kind = "included" => NotAfter(<<lower.key, TsRangeBegin>>, c)
    /\ lower.kind = "excluded" => Precedes(<<lower.key, TsRangeEnd>>, c)

BeforeUpper(upper, c) ==
    /\ upper.kind = "included" => NotAfter(c, <<upper.key, TsRangeEnd>>)
    /\ upper.kind = "excluded" => Precedes(c, <<upper.key, TsRangeBegin>>)

FirstIn(cells) == CHOOSE c \in cells : \A d \in cells : NotAfter(c, d)

-------------------------------------------------------------------------------
(* Iterators over one table, one run of SSTs, one transaction's writes     *)

(* The skip map's range gives the first entry past the last one it gave,   *)
(* as the map is now; the entry is kept in item until the next call.       *)
MemItem(table, past, lower, upper) ==
    LET ahead == {c \in CellsOf(table) : /\ AfterLower(lower, c)
                                         /\ BeforeUpper(upper, c)
                                         /\ past # Nil => Precedes(past, c)}
    IN IF ahead = {} THEN Nil ELSE <<FirstIn(ahead), table[FirstIn(ahead)]>>

MemTableScan(id, lower, upper, live) ==
    [kind |-> "mem", id |-> id, lower |-> lower, upper |-> upper,
     item |-> MemItem(live.memtables[id], Nil, lower, upper)]

LocalItem(local, past, lower, upper) ==
    LET ahead == {c \in Keys \X {0} : /\ local[c[1]] # NoEntry
                                      /\ lower.kind = "included" => lower.key <= c[1]
                                      /\ lower.kind = "excluded" => lower.key < c[1]
                                      /\ upper.kind = "included" => c[1] <= upper.key
                                      /\ upper.kind = "excluded" => c[1] < upper.key
                                      /\ past # Nil => past[1] < c[1]}
    IN IF ahead = {} THEN Nil ELSE <<FirstIn(ahead), local[FirstIn(ahead)[1]]>>

LocalScan(lower, upper, live) ==
    [kind |-> "local", lower |-> lower, upper |-> upper,
     item |-> LocalItem(live.local, Nil, lower, upper)]

SstAt(table, position) ==
    [kind |-> "sst", table |-> table, blocks |-> Blocks(table), at |-> position]

SstFirst(table) == SstAt(table, SeekToFirst(Blocks(table)))
SstSeek(table, cell) == SstAt(table, SeekToKey(table, cell))
SstValid(it) == InTable(it.blocks, it.at)

(* move_until_valid: current runs out, and the next SST takes its place.   *)
RECURSIVE MoveUntilValid(_)
MoveUntilValid(it) ==
    IF it.current = Nil \/ SstValid(it.current) THEN it
    ELSE IF it.rest = <<>> THEN [it EXCEPT !.current = Nil]
    ELSE MoveUntilValid([it EXCEPT !.current = SstFirst(Head(it.rest)),
                                   !.rest = Tail(it.rest)])

ConcatAt(tables, n, current) ==
    MoveUntilValid([kind |-> "concat", current |-> current,
                    rest |-> SubSeq(tables, n + 1, Len(tables))])

ConcatFirst(tables) ==
    ConcatAt(tables, 1, IF tables = <<>> THEN Nil ELSE SstFirst(tables[1]))

ConcatSeek(tables, cell) ==
    LET upto == Cardinality({i \in DOMAIN tables : NotAfter(FirstKey(tables[i]), cell)})
        n == IF upto = 0 THEN 1 ELSE upto
    IN ConcatAt(tables, n, IF tables = <<>> THEN Nil ELSE SstSeek(tables[n], cell))

-------------------------------------------------------------------------------
(* Merging: is_valid, key, value and next of every kind                    *)

RECURSIVE IsValid(_), KeyOf(_), ValueOf(_), NextOf(_, _), SkipKey(_, _, _)

InRange(it) ==
    LET key == KeyOf(it.inner)[1]
    IN /\ it.end_bound.kind = "included" => key <= it.end_bound.key
       /\ it.end_bound.kind = "excluded" => key < it.end_bound.key

IsValid(it) ==
    CASE it.kind \in {"mem", "local"} -> it.item # Nil
      [] it.kind = "sst" -> SstValid(it)
      [] it.kind \in {"concat", "merge"} -> it.current # Nil
      [] it.kind = "two" -> IsValid(it.a) \/ IsValid(it.b)
      [] it.kind = "lsm" -> IsValid(it.inner) /\ InRange(it)

(* TwoMergeIterator stands on a, unless b is valid and before it.          *)
OnA(it) ==
    \/ ~ IsValid(it.b)
    \/ IsValid(it.a) /\ NotAfter(KeyOf(it.a), KeyOf(it.b))

KeyOf(it) ==
    CASE it.kind \in {"mem", "local"} -> it.item[1]
      [] it.kind = "sst" -> EntryAt(it.blocks, it.at)
      [] it.kind = "concat" -> KeyOf(it.current)
      [] it.kind = "merge" -> KeyOf(it.current[2])
      [] it.kind = "two" -> IF OnA(it) THEN KeyOf(it.a) ELSE KeyOf(it.b)
      [] it.kind = "lsm" -> <<KeyOf(it.inner)[1], 0>>

ValueOf(it) ==
    CASE it.kind \in {"mem", "local"} -> it.item[2]
      [] it.kind = "sst" -> it.table[EntryAt(it.blocks, it.at)]
      [] it.kind = "concat" -> ValueOf(it.current)
      [] it.kind = "merge" -> ValueOf(it.current[2])
      [] it.kind = "two" -> IF OnA(it) THEN ValueOf(it.a) ELSE ValueOf(it.b)
      [] it.kind = "lsm" -> ValueOf(it.inner)

(* Mutant: of equal keys the one of the oldest table is popped.            *)
PoppedOldest(heap) ==
    CHOOSE w \in heap : \A x \in heap :
        \/ Precedes(KeyOf(w[2]), KeyOf(x[2]))
        \/ KeyOf(w[2]) = KeyOf(x[2]) /\ w[1] >= x[1]

(* The heap of MergeIterator holds <<index, iterator>>; the least key, and *)
(* of equal keys the least index, is popped.                               *)
Popped(heap) ==
    CHOOSE w \in heap : \A x \in heap :
        \/ Precedes(KeyOf(w[2]), KeyOf(x[2]))
        \/ KeyOf(w[2]) = KeyOf(x[2]) /\ w[1] <= x[1]

Merged(heap) ==
    IF heap = {} THEN [kind |-> "merge", current |-> Nil, heap |-> {}]
    ELSE [kind |-> "merge", current |-> Popped(heap), heap |-> heap \ {Popped(heap)}]

MergeCreate(iters) ==
    Merged({<<i, iters[i]>> : i \in {j \in DOMAIN iters : IsValid(iters[j])}})

(* next: current advances, and so does everything on its key.              *)
MergeNext(it, live) ==
    LET key == KeyOf(it.current[2])
        moved == {it.current} \cup {w \in it.heap : KeyOf(w[2]) = key}
        advanced == {<<w[1], NextOf(w[2], live)>> : w \in moved}
    IN Merged((it.heap \ moved) \cup {w \in advanced : IsValid(w[2])})

TwoNext(it, live) ==
    LET keys_equal == IsValid(it.a) /\ IsValid(it.b) /\ KeyOf(it.a) = KeyOf(it.b)
    IN IF keys_equal
       THEN [it EXCEPT !.a = NextOf(@, live), !.b = NextOf(@, live)]
       ELSE IF OnA(it) THEN [it EXCEPT !.a = NextOf(@, live)]
       ELSE [it EXCEPT !.b = NextOf(@, live)]

(* while is_valid and the user key is key: next.                           *)
SkipKey(it, key, live) ==
    IF IsValid(it) /\ KeyOf(it)[1] = key
    THEN SkipKey(NextOf(it, live), key, live) ELSE it

RECURSIVE SkipNewer(_, _, _)
SkipNewer(it, read_ts, live) ==
    IF IsValid(it) /\ KeyOf(it)[2] > read_ts
    THEN SkipNewer(NextOf(it, live), read_ts, live) ELSE it

(* Mutant: only the delete marker is skipped, not what it deletes.         *)
RECURSIVE SkipMarkerOnly(_, _, _)
SkipMarkerOnly(it, read_ts, live) ==
    LET at == SkipNewer(it, read_ts, live)
    IN IF ~ IsValid(at) \/ ValueOf(at) # Tombstone THEN at
       ELSE SkipMarkerOnly(NextOf(at, live), read_ts, live)

RECURSIVE SkipTombstone(_, _, _)
SkipTombstone(it, read_ts, live) ==
    LET at == SkipNewer(it, read_ts, live)
    IN IF ~ IsValid(at) \/ ValueOf(at) # Tombstone THEN at
       ELSE SkipTombstone(SkipKey(at, KeyOf(at)[1], live), read_ts, live)

(* LsmIterator after skip_tompstone; prev_key is the key it stands on, or  *)
(* the last one it stood on.                                               *)
LsmAt(inner, end_bound, read_ts, prev_key) ==
    [kind |-> "lsm", inner |-> inner, end_bound |-> end_bound, read_ts |-> read_ts,
     prev_key |-> IF IsValid(inner) THEN KeyOf(inner)[1] ELSE prev_key]

LsmNew(inner, end_bound, read_ts, live) ==
    LsmAt(SkipTombstone(inner, read_ts, live), end_bound, read_ts, Nil)

LsmNext(it, live) ==
    LsmAt(SkipTombstone(SkipKey(it.inner, it.prev_key, live), it.read_ts, live),
          it.end_bound, it.read_ts, it.prev_key)

NextOf(it, live) ==
    CASE it.kind = "mem" ->
            [it EXCEPT !.item = MemItem(live.memtables[it.id], @[1], it.lower, it.upper)]
      [] it.kind = "local" ->
            [it EXCEPT !.item = LocalItem(live.local, @[1], it.lower, it.upper)]
      [] it.kind = "sst" -> [it EXCEPT !.at = Advance(it.blocks, @)]
      [] it.kind = "concat" -> MoveUntilValid([it EXCEPT !.current = NextOf(@, live)])
      [] it.kind = "merge" -> MergeNext(it, live)
      [] it.kind = "two" -> TwoNext(it, live)
      [] it.kind = "lsm" -> LsmNext(it, live)

TwoMerge(a, b) == [kind |-> "two", a |-> a, b |-> b]
===============================================================================
