------------------------ MODULE VersionedTablesProofs -------------------------
(***************************************************************************)
(* Facts about the merging iterators for any keys, values and number of    *)
(* tables.  They say how the merged content changes when a table is put    *)
(* before or after the others, which is all a freeze or a flush does.      *)
(***************************************************************************)
EXTENDS VersionedTables, WellFoundedInduction, FiniteSetTheorems, TLAPS

(* Vectors of tables, as the iterators get them.                           *)
IsTableSeq(s, n) == n \in Nat /\ s \in [1 .. n -> Tables]

(* Every non-empty set of naturals has a least element, so that FirstOf    *)
(* picks the index MergeIterator's heap yields.                            *)
LEMMA NatLeast ==
    ASSUME NEW U \in SUBSET Nat, U # {}
    PROVE  \E x \in U : \A y \in U : x <= y
<1> DEFINE R == OpToRel(<, Nat)
<1>1. IsWellFoundedOn(R, Nat)
  BY NatLessThanWellFounded
<1> HIDE DEF R
<1>2. PICK x \in U : \A y \in U : ~ (<<y, x>> \in R)
  BY <1>1, WFMin, Zenon
<1>3. ASSUME NEW y \in U, y < x PROVE <<y, x>> \in R
  BY <1>3 DEF R, OpToRel
<1>4. \A y \in U : ~ (y < x)
  BY <1>2, <1>3
<1>5. x \in Nat /\ \A y \in U : y \in Nat
  OBVIOUS
<1> QED BY <1>4, <1>5

(* FirstOf is characterised by being in the set and below all its members. *)
LEMMA FirstOfProperties ==
    ASSUME NEW U \in SUBSET Nat, U # {}
    PROVE  /\ FirstOf(U) \in U
           /\ \A j \in U : FirstOf(U) <= j
BY NatLeast DEF FirstOf

LEMMA FirstOfUnique ==
    ASSUME NEW U \in SUBSET Nat, NEW i \in U, \A j \in U : i <= j
    PROVE  FirstOf(U) = i
<1>1. FirstOf(U) \in U /\ FirstOf(U) <= i
  BY FirstOfProperties
<1>2. i <= FirstOf(U)
  BY <1>1
<1>3. i \in Nat /\ FirstOf(U) \in Nat
  BY <1>1
<1> QED BY <1>1, <1>2, <1>3

(* Merging tables yields a table.                                          *)
LEMMA MergeType ==
    ASSUME NEW n, NEW s, IsTableSeq(s, n)
    PROVE  MergeIterator(s) \in Tables
<1> SUFFICES ASSUME NEW c \in Cells
             PROVE  (IF Holders(s, c) = {} THEN NoEntry
                     ELSE s[FirstOf(Holders(s, c))][c]) \in Values \cup {NoEntry}
  BY DEF MergeIterator, Tables
<1>1. CASE Holders(s, c) = {}
  BY <1>1
<1>2. CASE Holders(s, c) # {}
  <2>1. Holders(s, c) \in SUBSET Nat /\ Holders(s, c) \subseteq 1 .. n
    BY DEF Holders, IsTableSeq
  <2>2. FirstOf(Holders(s, c)) \in 1 .. n
    BY <1>2, <2>1, FirstOfProperties
  <2> QED BY <1>2, <2>2 DEF IsTableSeq, Tables
<1> QED BY <1>1, <1>2

LEMMA TwoMergeType ==
    ASSUME NEW a \in Tables, NEW b \in Tables
    PROVE  TwoMergeIterator(a, b) \in Tables
BY DEF TwoMergeIterator, Tables

(* Preferring a over b over d does not depend on the bracketing.           *)
LEMMA TwoMergeAssociative ==
    ASSUME NEW a \in Tables, NEW b \in Tables, NEW d \in Tables
    PROVE  TwoMergeIterator(TwoMergeIterator(a, b), d)
            = TwoMergeIterator(a, TwoMergeIterator(b, d))
BY DEF TwoMergeIterator, Tables

(* An empty table on either side adds nothing.                             *)
LEMMA TwoMergeEmpty ==
    ASSUME NEW a \in Tables
    PROVE  /\ TwoMergeIterator(EmptyTable, a) = a
           /\ TwoMergeIterator(a, EmptyTable) = a
           /\ EmptyTable \in Tables
BY DEF TwoMergeIterator, EmptyTable, Tables

(* Merging no table, or one.                                               *)
LEMMA MergeNone ==
    ASSUME NEW s, IsTableSeq(s, 0)
    PROVE  MergeIterator(s) = EmptyTable
<1>1. ASSUME NEW c \in Cells PROVE Holders(s, c) = {}
  BY DEF Holders, IsTableSeq
<1> QED BY <1>1 DEF MergeIterator, EmptyTable

(* A table put first shadows the others: the new memtable of a freeze, or  *)
(* the new SST at the head of L0.                                          *)
LEMMA MergeFirst ==
    ASSUME NEW n, NEW s, NEW big, NEW t \in Tables,
           IsTableSeq(s, n), IsTableSeq(big, n + 1),
           big[1] = t,
           \A i \in 1 .. n : big[i + 1] = s[i]
    PROVE  MergeIterator(big) = TwoMergeIterator(t, MergeIterator(s))
<1> SUFFICES ASSUME NEW c \in Cells
             PROVE  MergeIterator(big)[c] = TwoMergeIterator(t, MergeIterator(s))[c]
  BY DEF MergeIterator, TwoMergeIterator
<1> DEFINE H == Holders(s, c)
           B == Holders(big, c)
<1>0. n \in Nat /\ DOMAIN s = 1 .. n /\ DOMAIN big = 1 .. n + 1
  BY DEF IsTableSeq
<1>1. H \in SUBSET Nat /\ B \in SUBSET Nat
  BY <1>0 DEF Holders
<1>2. CASE t[c] # NoEntry
  <2>1. 1 \in B /\ \A j \in B : 1 <= j
    BY <1>0, <1>2 DEF Holders
  <2>2. FirstOf(B) = 1
    BY <1>1, <2>1, FirstOfUnique
  <2> QED BY <1>2, <2>1, <2>2 DEF MergeIterator, TwoMergeIterator
<1>3. CASE t[c] = NoEntry
  <2>1. \A i \in 1 .. n : i \in H <=> i + 1 \in B
    BY <1>0 DEF Holders
  <2>2. \A j \in B : j - 1 \in 1 .. n /\ j - 1 \in H
    <3> TAKE j \in B
    <3>1. j \in 1 .. n + 1 /\ j # 1
      BY <1>0, <1>3 DEF Holders
    <3>2. j - 1 \in 1 .. n /\ (j - 1) + 1 = j
      BY <1>0, <3>1
    <3> QED BY <2>1, <3>2
  <2>3. CASE H = {}
    <3>1. B = {}
      BY <2>2, <2>3
    <3> QED BY <1>3, <2>3, <3>1 DEF MergeIterator, TwoMergeIterator
  <2>4. CASE H # {}
    <3> DEFINE f == FirstOf(H)
    <3>1. f \in H /\ \A j \in H : f <= j
      BY <1>1, <2>4, FirstOfProperties
    <3>2. f \in 1 .. n
      BY <1>0, <3>1 DEF Holders
    <3> HIDE DEF f
    <3>3. f + 1 \in B
      BY <2>1, <3>1, <3>2
    <3>4. \A j \in B : f + 1 <= j
      BY <1>0, <1>1, <2>2, <3>1, <3>2
    <3>5. FirstOf(B) = f + 1
      BY <1>1, <3>3, <3>4, FirstOfUnique
    <3>6. big[f + 1] = s[f]
      BY <3>2
    <3> QED BY <1>3, <2>4, <3>3, <3>5, <3>6 DEF MergeIterator, TwoMergeIterator, f
  <2> QED BY <2>3, <2>4
<1> QED BY <1>2, <1>3

(* A table put last only fills what the others leave open: the oldest      *)
(* immutable memtable, which a flush takes off the end.                    *)
LEMMA MergeLast ==
    ASSUME NEW n, NEW s, NEW big, NEW t \in Tables,
           IsTableSeq(s, n), IsTableSeq(big, n + 1),
           big[n + 1] = t,
           \A i \in 1 .. n : big[i] = s[i]
    PROVE  MergeIterator(big) = TwoMergeIterator(MergeIterator(s), t)
<1> SUFFICES ASSUME NEW c \in Cells
             PROVE  MergeIterator(big)[c] = TwoMergeIterator(MergeIterator(s), t)[c]
  BY DEF MergeIterator, TwoMergeIterator
<1> DEFINE H == Holders(s, c)
           B == Holders(big, c)
<1>0. n \in Nat /\ DOMAIN s = 1 .. n /\ DOMAIN big = 1 .. n + 1
  BY DEF IsTableSeq
<1>1. H \in SUBSET Nat /\ B \in SUBSET Nat /\ H \subseteq 1 .. n
  BY <1>0 DEF Holders
<1>2. \A i \in 1 .. n : i \in H <=> i \in B
  BY <1>0 DEF Holders
<1>3. \A j \in B : j \in 1 .. n \/ (j = n + 1 /\ t[c] # NoEntry)
  BY <1>0 DEF Holders
<1>4. CASE H # {}
  <2> DEFINE f == FirstOf(H)
  <2>1. f \in H /\ \A j \in H : f <= j
    BY <1>1, <1>4, FirstOfProperties
  <2>2. f \in 1 .. n /\ s[f][c] # NoEntry
    BY <1>0, <2>1 DEF Holders
  <2> HIDE DEF f
  <2>3. f \in B /\ \A j \in B : f <= j
    BY <1>0, <1>2, <1>3, <2>1, <2>2
  <2>4. FirstOf(B) = f
    BY <1>1, <2>3, FirstOfUnique
  <2> QED BY <1>4, <2>2, <2>3, <2>4 DEF MergeIterator, TwoMergeIterator, f
<1>5. CASE H = {} /\ t[c] # NoEntry
  <2>1. n + 1 \in B
    BY <1>0, <1>5 DEF Holders
  <2>2. \A j \in B : n + 1 <= j
    BY <1>0, <1>2, <1>3, <1>5
  <2>3. FirstOf(B) = n + 1
    BY <1>1, <2>1, <2>2, FirstOfUnique
  <2> QED BY <1>5, <2>1, <2>3 DEF MergeIterator, TwoMergeIterator
<1>6. CASE H = {} /\ t[c] = NoEntry
  <2>1. B = {}
    BY <1>2, <1>3, <1>6
  <2> QED BY <1>6, <2>1 DEF MergeIterator, TwoMergeIterator
<1> QED BY <1>4, <1>5, <1>6

-------------------------------------------------------------------------------
(* Cell by cell: what is read depends only on what the tables hold there.  *)

LEMMA MergeCell ==
    ASSUME NEW s, NEW t, DOMAIN s = DOMAIN t, DOMAIN s \subseteq Nat,
           NEW c \in Cells, \A i \in DOMAIN s : s[i][c] = t[i][c]
    PROVE  MergeIterator(s)[c] = MergeIterator(t)[c]
<1>1. Holders(s, c) = Holders(t, c) /\ Holders(s, c) \in SUBSET Nat
  BY DEF Holders
<1>2. ASSUME Holders(s, c) # {}
      PROVE  s[FirstOf(Holders(s, c))][c] = t[FirstOf(Holders(s, c))][c]
  <2>1. FirstOf(Holders(s, c)) \in Holders(s, c)
    BY <1>1, <1>2, FirstOfProperties
  <2> QED BY <2>1 DEF Holders
<1> QED BY <1>1, <1>2 DEF MergeIterator

LEMMA TwoMergeCell ==
    ASSUME NEW a, NEW b, NEW x, NEW y, NEW c \in Cells, a[c] = x[c], b[c] = y[c]
    PROVE  TwoMergeIterator(a, b)[c] = TwoMergeIterator(x, y)[c]
BY DEF TwoMergeIterator

(* A bounded set of naturals has a greatest element.                       *)
LEMMA NatGreatest ==
    ASSUME NEW n \in Nat, NEW U \in SUBSET (0 .. n), U # {}
    PROVE  \E x \in U : \A y \in U : y <= x
<1> DEFINE W == {n - x : x \in U}
<1>1. W \in SUBSET Nat /\ W # {}
  <2>1. \A x \in U : x \in Nat /\ n - x \in Nat
    OBVIOUS
  <2>2. PICK x \in U : TRUE
    OBVIOUS
  <2>3. n - x \in W
    BY <2>2
  <2>4. \A y \in W : y \in Nat
    BY <2>1
  <2> HIDE DEF W
  <2> QED BY <2>3, <2>4
<1>2. PICK w \in W : \A y \in W : w <= y
  BY <1>1, NatLeast
<1>3. PICK x \in U : w = n - x
  BY <1>2
<1>4. ASSUME NEW y \in U PROVE y <= x
  <2>1. n - y \in W
    OBVIOUS
  <2>2. n - x <= n - y
    BY <1>2, <1>3, <2>1
  <2> QED BY <2>2
<1> QED BY <1>4

(* A read at read_ts finds the same in two tables that agree up to there.  *)
LEMMA ValueAtAgrees ==
    ASSUME NEW a, NEW b, NEW k, NEW read_ts,
           \A ts \in 1 .. MaxTs : ts <= read_ts => a[<<k, ts>>] = b[<<k, ts>>]
    PROVE  ValueAt(a, k, read_ts) = ValueAt(b, k, read_ts)
<1> DEFINE seen == VersionsSeen(a, k, read_ts)
           newest == CHOOSE ts \in seen : \A other \in seen : other <= ts
<1>1. VersionsSeen(b, k, read_ts) = seen
  BY DEF VersionsSeen
<1>2. ASSUME seen # {}
      PROVE  a[<<k, newest>>] = b[<<k, newest>>]
  <2>1. MaxTs \in Nat /\ seen \in SUBSET (0 .. MaxTs)
    BY TablesAssumption DEF VersionsSeen
  <2>2. newest \in seen
    <3> HIDE DEF seen
    <3>1. \E ts \in seen : \A other \in seen : other <= ts
      BY <1>2, <2>1, NatGreatest
    <3> QED BY <3>1
  <2> HIDE DEF newest
  <2> QED BY <2>2 DEF VersionsSeen
<1> HIDE DEF seen
<1>3. /\ ValueAt(a, k, read_ts) = IF seen = {} \/ a[<<k, newest>>] = Tombstone
                                  THEN NoEntry ELSE a[<<k, newest>>]
      /\ ValueAt(b, k, read_ts) = IF seen = {} \/ b[<<k, newest>>] = Tombstone
                                  THEN NoEntry ELSE b[<<k, newest>>]
  BY <1>1 DEF ValueAt, seen
<1> QED BY <1>2, <1>3

(* A merge takes every cell from one of its tables, and leaves none out.   *)
LEMMA MergeHolder ==
    ASSUME NEW s, DOMAIN s \subseteq Nat, NEW c \in Cells
    PROVE  /\ MergeIterator(s)[c] # NoEntry =>
                \E i \in DOMAIN s : s[i][c] = MergeIterator(s)[c]
           /\ (\E i \in DOMAIN s : s[i][c] # NoEntry) => MergeIterator(s)[c] # NoEntry
<1> DEFINE at == Holders(s, c)
<1>1. at \in SUBSET Nat /\ \A i \in at : i \in DOMAIN s /\ s[i][c] # NoEntry
  BY DEF Holders
<1>2. MergeIterator(s)[c] = IF at = {} THEN NoEntry ELSE s[FirstOf(at)][c]
  BY DEF MergeIterator
<1>3. (\E i \in DOMAIN s : s[i][c] # NoEntry) => at # {}
  BY DEF Holders
<1> HIDE DEF at
<1>4. at # {} => FirstOf(at) \in at
  BY <1>1, FirstOfProperties
<1> QED BY <1>1, <1>2, <1>3, <1>4

-------------------------------------------------------------------------------
(* Ranking the cells of a table by their order numbers them from 1 on, so  *)
(* that each is at one place of the file.                                  *)
LEMMA EntriesAreCells ==
    ASSUME Keys \subseteq Int, IsFiniteSet(Keys), NEW table
    PROVE  /\ Cardinality(CellsOf(table)) \in Nat
           /\ Entries(table) \in [1 .. Cardinality(CellsOf(table)) -> CellsOf(table)]
           /\ \A c \in CellsOf(table) :
                \E i \in 1 .. Cardinality(CellsOf(table)) : Entries(table)[i] = c
<1> DEFINE cells == CellsOf(table)
           n == Cardinality(cells)
           Upto(c) == {d \in cells : NotAfter(d, c)}
           rank == [c \in cells |-> Cardinality(Upto(c))]
<1>0. IsFiniteSet(Cells)
  <2>1. IsFiniteSet(1 .. MaxTs)
    BY TablesAssumption, FS_Interval
  <2> QED BY <2>1, FS_Product DEF Cells
<1>1. /\ IsFiniteSet(cells) /\ n \in Nat /\ cells \subseteq Cells
      /\ \A c \in cells : c[1] \in Int /\ c[2] \in Int /\ c = <<c[1], c[2]>>
  <2>1. cells \subseteq Cells
    BY DEF CellsOf
  <2>2. \A c \in Cells : c[1] \in Int /\ c[2] \in Int /\ c = <<c[1], c[2]>>
    <3> SUFFICES ASSUME NEW c \in Cells
                 PROVE  c[1] \in Int /\ c[2] \in Int /\ c = <<c[1], c[2]>>
      OBVIOUS
    <3>1. c[1] \in Keys /\ c[2] \in 1 .. MaxTs /\ c = <<c[1], c[2]>>
      BY DEF Cells
    <3>2. MaxTs \in Nat /\ \A k \in Keys : k \in Int
      BY TablesAssumption
    <3>3. c[2] \in Int
      BY <3>1, <3>2
    <3> QED BY <3>1, <3>2, <3>3
  <2> QED BY <1>0, <2>1, <2>2, FS_Subset, FS_CardinalityType
<1> HIDE DEF cells, n
<1>2. ASSUME NEW c \in cells
      PROVE  /\ Upto(c) \subseteq cells /\ IsFiniteSet(Upto(c))
             /\ Cardinality(Upto(c)) \in 1 .. n
  <2>1. Upto(c) \subseteq cells /\ c \in Upto(c)
    BY DEF NotAfter
  <2> HIDE DEF Upto
  <2>2. IsFiniteSet(Upto(c)) /\ Cardinality(Upto(c)) <= n
    BY <1>1, <2>1, FS_Subset DEF n
  <2>3. Cardinality(Upto(c)) \in Nat /\ Cardinality(Upto(c)) # 0
    BY <2>1, <2>2, FS_EmptySet, FS_CardinalityType
  <2> QED BY <1>1, <2>1, <2>2, <2>3
<1>3. ASSUME NEW c \in cells, NEW d \in cells, Precedes(c, d)
      PROVE  Cardinality(Upto(c)) # Cardinality(Upto(d))
  <2>1. Upto(c) \subseteq Upto(d)
    BY <1>1, <1>3 DEF NotAfter, Precedes
  <2>2. d \in Upto(d) /\ d \notin Upto(c)
    BY <1>1, <1>3 DEF NotAfter, Precedes
  <2>3. IsFiniteSet(Upto(d))
    BY <1>2
  <2> HIDE DEF Upto
  <2> QED BY <2>1, <2>2, <2>3, FS_Subset
<1>4. \A c, d \in cells : c # d => Precedes(c, d) \/ Precedes(d, c)
  <2> SUFFICES ASSUME NEW c \in cells, NEW d \in cells, c # d
               PROVE  Precedes(c, d) \/ Precedes(d, c)
    OBVIOUS
  <2>1. c[1] # d[1] \/ c[2] # d[2]
    BY <1>1
  <2> QED BY <1>1, <2>1 DEF Precedes
<1>5. rank \in Injection(cells, 1 .. n)
  <2>1. rank \in [cells -> 1 .. n]
    BY <1>2
  <2>2. \A c, d \in cells : c # d => rank[c] # rank[d]
    BY <1>3, <1>4
  <2> QED BY <2>1, <2>2 DEF Injection, IsInjective
<1>6. IsFiniteSet(1 .. n) /\ Cardinality(1 .. n) = n
  BY <1>1, FS_Interval
<1>7. rank \in Surjection(cells, 1 .. n)
  <2> HIDE DEF rank
  <2>1. Cardinality(cells) = Cardinality(1 .. n)
    BY <1>6 DEF n
  <2> QED BY <1>5, <1>6, <2>1, FS_Injection
<1>8. \A i \in 1 .. n : \E c \in cells : Cardinality(Upto(c)) = i
  BY <1>7 DEF Surjection
<1>9. \A c, d \in cells : Cardinality(Upto(c)) = Cardinality(Upto(d)) => c = d
  BY <1>3, <1>4
<1>10. Entries(table) = [i \in 1 .. n |-> CHOOSE c \in cells : Cardinality(Upto(c)) = i]
  BY DEF Entries, n, cells
<1> HIDE DEF Upto
<1>11. \A i \in 1 .. n : Entries(table)[i] \in cells
  BY <1>8, <1>10
<1>12. \A c \in cells : Entries(table)[Cardinality(Upto(c))] = c
  BY <1>2, <1>9, <1>10
<1> QED BY <1>1, <1>2, <1>10, <1>11, <1>12 DEF n, cells
===============================================================================
