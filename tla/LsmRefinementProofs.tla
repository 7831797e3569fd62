-------------------------- MODULE LsmRefinementProofs --------------------------
(***************************************************************************)
(* The storage engine implements KvStore: freezing a memtable, flushing it *)
(* to an SST, failing to, and every interleaving of those with the writers *)
(* change the merged view of the layers only as the abstract store would.  *)
(***************************************************************************)
EXTENDS LsmStorageProofs

-------------------------------------------------------------------------------
(* The view, layer by layer                                                *)

ImmLayers(s) == [i \in DOMAIN s.imm_memtables |-> memtables[s.imm_memtables[i]]]

Imm(s) == MergeIterator(ImmLayers(s))
L0(s) == MergeIterator(L0Layers(s))
Levels(s) == MergeIterator(LevelLayers(s))

(* The active memtable over the immutable ones over L0 over the levels.    *)
Stacked(active, imm, l0, levels) ==
    TwoMergeIterator(TwoMergeIterator(TwoMergeIterator(active, imm), l0), levels)

(* InsertFirst, whatever set the new element comes from.                   *)
LEMMA InsertFirstShape ==
    ASSUME NEW S, NEW s \in Seq(S), NEW x
    PROVE  /\ Len(InsertFirst(x, s)) = Len(s) + 1
           /\ DOMAIN InsertFirst(x, s) = 1 .. Len(s) + 1
           /\ InsertFirst(x, s)[1] = x
           /\ \A i \in 1 .. Len(s) : InsertFirst(x, s)[i + 1] = s[i]
<1> DEFINE T == S \cup {x}
<1>1. s \in Seq(T) /\ x \in T
  OBVIOUS
<1> HIDE DEF T
<1> QED BY <1>1, InsertFirstProperties

(* Lists of tables of the ids of a sequence.                               *)
LEMMA LayersOfIds ==
    ASSUME NEW ids, NEW tables \in [ids -> Tables], NEW s \in Seq(Nat),
           \A i \in DOMAIN s : s[i] \in ids
    PROVE  IsTableSeq([i \in DOMAIN s |-> tables[s[i]]], Len(s))
<1>1. Len(s) \in Nat /\ DOMAIN s = 1 .. Len(s)
  OBVIOUS
<1> QED BY <1>1 DEF IsTableSeq

(* A run of one SST reads as that SST.                                     *)
LEMMA MergeOne ==
    ASSUME NEW s, IsTableSeq(s, 1)
    PROVE  MergeIterator(s) = s[1]
<1> DEFINE none == [i \in 1 .. 0 |-> EmptyTable]
<1>1. IsTableSeq(none, 0) /\ s[1] \in Tables
  BY EmptyTableType DEF IsTableSeq
<1>2. \A i \in 1 .. 0 : s[i + 1] = none[i]
  OBVIOUS
<1>3. IsTableSeq(s, 0 + 1)
  OBVIOUS
<1> HIDE DEF none
<1>4. MergeIterator(s) = TwoMergeIterator(s[1], MergeIterator(none))
  BY <1>1, <1>2, <1>3, MergeFirst
<1> QED BY <1>1, <1>4, MergeNone, TwoMergeEmpty

(* Tables that hold nothing merge to one that holds nothing.               *)
LEMMA MergeEmpty ==
    ASSUME NEW s, \A i \in DOMAIN s : s[i] = EmptyTable
    PROVE  MergeIterator(s) = EmptyTable
<1>1. \A c \in Cells : Holders(s, c) = {}
  BY DEF Holders, EmptyTable
<1> QED BY <1>1 DEF MergeIterator, EmptyTable

LEMMA LayerTypes ==
    TypeOK /\ IdsInState =>
        /\ memtables[state.memtable] \in Tables
        /\ IsTableSeq(ImmLayers(state), Len(state.imm_memtables))
        /\ IsTableSeq(L0Layers(state), Len(state.l0_sstables))
        /\ IsTableSeq(LevelLayers(state), Len(state.levels))
        /\ Imm(state) \in Tables /\ L0(state) \in Tables /\ Levels(state) \in Tables
<1> SUFFICES ASSUME TypeOK, IdsInState
             PROVE  /\ memtables[state.memtable] \in Tables
                    /\ IsTableSeq(ImmLayers(state), Len(state.imm_memtables))
                    /\ IsTableSeq(L0Layers(state), Len(state.l0_sstables))
                    /\ IsTableSeq(LevelLayers(state), Len(state.levels))
                    /\ Imm(state) \in Tables /\ L0(state) \in Tables
                    /\ Levels(state) \in Tables
  OBVIOUS
<1>1. /\ memtables \in [Ids -> Tables] /\ sst_tables \in [Ids -> Tables]
      /\ state.imm_memtables \in Seq(Nat) /\ state.l0_sstables \in Seq(Nat)
      /\ state.levels \in Seq(Nat \X Seq(Nat))
  BY DEF TypeOK, States
<1>2. memtables[state.memtable] \in Tables
  BY <1>1 DEF IdsInState, IdsNamed
<1>3. IsTableSeq(ImmLayers(state), Len(state.imm_memtables))
  <2>1. \A i \in DOMAIN state.imm_memtables : state.imm_memtables[i] \in Ids
    BY DEF IdsInState, IdsNamed
  <2> QED BY <1>1, <2>1, LayersOfIds DEF ImmLayers
<1>4. IsTableSeq(L0Layers(state), Len(state.l0_sstables))
  <2>1. \A i \in DOMAIN state.l0_sstables : state.l0_sstables[i] \in Ids
    BY DEF IdsInState, IdsNamed
  <2> QED BY <1>1, <2>1, LayersOfIds DEF L0Layers
<1>5. IsTableSeq(LevelLayers(state), Len(state.levels))
  <2>1. ASSUME NEW i \in DOMAIN state.levels
        PROVE  LevelLayers(state)[i] \in Tables
    <3> DEFINE run == state.levels[i][2]
    <3>1. run \in Seq(Nat)
      BY <1>1, <2>1
    <3>2. \A j \in DOMAIN run : run[j] \in Ids
      BY <2>1 DEF IdsInState, IdsNamed
    <3>3. LevelLayers(state)[i] = MergeIterator([j \in DOMAIN run |-> sst_tables[run[j]]])
      BY <2>1 DEF LevelLayers, SstConcatIterator
    <3> HIDE DEF run
    <3>4. IsTableSeq([j \in DOMAIN run |-> sst_tables[run[j]]], Len(run))
      BY <1>1, <3>1, <3>2, LayersOfIds
    <3> QED BY <3>3, <3>4, MergeType
  <2>2. Len(state.levels) \in Nat /\ DOMAIN state.levels = 1 .. Len(state.levels)
    BY <1>1
  <2>3. LevelLayers(state) = [i \in DOMAIN state.levels |-> LevelLayers(state)[i]]
    BY DEF LevelLayers
  <2> QED BY <2>1, <2>2, <2>3 DEF IsTableSeq
<1>6. Imm(state) \in Tables /\ L0(state) \in Tables /\ Levels(state) \in Tables
  BY <1>3, <1>4, <1>5, MergeType DEF Imm, L0, Levels
<1> QED BY <1>2, <1>3, <1>4, <1>5, <1>6

LEMMA ViewIsStacked ==
    TypeOK /\ IdsInState =>
        View(state) = Stacked(memtables[state.memtable], Imm(state),
                              L0(state), Levels(state))
<1> SUFFICES ASSUME TypeOK, IdsInState
             PROVE  View(state) = Stacked(memtables[state.memtable], Imm(state),
                                          L0(state), Levels(state))
  OBVIOUS
<1> DEFINE n == Len(state.imm_memtables)
           big == MemtableLayers(state)
<1>1. /\ n \in Nat /\ DOMAIN state.imm_memtables = 1 .. n
      /\ state.imm_memtables \in Seq(Nat)
  BY DEF TypeOK, States
<1>2. memtables[state.memtable] \in Tables /\ IsTableSeq(ImmLayers(state), n)
  BY LayerTypes
<1>3. /\ big[1] = memtables[state.memtable]
      /\ \A i \in 1 .. n : big[i + 1] = ImmLayers(state)[i]
      /\ big = [i \in 1 .. n + 1 |-> big[i]]
  BY <1>1 DEF MemtableLayers, ImmLayers
<1> HIDE DEF big, n
<1>4. IsTableSeq(big, n + 1)
  <2>1. ASSUME NEW i \in 1 .. n + 1
        PROVE  big[i] \in Tables
    <3>1. CASE i = 1
      BY <1>2, <1>3, <3>1
    <3>2. CASE i # 1
      <4>1. i - 1 \in 1 .. n /\ i = (i - 1) + 1
        BY <1>1, <2>1, <3>2
      <4> QED BY <1>2, <1>3, <4>1, ZenonT(60) DEF IsTableSeq
    <3> QED BY <3>1, <3>2
  <2>2. big \in [1 .. n + 1 -> Tables]
    BY <1>3, <2>1
  <2>3. n + 1 \in Nat
    BY <1>1
  <2> QED BY <2>2, <2>3 DEF IsTableSeq
<1>5. MergeIterator(big)
      = TwoMergeIterator(memtables[state.memtable], MergeIterator(ImmLayers(state)))
  BY <1>2, <1>3, <1>4, MergeFirst, ZenonT(60)
<1> QED BY <1>5 DEF View, Stacked, Imm, L0, Levels, big

(* The same facts of the state after a step.                               *)
LEMMA ViewIsStackedNext ==
    (TypeOK /\ IdsInState =>
        View(state) = Stacked(memtables[state.memtable], Imm(state),
                              L0(state), Levels(state)))'
BY ViewIsStacked, PTL

LEMMA LayerTypesNext ==
    (TypeOK /\ IdsInState =>
        /\ memtables[state.memtable] \in Tables
        /\ IsTableSeq(ImmLayers(state), Len(state.imm_memtables))
        /\ IsTableSeq(L0Layers(state), Len(state.l0_sstables))
        /\ IsTableSeq(LevelLayers(state), Len(state.levels))
        /\ Imm(state) \in Tables /\ L0(state) \in Tables /\ Levels(state) \in Tables)'
BY LayerTypes, PTL

(* Algebra of stacks: what a freeze, a flush and an insertion rewrite.     *)
LEMMA StackedType ==
    ASSUME NEW a \in Tables, NEW b \in Tables, NEW c \in Tables, NEW d \in Tables
    PROVE  Stacked(a, b, c, d) \in Tables
BY TwoMergeType DEF Stacked

LEMMA StackedFreeze ==
    ASSUME NEW a \in Tables, NEW b \in Tables, NEW c \in Tables, NEW d \in Tables
    PROVE  Stacked(EmptyTable, TwoMergeIterator(a, b), c, d) = Stacked(a, b, c, d)
BY TwoMergeType, TwoMergeEmpty DEF Stacked

LEMMA StackedFlushToL0 ==
    ASSUME NEW a \in Tables, NEW b \in Tables, NEW x \in Tables, NEW c \in Tables,
           NEW d \in Tables
    PROVE  Stacked(a, b, TwoMergeIterator(x, c), d)
           = Stacked(a, TwoMergeIterator(b, x), c, d)
BY DEF Stacked, TwoMergeIterator, Tables

LEMMA StackedFlushToTier ==
    ASSUME NEW a \in Tables, NEW b \in Tables, NEW x \in Tables, NEW d \in Tables
    PROVE  Stacked(a, b, EmptyTable, TwoMergeIterator(x, d))
           = Stacked(a, TwoMergeIterator(b, x), EmptyTable, d)
BY DEF Stacked, TwoMergeIterator, Tables, EmptyTable

LEMMA StackedPut ==
    ASSUME NEW a \in Tables, NEW b \in Tables, NEW c \in Tables, NEW d \in Tables,
           NEW cell \in Cells, NEW v \in Values
    PROVE  Stacked([a EXCEPT ![cell] = v], b, c, d)
           = [Stacked(a, b, c, d) EXCEPT ![cell] = v]
BY TablesAssumption DEF Stacked, TwoMergeIterator, Tables

-------------------------------------------------------------------------------
(* What the steps do to the view                                           *)

(* The layers of a state depend only on the tables it names.               *)
LEMMA SameLayers ==
    ASSUME IInv, state' = state,
           \A id \in state.sstables : sst_tables'[id] = sst_tables[id]
    PROVE  L0(state)' = L0(state) /\ Levels(state)' = Levels(state)
<1>1. L0Layers(state)' = L0Layers(state)
  BY DEF IInv, IdsInState, IdsNamed, L0Layers
<1>2. LevelLayers(state)' = LevelLayers(state)
  <2>1. ASSUME NEW i \in DOMAIN state.levels
        PROVE  [j \in DOMAIN state.levels[i][2] |-> sst_tables'[state.levels[i][2][j]]]
               = [j \in DOMAIN state.levels[i][2] |-> sst_tables[state.levels[i][2][j]]]
    BY <2>1 DEF IInv, IdsInState, IdsNamed
  <2> QED BY <2>1 DEF LevelLayers
<1> QED BY <1>1, <1>2 DEF L0, Levels

LEMMA SameView ==
    ASSUME IInv, IInv', state' = state,
           \A id \in Ids : memtables'[id] = memtables[id],
           \A id \in state.sstables : sst_tables'[id] = sst_tables[id]
    PROVE  View(state)' = View(state)
<1>1. L0(state)' = L0(state) /\ Levels(state)' = Levels(state)
  BY SameLayers
<1>2. memtables'[state.memtable] = memtables[state.memtable]
  BY DEF IInv, IdsInState, IdsNamed
<1>3. Imm(state)' = Imm(state)
  <2>1. ImmLayers(state)' = ImmLayers(state)
    BY DEF IInv, IdsInState, IdsNamed, ImmLayers
  <2> QED BY <2>1 DEF Imm
<1>4. View(state) = Stacked(memtables[state.memtable], Imm(state), L0(state), Levels(state))
  BY ViewIsStacked DEF IInv
<1>5. (View(state) = Stacked(memtables[state.memtable], Imm(state), L0(state), Levels(state)))'
  BY ViewIsStackedNext DEF IInv
<1> QED BY <1>1, <1>2, <1>3, <1>4, <1>5

(* An insertion changes one cell, in the layer on top.                     *)
LEMMA PutRecordView ==
    ASSUME IInv, IInv', NEW w \in Writers, PutRecord(w)
    PROVE  LET record == batch[w][inserted[w] + 1]
           IN /\ record \in Records
              /\ View(state)' = [View(state) EXCEPT
                    ![<<record.key, write_ts[w]>>] = record.value]
<1> DEFINE record == batch[w][inserted[w] + 1]
           cell == <<record.key, write_ts[w]>>
           active == memtables[state.memtable]
<1>1. TypeOK /\ WriteInProgress /\ IdsInState
  BY DEF IInv
<1>2. record \in Records
  BY <1>1, StorageAssumption DEF PutRecord, TypeOK, WriteInProgress
<1>3. cell \in Cells /\ record.value \in Values
  BY <1>1, <1>2, TablesAssumption
     DEF PutRecord, TypeOK, WriteInProgress, InWrite, Cells, Records
<1>4. state' = state /\ sst_tables' = sst_tables
  BY DEF PutRecord
<1>5. /\ state.memtable \in Ids /\ memtables \in [Ids -> Tables]
      /\ memtables' = [memtables EXCEPT ![state.memtable] =
                            [active EXCEPT ![cell] = record.value]]
  BY <1>1 DEF TypeOK, IdsInState, IdsNamed, PutRecord
<1>6. /\ active \in Tables /\ Imm(state) \in Tables
      /\ L0(state) \in Tables /\ Levels(state) \in Tables
  BY <1>1, LayerTypes
<1> HIDE DEF record, cell, active
<1>7. memtables'[state.memtable] = [active EXCEPT ![cell] = record.value]
  BY <1>5
<1>8. Imm(state)' = Imm(state)
  <2>1. \A i \in DOMAIN state.imm_memtables :
            memtables'[state.imm_memtables[i]] = memtables[state.imm_memtables[i]]
    BY <1>1, <1>5 DEF IdsInState, IdsNamed
  <2> QED BY <1>4, <2>1 DEF Imm, ImmLayers
<1>9. L0(state)' = L0(state) /\ Levels(state)' = Levels(state)
  BY <1>4, SameLayers
<1>10. View(state) = Stacked(active, Imm(state), L0(state), Levels(state))
  BY <1>1, ViewIsStacked DEF active
<1>11. (View(state) = Stacked(memtables[state.memtable], Imm(state), L0(state), Levels(state)))'
  BY ViewIsStackedNext DEF IInv
<1>12. View(state)' = [View(state) EXCEPT ![cell] = record.value]
  BY <1>3, <1>4, <1>6, <1>7, <1>8, <1>9, <1>10, <1>11, StackedPut
<1> QED BY <1>2, <1>12 DEF record, cell

(* A freeze puts an empty memtable on top of everything.                   *)
LEMMA FreezeSwapView ==
    ASSUME IInv, IInv', NEW t \in Freezers, FreezeSwap(t)
    PROVE  View(state)' = View(state)
<1> DEFINE active == memtables[state.memtable]
           n == Len(state.imm_memtables)
<1>1. TypeOK /\ CopyIsCurrent /\ IdsInState
  BY DEF IInv
<1>2. PICK id \in Ids : state' = Frozen(state, id) /\ memtables[id] = EmptyTable
  BY <1>1 DEF CopyIsCurrent, Preparing, FreezeSwap
<1>3. /\ memtables' = memtables /\ sst_tables' = sst_tables
      /\ state \in States /\ id \in Nat
  BY <1>1, <1>2 DEF FreezeSwap, TypeOK, Ids
<1>4. /\ state'.memtable = id
      /\ state'.imm_memtables = InsertFirst(state.memtable, state.imm_memtables)
      /\ state'.l0_sstables = state.l0_sstables
      /\ state'.levels = state.levels
  BY <1>2, <1>3, FrozenType
<1>5. /\ active \in Tables /\ IsTableSeq(ImmLayers(state), n)
      /\ Imm(state) \in Tables /\ L0(state) \in Tables /\ Levels(state) \in Tables
  BY <1>1, LayerTypes
<1>6. (IsTableSeq(ImmLayers(state), Len(state.imm_memtables)))'
  BY LayerTypesNext DEF IInv
<1>7. /\ n \in Nat /\ DOMAIN state.imm_memtables = 1 .. n
      /\ state.imm_memtables \in Seq(Nat) /\ state.memtable \in Nat
  BY <1>3 DEF States
<1>8. /\ Len(state'.imm_memtables) = n + 1
      /\ DOMAIN state'.imm_memtables = 1 .. n + 1
      /\ state'.imm_memtables[1] = state.memtable
      /\ \A i \in 1 .. n : state'.imm_memtables[i + 1] = state.imm_memtables[i]
  <2> DEFINE new == InsertFirst(state.memtable, state.imm_memtables)
  <2>0. state.imm_memtables \in Seq(Nat)
    BY <1>7
  <2>1. /\ Len(new) = Len(state.imm_memtables) + 1
        /\ DOMAIN new = 1 .. Len(state.imm_memtables) + 1
        /\ new[1] = state.memtable
        /\ \A i \in 1 .. Len(state.imm_memtables) : new[i + 1] = state.imm_memtables[i]
    BY <2>0, InsertFirstShape
  <2> QED BY <1>4, <2>1
<1>9. /\ ImmLayers(state)'[1] = active
      /\ \A i \in 1 .. n : ImmLayers(state)'[i + 1] = ImmLayers(state)[i]
  BY SMTT(20), <1>3, <1>7, <1>8 DEF ImmLayers
<1>10. IsTableSeq(ImmLayers(state)', n + 1)
  BY <1>6, <1>8
<1> HIDE DEF active, n
<1>11. Imm(state)' = TwoMergeIterator(active, Imm(state))
  BY <1>5, <1>9, <1>10, MergeFirst DEF Imm
<1>12. L0(state)' = L0(state) /\ Levels(state)' = Levels(state)
  BY <1>3, <1>4 DEF L0, L0Layers, Levels, LevelLayers
<1>13. View(state) = Stacked(active, Imm(state), L0(state), Levels(state))
  BY <1>1, ViewIsStacked DEF active
<1>14. (View(state) = Stacked(memtables[state.memtable], Imm(state), L0(state), Levels(state)))'
  BY ViewIsStackedNext DEF IInv
<1> QED BY <1>2, <1>3, <1>4, <1>5, <1>11, <1>12, <1>13, <1>14, StackedFreeze

(* A flush moves the table at the bottom of the memtables to the top of    *)
(* what is below them.                                                     *)
LEMMA FlushInstallView ==
    ASSUME IInv, IInv', TiersAlone, NEW t \in Flushers, FlushInstall(t)
    PROVE  View(state)' = View(state)
<1> DEFINE active == memtables[state.memtable]
           id == flush_id[t]
           moved == memtables[id]
           n == Len(state.imm_memtables)
<1>1. TypeOK /\ IdsInState /\ FlushingIsFrozen
  BY DEF IInv
<1>2. id \in Ids /\ sst_tables[id] = moved
  BY <1>1 DEF FlushingIsFrozen, FlushInstall
<1>3. /\ memtables' = memtables /\ sst_tables' = sst_tables
      /\ state' = Flushed(state, id)
      /\ state.imm_memtables # <<>> /\ Last(state.imm_memtables) = id
  BY DEF FlushInstall, FlushIsOldest
<1>4. state \in States /\ id \in Nat /\ moved \in Tables
  BY <1>1, <1>2 DEF TypeOK, Ids
<1> HIDE DEF id
<1>5. /\ state'.memtable = state.memtable
      /\ state'.imm_memtables = Front(state.imm_memtables)
      /\ FlushToL0 =>
            /\ state'.l0_sstables = InsertFirst(id, state.l0_sstables)
            /\ state'.levels = state.levels
      /\ ~ FlushToL0 =>
            /\ state'.l0_sstables = state.l0_sstables
            /\ state'.levels = InsertFirst(<<id, <<id>>>>, state.levels)
  BY <1>3, <1>4, FlushedType
<1>6. /\ active \in Tables /\ IsTableSeq(ImmLayers(state), n)
      /\ Imm(state) \in Tables /\ L0(state) \in Tables /\ Levels(state) \in Tables
      /\ IsTableSeq(L0Layers(state), Len(state.l0_sstables))
      /\ IsTableSeq(LevelLayers(state), Len(state.levels))
  BY <1>1, LayerTypes
<1>7. /\ IsTableSeq(ImmLayers(state)', Len(state'.imm_memtables))
      /\ IsTableSeq(L0Layers(state)', Len(state'.l0_sstables))
      /\ IsTableSeq(LevelLayers(state)', Len(state'.levels))
      /\ Imm(state)' \in Tables
  BY LayerTypesNext DEF IInv
<1>8. Imm(state) = TwoMergeIterator(Imm(state)', moved)
  <2>1. /\ state.imm_memtables \in Seq(Nat)
        /\ n \in Nat /\ DOMAIN state.imm_memtables = 1 .. n
    BY <1>4 DEF States
  <2>2. /\ n \in Nat \ {0}
        /\ Len(state'.imm_memtables) = n - 1
        /\ DOMAIN state'.imm_memtables = 1 .. n - 1
        /\ \A i \in 1 .. n - 1 : state'.imm_memtables[i] = state.imm_memtables[i]
        /\ state.imm_memtables[n] = id
    <3> DEFINE imm == state.imm_memtables
    <3>0. imm \in Seq(Nat) /\ imm # <<>>
      BY <1>3, <2>1
    <3>1. /\ Len(imm) \in Nat \ {0}
          /\ Len(Front(imm)) = Len(imm) - 1
          /\ DOMAIN Front(imm) = 1 .. Len(imm) - 1
          /\ \A i \in 1 .. Len(imm) - 1 : Front(imm)[i] = imm[i]
          /\ Last(imm) = imm[Len(imm)]
      BY <3>0, FrontLastProperties
    <3> QED BY <1>3, <1>5, <3>1
  <2>3. /\ ImmLayers(state)[(n - 1) + 1] = moved
        /\ \A i \in 1 .. n - 1 : ImmLayers(state)[i] = ImmLayers(state)'[i]
    BY SMTT(20), <1>3, <2>1, <2>2 DEF ImmLayers
  <2>4. IsTableSeq(ImmLayers(state)', n - 1) /\ IsTableSeq(ImmLayers(state), (n - 1) + 1)
    BY <1>6, <1>7, <2>2
  <2> HIDE DEF n, moved
  <2> QED BY <1>4, <2>3, <2>4, MergeLast DEF Imm
<1>9. View(state) = Stacked(active, Imm(state), L0(state), Levels(state))
  BY <1>1, ViewIsStacked
<1>10. View(state)' = Stacked(active, Imm(state)', L0(state)', Levels(state)')
  <2>1. (View(state) = Stacked(memtables[state.memtable], Imm(state), L0(state), Levels(state)))'
    BY ViewIsStackedNext DEF IInv
  <2> QED BY <1>3, <1>5, <2>1
<1>11. CASE FlushToL0
  <2> DEFINE k == Len(state.l0_sstables)
  <2>1. state.l0_sstables \in Seq(Nat) /\ k \in Nat /\ DOMAIN state.l0_sstables = 1 .. k
    BY <1>4 DEF States
  <2>2. /\ Len(state'.l0_sstables) = k + 1
        /\ DOMAIN state'.l0_sstables = 1 .. k + 1
        /\ state'.l0_sstables[1] = id
        /\ \A i \in 1 .. k : state'.l0_sstables[i + 1] = state.l0_sstables[i]
    <3> DEFINE new == InsertFirst(id, state.l0_sstables)
    <3>0. state.l0_sstables \in Seq(Nat)
      BY <2>1
    <3>1. /\ Len(new) = Len(state.l0_sstables) + 1
          /\ DOMAIN new = 1 .. Len(state.l0_sstables) + 1
          /\ new[1] = id
          /\ \A i \in 1 .. Len(state.l0_sstables) : new[i + 1] = state.l0_sstables[i]
      BY <3>0, InsertFirstShape
    <3> QED BY <1>5, <1>11, <3>1
  <2>3. /\ L0Layers(state)'[1] = moved
        /\ \A i \in 1 .. k : L0Layers(state)'[i + 1] = L0Layers(state)[i]
    BY SMTT(20), <1>2, <1>3, <2>1, <2>2 DEF L0Layers
  <2>4. IsTableSeq(L0Layers(state)', k + 1) /\ IsTableSeq(L0Layers(state), k)
    BY <1>6, <1>7, <2>2
  <2> HIDE DEF k, moved
  <2>5. L0(state)' = TwoMergeIterator(moved, L0(state))
    BY <1>4, <2>3, <2>4, MergeFirst DEF L0
  <2>6. Levels(state)' = Levels(state)
    BY <1>3, <1>5, <1>11 DEF Levels, LevelLayers
  <2> QED BY <1>4, <1>6, <1>7, <1>8, <1>9, <1>10, <2>5, <2>6, StackedFlushToL0
<1>12. CASE ~ FlushToL0
  <2> DEFINE k == Len(state.levels)
             Level == Nat \X Seq(Nat)
             run == <<id>>
             tier == <<id, run>>
  <2>1. state.levels \in Seq(Level) /\ k \in Nat /\ DOMAIN state.levels = 1 .. k
    BY <1>4 DEF States
  <2>2. run \in Seq(Nat) /\ DOMAIN run = {1} /\ Len(run) = 1 /\ run[1] = id
    BY <1>4
  <2>3. tier \in Level /\ tier[2] = run
    BY <1>4, <2>2
  <2> HIDE DEF Level, run
  <2>4. state'.levels = InsertFirst(tier, state.levels)
    BY <1>5, <1>12 DEF run
  <2> HIDE DEF tier
  <2>5. /\ Len(state'.levels) = k + 1
        /\ DOMAIN state'.levels = 1 .. k + 1
        /\ state'.levels[1] = tier
        /\ \A i \in 1 .. k : state'.levels[i + 1] = state.levels[i]
    <3> DEFINE new == InsertFirst(tier, state.levels)
    <3>0. state.levels \in Seq(Level)
      BY <2>1
    <3>1. /\ Len(new) = Len(state.levels) + 1
          /\ DOMAIN new = 1 .. Len(state.levels) + 1
          /\ new[1] = tier
          /\ \A i \in 1 .. Len(state.levels) : new[i + 1] = state.levels[i]
      BY <3>0, InsertFirstShape
    <3> QED BY <2>4, <3>1
  <2> DEFINE one == [j \in DOMAIN run |-> sst_tables[run[j]]]
  <2>6. MergeIterator(one) = moved
    <3>1. IsTableSeq(one, 1) /\ one[1] = moved
      BY <1>2, <1>4, <2>2 DEF IsTableSeq
    <3> HIDE DEF one, moved
    <3> QED BY <3>1, MergeOne
  <2>7. LevelLayers(state)'[1] = moved
    BY <1>3, <2>1, <2>3, <2>5, <2>6 DEF LevelLayers, SstConcatIterator
  <2>8. \A i \in 1 .. k : LevelLayers(state)'[i + 1] = LevelLayers(state)[i]
    <3> TAKE i \in 1 .. k
    <3>1. /\ i \in DOMAIN state.levels /\ i + 1 \in DOMAIN state'.levels
          /\ state'.levels[i + 1] = state.levels[i]
      BY <2>1, <2>5
    <3> HIDE DEF k
    <3> QED BY <1>3, <3>1 DEF LevelLayers
  <2>9. IsTableSeq(LevelLayers(state)', k + 1) /\ IsTableSeq(LevelLayers(state), k)
    BY <1>6, <1>7, <2>5
  <2>10. L0(state) = EmptyTable /\ L0(state)' = EmptyTable
    <3>1. state.l0_sstables = <<>> /\ state'.l0_sstables = <<>>
      BY <1>5, <1>12 DEF TiersAlone
    <3> QED BY <3>1, MergeEmpty DEF L0, L0Layers
  <2> HIDE DEF k, moved
  <2>11. Levels(state)' = TwoMergeIterator(moved, Levels(state))
    BY <1>4, <2>7, <2>8, <2>9, MergeFirst DEF Levels
  <2> QED BY <1>4, <1>6, <1>7, <1>8, <1>9, <1>10, <2>10, <2>11, StackedFlushToTier
<1> QED BY <1>11, <1>12

-------------------------------------------------------------------------------
(* The refinement                                                          *)

LEMMA InitImplements ==
    ASSUME Init
    PROVE  KV!Init
<1>1. IInv
  BY InitInv
<1>2. View(state) = Stacked(memtables[state.memtable], Imm(state), L0(state), Levels(state))
  BY <1>1, ViewIsStacked DEF IInv
<1>3. memtables[state.memtable] = EmptyTable
  BY DEF Init, InitState
<1>4. Imm(state) = EmptyTable
  BY MergeEmpty DEF Init, InitState, Imm, ImmLayers
<1>5. L0(state) = EmptyTable
  BY MergeEmpty DEF Init, InitState, L0, L0Layers
<1>6. Levels(state) = EmptyTable
  <2>1. \A i \in DOMAIN state.levels : DOMAIN state.levels[i][2] = {}
    BY DEF Init, InitState
  <2>2. ASSUME NEW i \in DOMAIN LevelLayers(state)
        PROVE  LevelLayers(state)[i] = EmptyTable
    <3> DEFINE run == [j \in DOMAIN state.levels[i][2] |-> sst_tables[state.levels[i][2][j]]]
    <3>1. i \in DOMAIN state.levels /\ LevelLayers(state)[i] = MergeIterator(run)
      BY <2>2 DEF LevelLayers, SstConcatIterator
    <3>2. DOMAIN run = {}
      BY <2>1, <3>1
    <3> HIDE DEF run
    <3> QED BY <3>1, <3>2, MergeEmpty
  <2> QED BY <2>2, MergeEmpty DEF Levels
<1>7. View(state) = EmptyTable
  BY <1>2, <1>3, <1>4, <1>5, <1>6, TwoMergeEmpty, EmptyTableType DEF Stacked
<1> QED BY <1>7 DEF KV!Init, Init, KV!EmptyTable, KV!Cells, EmptyTable, Cells

(* Every step but an insertion leaves the view as it is...                 *)
LEMMA StepView ==
    ASSUME IInv, IInv', TiersAlone, [Next]_vars, ~ (\E w \in Writers : PutRecord(w))
    PROVE  View(state)' = View(state)
<1> DEFINE Same == View(state)' = View(state)
<1>1. ASSUME state' = state, memtables' = memtables, sst_tables' = sst_tables
      PROVE  Same
  BY <1>1, SameView
<1> USE DEF engine
<1>2. ASSUME NEW w \in Writers, WriteBegin(w) \/ TryFreeze(w) \/ Commit(w)
      PROVE  Same
  BY <1>1, <1>2 DEF WriteBegin, TryFreeze, Commit
<1>3. ASSUME NEW t \in Freezers, FreezeStep(t)
      PROVE  Same
  <2>1. CASE FreezeLock(t) \/ FreezeRecord(t) \/ FreezeFails(t)
    BY <1>1, <2>1 DEF FreezeLock, FreezeRecord, FreezeFails
  <2>2. CASE FreezeCopy(t)
    <3>1. /\ state' = state
          /\ \A id \in Ids : memtables'[id] = memtables[id]
          /\ \A id \in Ids : sst_tables'[id] = sst_tables[id]
      BY SMTT(20), <2>2 DEF FreezeCopy, AllocateId, IInv, TypeOK, Ids
    <3>2. state.sstables \subseteq Ids
      BY DEF IInv, IdsInState, IdsNamed
    <3> QED BY <3>1, <3>2, SameView
  <2>3. CASE FreezeSwap(t)
    BY <2>3, FreezeSwapView DEF FreezeSwap
  <2> QED BY <1>3, <2>1, <2>2, <2>3 DEF FreezeStep
<1>4. ASSUME NEW f \in Forcers, ForceFlush(f) \/ ForceFlushCheck(f)
      PROVE  Same
  BY <1>1, <1>4 DEF ForceFlush, ForceFlushCheck
<1>5. ASSUME TriggerFlush
      PROVE  Same
  BY <1>1, <1>5 DEF TriggerFlush
<1>6. ASSUME NEW t \in Flushers, FlushStep(t)
      PROVE  Same
  <2>1. CASE FlushPick(t) \/ FlushFails(t) \/ FlushLock(t) \/ FlushPanics(t)
    BY <1>1, <2>1 DEF FlushPick, FlushFails, FlushLock, FlushPanics
  <2>2. CASE FlushBuild(t)
    <3>1. /\ state' = state /\ memtables' = memtables
          /\ sst_tables' = [sst_tables EXCEPT ![flush_id[t]] = memtables[flush_id[t]]]
      BY <2>2 DEF FlushBuild
    <3>2. sst_tables \in [Ids -> Tables] /\ state.sstables \subseteq Ids
      BY DEF IInv, TypeOK, IdsInState, IdsNamed
    <3>3. \A id \in state.sstables : sst_tables'[id] = sst_tables[id]
      BY <3>1, <3>2 DEF IInv, FlushedContentIsFinal
    <3> QED BY <3>1, <3>3, SameView
  <2>3. CASE FlushInstall(t)
    BY <2>3, FlushInstallView DEF FlushInstall
  <2> QED BY <1>6, <2>1, <2>2, <2>3 DEF FlushStep
<1>7. ASSUME NEW r \in Readers, ReaderStep(r)
      PROVE  Same
  BY <1>1, <1>7 DEF ReaderStep, NewTxn, ReadSnapshot, ReadEnd
<1>8. ASSUME UNCHANGED vars
       PROVE  Same
  BY <1>1, <1>8 DEF vars
<1> HIDE DEF Same, engine
<1>9. Same
  BY <1>2, <1>3, <1>4, <1>5, <1>6, <1>7, <1>8 DEF Next, WriterStep
<1> QED BY <1>9 DEF Same

(* ...and every step but a commit leaves the commit timestamp.             *)
LEMMA StepCommitTs ==
    ASSUME [Next]_vars, ~ (\E w \in Writers : Commit(w))
    PROVE  commit_ts' = commit_ts
<1> USE DEF mvcc
<1>1. ASSUME NEW w \in Writers, WriteBegin(w) \/ PutRecord(w) \/ TryFreeze(w)
      PROVE  commit_ts' = commit_ts
  BY <1>1 DEF WriteBegin, PutRecord, TryFreeze
<1>2. ASSUME NEW t \in Freezers, FreezeStep(t) PROVE commit_ts' = commit_ts
  BY <1>2 DEF FreezeStep, FreezeLock, FreezeCopy, FreezeRecord, FreezeFails, FreezeSwap
<1>3. ASSUME NEW f \in Forcers, ForceFlush(f) \/ ForceFlushCheck(f)
      PROVE  commit_ts' = commit_ts
  BY <1>3 DEF ForceFlush, ForceFlushCheck
<1>4. TriggerFlush => commit_ts' = commit_ts
  BY DEF TriggerFlush
<1>5. ASSUME NEW t \in Flushers, FlushStep(t) PROVE commit_ts' = commit_ts
  BY <1>5 DEF FlushStep, FlushPick, FlushBuild, FlushFails, FlushLock, FlushInstall, FlushPanics
<1>6. ASSUME NEW r \in Readers, ReaderStep(r) PROVE commit_ts' = commit_ts
  BY <1>6 DEF ReaderStep, NewTxn, ReadSnapshot, ReadEnd
<1>7. UNCHANGED vars => commit_ts' = commit_ts
  BY DEF vars
<1> QED BY <1>1, <1>2, <1>3, <1>4, <1>5, <1>6, <1>7 DEF Next, WriterStep

(* Every step is an insertion, a commit, or nothing at all.                *)
LEMMA StepImplements ==
    ASSUME IInv, IInv', TiersAlone, [Next]_vars
    PROVE  [KV!Next]_(KV!kvVars)
<1>1. ASSUME NEW w \in Writers, PutRecord(w)
      PROVE  KV!Next
  <2> DEFINE record == batch[w][inserted[w] + 1]
  <2>1. /\ record \in Records
        /\ View(state)' = [View(state) EXCEPT ![<<record.key, write_ts[w]>>] = record.value]
    BY <1>1, PutRecordView
  <2>2. write_ts[w] = commit_ts + 1 /\ commit_ts < MaxTs /\ commit_ts' = commit_ts
    BY <1>1 DEF IInv, WriteInProgress, InWrite, PutRecord
  <2>3. record.key \in Keys /\ record.value \in Values
    BY <2>1 DEF Records
  <2>4. KV!Stage(record.key, record.value)
    BY <2>1, <2>2 DEF KV!Stage
  <2> QED BY <2>3, <2>4 DEF KV!Next
<1>2. ASSUME NEW w \in Writers, Commit(w), ~ (\E u \in Writers : PutRecord(u))
      PROVE  KV!Next
  <2>1. write_ts[w] = commit_ts + 1 /\ commit_ts < MaxTs /\ commit_ts' = write_ts[w]
    BY <1>2 DEF IInv, WriteInProgress, InWrite, Commit
  <2>2. View(state)' = View(state)
    BY <1>2, StepView
  <2> QED BY <2>1, <2>2 DEF KV!Next, KV!Commit
<1>3. CASE ~ (\E w \in Writers : PutRecord(w) \/ Commit(w))
  BY <1>3, StepView, StepCommitTs DEF KV!kvVars
<1> QED BY <1>1, <1>2, <1>3

(* The engine is the abstract store: whatever is frozen, flushed, retried  *)
(* or left half done by a failure, and in whatever interleaving, a reader  *)
(* of the merged layers sees one multi-version map whose committed cells   *)
(* never change.                                                           *)
THEOREM StorageImplementsKvStore == Spec => ImplementsKvStore
<1>1. Init => KV!Init
  BY InitImplements
<1>2. IInv /\ IInv' /\ TiersAlone /\ [Next]_vars => [KV!Next]_(KV!kvVars)
  BY StepImplements
<1> QED BY <1>1, <1>2, InvariantHolds, TiersAloneHolds, PTL DEF Spec, ImplementsKvStore, KV!Spec
===============================================================================
