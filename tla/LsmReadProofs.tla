----------------------------- MODULE LsmReadProofs -----------------------------
(***************************************************************************)
(* What readers and writers can rely on: a transaction reading the state it*)
(* cloned finds what the engine holds at its timestamp, and a batch is     *)
(* whole when its timestamp is published.                                  *)
(***************************************************************************)
EXTENDS LsmRefinementProofs

-------------------------------------------------------------------------------
(* The view of any state, in any contents of memtables and SSTs            *)

ViewIn(s, mems, ssts) ==
    TwoMergeIterator(
        TwoMergeIterator(
            MergeIterator([i \in 1 .. Len(s.imm_memtables) + 1 |->
                mems[IF i = 1 THEN s.memtable ELSE s.imm_memtables[i - 1]]]),
            MergeIterator([i \in DOMAIN s.l0_sstables |-> ssts[s.l0_sstables[i]]])),
        MergeIterator([i \in DOMAIN s.levels |->
            MergeIterator([j \in DOMAIN s.levels[i][2] |-> ssts[s.levels[i][2][j]]])]))

(* Two contents that agree on a cell, in every layer a state names, give   *)
(* the same cell of its view.                                              *)
LEMMA ViewInCell ==
    ASSUME NEW s \in States, NEW ids, IdsNamed(s, ids), NEW c \in Cells,
           NEW mems, NEW ssts, NEW mems2, NEW ssts2,
           \A id \in ids : mems[id][c] = mems2[id][c],
           \A id \in s.sstables : ssts[id][c] = ssts2[id][c]
    PROVE  ViewIn(s, mems, ssts)[c] = ViewIn(s, mems2, ssts2)[c]
<1> DEFINE Top(m) == [i \in 1 .. Len(s.imm_memtables) + 1 |->
                          m[IF i = 1 THEN s.memtable ELSE s.imm_memtables[i - 1]]]
           Mid(f) == [i \in DOMAIN s.l0_sstables |-> f[s.l0_sstables[i]]]
           Run(f, i) == [j \in DOMAIN s.levels[i][2] |-> f[s.levels[i][2][j]]]
           Low(f) == [i \in DOMAIN s.levels |-> MergeIterator(Run(f, i))]
<1>0. /\ s.memtable \in Nat /\ s.imm_memtables \in Seq(Nat)
      /\ s.l0_sstables \in Seq(Nat) /\ s.levels \in Seq(Nat \X Seq(Nat))
  BY DEF States
<1>1. MergeIterator(Top(mems))[c] = MergeIterator(Top(mems2))[c]
  <2>1. ASSUME NEW i \in 1 .. Len(s.imm_memtables) + 1
        PROVE  Top(mems)[i][c] = Top(mems2)[i][c]
    <3>1. CASE i = 1
      BY <3>1 DEF IdsNamed
    <3>2. CASE i # 1
      <4>1. i - 1 \in DOMAIN s.imm_memtables
        BY <1>0, <2>1, <3>2
      <4>2. s.imm_memtables[i - 1] \in ids
        BY <4>1 DEF IdsNamed
      <4> QED BY <2>1, <3>2, <4>2
    <3> QED BY <3>1, <3>2
  <2>2. /\ DOMAIN Top(mems) = 1 .. Len(s.imm_memtables) + 1
        /\ DOMAIN Top(mems2) = 1 .. Len(s.imm_memtables) + 1
        /\ 1 .. Len(s.imm_memtables) + 1 \subseteq Nat
    BY <1>0
  <2> HIDE DEF Top
  <2> QED BY SMTT(20), <2>1, <2>2, MergeCell
<1>2. MergeIterator(Mid(ssts))[c] = MergeIterator(Mid(ssts2))[c]
  <2>1. \A i \in DOMAIN s.l0_sstables : Mid(ssts)[i][c] = Mid(ssts2)[i][c]
    BY DEF IdsNamed
  <2>2. /\ DOMAIN Mid(ssts) = DOMAIN s.l0_sstables
        /\ DOMAIN Mid(ssts2) = DOMAIN s.l0_sstables
        /\ DOMAIN s.l0_sstables \subseteq Nat
    BY <1>0
  <2> HIDE DEF Mid
  <2> QED BY <2>1, <2>2, MergeCell
<1>3. MergeIterator(Low(ssts))[c] = MergeIterator(Low(ssts2))[c]
  <2>1. ASSUME NEW i \in DOMAIN s.levels
        PROVE  Low(ssts)[i][c] = Low(ssts2)[i][c]
    <3>1. s.levels[i][2] \in Seq(Nat)
      BY <1>0, <2>1
    <3>2. \A j \in DOMAIN s.levels[i][2] : Run(ssts, i)[j][c] = Run(ssts2, i)[j][c]
      BY <2>1 DEF IdsNamed
    <3>3. /\ DOMAIN Run(ssts, i) = DOMAIN s.levels[i][2]
          /\ DOMAIN Run(ssts2, i) = DOMAIN s.levels[i][2]
          /\ DOMAIN s.levels[i][2] \subseteq Nat
      BY <3>1
    <3>4. Low(ssts)[i] = MergeIterator(Run(ssts, i)) /\ Low(ssts2)[i] = MergeIterator(Run(ssts2, i))
      BY <2>1
    <3> HIDE DEF Run, Low
    <3> QED BY <3>2, <3>3, <3>4, MergeCell
  <2>2. /\ DOMAIN Low(ssts) = DOMAIN s.levels
        /\ DOMAIN Low(ssts2) = DOMAIN s.levels
        /\ DOMAIN s.levels \subseteq Nat
    BY <1>0
  <2> HIDE DEF Low
  <2> QED BY <2>1, <2>2, MergeCell
<1>4. /\ ViewIn(s, mems, ssts)
         = TwoMergeIterator(TwoMergeIterator(MergeIterator(Top(mems)), MergeIterator(Mid(ssts))),
                            MergeIterator(Low(ssts)))
      /\ ViewIn(s, mems2, ssts2)
         = TwoMergeIterator(TwoMergeIterator(MergeIterator(Top(mems2)), MergeIterator(Mid(ssts2))),
                            MergeIterator(Low(ssts2)))
  BY DEF ViewIn
<1> HIDE DEF Top, Mid, Low
<1> QED BY <1>1, <1>2, <1>3, <1>4, TwoMergeCell

-------------------------------------------------------------------------------
(* What no step changes                                                    *)

(* Ids stay allocated and contents stay as they are up to the commit       *)
(* timestamp: insertions go beyond it, and an SST of the state is written  *)
(* again only with what it holds.                                          *)
LEMMA CommittedContentStays ==
    ASSUME IInv, IInv', [Next]_vars
    PROVE  /\ Ids \subseteq Ids'
           /\ state.sstables \subseteq state'.sstables
           /\ commit_ts <= commit_ts'
           /\ \A id \in Ids, c \in Cells :
                c[2] <= commit_ts => memtables'[id][c] = memtables[id][c]
           /\ \A id \in state.sstables : sst_tables'[id] = sst_tables[id]
<1> DEFINE Ts == commit_ts <= commit_ts'
           Mems == \A id \in Ids, c \in Cells :
                        c[2] <= commit_ts => memtables'[id][c] = memtables[id][c]
           Ssts == \A id \in state.sstables : sst_tables'[id] = sst_tables[id]
           Kept == next_sst_id' = next_sst_id /\ commit_ts' = commit_ts
                   /\ memtables' = memtables /\ sst_tables' = sst_tables
           All == Ids \subseteq Ids' /\ Ts /\ Mems /\ Ssts
<1>0. TypeOK /\ commit_ts \in Nat /\ next_sst_id \in Nat
  <2>1. TypeOK
    BY DEF IInv
  <2>2. commit_ts \in 0 .. MaxTs /\ next_sst_id \in Nat /\ MaxTs \in Nat
    BY <2>1, TablesAssumption DEF TypeOK
  <2> QED BY <2>1, <2>2
<1>1. Kept => All
  BY <1>0 DEF Ids
<1> USE DEF engine, mvcc
<1>2. ASSUME NEW w \in Writers, WriteBegin(w) \/ TryFreeze(w)
      PROVE  Kept
  BY <1>2 DEF WriteBegin, TryFreeze
<1>3. ASSUME NEW w \in Writers, PutRecord(w)
      PROVE  All
  <2> DEFINE record == batch[w][inserted[w] + 1]
             cell == <<record.key, write_ts[w]>>
             active == memtables[state.memtable]
  <2>1. /\ next_sst_id' = next_sst_id /\ commit_ts' = commit_ts /\ sst_tables' = sst_tables
        /\ memtables' = [memtables EXCEPT ![state.memtable] =
                            [active EXCEPT ![cell] = record.value]]
    BY <1>3 DEF PutRecord
  <2>2. write_ts[w] = commit_ts + 1
    BY <1>3 DEF IInv, WriteInProgress, InWrite, PutRecord
  <2>3. memtables \in [Ids -> Tables]
    BY <1>0 DEF TypeOK
  <2>4. ASSUME NEW id \in Ids, NEW c \in Cells, c[2] <= commit_ts
        PROVE  memtables'[id][c] = memtables[id][c]
    <3>1. c # cell
      BY <1>0, <2>2, <2>4
    <3>2. memtables[id] \in Tables
      BY <2>3
    <3>3. CASE id = state.memtable
      <4>1. memtables'[id] = [active EXCEPT ![cell] = record.value] /\ active \in Tables
        BY <2>1, <2>3, <3>2, <3>3
      <4> HIDE DEF cell, record
      <4> QED BY <3>1, <3>3, <4>1 DEF Tables
    <3>4. CASE id # state.memtable
      BY <2>1, <2>3, <3>4
    <3> QED BY <3>3, <3>4
  <2> QED BY <1>0, <2>1, <2>4 DEF Ids
<1>4. ASSUME NEW w \in Writers, Commit(w)
      PROVE  All
  <2>1. commit_ts' = commit_ts + 1
    BY <1>4 DEF IInv, WriteInProgress, InWrite, Commit
  <2> QED BY <1>0, <1>4, <2>1 DEF Commit, Ids
<1>5. ASSUME NEW t \in Freezers, FreezeStep(t)
      PROVE  All
  <2>1. FreezeLock(t) \/ FreezeRecord(t) \/ FreezeFails(t) \/ FreezeSwap(t) => Kept
    BY DEF FreezeLock, FreezeRecord, FreezeFails, FreezeSwap
  <2>2. CASE FreezeCopy(t)
    <3>1. state.sstables \subseteq Ids
      BY DEF IInv, IdsInState, IdsNamed
    <3> QED BY <1>0, <2>2, <3>1 DEF FreezeCopy, AllocateId, Ids
  <2> HIDE DEF Kept, All
  <2> QED BY <1>1, <1>5, <2>1, <2>2 DEF FreezeStep
<1>6. ASSUME NEW f \in Forcers, ForceFlush(f) \/ ForceFlushCheck(f)
      PROVE  Kept
  BY <1>6 DEF ForceFlush, ForceFlushCheck
<1>7. TriggerFlush => Kept
  BY DEF TriggerFlush
<1>8. ASSUME NEW t \in Flushers, FlushStep(t)
      PROVE  All
  <2>1. FlushPick(t) \/ FlushFails(t) \/ FlushLock(t) \/ FlushInstall(t) \/ FlushPanics(t)
            => Kept
    BY DEF FlushPick, FlushFails, FlushLock, FlushInstall, FlushPanics
  <2>2. CASE FlushBuild(t)
    <3>1. /\ next_sst_id' = next_sst_id /\ commit_ts' = commit_ts /\ memtables' = memtables
          /\ sst_tables' = [sst_tables EXCEPT ![flush_id[t]] = memtables[flush_id[t]]]
      BY <2>2 DEF FlushBuild
    <3>2. sst_tables \in [Ids -> Tables] /\ state.sstables \subseteq Ids
      BY DEF IInv, TypeOK, IdsInState, IdsNamed
    <3>3. \A id \in state.sstables : sst_tables'[id] = sst_tables[id]
      BY <3>1, <3>2 DEF IInv, FlushedContentIsFinal
    <3> QED BY <1>0, <3>1, <3>3 DEF Ids
  <2> HIDE DEF Kept, All
  <2> QED BY <1>1, <1>8, <2>1, <2>2 DEF FlushStep
<1>9. ASSUME NEW r \in Readers, ReaderStep(r)
      PROVE  Kept
  BY <1>9 DEF ReaderStep, NewTxn, ReadSnapshot, ReadEnd
<1>10. UNCHANGED vars => Kept
  BY DEF vars
<1> HIDE DEF engine, mvcc, Kept, All
<1>11. All
  BY <1>1, <1>2, <1>3, <1>4, <1>5, <1>6, <1>7, <1>8, <1>9, <1>10 DEF Next, WriterStep
<1>12. state.sstables \subseteq state'.sstables
  BY StateFields
<1> QED BY <1>11, <1>12 DEF All

-------------------------------------------------------------------------------
(* Readers                                                                 *)

(* Up to a reader's timestamp, which is never ahead of the commit          *)
(* timestamp, the state it cloned and the engine's hold the same cells;    *)
(* and the SSTs it names are still those of the engine.                    *)
SnapshotCurrent(r) ==
    /\ read_ts[r] <= commit_ts
    /\ pc[r] = "reading" =>
        /\ snapshot[r] \in States
        /\ IdsNamed(snapshot[r], Ids)
        /\ snapshot[r].sstables \subseteq state.sstables
        /\ \A c \in Cells :
            c[2] <= read_ts[r] => View(snapshot[r])[c] = View(state)[c]

SnapshotsCurrent == \A r \in Readers : SnapshotCurrent(r)

(* A reader's locals change only in its own steps.                         *)
LEMMA ReaderFrame ==
    ASSUME IInv, [Next]_vars, NEW r \in Readers, ~ ReaderStep(r)
    PROVE  pc'[r] = pc[r] /\ read_ts'[r] = read_ts[r] /\ snapshot'[r] = snapshot[r]
<1> DEFINE Same == pc'[r] = pc[r] /\ reading' = reading
           Goal == /\ pc'[r] = pc[r] /\ read_ts'[r] = read_ts[r]
                   /\ snapshot'[r] = snapshot[r]
<1>0. pc \in [Threads -> PcLabels] /\ r \notin Writers /\ r \notin Flushers /\ r \in Threads
      /\ read_ts \in [Readers -> 0 .. MaxTs] /\ snapshot \in [Readers -> States \cup {Nil}]
  BY StorageAssumption DEF IInv, TypeOK, Threads
<1>1. Same => Goal
  BY DEF reading
<1> USE DEF Goto, Freezers, Flushers
<1>2. ASSUME NEW w \in Writers, WriterStep(w)
      PROVE  Same
  BY <1>0, <1>2 DEF WriterStep, WriteBegin, PutRecord, TryFreeze, Commit
<1>3. ASSUME NEW t \in Freezers, FreezeStep(t)
      PROVE  Same
  BY <1>0, <1>3 DEF FreezeStep, FreezeLock, FreezeCopy, FreezeRecord, FreezeFails, FreezeSwap,
                    reading
<1>4. ASSUME NEW f \in Forcers, ForceFlush(f) \/ ForceFlushCheck(f)
      PROVE  Same
  BY <1>0, <1>4 DEF ForceFlush, ForceFlushCheck
<1>5. TriggerFlush => Same
  BY <1>0 DEF TriggerFlush
<1>6. ASSUME NEW t \in Flushers, FlushStep(t)
      PROVE  Same
  BY <1>0, <1>6 DEF FlushStep, FlushPick, FlushBuild, FlushFails, FlushLock, FlushInstall,
                    FlushPanics
<1>7. ASSUME NEW q \in Readers, ReaderStep(q)
      PROVE  Goal
  <2>1. q # r
    BY <1>7
  <2> QED BY <1>0, <1>7, <2>1 DEF ReaderStep, NewTxn, ReadSnapshot, ReadEnd
<1>8. UNCHANGED vars => Same
  BY DEF vars
<1> HIDE DEF Same, Goal, Goto, Freezers, Flushers
<1>9. Goal
  BY <1>1, <1>2, <1>3, <1>4, <1>5, <1>6, <1>7, <1>8 DEF Next
<1> QED BY <1>9 DEF Goal

(* Committed cells of the engine's own view never change.                  *)
LEMMA CommittedViewStays ==
    ASSUME IInv, IInv', TiersAlone, [Next]_vars, NEW c \in Cells, c[2] <= commit_ts
    PROVE  View(state)'[c] = View(state)[c]
<1>1. ASSUME NEW w \in Writers, PutRecord(w)
      PROVE  View(state)'[c] = View(state)[c]
  <2> DEFINE record == batch[w][inserted[w] + 1]
             cell == <<record.key, write_ts[w]>>
  <2>1. View(state)' = [View(state) EXCEPT ![cell] = record.value]
    BY <1>1, PutRecordView
  <2>2. write_ts[w] = commit_ts + 1 /\ commit_ts \in 0 .. MaxTs
    BY <1>1 DEF IInv, TypeOK, WriteInProgress, InWrite, PutRecord
  <2>3. c # cell
    BY <2>2
  <2>4. DOMAIN View(state) = Cells
    BY DEF View, TwoMergeIterator
  <2> HIDE DEF record, cell
  <2> QED BY <2>1, <2>3, <2>4
<1>2. CASE ~ (\E w \in Writers : PutRecord(w))
  BY <1>2, StepView
<1> QED BY <1>1, <1>2

LEMMA SnapshotCurrentStep ==
    ASSUME IInv, IInv', TiersAlone, SnapshotsCurrent, [Next]_vars, NEW r \in Readers
    PROVE  SnapshotCurrent(r)'
<1>0. /\ SnapshotCurrent(r) /\ commit_ts \in Nat /\ commit_ts' \in Nat
      /\ pc \in [Threads -> PcLabels] /\ r \in Threads
      /\ read_ts \in [Readers -> 0 .. MaxTs] /\ snapshot \in [Readers -> States \cup {Nil}]
      /\ state \in States /\ IdsInState
  <2>1. TypeOK /\ IdsInState /\ TypeOK'
    BY DEF IInv
  <2>2. commit_ts \in 0 .. MaxTs /\ commit_ts' \in 0 .. MaxTs /\ MaxTs \in Nat
    BY <2>1, TablesAssumption DEF TypeOK
  <2>3. /\ pc \in [Threads -> PcLabels] /\ read_ts \in [Readers -> 0 .. MaxTs]
        /\ snapshot \in [Readers -> States \cup {Nil}] /\ state \in States
    BY <2>1 DEF TypeOK
  <2> QED BY <2>1, <2>2, <2>3 DEF SnapshotsCurrent, Threads
<1>1. /\ Ids \subseteq Ids' /\ state.sstables \subseteq state'.sstables
      /\ commit_ts <= commit_ts'
      /\ \A id \in Ids, c \in Cells : c[2] <= commit_ts => memtables'[id][c] = memtables[id][c]
      /\ \A id \in state.sstables : sst_tables'[id] = sst_tables[id]
  BY CommittedContentStays
<1>2. CASE ~ ReaderStep(r)
  <2>1. pc'[r] = pc[r] /\ read_ts'[r] = read_ts[r] /\ snapshot'[r] = snapshot[r]
    BY <1>2, ReaderFrame
  <2>2. read_ts'[r] <= commit_ts'
    <3>1. read_ts[r] \in Nat /\ read_ts[r] <= commit_ts
      BY <1>0 DEF SnapshotCurrent
    <3> QED BY <1>0, <1>1, <2>1, <3>1
  <2>3. ASSUME pc[r] = "reading"
        PROVE  /\ snapshot[r] \in States /\ IdsNamed(snapshot[r], Ids')
               /\ snapshot[r].sstables \subseteq state'.sstables
               /\ \A c \in Cells : c[2] <= read_ts[r] =>
                    View(snapshot[r])'[c] = View(state)'[c]
    <3>1. /\ snapshot[r] \in States /\ IdsNamed(snapshot[r], Ids)
          /\ snapshot[r].sstables \subseteq state.sstables
          /\ read_ts[r] \in Nat /\ read_ts[r] <= commit_ts
      BY <1>0, <2>3 DEF SnapshotCurrent
    <3>2. IdsNamed(snapshot[r], Ids') /\ snapshot[r].sstables \subseteq state'.sstables
      BY <1>1, <3>1 DEF IdsNamed
    <3>3. ASSUME NEW c \in Cells, c[2] <= read_ts[r]
          PROVE  View(snapshot[r])'[c] = View(state)'[c]
      <4>1. c[2] <= commit_ts
        BY <1>0, <3>1, <3>3 DEF Cells
      <4>2. View(snapshot[r])[c] = ViewIn(snapshot[r], memtables, sst_tables)[c]
        BY DEF View, ViewIn, MemtableLayers, L0Layers, LevelLayers, SstConcatIterator
      <4>3. View(snapshot[r])'[c] = ViewIn(snapshot'[r], memtables', sst_tables')[c]
        BY DEF View, ViewIn, MemtableLayers, L0Layers, LevelLayers, SstConcatIterator
      <4>4. /\ \A id \in Ids : memtables[id][c] = memtables'[id][c]
            /\ \A id \in snapshot[r].sstables : sst_tables[id][c] = sst_tables'[id][c]
        BY <1>1, <3>1, <4>1
      <4>5. ViewIn(snapshot[r], memtables, sst_tables)[c]
            = ViewIn(snapshot[r], memtables', sst_tables')[c]
        BY <3>1, <4>4, ViewInCell
      <4>6. View(state)'[c] = View(state)[c]
        BY <4>1, CommittedViewStays
      <4>7. View(snapshot[r])[c] = View(state)[c]
        BY <1>0, <2>3, <3>3 DEF SnapshotCurrent
      <4> QED BY <2>1, <4>2, <4>3, <4>5, <4>6, <4>7
    <3> QED BY <3>1, <3>2, <3>3
  <2> QED BY <2>1, <2>2, <2>3 DEF SnapshotCurrent
<1>3. CASE NewTxn(r)
  BY <1>0, <1>3 DEF NewTxn, Goto, SnapshotCurrent, mvcc
<1>4. CASE ReadSnapshot(r)
  <2>1. /\ snapshot'[r] = state /\ state' = state /\ read_ts' = read_ts
        /\ commit_ts' = commit_ts /\ next_sst_id' = next_sst_id
    BY <1>0, <1>4 DEF ReadSnapshot, engine, mvcc
  <2>2. snapshot'[r] = state'
    BY <2>1
  <2>3. View(snapshot[r])' = View(state)'
    BY <2>2 DEF View, MemtableLayers, L0Layers, LevelLayers
  <2> QED BY <1>0, <2>1, <2>2, <2>3 DEF SnapshotCurrent, IdsInState, Ids
<1>5. CASE ReadEnd(r)
  BY <1>0, <1>5, TablesAssumption DEF ReadEnd, Goto, SnapshotCurrent, mvcc
<1> QED BY <1>2, <1>3, <1>4, <1>5 DEF ReaderStep

LEMMA SnapshotsCurrentHolds == Spec => []SnapshotsCurrent
<1>1. Init => SnapshotsCurrent
  BY DEF Init, SnapshotsCurrent, SnapshotCurrent, Threads
<1>2. IInv /\ IInv' /\ TiersAlone /\ SnapshotsCurrent /\ [Next]_vars => SnapshotsCurrent'
  BY SnapshotCurrentStep DEF SnapshotsCurrent
<1> QED BY <1>1, <1>2, InvariantHolds, TiersAloneHolds, PTL DEF Spec

(* A transaction returns what the engine holds at its timestamp, however   *)
(* many freezes, flushes and failures have replaced the state it cloned.   *)
THEOREM ReadersAgree == Spec => []SnapshotReadsAgree
<1>1. SnapshotsCurrent => SnapshotReadsAgree
  <2> SUFFICES ASSUME SnapshotsCurrent, NEW r \in Readers, pc[r] = "reading", NEW k \in Keys
               PROVE  ValueAt(View(snapshot[r]), k, read_ts[r])
                      = ValueAt(View(state), k, read_ts[r])
    BY DEF SnapshotReadsAgree
  <2>1. \A ts \in 1 .. MaxTs : ts <= read_ts[r] =>
            View(snapshot[r])[<<k, ts>>] = View(state)[<<k, ts>>]
    BY DEF SnapshotsCurrent, SnapshotCurrent, Cells
  <2> QED BY <2>1, ValueAtAgrees
<1> QED BY <1>1, SnapshotsCurrentHolds, PTL

(* No step of the engine, failures included, changes a cell at or below the*)
(* commit timestamp, and that timestamp never goes back.                   *)
THEOREM CommittedCellsKept == Spec => KV!CommittedCellsKept
<1>1. IInv /\ IInv' /\ TiersAlone /\ [Next]_vars =>
        [/\ \A c \in KV!Cells : c[2] <= commit_ts => View(state)'[c] = View(state)[c]
         /\ commit_ts' >= commit_ts]_(KV!kvVars)
  <2> SUFFICES ASSUME IInv, IInv', TiersAlone, [Next]_vars
               PROVE  /\ \A c \in Cells :
                            c[2] <= commit_ts => View(state)'[c] = View(state)[c]
                      /\ commit_ts' >= commit_ts
    BY DEF KV!Cells, Cells
  <2>1. commit_ts \in Nat /\ commit_ts' \in Nat
    BY TablesAssumption DEF IInv, TypeOK
  <2> QED BY <2>1, CommittedViewStays, CommittedContentStays
<1> QED BY <1>1, InvariantHolds, TiersAloneHolds, PTL DEF Spec, KV!CommittedCellsKept

-------------------------------------------------------------------------------
(* Batches                                                                 *)

(* What key k has among the first n records of b.                          *)
LastAmong(b, n, k) ==
    LET at == {i \in 1 .. n : b[i].key = k}
    IN IF at = {} THEN NoEntry
       ELSE b[CHOOSE i \in at : \A j \in at : j <= i].value

LEMMA LastAmongNext ==
    ASSUME NEW b, NEW n \in Nat, NEW k
    PROVE  LastAmong(b, n + 1, k)
           = IF b[n + 1].key = k THEN b[n + 1].value ELSE LastAmong(b, n, k)
<1> DEFINE at == {i \in 1 .. n : b[i].key = k}
           next == {i \in 1 .. n + 1 : b[i].key = k}
<1>1. CASE b[n + 1].key = k
  <2>1. n + 1 \in next /\ \A j \in next : j <= n + 1
    BY <1>1
  <2>2. (CHOOSE i \in next : \A j \in next : j <= i) = n + 1
    <3>1. \A i \in next : (\A j \in next : j <= i) => i = n + 1
      <4> SUFFICES ASSUME NEW i \in next, \A j \in next : j <= i
                   PROVE  i = n + 1
        OBVIOUS
      <4>1. n + 1 <= i /\ i <= n + 1 /\ i \in Int
        BY <2>1
      <4> QED BY <4>1
    <3> HIDE DEF next
    <3> QED BY <2>1, <3>1
  <2>3. next # {}
    BY <2>1
  <2> QED BY <1>1, <2>2, <2>3 DEF LastAmong
<1>2. CASE b[n + 1].key # k
  <2>1. next = at
    BY <1>2
  <2>2. /\ LastAmong(b, n, k)
           = IF at = {} THEN NoEntry ELSE b[CHOOSE i \in at : \A j \in at : j <= i].value
        /\ LastAmong(b, n + 1, k)
           = IF next = {} THEN NoEntry
             ELSE b[CHOOSE i \in next : \A j \in next : j <= i].value
    BY DEF LastAmong
  <2> HIDE DEF at, next
  <2> QED BY <1>2, <2>1, <2>2
<1> QED BY <1>1, <1>2

(* Until an I/O call fails, nothing is stored past the next timestamp, and *)
(* at the next timestamp only what the writer holding the write lock has   *)
(* inserted so far.                                                        *)
BatchesInView ==
    faults = 0 =>
        /\ \A c \in Cells : c[2] > commit_ts + 1 => View(state)[c] = NoEntry
        /\ (\A w \in Writers : ~ InWrite(w)) =>
            \A c \in Cells : c[2] = commit_ts + 1 => View(state)[c] = NoEntry
        /\ \A w \in Writers : InWrite(w) =>
            /\ inserted[w] \in 0 .. Len(batch[w])
            /\ pc[w] # "put" => inserted[w] = Len(batch[w])
            /\ \A k \in Keys : View(state)[<<k, commit_ts + 1>>]
                               = LastAmong(batch[w], inserted[w], k)

(* At most one write is in progress, and none when one begins.             *)
LEMMA OneWrite ==
    ASSUME IInv, NEW w \in Writers
    PROVE  /\ InWrite(w) => \A u \in Writers : InWrite(u) => u = w
           /\ WriteBegin(w) => \A u \in Writers : ~ InWrite(u)
BY StorageAssumption DEF IInv, LocksHeld, WriteBegin, Threads

(* Any other step fails, or leaves every write where it was.               *)
LEMMA WritesFrame ==
    ASSUME IInv, [Next]_vars,
           \A w \in Writers : ~ (WriteBegin(w) \/ PutRecord(w) \/ Commit(w))
    PROVE  \/ faults' # 0
           \/ /\ faults' = faults /\ commit_ts' = commit_ts
              /\ batch' = batch /\ inserted' = inserted
              /\ \A w \in Writers : /\ InWrite(w)' <=> InWrite(w)
                                    /\ pc'[w] = "put" <=> pc[w] = "put"
<1> DEFINE Calm == faults' = faults /\ commit_ts' = commit_ts
                   /\ batch' = batch /\ inserted' = inserted
           Same == \A w \in Writers : /\ InWrite(w)' <=> InWrite(w)
                                      /\ pc'[w] = "put" <=> pc[w] = "put"
           Goal == faults' # 0 \/ (Calm /\ Same)
<1>0. /\ pc \in [Threads -> PcLabels] /\ faults \in Nat
      /\ Writers \cap Flushers = {} /\ Writers \cap Readers = {} /\ Writers \cap Forcers = {}
      /\ Writers \subseteq Threads
  <2>1. faults \in 0 .. MaxFaults /\ MaxFaults \in Nat /\ pc \in [Threads -> PcLabels]
    BY StorageAssumption DEF IInv, TypeOK
  <2> QED BY <2>1, StorageAssumption DEF Threads, Flushers
<1>1. (\A w \in Writers : pc'[w] = pc[w]) => Same
  BY DEF InWrite
<1> USE DEF mvcc, Goto
<1>2. ASSUME NEW w \in Writers, TryFreeze(w)
      PROVE  Calm /\ Same
  BY <1>0, <1>2 DEF TryFreeze, InWrite, FreezeLabels
<1>3. ASSUME NEW t \in Freezers, FreezeStep(t)
      PROVE  Goal
  <2>1. CASE FreezeFails(t)
    BY <1>0, <2>1 DEF FreezeFails, Fault
  <2>2. CASE ~ FreezeFails(t)
    <3>1. Calm
      BY <1>3, <2>2 DEF FreezeStep, FreezeLock, FreezeCopy, FreezeRecord, FreezeSwap
    <3>2. \A w \in Writers : w # t => pc'[w] = pc[w]
      BY <1>0, <1>3, <2>2 DEF FreezeStep, FreezeLock, FreezeCopy, FreezeRecord, FreezeSwap
    <3>3. t \in Writers => pc[t] \in FreezeLabels /\ pc'[t] \in FreezeLabels \cup {"commit"}
      BY <1>0, <1>3, <2>2 DEF FreezeStep, FreezeLock, FreezeCopy, FreezeRecord, FreezeSwap,
                              FreezeLabels
    <3>4. Same
      BY <3>2, <3>3 DEF InWrite, FreezeLabels
    <3> QED BY <3>1, <3>4
  <2> QED BY <2>1, <2>2
<1>4. ASSUME NEW f \in Forcers, ForceFlush(f) \/ ForceFlushCheck(f)
      PROVE  Calm /\ Same
  <2>1. \A w \in Writers : pc'[w] = pc[w]
    BY <1>0, <1>4 DEF ForceFlush, ForceFlushCheck
  <2>2. Calm
    BY <1>4 DEF ForceFlush, ForceFlushCheck
  <2> QED BY <1>1, <2>1, <2>2
<1>5. ASSUME TriggerFlush
      PROVE  Calm /\ Same
  BY <1>0, <1>1, <1>5 DEF TriggerFlush, Flushers
<1>6. ASSUME NEW t \in Flushers, FlushStep(t)
      PROVE  Goal
  <2>1. \A w \in Writers : pc'[w] = pc[w]
    BY <1>0, <1>6 DEF FlushStep, FlushPick, FlushBuild, FlushFails, FlushLock, FlushInstall,
                      FlushPanics
  <2>2. faults' # 0 \/ Calm
    BY <1>0, <1>6 DEF FlushStep, FlushPick, FlushBuild, FlushFails, FlushLock, FlushInstall,
                      FlushPanics, Fault
  <2> QED BY <1>1, <2>1, <2>2
<1>7. ASSUME NEW r \in Readers, ReaderStep(r)
      PROVE  Calm /\ Same
  <2>1. \A w \in Writers : pc'[w] = pc[w]
    BY <1>0, <1>7 DEF ReaderStep, NewTxn, ReadSnapshot, ReadEnd
  <2>2. Calm
    BY <1>7 DEF ReaderStep, NewTxn, ReadSnapshot, ReadEnd
  <2> QED BY <1>1, <2>1, <2>2
<1>8. UNCHANGED vars => Calm /\ Same
  BY <1>1 DEF vars
<1> HIDE DEF Calm, Same
<1>9. Goal
  BY <1>2, <1>3, <1>4, <1>5, <1>6, <1>7, <1>8 DEF Next, WriterStep
<1> QED BY <1>9 DEF Calm, Same

(* The step of BatchesInView, one case for each step that touches it.      *)
LEMMA BatchesInViewStep ==
    ASSUME IInv, IInv', TiersAlone, BatchesInView, [Next]_vars, faults' = 0
    PROVE  BatchesInView'
<1> DEFINE Beyond == \A c \in Cells : c[2] > commit_ts + 1 => View(state)[c] = NoEntry
           Free == (\A w \in Writers : ~ InWrite(w)) =>
                        \A c \in Cells : c[2] = commit_ts + 1 => View(state)[c] = NoEntry
           Held(w) == InWrite(w) =>
                        /\ inserted[w] \in 0 .. Len(batch[w])
                        /\ pc[w] # "put" => inserted[w] = Len(batch[w])
                        /\ \A k \in Keys : View(state)[<<k, commit_ts + 1>>]
                                           = LastAmong(batch[w], inserted[w], k)
<1>0. TypeOK /\ PcByRole /\ WriteInProgress /\ commit_ts \in Nat
  <2>1. TypeOK /\ PcByRole /\ WriteInProgress
    BY DEF IInv
  <2>2. commit_ts \in 0 .. MaxTs
    BY <2>1 DEF TypeOK
  <2> QED BY <2>1, <2>2
<1>1. /\ pc \in [Threads -> PcLabels] /\ inserted \in [Writers -> Nat]
      /\ batch \in [Writers -> Seq(Records)] /\ write_ts \in [Writers -> 0 .. MaxTs]
      /\ Writers \subseteq Threads
  BY <1>0 DEF TypeOK, Threads
<1>2. faults = 0
  <2>1. faults \in 0 .. MaxFaults
    BY <1>0 DEF TypeOK
  <2>2. faults' = faults \/ faults' = faults + 1
    BY FaultsStep
  <2> QED BY <2>1, <2>2
<1>3. Beyond /\ Free /\ \A w \in Writers : Held(w)
  BY <1>2 DEF BatchesInView
<1>4. ASSUME NEW w \in Writers, WriteBegin(w)
      PROVE  BatchesInView'
  <2>1. PICK b \in Batches : /\ batch' = [batch EXCEPT ![w] = b]
                             /\ pc' = [pc EXCEPT ![w] = IF b = <<>> THEN "try_freeze" ELSE "put"]
    BY <1>4 DEF WriteBegin, Goto
  <2>2. commit_ts' = commit_ts /\ inserted' = inserted /\ View(state)' = View(state)
    <3>1. commit_ts' = commit_ts /\ inserted' = inserted
      BY <1>4 DEF WriteBegin
    <3>2. ~ (\E u \in Writers : PutRecord(u))
      <4> SUFFICES ASSUME NEW u \in Writers, PutRecord(u) PROVE FALSE
        OBVIOUS
      <4>1. inserted' = [inserted EXCEPT ![u] = inserted[u] + 1]
        BY DEF PutRecord
      <4>2. inserted[u] \in Nat /\ inserted'[u] = inserted[u] + 1
        BY <1>1, <4>1
      <4> QED BY <3>1, <4>2
    <3> QED BY <3>1, <3>2, StepView
  <2>3. inserted'[w] = 0 /\ batch'[w] = b /\ b \in Seq(Records)
        /\ (pc'[w] # "put" => b = <<>>)
    BY <1>0, <1>1, <1>4, <2>1, <2>2, StorageAssumption
       DEF WriteInProgress, InWrite, WriteBegin, FreezeLabels
  <2>4. \A k \in Keys : View(state)'[<<k, commit_ts' + 1>>] = LastAmong(batch'[w], 0, k)
    <3>1. \A u \in Writers : ~ InWrite(u)
      BY <1>4, OneWrite
    <3>2. commit_ts + 1 \in 1 .. MaxTs
      BY <1>0, <1>4, TablesAssumption DEF WriteBegin
    <3>3. \A k \in Keys : View(state)[<<k, commit_ts + 1>>] = NoEntry
      BY <1>3, <3>1, <3>2 DEF Cells
    <3>4. \A k \in Keys : LastAmong(batch'[w], 0, k) = NoEntry
      BY DEF LastAmong
    <3> QED BY <2>2, <3>3, <3>4
  <2>5. \A u \in Writers : InWrite(u)' => u = w
    BY <1>4, <2>1, <1>1, OneWrite DEF InWrite
  <2>6. ~ (\A u \in Writers : ~ InWrite(u)')
    BY <1>1, <2>1 DEF InWrite
  <2>7. Len(b) \in Nat /\ (b = <<>> => Len(b) = 0)
    BY <2>3
  <2>8. Beyond'
    BY <1>3, <2>2
  <2> QED BY <2>3, <2>4, <2>5, <2>6, <2>7, <2>8 DEF BatchesInView
<1>5. ASSUME NEW w \in Writers, PutRecord(w)
      PROVE  BatchesInView'
  <2> DEFINE n == inserted[w]
             record == batch[w][n + 1]
  <2>1. /\ record \in Records
        /\ View(state)' = [View(state) EXCEPT ![<<record.key, write_ts[w]>>] = record.value]
    BY <1>5, PutRecordView
  <2>2. /\ commit_ts' = commit_ts /\ batch' = batch
        /\ inserted' = [inserted EXCEPT ![w] = n + 1]
        /\ pc' = [pc EXCEPT ![w] = IF n + 1 = Len(batch[w]) THEN "try_freeze" ELSE "put"]
    BY <1>1, <1>5 DEF PutRecord, Goto
  <2>3. InWrite(w) /\ InWrite(w)' /\ pc[w] = "put"
    BY <1>1, <1>5, <2>2 DEF PutRecord, InWrite
  <2>4. n \in Nat /\ n < Len(batch[w]) /\ Len(batch[w]) \in Nat
    BY <1>0, <1>1, <2>3 DEF WriteInProgress
  <2>5. write_ts[w] = commit_ts + 1 /\ commit_ts + 1 \in 1 .. MaxTs
    BY <1>0, <2>3, TablesAssumption DEF WriteInProgress
  <2>6. DOMAIN View(state) = Cells
    BY DEF View, TwoMergeIterator
  <2>7. record.key \in Keys /\ <<record.key, commit_ts + 1>> \in Cells
    BY <2>1, <2>5 DEF Records, Cells
  <2> HIDE DEF record
  <2>8. \A c \in Cells : View(state)'[c] = IF c = <<record.key, commit_ts + 1>>
                                           THEN record.value ELSE View(state)[c]
    BY <2>1, <2>5, <2>6, <2>7
  <2>9. ASSUME NEW k \in Keys
        PROVE  View(state)'[<<k, commit_ts + 1>>] = LastAmong(batch[w], n + 1, k)
    <3>1. LastAmong(batch[w], n + 1, k)
          = IF record.key = k THEN record.value ELSE LastAmong(batch[w], n, k)
      BY <2>4, LastAmongNext DEF record
    <3>2. View(state)[<<k, commit_ts + 1>>] = LastAmong(batch[w], n, k)
      BY <1>3, <2>3
    <3>3. <<k, commit_ts + 1>> \in Cells
      BY <2>5 DEF Cells
    <3> QED BY <2>8, <3>1, <3>2, <3>3
  <2>10. inserted'[w] = n + 1 /\ inserted'[w] \in 0 .. Len(batch'[w])
         /\ (pc'[w] # "put" => inserted'[w] = Len(batch'[w]))
    BY <1>1, <2>2, <2>4
  <2>11. \A u \in Writers : InWrite(u)' => u = w
    BY <1>1, <2>2, <2>3, OneWrite DEF InWrite
  <2>12. Beyond'
    <3>1. \A c \in Cells : c[2] > commit_ts + 1 => c # <<record.key, commit_ts + 1>>
      BY <1>0
    <3> QED BY <1>3, <2>2, <2>8, <3>1
  <2> QED BY <2>2, <2>3, <2>9, <2>10, <2>11, <2>12 DEF BatchesInView
<1>6. ASSUME NEW w \in Writers, Commit(w)
      PROVE  BatchesInView'
  <2>1. InWrite(w)
    BY <1>6 DEF Commit, InWrite
  <2>2. commit_ts' = commit_ts + 1
    BY <1>0, <1>6, <2>1 DEF WriteInProgress, Commit
  <2>3. View(state)' = View(state)
    <3>1. ~ (\E u \in Writers : PutRecord(u))
      <4> SUFFICES ASSUME NEW u \in Writers, PutRecord(u) PROVE FALSE
        OBVIOUS
      <4>1. commit_ts' = commit_ts
        BY DEF PutRecord
      <4> QED BY <1>0, <2>2, <4>1
    <3> QED BY <3>1, StepView
  <2>4. \A u \in Writers : ~ InWrite(u)'
    <3>1. pc' = [pc EXCEPT ![w] = "idle"]
      BY <1>6 DEF Commit, Goto
    <3>2. \A u \in Writers : InWrite(u) => u = w
      BY <2>1, OneWrite
    <3> QED BY <1>1, <3>1, <3>2 DEF InWrite, FreezeLabels
  <2>5. \A c \in Cells : c[2] \in Nat
    BY TablesAssumption DEF Cells
  <2>6. \A c \in Cells : c[2] >= commit_ts' + 1 => View(state)'[c] = NoEntry
    <3>1. \A c \in Cells : c[2] >= commit_ts' + 1 => c[2] > commit_ts + 1
      BY <1>0, <2>2, <2>5
    <3> QED BY <1>3, <2>3, <3>1
  <2>7. commit_ts' \in Nat
    BY <1>0, <2>2
  <2>8. /\ \A c \in Cells : c[2] > commit_ts' + 1 => View(state)'[c] = NoEntry
        /\ \A c \in Cells : c[2] = commit_ts' + 1 => View(state)'[c] = NoEntry
    BY <2>5, <2>6, <2>7
  <2> QED BY <2>4, <2>8 DEF BatchesInView
<1>7. CASE \A w \in Writers : ~ (WriteBegin(w) \/ PutRecord(w) \/ Commit(w))
  <2>1. /\ faults' = faults /\ commit_ts' = commit_ts
        /\ batch' = batch /\ inserted' = inserted
        /\ \A w \in Writers : /\ InWrite(w)' <=> InWrite(w)
                              /\ pc'[w] = "put" <=> pc[w] = "put"
    BY <1>7, WritesFrame
  <2>2. View(state)' = View(state)
    BY <1>7, StepView
  <2>3. Beyond' /\ Free'
    BY <1>3, <2>1, <2>2
  <2>4. ASSUME NEW w \in Writers PROVE Held(w)'
    BY <1>3, <2>1, <2>2
  <2> HIDE DEF Beyond, Free, Held
  <2>5. Beyond' /\ Free' /\ \A w \in Writers : Held(w)'
    BY <2>3, <2>4
  <2> QED BY <2>5 DEF BatchesInView, Beyond, Free, Held
<1> QED BY <1>4, <1>5, <1>6, <1>7

LEMMA BatchesInViewHolds == Spec => []BatchesInView
<1>1. Init => BatchesInView
  <2> SUFFICES ASSUME Init PROVE BatchesInView
    OBVIOUS
  <2>1. View(state) = EmptyTable
    BY InitImplements DEF KV!Init, KV!EmptyTable, KV!Cells, Cells, EmptyTable
  <2>2. \A w \in Writers : ~ InWrite(w)
    BY DEF Init, InWrite, FreezeLabels, Threads
  <2> QED BY <2>1, <2>2 DEF BatchesInView, EmptyTable
<1>2. IInv /\ IInv' /\ TiersAlone /\ BatchesInView /\ [Next]_vars => BatchesInView'
  <2>1. CASE faults' = 0
    BY <2>1, BatchesInViewStep
  <2>2. CASE faults' # 0
    BY <2>2 DEF BatchesInView
  <2> QED BY <2>1, <2>2
<1> QED BY <1>1, <1>2, InvariantHolds, TiersAloneHolds, PTL DEF Spec

(* When write_batch is about to publish its timestamp, that timestamp holds*)
(* exactly the batch, the last record of a key winning, and no part of any *)
(* other: the freezes and flushes of other threads in the middle of        *)
(* put_batch lose and reorder none of its records.                         *)
THEOREM BatchesAreWhole == Spec => []BatchIsWhole
<1>1. IInv /\ BatchesInView => BatchIsWhole
  <2> SUFFICES ASSUME IInv, BatchesInView, NEW w \in Writers, pc[w] = "commit", faults = 0,
                      NEW k \in Keys
               PROVE  View(state)[<<k, write_ts[w]>>] = LastValue(batch[w], k)
    BY DEF BatchIsWhole
  <2>1. InWrite(w) /\ write_ts[w] = commit_ts + 1
    BY DEF IInv, InWrite, WriteInProgress
  <2>2. View(state)[<<k, write_ts[w]>>] = LastAmong(batch[w], Len(batch[w]), k)
    BY <2>1 DEF BatchesInView
  <2>3. DOMAIN batch[w] = 1 .. Len(batch[w])
    BY DEF IInv, TypeOK
  <2> QED BY <2>2, <2>3 DEF LastAmong, LastValue
<1> QED BY <1>1, InvariantHolds, BatchesInViewHolds, PTL

-------------------------------------------------------------------------------
(* Which layer a cell of the view comes from                               *)

(* The memtables and the SSTs of the state.                                *)
LayerIds == {state.memtable} \cup IdsOf(state.imm_memtables) \cup state.sstables

(* Every SST is in L0 or in a level.                                       *)
SstsListed ==
    \A id \in state.sstables :
        \/ id \in IdsOf(state.l0_sstables)
        \/ \E i \in DOMAIN state.levels : id \in IdsOf(state.levels[i][2])

(* What the view holds is in a memtable of the state or was, when the SST  *)
(* was built; and no layer is left out.                                    *)
LEMMA ViewHolder ==
    IInv => \A c \in Cells :
        /\ View(state)[c] # NoEntry =>
                \E id \in LayerIds : memtables[id][c] = View(state)[c]
        /\ SstsListed => \A id \in LayerIds :
                memtables[id][c] # NoEntry => View(state)[c] # NoEntry
<1> SUFFICES ASSUME IInv, NEW c \in Cells
             PROVE  /\ View(state)[c] # NoEntry =>
                            \E id \in LayerIds : memtables[id][c] = View(state)[c]
                    /\ SstsListed => \A id \in LayerIds :
                            memtables[id][c] # NoEntry => View(state)[c] # NoEntry
  OBVIOUS
<1> DEFINE Top == MemtableLayers(state)
           Mid == L0Layers(state)
           Run(i) == [j \in DOMAIN state.levels[i][2] |-> sst_tables[state.levels[i][2][j]]]
           Low == LevelLayers(state)
<1>0. /\ state.memtable \in Nat /\ state.imm_memtables \in Seq(Nat)
      /\ state.l0_sstables \in Seq(Nat) /\ state.levels \in Seq(Nat \X Seq(Nat))
      /\ \A i \in DOMAIN state.l0_sstables : state.l0_sstables[i] \in state.sstables
      /\ \A i \in DOMAIN state.levels : \A j \in DOMAIN state.levels[i][2] :
            state.levels[i][2][j] \in state.sstables
      /\ \A id \in state.sstables : sst_tables[id] = memtables[id]
  BY DEF IInv, TypeOK, States, IdsInState, IdsNamed, FlushedContentIsFinal
<1>1. /\ DOMAIN Top = 1 .. Len(state.imm_memtables) + 1
      /\ DOMAIN state.imm_memtables = 1 .. Len(state.imm_memtables)
      /\ Len(state.imm_memtables) \in Nat
      /\ Top[1] = memtables[state.memtable]
      /\ \A i \in DOMAIN Top : i # 1 =>
            i - 1 \in DOMAIN state.imm_memtables /\ Top[i] = memtables[state.imm_memtables[i - 1]]
      /\ \A i \in DOMAIN state.imm_memtables :
            i + 1 \in DOMAIN Top /\ Top[i + 1] = memtables[state.imm_memtables[i]]
  BY <1>0 DEF MemtableLayers
<1>2. /\ DOMAIN Mid = DOMAIN state.l0_sstables
      /\ \A i \in DOMAIN state.l0_sstables : Mid[i] = memtables[state.l0_sstables[i]]
  BY <1>0 DEF L0Layers
<1>3. /\ DOMAIN Low = DOMAIN state.levels
      /\ \A i \in DOMAIN state.levels :
            /\ Low[i] = MergeIterator(Run(i))
            /\ DOMAIN Run(i) = DOMAIN state.levels[i][2]
            /\ \A j \in DOMAIN state.levels[i][2] : Run(i)[j] = memtables[state.levels[i][2][j]]
  BY <1>0 DEF LevelLayers, SstConcatIterator
<1>4. /\ DOMAIN Top \subseteq Nat /\ DOMAIN Mid \subseteq Nat /\ DOMAIN Low \subseteq Nat
      /\ \A i \in DOMAIN state.levels : DOMAIN Run(i) \subseteq Nat
  <2>1. DOMAIN Top \subseteq Nat
    BY <1>1
  <2>2. DOMAIN Mid \subseteq Nat /\ DOMAIN Low \subseteq Nat
    BY <1>0, <1>2, <1>3
  <2>3. ASSUME NEW i \in DOMAIN state.levels
        PROVE  DOMAIN Run(i) \subseteq Nat
    <3>1. state.levels[i][2] \in Seq(Nat)
      BY <1>0
    <3>2. DOMAIN state.levels[i][2] \subseteq Nat
      BY <3>1
    <3> QED BY <1>3, <3>2
  <2> QED BY <2>1, <2>2, <2>3
<1>5. View(state)[c] = IF MergeIterator(Top)[c] # NoEntry THEN MergeIterator(Top)[c]
                       ELSE IF MergeIterator(Mid)[c] # NoEntry THEN MergeIterator(Mid)[c]
                       ELSE MergeIterator(Low)[c]
  BY DEF View, TwoMergeIterator
<1>6. 1 \in DOMAIN Top
  BY <1>1
<1> HIDE DEF Top, Mid, Run, Low
<1>7. MergeIterator(Top)[c] # NoEntry =>
        \E id \in LayerIds : memtables[id][c] = MergeIterator(Top)[c]
  <2> SUFFICES ASSUME MergeIterator(Top)[c] # NoEntry
               PROVE  \E id \in LayerIds : memtables[id][c] = MergeIterator(Top)[c]
    OBVIOUS
  <2>1. PICK i \in DOMAIN Top : Top[i][c] = MergeIterator(Top)[c]
    BY <1>4, MergeHolder
  <2>2. CASE i = 1
    BY <1>1, <2>1, <2>2 DEF LayerIds
  <2>3. CASE i # 1
    BY <1>1, <2>1, <2>3 DEF LayerIds, IdsOf
  <2> QED BY <2>2, <2>3
<1>8. MergeIterator(Mid)[c] # NoEntry =>
        \E id \in LayerIds : memtables[id][c] = MergeIterator(Mid)[c]
  <2> SUFFICES ASSUME MergeIterator(Mid)[c] # NoEntry
               PROVE  \E id \in LayerIds : memtables[id][c] = MergeIterator(Mid)[c]
    OBVIOUS
  <2>1. PICK i \in DOMAIN Mid : Mid[i][c] = MergeIterator(Mid)[c]
    BY <1>4, MergeHolder
  <2>2. PICK id \in state.sstables : id = state.l0_sstables[i]
    BY <1>0, <1>2, <2>1
  <2>3. id \in LayerIds /\ memtables[id][c] = MergeIterator(Mid)[c]
    BY <1>2, <2>1, <2>2 DEF LayerIds
  <2> QED BY <2>3
<1>9. MergeIterator(Low)[c] # NoEntry =>
        \E id \in LayerIds : memtables[id][c] = MergeIterator(Low)[c]
  <2> SUFFICES ASSUME MergeIterator(Low)[c] # NoEntry
               PROVE  \E id \in LayerIds : memtables[id][c] = MergeIterator(Low)[c]
    OBVIOUS
  <2>1. PICK i \in DOMAIN Low : Low[i][c] = MergeIterator(Low)[c]
    BY <1>4, MergeHolder
  <2>2. PICK j \in DOMAIN Run(i) : Run(i)[j][c] = MergeIterator(Run(i))[c]
    BY <1>3, <1>4, <2>1, MergeHolder
  <2>3. PICK id \in state.sstables : id = state.levels[i][2][j]
    BY <1>0, <1>3, <2>1, <2>2
  <2>4. memtables[id][c] = MergeIterator(Low)[c]
    BY <1>3, <2>1, <2>2, <2>3
  <2>5. id \in LayerIds
    BY <2>3 DEF LayerIds
  <2> QED BY <2>4, <2>5
<1>10. ASSUME SstsListed, NEW id \in LayerIds, memtables[id][c] # NoEntry
       PROVE  View(state)[c] # NoEntry
  <2>1. CASE id = state.memtable
    <3>1. MergeIterator(Top)[c] # NoEntry
      BY <1>1, <1>4, <1>6, <1>10, <2>1, MergeHolder
    <3> QED BY <1>5, <3>1
  <2>2. CASE id \in IdsOf(state.imm_memtables)
    <3>1. PICK i \in DOMAIN state.imm_memtables : state.imm_memtables[i] = id
      BY <2>2 DEF IdsOf
    <3>2. i + 1 \in DOMAIN Top /\ Top[i + 1][c] # NoEntry
      BY <1>1, <1>10, <3>1
    <3>3. MergeIterator(Top)[c] # NoEntry
      BY <1>4, <3>2, MergeHolder
    <3> QED BY <1>5, <3>3
  <2>3. CASE id \in IdsOf(state.l0_sstables)
    <3>1. PICK i \in DOMAIN state.l0_sstables : state.l0_sstables[i] = id
      BY <2>3 DEF IdsOf
    <3>2. MergeIterator(Mid)[c] # NoEntry
      BY <1>2, <1>4, <1>10, <3>1, MergeHolder
    <3> QED BY <1>5, <3>2
  <2>4. ASSUME NEW i \in DOMAIN state.levels, id \in IdsOf(state.levels[i][2])
        PROVE  View(state)[c] # NoEntry
    <3>1. PICK j \in DOMAIN state.levels[i][2] : state.levels[i][2][j] = id
      BY <2>4 DEF IdsOf
    <3>2. MergeIterator(Run(i))[c] # NoEntry
      BY <1>3, <1>4, <1>10, <3>1, MergeHolder
    <3>3. MergeIterator(Low)[c] # NoEntry
      BY <1>3, <1>4, <3>2, MergeHolder
    <3> QED BY <1>5, <3>3
  <2> QED BY <1>10, <2>1, <2>2, <2>3, <2>4 DEF LayerIds, SstsListed
<1> QED BY <1>5, <1>7, <1>8, <1>9, <1>10

LEMMA ViewHolderNext ==
    (IInv => \A c \in Cells :
        /\ View(state)[c] # NoEntry =>
                \E id \in LayerIds : memtables[id][c] = View(state)[c]
        /\ SstsListed => \A id \in LayerIds :
                memtables[id][c] # NoEntry => View(state)[c] # NoEntry)'
BY ViewHolder, PTL
===============================================================================
