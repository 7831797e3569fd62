----------------------------- MODULE LsmCloseProofs -----------------------------
(***************************************************************************)
(* What MiniLsm::close guarantees, for any number of threads beside it,    *)
(* any limits and any number of I/O failures.                              *)
(***************************************************************************)
EXTENDS LsmClose, LsmReadProofs

-------------------------------------------------------------------------------
(* The inductive invariant                                                 *)

(* Only FreezeFails and FreezeSwap end a freeze, and under the guard close *)
(* holds nobody swaps: once its thread is at no freeze, the memtable it    *)
(* found was empty, and what came since is newer than the call.            *)
MemtableIsNewer ==
    CloseGuardHeld /\ pc[Closer] \notin FreezeLabels =>
        \A c \in Cells : c[2] <= close_ts => memtables[state.memtable][c] = NoEntry

CloseOrder ==
    /\ CloseGuardHeld => close_snapshot = state
    /\ close_pc # "open" => close_ts <= commit_ts
    /\ ~ CloseGuardHeld => pc[Closer] = "idle"
    /\ flush_stopped => pc[FlushThread] = "idle"
    /\ close_pc \in {"guarded", "closed", "failed"} =>
        flush_stopped \/ pc[FlushThread] = "panicked"

CloseInv ==
    /\ IInv
    /\ CloseTypeOK
    /\ CloseOrder
    /\ MemtableIsNewer

-------------------------------------------------------------------------------
(* Steps of the engine while close runs                                    *)

(* The closing thread freezes, flushes and fails like any forcer.          *)
LEMMA CloserRole ==
    /\ Closer \in Forcers /\ Closer \in Freezers /\ Closer \in Threads
    /\ Closer \notin Writers /\ Closer \notin Readers /\ Closer # FlushThread
    /\ FlushThread \in Threads /\ FlushThread \notin Freezers
    /\ FlushThread \notin Readers /\ FlushThread \notin Writers
BY CloserAssumption, StorageAssumption DEF Threads, Freezers, Flushers

(* A thread that panicked stays so.                                        *)
LEMMA PanicLasts ==
    ASSUME IInv, [Next]_vars, pc[FlushThread] = "panicked"
    PROVE  pc'[FlushThread] = "panicked"
<1> DEFINE ft == FlushThread
<1>0. pc \in [Threads -> PcLabels]
  BY DEF IInv, TypeOK
<1> USE CloserRole DEF Goto
<1>1. ASSUME NEW w \in Writers, WriterStep(w) PROVE pc'[ft] = pc[ft]
  BY <1>0, <1>1 DEF WriterStep, WriteBegin, PutRecord, TryFreeze, Commit
<1>2. ASSUME NEW t \in Freezers, FreezeStep(t) PROVE pc'[ft] = pc[ft]
  BY <1>0, <1>2 DEF FreezeStep, FreezeLock, FreezeCopy, FreezeRecord, FreezeFails, FreezeSwap
<1>3. ASSUME NEW f \in Forcers, ForceFlush(f) \/ ForceFlushCheck(f) PROVE pc'[ft] = pc[ft]
  BY <1>0, <1>3, StorageAssumption DEF ForceFlush, ForceFlushCheck
<1>4. ~ TriggerFlush
  BY DEF TriggerFlush
<1>5. ASSUME NEW t \in Flushers, FlushStep(t) PROVE pc'[ft] = pc[ft]
  BY <1>0, <1>5 DEF FlushStep, FlushPick, FlushBuild, FlushFails, FlushLock, FlushInstall,
                    FlushPanics
<1>6. ASSUME NEW r \in Readers, ReaderStep(r) PROVE pc'[ft] = pc[ft]
  BY <1>0, <1>6 DEF ReaderStep, NewTxn, ReadSnapshot, ReadEnd
<1>7. UNCHANGED vars => pc'[ft] = pc[ft]
  BY DEF vars
<1> QED BY <1>1, <1>2, <1>3, <1>4, <1>5, <1>6, <1>7 DEF Next

(* A freeze of the closing thread ends by replacing the state or by an     *)
(* error.                                                                  *)
LEMMA FreezeEnds ==
    ASSUME IInv, [Next]_vars, pc[Closer] \in FreezeLabels, pc'[Closer] \notin FreezeLabels
    PROVE  \/ FreezeSwap(Closer)
           \/ pc'[Closer] = "idle" /\ faults' # faults
<1> DEFINE Goal == \/ FreezeSwap(Closer)
                   \/ pc'[Closer] = "idle" /\ faults' # faults
           Same == pc'[Closer] = pc[Closer]
<1>0. pc \in [Threads -> PcLabels] /\ faults \in Nat
  BY StorageAssumption DEF IInv, TypeOK
<1>a. ~ Same
  OBVIOUS
<1> USE CloserRole DEF Goto, FreezeLabels
<1>1. ASSUME NEW w \in Writers, WriterStep(w) PROVE Same
  BY <1>0, <1>1 DEF WriterStep, WriteBegin, PutRecord, TryFreeze, Commit
<1>2. ASSUME NEW t \in Freezers, FreezeStep(t) PROVE Same \/ Goal
  <2>1. CASE t = Closer
    BY <1>0, <1>2, <2>1
       DEF FreezeStep, FreezeLock, FreezeCopy, FreezeRecord, FreezeFails, Fault
  <2>2. CASE t # Closer
    BY <1>0, <1>2, <2>2
       DEF FreezeStep, FreezeLock, FreezeCopy, FreezeRecord, FreezeFails, FreezeSwap
  <2> QED BY <2>1, <2>2
<1>3. ASSUME NEW f \in Forcers, ForceFlush(f) \/ ForceFlushCheck(f) PROVE Same
  BY <1>0, <1>3 DEF ForceFlush, ForceFlushCheck
<1>4. TriggerFlush => Same
  BY <1>0 DEF TriggerFlush
<1>5. ASSUME NEW t \in Flushers, FlushStep(t) PROVE Same
  BY <1>0, <1>5 DEF FlushStep, FlushPick, FlushBuild, FlushFails, FlushLock, FlushInstall,
                    FlushPanics
<1>6. ASSUME NEW r \in Readers, ReaderStep(r) PROVE Same
  BY <1>0, <1>6 DEF ReaderStep, NewTxn, ReadSnapshot, ReadEnd
<1>7. UNCHANGED vars => Same
  BY DEF vars
<1> HIDE DEF Same, Goal
<1>8. Goal
  BY <1>a, <1>1, <1>2, <1>3, <1>4, <1>5, <1>6, <1>7 DEF Next
<1> QED BY <1>8 DEF Goal

(* Under the guard no step replaces the state, so no freeze is completed.  *)
LEMMA NoSwap ==
    ASSUME IInv, state' = state, NEW t \in Freezers
    PROVE  ~ FreezeSwap(t)
<1> SUFFICES ASSUME FreezeSwap(t) PROVE FALSE
  OBVIOUS
<1>1. PICK id \in Ids : state' = Frozen(state, id) /\ id # state.memtable
  BY FreezeSwapState
<1>2. state \in States /\ id \in Nat
  BY DEF IInv, TypeOK, Ids
<1>3. Frozen(state, id).memtable = id
  BY <1>2, FrozenType
<1> QED BY <1>1, <1>3

LEMMA CloseTypeParts ==
    CloseTypeOK <=>
        /\ TypeOK
        /\ close_pc \in {"open", "join", "guarded", "closed", "failed"}
        /\ close_snapshot \in States \cup {Nil}
        /\ CloseGuardHeld <=> close_snapshot # Nil
        /\ notified \in BOOLEAN
        /\ flush_stopped \in BOOLEAN
        /\ close_ts \in 0 .. MaxTs
BY DEF CloseTypeOK

LEMMA EngineStepInv ==
    ASSUME CloseInv, EngineStep
    PROVE  CloseInv'
<1>0. /\ IInv /\ CloseOrder /\ MemtableIsNewer /\ Next
      /\ close_pc \in {"open", "join", "guarded", "closed", "failed"}
      /\ close_snapshot \in States \cup {Nil}
      /\ CloseGuardHeld <=> close_snapshot # Nil
      /\ notified \in BOOLEAN /\ flush_stopped \in BOOLEAN
      /\ close_ts \in 0 .. MaxTs
  BY DEF CloseInv, CloseTypeOK, EngineStep, During
<1>1. IInv' /\ TypeOK'
  <2>1. IInv'
    BY <1>0, StepInv
  <2> QED BY <2>1 DEF IInv
<1>2. /\ CloseGuardHeld => state' = state
      /\ flush_stopped => pc'[FlushThread] = pc[FlushThread]
      /\ \/ /\ CloserFails /\ close_pc' = "failed" /\ close_snapshot' = Nil
         \/ /\ ~ CloserFails /\ close_pc' = close_pc /\ close_snapshot' = close_snapshot
      /\ notified' = notified /\ flush_stopped' = flush_stopped /\ close_ts' = close_ts
      /\ pc[Closer] = "idle" => pc'[Closer] = "idle"
  BY DEF EngineStep, During
<1>3. /\ Ids \subseteq Ids' /\ commit_ts <= commit_ts' /\ state.memtable \in Ids
      /\ commit_ts \in Nat /\ commit_ts' \in Nat /\ close_ts \in Nat
      /\ \A id \in Ids, c \in Cells : c[2] <= commit_ts => memtables'[id][c] = memtables[id][c]
  <2>1. commit_ts \in 0 .. MaxTs /\ commit_ts' \in 0 .. MaxTs /\ MaxTs \in Nat
    BY <1>0, <1>1, TablesAssumption DEF IInv, TypeOK
  <2>2. state.memtable \in Ids
    BY <1>0 DEF IInv, IdsInState, IdsNamed
  <2> QED BY <1>0, <1>1, <2>1, <2>2, CommittedContentStays
(* An error of the closing thread leaves it idle, and close was under way. *)
<1>4. CloserFails => CloseGuardHeld /\ pc'[Closer] = "idle"
  BY <1>0 DEF CloserFails, CloseOrder
<1>5. CloseTypeOK'
  BY <1>0, <1>1, <1>2 DEF CloseTypeOK, CloseGuardHeld
<1>6. CloseOrder'
  <2>1. (CloseGuardHeld => close_snapshot = state)'
    BY <1>0, <1>2 DEF CloseOrder, CloseGuardHeld
  <2>2. (close_pc # "open" => close_ts <= commit_ts)'
    BY <1>0, <1>2, <1>3, <1>4 DEF CloseOrder, CloseGuardHeld
  <2>3. (~ CloseGuardHeld => pc[Closer] = "idle")'
    BY <1>0, <1>2, <1>4 DEF CloseOrder, CloseGuardHeld
  <2>4. (flush_stopped => pc[FlushThread] = "idle")'
    BY <1>0, <1>2 DEF CloseOrder
  <2>5. (close_pc \in {"guarded", "closed", "failed"} =>
            flush_stopped \/ pc[FlushThread] = "panicked")'
    BY <1>0, <1>2, <1>4, PanicLasts DEF CloseOrder, CloseGuardHeld
  <2> QED BY <2>1, <2>2, <2>3, <2>4, <2>5 DEF CloseOrder
<1>7. MemtableIsNewer'
  <2> SUFFICES ASSUME CloseGuardHeld', pc'[Closer] \notin FreezeLabels,
                      NEW c \in Cells, c[2] <= close_ts'
               PROVE  memtables'[state'.memtable][c] = NoEntry
    BY DEF MemtableIsNewer
  <2>1. CloseGuardHeld /\ state' = state /\ ~ CloserFails
    BY <1>2 DEF CloseGuardHeld
  <2>2. pc[Closer] \notin FreezeLabels
    <3> SUFFICES ASSUME pc[Closer] \in FreezeLabels PROVE FALSE
      OBVIOUS
    <3>1. \/ FreezeSwap(Closer)
          \/ pc'[Closer] = "idle" /\ faults' # faults
      BY <1>0, FreezeEnds
    <3>2. ~ FreezeSwap(Closer)
      BY <1>0, <2>1, CloserRole, NoSwap
    <3> QED BY <2>1, <3>1, <3>2 DEF CloserFails, FreezeLabels
  <2>3. memtables[state.memtable][c] = NoEntry
    BY <1>0, <1>2, <2>1, <2>2 DEF MemtableIsNewer
  <2>4. c[2] <= commit_ts
    <3>1. close_ts <= commit_ts /\ c[2] <= close_ts
      BY <1>0, <1>2, <2>1 DEF CloseOrder, CloseGuardHeld
    <3>2. c[2] \in Nat
      BY TablesAssumption DEF Cells
    <3> QED BY <1>3, <3>1, <3>2
  <2> QED BY <1>3, <2>1, <2>3, <2>4
<1> QED BY <1>1, <1>5, <1>6, <1>7 DEF CloseInv

-------------------------------------------------------------------------------
(* Steps of close itself                                                   *)

(* close sends itself to force_flush_next_imm_memtable.                    *)
LEMMA CloseFlushEngineInv ==
    ASSUME CloseInv, CloseFlush
    PROVE  IInv'
<1> USE StorageAssumption, CloserRole
        DEF CloseFlush, Goto, engine, mvcc, freeze, reading, Threads, Flushers, Freezers
<1>0. TypeOK /\ PcByRole /\ LocksHeld /\ WriteInProgress /\ IdsInState /\
      CopyIsCurrent /\ FlushingIsFrozen /\ FlushedContentIsFinal
  BY DEF CloseInv, IInv
<1>1. TypeOK'
  BY <1>0 DEF TypeOK, Ids, PcLabels
<1>2. PcByRole'
  BY <1>0 DEF TypeOK, Ids, PcLabels, PcByRole, FreezeLabels, FlushLabels
<1>3. LocksHeld'
  BY <1>0 DEF TypeOK, Ids, PcLabels, LocksHeld, InStateLock, InWrite, FreezeLabels
<1>4. WriteInProgress'
  BY <1>0 DEF TypeOK, Ids, PcLabels, WriteInProgress, InWrite, FreezeLabels
<1>5. IdsInState'
  BY <1>0 DEF TypeOK, Ids, PcLabels, IdsInState, IdsNamed
<1>6. CopyIsCurrent'
  BY <1>0 DEF TypeOK, Ids, PcLabels, CopyIsCurrent, Preparing
<1>7. FlushingIsFrozen'
  BY <1>0 DEF TypeOK, Ids, PcLabels, FlushingIsFrozen
<1>8. FlushedContentIsFinal'
  BY <1>0 DEF TypeOK, Ids, PcLabels, FlushedContentIsFinal
<1> QED BY <1>1, <1>2, <1>3, <1>4, <1>5, <1>6, <1>7, <1>8 DEF IInv

(* Taking the guard is a call of force_flush, or nothing the engine sees.  *)
LEMMA CloseGuardEngine ==
    ASSUME CloseInv, CloseGuard
    PROVE  [Next]_vars
<1>1. pc \in [Threads -> PcLabels] /\ pc[Closer] = "idle"
  BY DEF CloseInv, CloseOrder, CloseGuard, CloseGuardHeld, IInv, TypeOK
<1>2. CASE memtables[state.memtable] # EmptyTable
  <2>1. ForceFlush(Closer)
    BY <1>1, <1>2 DEF CloseGuard, Guard, ForceFlush, Goto
  <2> QED BY <2>1, CloserRole DEF Next
<1>3. CASE memtables[state.memtable] = EmptyTable
  BY <1>1, <1>3 DEF CloseGuard, Guard, Goto, vars
<1> QED BY <1>2, <1>3

LEMMA CloseStepInv ==
    ASSUME CloseInv, [CloseNext]_closeVars
    PROVE  CloseInv'
<1>0. /\ IInv /\ TypeOK /\ CloseOrder /\ MemtableIsNewer
      /\ close_pc \in {"open", "join", "guarded", "closed", "failed"}
      /\ close_snapshot \in States \cup {Nil}
      /\ CloseGuardHeld <=> close_snapshot # Nil
      /\ notified \in BOOLEAN /\ flush_stopped \in BOOLEAN
      /\ close_ts \in 0 .. MaxTs
      /\ pc \in [Threads -> PcLabels] /\ state \in States /\ commit_ts \in 0 .. MaxTs
      /\ state # Nil
  BY CloserAssumption DEF CloseInv, CloseTypeOK, TypeOK
<1>1. CASE EngineStep
  BY <1>1, EngineStepInv
<1>2. ASSUME UNCHANGED vars
      PROVE  IInv' /\ TypeOK'
  <2>1. IInv'
    BY <1>0, <1>2, StutterInv
  <2> QED BY <2>1 DEF IInv
<1>3. CASE CloseNotify
  <2>1. IInv' /\ TypeOK'
    BY <1>2, <1>3 DEF CloseNotify
  <2> USE DEF CloseNotify, CloseGuardHeld, vars, engine, mvcc
  <2>2. CloseTypeOK'
    BY <1>0, <1>3, <2>1 DEF CloseTypeOK
  <2>3. CloseOrder' /\ MemtableIsNewer'
    BY <1>0, <1>3 DEF CloseOrder, MemtableIsNewer
  <2> QED BY <2>1, <2>2, <2>3 DEF CloseInv
<1>4. CASE FlushThreadReturns
  <2>1. IInv' /\ TypeOK'
    BY <1>2, <1>4 DEF FlushThreadReturns
  <2> USE DEF FlushThreadReturns, CloseGuardHeld, vars, engine, mvcc
  <2>2. CloseTypeOK'
    BY <1>0, <1>4, <2>1 DEF CloseTypeOK
  <2>3. CloseOrder' /\ MemtableIsNewer'
    BY <1>0, <1>4 DEF CloseOrder, MemtableIsNewer
  <2> QED BY <2>1, <2>2, <2>3 DEF CloseInv
<1>5. CASE CloseGuard
  <2>1. IInv' /\ TypeOK'
    <3>1. IInv'
      BY <1>0, <1>5, CloseGuardEngine, StepInv
    <3> QED BY <3>1 DEF IInv
  <2>2. /\ state' = state /\ memtables' = memtables /\ commit_ts' = commit_ts
        /\ close_pc = "join" /\ close_pc' = "guarded" /\ close_snapshot' = state
        /\ notified' = notified /\ flush_stopped' = flush_stopped /\ close_ts' = close_ts
        /\ pc' = [pc EXCEPT ![Closer] = IF memtables[state.memtable] # EmptyTable
                                        THEN "freeze_lock" ELSE "idle"]
        /\ flush_stopped \/ pc[FlushThread] = "panicked"
    BY <1>5 DEF CloseGuard, Guard, Goto, engine, mvcc
  <2>3. CloseTypeOK'
    BY <1>0, <2>1, <2>2 DEF CloseTypeOK, CloseGuardHeld
  <2>4. CloseOrder'
    BY <1>0, <2>2, CloserRole DEF CloseOrder, CloseGuardHeld
  <2>5. MemtableIsNewer'
    <3>1. CASE memtables[state.memtable] # EmptyTable
      BY <1>0, <2>2, <3>1, CloserRole DEF MemtableIsNewer, FreezeLabels
    <3>2. CASE memtables[state.memtable] = EmptyTable
      BY <2>2, <3>2 DEF MemtableIsNewer, EmptyTable
    <3> QED BY <3>1, <3>2
  <2> QED BY <2>1, <2>3, <2>4, <2>5 DEF CloseInv
<1>6. CASE CloseReturn
  <2>1. IInv' /\ TypeOK'
    BY <1>2, <1>6 DEF CloseReturn
  <2> USE DEF CloseReturn, CloseGuardHeld, vars, engine, mvcc
  <2>2. CloseTypeOK'
    BY <1>0, <1>6, <2>1 DEF CloseTypeOK
  <2>3. CloseOrder' /\ MemtableIsNewer'
    BY <1>0, <1>6 DEF CloseOrder, MemtableIsNewer
  <2> QED BY <2>1, <2>2, <2>3 DEF CloseInv
<1>7. CASE CloseFlush
  <2>1. IInv' /\ TypeOK'
    <3>1. IInv'
      BY <1>7, CloseFlushEngineInv
    <3> QED BY <3>1 DEF IInv
  <2>2. /\ state' = state /\ memtables' = memtables /\ commit_ts' = commit_ts
        /\ UNCHANGED closing
        /\ CloseGuardHeld /\ pc[Closer] = "idle"
        /\ pc' = [pc EXCEPT ![Closer] = "flush_pick"]
    BY <1>7 DEF CloseFlush, Goto, engine, mvcc
  <2>3. CloseTypeOK'
    BY <1>0, <2>1, <2>2 DEF CloseTypeOK, CloseGuardHeld, closing
  <2>4. CloseOrder'
    BY <1>0, <2>2, CloserRole DEF CloseOrder, CloseGuardHeld, closing
  <2>5. MemtableIsNewer'
    BY <1>0, <2>2 DEF MemtableIsNewer, CloseGuardHeld, closing, FreezeLabels
  <2> QED BY <2>1, <2>3, <2>4, <2>5 DEF CloseInv
<1>8. CASE UNCHANGED closeVars
  <2>1. IInv' /\ TypeOK'
    BY <1>2, <1>8 DEF closeVars
  <2> USE DEF closeVars, closing, CloseGuardHeld, vars, engine, mvcc
  <2>2. CloseTypeOK'
    BY <1>0, <1>8, <2>1 DEF CloseTypeOK
  <2>3. CloseOrder' /\ MemtableIsNewer'
    BY <1>0, <1>8 DEF CloseOrder, MemtableIsNewer
  <2> QED BY <2>1, <2>2, <2>3 DEF CloseInv
<1> QED BY <1>1, <1>3, <1>4, <1>5, <1>6, <1>7, <1>8 DEF CloseNext

LEMMA CloseInitInv ==
    ASSUME CloseInit
    PROVE  CloseInv
<1>1. IInv /\ TypeOK
  BY InitInv DEF CloseInit, IInv
<1>2. pc[Closer] = "idle" /\ pc[FlushThread] = "idle"
  BY CloserRole DEF CloseInit, Init
<1>3. CloseTypeOK
  <2>1. /\ close_pc = "open" /\ close_snapshot = Nil /\ notified = FALSE
        /\ flush_stopped = FALSE /\ close_ts = 0
    BY DEF CloseInit
  <2>2. close_ts \in 0 .. MaxTs
    BY <2>1, TablesAssumption
  <2> QED BY <1>1, <2>1, <2>2 DEF CloseTypeOK, CloseGuardHeld
<1>4. CloseOrder /\ MemtableIsNewer
  BY <1>2 DEF CloseInit, CloseOrder, MemtableIsNewer, CloseGuardHeld
<1> QED BY <1>1, <1>3, <1>4 DEF CloseInv

-------------------------------------------------------------------------------
(* The theorems                                                            *)

LEMMA CloseInvHolds == CloseSpec => []CloseInv
<1>1. CloseInit => CloseInv
  BY CloseInitInv
<1>2. CloseInv /\ [CloseNext]_closeVars => CloseInv'
  BY CloseStepInv
<1> QED BY <1>1, <1>2, PTL DEF CloseSpec

(* The variables of close keep their types, whatever the engine does beside*)
(* it; it holds a snapshot exactly while it holds its read guard.          *)
THEOREM CloseTypeCorrect == CloseSpec => []CloseTypeOK
<1>1. CloseInv => CloseTypeOK
  BY DEF CloseInv
<1> QED BY <1>1, CloseInvHolds, PTL

(* When close returns Ok, every version acknowledged before it was called  *)
(* is read from the SSTs alone: the memtable was empty when close took its *)
(* guard, or its freeze failed and so did close.                           *)
LEMMA ReturnsFlushed ==
    ASSUME CloseInv, CloseReturn, NEW c \in Cells, c[2] <= close_ts
    PROVE  InSsts(state)[c] = View(state)[c]
<1>1. /\ CloseGuardHeld /\ pc[Closer] = "idle"
      /\ close_snapshot = state /\ state.imm_memtables = <<>>
  BY DEF CloseInv, CloseOrder, CloseReturn
<1>2. memtables[state.memtable][c] = NoEntry
  BY <1>1 DEF CloseInv, MemtableIsNewer, FreezeLabels
<1>3. Imm(state) = EmptyTable
  <2>1. DOMAIN ImmLayers(state) = {}
    BY <1>1 DEF ImmLayers
  <2> QED BY <2>1, MergeEmpty DEF Imm
<1>4. TypeOK /\ IdsInState
  BY DEF CloseInv, IInv
<1>5. /\ View(state) = Stacked(memtables[state.memtable], EmptyTable, L0(state), Levels(state))
      /\ memtables[state.memtable] \in Tables /\ L0(state) \in Tables
      /\ Levels(state) \in Tables
  BY <1>3, <1>4, ViewIsStacked, LayerTypes
<1>6. InSsts(state) = TwoMergeIterator(L0(state), Levels(state))
  BY DEF InSsts, L0, Levels
<1> QED BY <1>2, <1>5, <1>6 DEF Stacked, TwoMergeIterator, EmptyTable

THEOREM CloseFlushes == CloseSpec => CloseFlushesAll
<1>1. CloseInv /\ [CloseNext]_closeVars =>
        [close_pc # "closed" /\ close_pc' = "closed" =>
            \A c \in Cells : c[2] <= close_ts => InSsts(state)[c] = View(state)[c]]_closeVars
  <2> SUFFICES ASSUME CloseInv, [CloseNext]_closeVars, close_pc # "closed", close_pc' = "closed",
                      NEW c \in Cells, c[2] <= close_ts
               PROVE  InSsts(state)[c] = View(state)[c]
    OBVIOUS
  <2>1. CloseReturn
    BY DEF CloseNext, EngineStep, During, CloseNotify, FlushThreadReturns, CloseGuard, Guard,
           CloseFlush, closing, closeVars
  <2> QED BY <2>1, ReturnsFlushed
<1> QED BY <1>1, CloseInvHolds, PTL DEF CloseSpec, CloseFlushesAll

(* After close returned Ok, and with no other caller of force_flush, the   *)
(* engine installs no SST: the flush thread was joined between two flushes *)
(* or has panicked.                                                        *)
THEOREM ClosedIsQuiet ==
    ASSUME Forcers = {Closer}
    PROVE  CloseSpec => NothingFlushedAfterClose
<1>1. CloseInv /\ [CloseNext]_closeVars =>
        [close_pc = "closed" => state'.sstables = state.sstables]_closeVars
  <2> SUFFICES ASSUME CloseInv, [CloseNext]_closeVars, close_pc = "closed"
               PROVE  state'.sstables = state.sstables
    OBVIOUS
  <2>1. /\ IInv /\ pc[Closer] = "idle"
        /\ pc[FlushThread] \in {"idle", "panicked"}
    BY DEF CloseInv, CloseOrder, CloseGuardHeld
  <2>2. CASE EngineStep
    <3>1. Next
      BY <2>2 DEF EngineStep, During
    <3>2. \A t \in Flushers : ~ FlushInstall(t)
      BY <2>1 DEF Flushers, FlushInstall
    <3> QED BY <2>1, <3>1, <3>2, StateFields
  <2>3. CASE ~ EngineStep
    BY <2>3 DEF CloseNext, CloseNotify, FlushThreadReturns, CloseGuard, Guard, CloseReturn,
                CloseFlush, closeVars, vars, engine
  <2> QED BY <2>2, <2>3
<1> QED BY <1>1, CloseInvHolds, PTL DEF CloseSpec, NothingFlushedAfterClose
===============================================================================
