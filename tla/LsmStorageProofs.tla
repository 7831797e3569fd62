--------------------------- MODULE LsmStorageProofs ---------------------------
(***************************************************************************)
(* Theorems about LsmStorage for any number of threads, keys, batches and  *)
(* memtables, any limits and any number of I/O failures.                   *)
(***************************************************************************)
EXTENDS LsmStorage, VersionedTablesProofs

-------------------------------------------------------------------------------
(* The inductive invariant, by concern                                     *)

(* The labels a thread of each role can be at.                             *)
FreezeLabels == {"freeze_lock", "freeze_copy", "freeze_record", "freeze_swap"}
FlushLabels == {"flush_pick", "flush_build", "flush_lock", "flush_install"}

PcByRole ==
    /\ \A w \in Writers :
        pc[w] \in {"idle", "put", "try_freeze", "commit"} \cup FreezeLabels
    /\ \A f \in Forcers :
        pc[f] \in {"idle", "flush_check", "panicked"} \cup FreezeLabels \cup FlushLabels
    /\ pc[FlushThread] \in {"idle", "panicked"} \cup FlushLabels
    /\ \A r \in Readers : pc[r] \in {"idle", "txn", "reading"}

(* A thread inside a critical section is the one its mutex names.          *)
InStateLock(t) ==
    pc[t] \in {"freeze_copy", "freeze_record", "freeze_swap", "flush_install"}

InWrite(w) == pc[w] \in {"put", "try_freeze", "commit"} \cup FreezeLabels

LocksHeld ==
    /\ \A t \in Threads : InStateLock(t) => state_lock = t
    /\ \A w \in Writers : InWrite(w) => write_lock = w

(* A write in progress has the next timestamp and records left to insert.  *)
WriteInProgress ==
    \A w \in Writers :
        /\ InWrite(w) => write_ts[w] = commit_ts + 1 /\ commit_ts < MaxTs
        /\ pc[w] = "put" => inserted[w] < Len(batch[w])
        /\ ~ InWrite(w) => inserted[w] = 0

(* Everything a state names was allocated; its active memtable is named    *)
(* nowhere else; every SST it lists is open.                               *)
IdsNamed(s, ids) ==
    /\ s.memtable \in ids
    /\ \A i \in DOMAIN s.imm_memtables : s.imm_memtables[i] \in ids \ {s.memtable}
    /\ s.sstables \subseteq ids \ {s.memtable}
    /\ \A i \in DOMAIN s.l0_sstables : s.l0_sstables[i] \in s.sstables
    /\ \A i \in DOMAIN s.levels : \A j \in DOMAIN s.levels[i][2] :
        s.levels[i][2][j] \in s.sstables

IdsInState == IdsNamed(state, Ids)

(* A freeze under way will install the current state with a fresh and      *)
(* still empty memtable: the state cannot change under its copy.           *)
Preparing(t) == pc[t] \in {"freeze_record", "freeze_swap"}

CopyIsCurrent ==
    \A t \in Freezers :
        Preparing(t) =>
            \E id \in Ids :
                /\ new_state[t] = Frozen(state, id)
                /\ id # state.memtable
                /\ id \notin state.sstables
                /\ \A i \in DOMAIN state.imm_memtables : state.imm_memtables[i] # id
                /\ \A u \in Flushers : flush_id[u] # id
                /\ memtables[id] = EmptyTable

(* What is being flushed is not written any more, and once its file exists *)
(* the file holds all of it.                                               *)
FlushingIsFrozen ==
    \A t \in Flushers :
        /\ pc[t] \in {"flush_build", "flush_lock", "flush_install"} =>
            flush_id[t] \in Ids \ {state.memtable}
        /\ pc[t] \in {"flush_lock", "flush_install"} =>
            sst_tables[flush_id[t]] = memtables[flush_id[t]]
        /\ pc[t] \notin {"flush_build", "flush_lock", "flush_install"} =>
            flush_id[t] = Nil

IInv ==
    /\ TypeOK
    /\ PcByRole
    /\ LocksHeld
    /\ WriteInProgress
    /\ IdsInState
    /\ CopyIsCurrent
    /\ FlushingIsFrozen
    /\ FlushedContentIsFinal

-------------------------------------------------------------------------------
(* Sequences and states                                                    *)

LEMMA InsertFirstProperties ==
    ASSUME NEW S, NEW s \in Seq(S), NEW x \in S
    PROVE  /\ InsertFirst(x, s) \in Seq(S)
           /\ Len(InsertFirst(x, s)) = Len(s) + 1
           /\ DOMAIN InsertFirst(x, s) = 1 .. Len(s) + 1
           /\ InsertFirst(x, s)[1] = x
           /\ \A i \in 1 .. Len(s) : InsertFirst(x, s)[i + 1] = s[i]
           /\ \A i \in 2 .. Len(s) + 1 : InsertFirst(x, s)[i] = s[i - 1]
BY DEF InsertFirst

LEMMA FrontLastProperties ==
    ASSUME NEW S, NEW s \in Seq(S), s # <<>>
    PROVE  /\ Front(s) \in Seq(S)
           /\ Len(s) \in Nat \ {0}
           /\ Len(Front(s)) = Len(s) - 1
           /\ DOMAIN Front(s) = 1 .. Len(s) - 1
           /\ \A i \in 1 .. Len(s) - 1 : Front(s)[i] = s[i]
           /\ Last(s) = s[Len(s)] /\ Last(s) \in S /\ Len(s) \in DOMAIN s
<1>1. Len(s) \in Nat /\ DOMAIN s = 1 .. Len(s) /\ s \in [1 .. Len(s) -> S]
  OBVIOUS
<1>2. Len(s) # 0
  OBVIOUS
<1>3. Len(s) - 1 \in Nat /\ Len(s) \in 1 .. Len(s)
  BY <1>1, <1>2
<1>4. /\ Front(s) \in Seq(S)
      /\ Len(Front(s)) = Len(s) - 1
      /\ \A i \in 1 .. Len(s) - 1 : Front(s)[i] = s[i]
  BY <1>1, <1>3 DEF Front
<1>5. DOMAIN Front(s) = 1 .. Len(s) - 1
  BY <1>4
<1>6. Last(s) = s[Len(s)] /\ Last(s) \in S
  BY <1>1, <1>3 DEF Last
<1> QED BY <1>1, <1>2, <1>3, <1>4, <1>5, <1>6

(* The same, element by element.                                           *)
LEMMA InsertFirstElements ==
    ASSUME NEW S, NEW s \in Seq(S), NEW x \in S,
           NEW i \in DOMAIN InsertFirst(x, s)
    PROVE  \/ InsertFirst(x, s)[i] = x
           \/ \E j \in DOMAIN s : InsertFirst(x, s)[i] = s[j]
<1>0. Len(s) \in Nat /\ DOMAIN s = 1 .. Len(s)
  OBVIOUS
<1>1. /\ DOMAIN InsertFirst(x, s) = 1 .. Len(s) + 1
      /\ InsertFirst(x, s)[1] = x
      /\ \A k \in 2 .. Len(s) + 1 : InsertFirst(x, s)[k] = s[k - 1]
  BY InsertFirstProperties
<1>2. CASE i = 1
  BY <1>1, <1>2
<1>3. CASE i # 1
  <2>1. i \in 2 .. Len(s) + 1 /\ i - 1 \in DOMAIN s
    BY <1>0, <1>1, <1>3
  <2> QED BY <1>1, <2>1
<1> QED BY <1>2, <1>3

LEMMA FrontElements ==
    ASSUME NEW S, NEW s \in Seq(S), s # <<>>
    PROVE  /\ DOMAIN Front(s) \subseteq DOMAIN s
           /\ \A i \in DOMAIN Front(s) : Front(s)[i] = s[i]
<1>1. /\ Len(s) \in Nat \ {0} /\ DOMAIN s = 1 .. Len(s)
      /\ DOMAIN Front(s) = 1 .. Len(s) - 1
      /\ \A i \in 1 .. Len(s) - 1 : Front(s)[i] = s[i]
  BY FrontLastProperties
<1> QED BY <1>1

(* What a freeze and a flush do to each field of the state.                *)
LEMMA FrozenType ==
    ASSUME NEW s \in States, NEW id \in Nat
    PROVE  /\ Frozen(s, id) \in States
           /\ Frozen(s, id).memtable = id
           /\ Frozen(s, id).imm_memtables = InsertFirst(s.memtable, s.imm_memtables)
           /\ Frozen(s, id).l0_sstables = s.l0_sstables
           /\ Frozen(s, id).levels = s.levels
           /\ Frozen(s, id).sstables = s.sstables
<1>1. InsertFirst(s.memtable, s.imm_memtables) \in Seq(Nat)
  BY InsertFirstProperties DEF States
<1> QED BY <1>1 DEF Frozen, States

LEMMA FlushedType ==
    ASSUME NEW s \in States, NEW id \in Nat, s.imm_memtables # <<>>
    PROVE  /\ Flushed(s, id) \in States
           /\ Flushed(s, id).memtable = s.memtable
           /\ Flushed(s, id).imm_memtables = Front(s.imm_memtables)
           /\ Flushed(s, id).sstables = s.sstables \cup {id}
           /\ FlushToL0 =>
                /\ Flushed(s, id).l0_sstables = InsertFirst(id, s.l0_sstables)
                /\ Flushed(s, id).levels = s.levels
           /\ ~ FlushToL0 =>
                /\ Flushed(s, id).l0_sstables = s.l0_sstables
                /\ Flushed(s, id).levels = InsertFirst(<<id, <<id>>>>, s.levels)
<1>1. Front(s.imm_memtables) \in Seq(Nat)
  BY FrontLastProperties DEF States
<1>2. InsertFirst(id, s.l0_sstables) \in Seq(Nat)
  BY InsertFirstProperties DEF States
<1>3. <<id, <<id>>>> \in Nat \X Seq(Nat)
  OBVIOUS
<1>4. InsertFirst(<<id, <<id>>>>, s.levels) \in Seq(Nat \X Seq(Nat))
  BY <1>3, InsertFirstProperties DEF States
<1> QED BY <1>1, <1>2, <1>4 DEF Flushed, States

(* Neither of them breaks the naming discipline.                           *)
LEMMA FrozenIds ==
    ASSUME NEW s \in States, NEW ids \in SUBSET Nat, IdsNamed(s, ids),
           NEW id \in ids, id # s.memtable, id \notin s.sstables,
           \A i \in DOMAIN s.imm_memtables : s.imm_memtables[i] # id
    PROVE  IdsNamed(Frozen(s, id), ids)
<1> DEFINE new == Frozen(s, id)
<1>1. /\ new.memtable = id
      /\ new.imm_memtables = InsertFirst(s.memtable, s.imm_memtables)
      /\ new.l0_sstables = s.l0_sstables
      /\ new.levels = s.levels
      /\ new.sstables = s.sstables
  BY FrozenType
<1> HIDE DEF new
<1>2. s.memtable \in ids \ {id} /\ s.memtable \in Nat /\ s.imm_memtables \in Seq(Nat)
  BY DEF IdsNamed, States
<1>3. \A i \in DOMAIN InsertFirst(s.memtable, s.imm_memtables) :
        InsertFirst(s.memtable, s.imm_memtables)[i] = s.memtable
        \/ \E j \in DOMAIN s.imm_memtables :
                InsertFirst(s.memtable, s.imm_memtables)[i] = s.imm_memtables[j]
  BY <1>2, InsertFirstElements
<1>4. \A i \in DOMAIN new.imm_memtables : new.imm_memtables[i] \in ids \ {id}
  BY <1>1, <1>2, <1>3 DEF IdsNamed
<1>5. IdsNamed(new, ids)
  BY <1>1, <1>4 DEF IdsNamed
<1> QED BY <1>5 DEF new

LEMMA FlushedIds ==
    ASSUME NEW s \in States, NEW ids \in SUBSET Nat, IdsNamed(s, ids),
           s.imm_memtables # <<>>, NEW id \in ids, id # s.memtable
    PROVE  IdsNamed(Flushed(s, id), ids)
<1> DEFINE new == Flushed(s, id)
<1>1. /\ new.memtable = s.memtable
      /\ new.imm_memtables = Front(s.imm_memtables)
      /\ new.sstables = s.sstables \cup {id}
      /\ FlushToL0 => /\ new.l0_sstables = InsertFirst(id, s.l0_sstables)
                      /\ new.levels = s.levels
      /\ ~ FlushToL0 => /\ new.l0_sstables = s.l0_sstables
                        /\ new.levels = InsertFirst(<<id, <<id>>>>, s.levels)
  BY FlushedType
<1> HIDE DEF new
<1>2. /\ s.imm_memtables \in Seq(Nat) /\ s.l0_sstables \in Seq(Nat)
      /\ s.levels \in Seq(Nat \X Seq(Nat))
  BY DEF States
<1>2a. id \in Nat /\ <<id, <<id>>>> \in Nat \X Seq(Nat)
  OBVIOUS
<1>3. \A i \in DOMAIN new.imm_memtables : new.imm_memtables[i] \in ids \ {s.memtable}
  <2>1. /\ DOMAIN Front(s.imm_memtables) \subseteq DOMAIN s.imm_memtables
        /\ \A i \in DOMAIN Front(s.imm_memtables) :
                Front(s.imm_memtables)[i] = s.imm_memtables[i]
    BY <1>2, FrontElements
  <2> QED BY <1>1, <2>1 DEF IdsNamed
<1>4. ASSUME FlushToL0, NEW i \in DOMAIN new.l0_sstables
      PROVE  new.l0_sstables[i] \in new.sstables
  <2>1. new.l0_sstables[i] = id
        \/ \E j \in DOMAIN s.l0_sstables : new.l0_sstables[i] = s.l0_sstables[j]
    BY <1>1, <1>2, <1>2a, <1>4, InsertFirstElements
  <2> QED BY <1>1, <2>1 DEF IdsNamed
<1>5. ASSUME ~ FlushToL0, NEW i \in DOMAIN new.levels, NEW j \in DOMAIN new.levels[i][2]
      PROVE  new.levels[i][2][j] \in new.sstables
  <2>1. new.levels[i] = <<id, <<id>>>>
        \/ \E k \in DOMAIN s.levels : new.levels[i] = s.levels[k]
    <3> DEFINE Level == Nat \X Seq(Nat)
               level == <<id, <<id>>>>
    <3>1. s.levels \in Seq(Level) /\ level \in Level
      BY <1>2, <1>2a
    <3>2. new.levels = InsertFirst(level, s.levels)
      BY <1>1, <1>5
    <3> HIDE DEF Level, level
    <3>3. i \in DOMAIN InsertFirst(level, s.levels)
      BY <1>5, <3>2
    <3>4. new.levels[i] = level \/ \E k \in DOMAIN s.levels : new.levels[i] = s.levels[k]
      BY <3>1, <3>2, <3>3, InsertFirstElements
    <3> QED BY <3>4 DEF level
  <2>2. CASE new.levels[i] = <<id, <<id>>>>
    <3>1. j = 1 /\ new.levels[i][2][j] = id
      BY <1>5, <2>2
    <3> QED BY <1>1, <3>1
  <2>3. CASE \E k \in DOMAIN s.levels : new.levels[i] = s.levels[k]
    BY <1>1, <1>5, <2>3 DEF IdsNamed
  <2> QED BY <2>1, <2>2, <2>3
<1>6. IdsNamed(new, ids)
  BY <1>1, <1>3, <1>4, <1>5 DEF IdsNamed
<1> QED BY <1>6 DEF new

LEMMA FaultType ==
    ASSUME TypeOK, Fault
    PROVE  faults' \in 0 .. MaxFaults
<1>1. faults \in 0 .. MaxFaults /\ MaxFaults \in Nat
  BY StorageAssumption DEF TypeOK
<1> QED BY <1>1 DEF Fault

LEMMA EmptyTableType == EmptyTable \in Tables
BY DEF EmptyTable, Tables

-------------------------------------------------------------------------------
(* Each step preserves the invariant                                     *)

LEMMA WriteBeginInv ==
    ASSUME IInv, NEW w \in Writers, WriteBegin(w)
    PROVE  IInv'
<1> USE StorageAssumption
        DEF WriteBegin, Goto, engine, mvcc, freeze, reading, Threads,
            Flushers, Freezers
<1>0. TypeOK /\ PcByRole /\ LocksHeld /\ WriteInProgress /\ IdsInState /\
      CopyIsCurrent /\ FlushingIsFrozen /\ FlushedContentIsFinal
  BY DEF IInv
<1>1. TypeOK'
  <2>1. PICK b \in Batches : batch' = [batch EXCEPT ![w] = b]
                             /\ pc' = [pc EXCEPT ![w] = IF b = <<>> THEN "try_freeze" ELSE "put"]
    BY <1>0
  <2>2. b \in Seq(Records)
    OBVIOUS
  <2>3. commit_ts + 1 \in 0 .. MaxTs
    BY <1>0, TablesAssumption DEF TypeOK
  <2> QED BY <1>0, <2>1, <2>2, <2>3 DEF TypeOK, Ids, PcLabels
<1>2. PcByRole'
  BY <1>0 DEF TypeOK, Ids, PcLabels, PcByRole, FreezeLabels, FlushLabels
<1>3. LocksHeld'
  BY <1>0 DEF TypeOK, Ids, PcLabels, LocksHeld, InStateLock, InWrite, FreezeLabels
<1>4. WriteInProgress'
  <2>1. PICK b \in Batches : batch' = [batch EXCEPT ![w] = b]
                             /\ pc' = [pc EXCEPT ![w] = IF b = <<>> THEN "try_freeze" ELSE "put"]
    BY <1>0
  <2>2. b # <<>> => 0 < Len(b)
    BY <2>1
  <2>3. inserted[w] = 0
    BY <1>0 DEF WriteInProgress, InWrite, FreezeLabels
  <2> QED BY <1>0, <2>1, <2>2, <2>3 DEF TypeOK, WriteInProgress, InWrite, FreezeLabels
<1>5. IdsInState'
  BY <1>0 DEF TypeOK, Ids, PcLabels, IdsInState, IdsNamed
<1>6. CopyIsCurrent'
  <2>1. \A t \in Freezers : Preparing(t)' => Preparing(t)
    BY <1>0 DEF TypeOK, Preparing
  <2> QED BY <1>0, <2>1 DEF CopyIsCurrent, Ids
<1>7. FlushingIsFrozen'
  BY <1>0 DEF TypeOK, Ids, PcLabels, FlushingIsFrozen
<1>8. FlushedContentIsFinal'
  BY <1>0 DEF TypeOK, Ids, PcLabels, FlushedContentIsFinal
<1> QED BY <1>1, <1>2, <1>3, <1>4, <1>5, <1>6, <1>7, <1>8 DEF IInv

LEMMA PutRecordInv ==
    ASSUME IInv, NEW w \in Writers, PutRecord(w)
    PROVE  IInv'
<1> USE StorageAssumption
        DEF PutRecord, Goto, engine, mvcc, freeze, reading, Threads, Flushers,
            Freezers
<1>0. TypeOK /\ PcByRole /\ LocksHeld /\ WriteInProgress /\ IdsInState /\
      CopyIsCurrent /\ FlushingIsFrozen /\ FlushedContentIsFinal
  BY DEF IInv
<1> DEFINE record == batch[w][inserted[w] + 1]
           cell == <<record.key, write_ts[w]>>
<1>a. record \in Records
  BY <1>0 DEF TypeOK, WriteInProgress
<1>b. cell \in Cells
  BY <1>0, <1>a, TablesAssumption
     DEF TypeOK, WriteInProgress, InWrite, Cells, Records
<1>c. state.memtable \in Ids /\ memtables[state.memtable] \in Tables
  BY <1>0 DEF TypeOK, IdsInState, IdsNamed
<1>d. [memtables[state.memtable] EXCEPT ![cell] = record.value] \in Tables
  BY <1>a, <1>b, <1>c DEF Tables, Records
<1>e. memtables' = [memtables EXCEPT ![state.memtable] =
                        [memtables[state.memtable] EXCEPT ![cell] = record.value]]
  BY <1>0 DEF TypeOK
<1> HIDE DEF record, cell
<1>1. TypeOK'
  <2>1. memtables' \in [Ids -> Tables]
    BY <1>0, <1>c, <1>d, <1>e DEF TypeOK
  <2>2. approx_size' \in [Ids -> Nat]
    <3>1. approx_size \in [Ids -> Nat] /\ state.memtable \in Ids
      BY <1>0, <1>c DEF TypeOK
    <3>2. approx_size' = [approx_size EXCEPT ![state.memtable] =
                              approx_size[state.memtable] + 1]
      OBVIOUS
    <3> HIDE DEF PutRecord
    <3> QED BY <3>1, <3>2
  <2>3. inserted' \in [Writers -> Nat]
    BY <1>0 DEF TypeOK
  <2>4. pc' \in [Threads -> PcLabels]
    BY <1>0 DEF TypeOK, PcLabels
  <2> QED BY <1>0, <2>1, <2>2, <2>3, <2>4 DEF TypeOK, Ids
<1>2. PcByRole'
  BY <1>0 DEF TypeOK, Ids, PcLabels, PcByRole, FreezeLabels, FlushLabels
<1>3. LocksHeld'
  BY <1>0 DEF TypeOK, Ids, PcLabels, LocksHeld, InStateLock, InWrite, FreezeLabels
<1>4. WriteInProgress'
  <2>1. /\ Len(batch[w]) \in Nat /\ inserted[w] \in Nat /\ inserted[w] < Len(batch[w])
        /\ batch' = batch /\ inserted' = [inserted EXCEPT ![w] = @ + 1]
    BY <1>0 DEF TypeOK, WriteInProgress
  <2>2. inserted'[w] < Len(batch[w]) \/ inserted'[w] = Len(batch[w])
    BY <1>0, <2>1 DEF TypeOK
  <2>3. pc'[w] = "put" => inserted'[w] # Len(batch[w])
    BY <1>0, <2>1 DEF TypeOK
  <2>4. InWrite(w) /\ InWrite(w)'
    BY <1>0 DEF TypeOK, InWrite
  <2>5. \A u \in Writers \ {w} : pc'[u] = pc[u] /\ inserted'[u] = inserted[u]
    BY <1>0 DEF TypeOK
  <2> QED BY <1>0, <2>1, <2>2, <2>3, <2>4, <2>5 DEF WriteInProgress, InWrite
<1>5. IdsInState'
  BY <1>0 DEF TypeOK, Ids, PcLabels, IdsInState, IdsNamed
<1>6. CopyIsCurrent'
  <2>1. \A t \in Freezers : Preparing(t)' => Preparing(t)
    BY <1>0 DEF TypeOK, Preparing
  <2>2. \A id \in Ids : id # state.memtable => memtables'[id] = memtables[id]
    BY <1>0, <1>e DEF TypeOK
  <2> QED BY <1>0, <2>1, <2>2 DEF CopyIsCurrent, Ids
<1>7. FlushingIsFrozen'
  <2>1. \A id \in Ids : id # state.memtable => memtables'[id] = memtables[id]
    BY <1>0, <1>e DEF TypeOK
  <2>2. \A t \in Flushers : pc'[t] = pc[t]
    BY <1>0 DEF TypeOK
  <2> QED BY <1>0, <2>1, <2>2 DEF FlushingIsFrozen, Ids
<1>8. FlushedContentIsFinal'
  <2>1. \A id \in Ids : id # state.memtable => memtables'[id] = memtables[id]
    BY <1>0, <1>e DEF TypeOK
  <2> QED BY <1>0, <2>1 DEF FlushedContentIsFinal, IdsInState, IdsNamed
<1> QED BY <1>1, <1>2, <1>3, <1>4, <1>5, <1>6, <1>7, <1>8 DEF IInv

LEMMA TryFreezeInv ==
    ASSUME IInv, NEW w \in Writers, TryFreeze(w)
    PROVE  IInv'
<1> USE StorageAssumption
        DEF TryFreeze, Goto, engine, mvcc, freeze, reading, Threads, Flushers,
            Freezers
<1>0. TypeOK /\ PcByRole /\ LocksHeld /\ WriteInProgress /\ IdsInState /\
      CopyIsCurrent /\ FlushingIsFrozen /\ FlushedContentIsFinal
  BY DEF IInv
<1>1. TypeOK'
  BY <1>0 DEF TypeOK, Ids, PcLabels
<1>2. PcByRole'
  BY <1>0 DEF TypeOK, Ids, PcLabels, PcByRole, FreezeLabels, FlushLabels
<1>3. LocksHeld'
  BY <1>0 DEF TypeOK, Ids, PcLabels, LocksHeld, InStateLock, InWrite, FreezeLabels
<1>4. WriteInProgress'
  BY <1>0 DEF TypeOK, Ids, PcLabels, WriteInProgress, InWrite, FreezeLabels
<1>5. IdsInState'
  BY <1>0 DEF TypeOK, Ids, PcLabels, IdsInState, IdsNamed
<1>6. CopyIsCurrent'
  BY <1>0 DEF TypeOK, Ids, PcLabels, CopyIsCurrent, Preparing
<1>7. FlushingIsFrozen'
  BY <1>0 DEF TypeOK, Ids, PcLabels, FlushingIsFrozen
<1>8. FlushedContentIsFinal'
  BY <1>0 DEF TypeOK, Ids, PcLabels, FlushedContentIsFinal
<1> QED BY <1>1, <1>2, <1>3, <1>4, <1>5, <1>6, <1>7, <1>8 DEF IInv

LEMMA CommitInv ==
    ASSUME IInv, NEW w \in Writers, Commit(w)
    PROVE  IInv'
<1> USE StorageAssumption
        DEF Commit, Goto, engine, mvcc, freeze, reading, Threads, Flushers,
            Freezers
<1>0. TypeOK /\ PcByRole /\ LocksHeld /\ WriteInProgress /\ IdsInState /\
      CopyIsCurrent /\ FlushingIsFrozen /\ FlushedContentIsFinal
  BY DEF IInv
<1>1. TypeOK'
  <2>1. <<>> \in Seq(Records)
    OBVIOUS
  <2> QED BY <1>0, <2>1, TablesAssumption DEF WriteReturns, TypeOK, Ids, PcLabels
<1>2. PcByRole'
  BY <1>0 DEF TypeOK, Ids, PcLabels, PcByRole, FreezeLabels, FlushLabels
<1>3. LocksHeld'
  BY <1>0 DEF WriteReturns, TypeOK, LocksHeld, InStateLock, InWrite, FreezeLabels
<1>4. WriteInProgress'
  <2>1. \A u \in Writers : InWrite(u)' => FALSE
    BY <1>0 DEF TypeOK, LocksHeld, InWrite, FreezeLabels
  <2>2. \A u \in Writers : u # w => ~ InWrite(u)
    BY <1>0 DEF TypeOK, LocksHeld, InWrite, FreezeLabels
  <2>3. \A u \in Writers : inserted'[u] = 0
    BY <1>0, <2>2 DEF WriteReturns, TypeOK, WriteInProgress
  <2> QED BY <2>1, <2>3 DEF WriteInProgress, InWrite
<1>5. IdsInState'
  BY <1>0 DEF TypeOK, Ids, PcLabels, IdsInState, IdsNamed
<1>6. CopyIsCurrent'
  BY <1>0 DEF TypeOK, Ids, PcLabels, CopyIsCurrent, Preparing
<1>7. FlushingIsFrozen'
  BY <1>0 DEF TypeOK, Ids, PcLabels, FlushingIsFrozen
<1>8. FlushedContentIsFinal'
  BY <1>0 DEF TypeOK, Ids, PcLabels, FlushedContentIsFinal
<1> QED BY <1>1, <1>2, <1>3, <1>4, <1>5, <1>6, <1>7, <1>8 DEF IInv

LEMMA FreezeLockInv ==
    ASSUME IInv, NEW t \in Freezers, FreezeLock(t)
    PROVE  IInv'
<1> USE StorageAssumption
        DEF FreezeLock, Goto, engine, mvcc, freeze, reading, Threads,
            Flushers, Freezers
<1>0. TypeOK /\ PcByRole /\ LocksHeld /\ WriteInProgress /\ IdsInState /\
      CopyIsCurrent /\ FlushingIsFrozen /\ FlushedContentIsFinal
  BY DEF IInv
<1>1. TypeOK'
  BY <1>0 DEF TypeOK, Ids, PcLabels
<1>2. PcByRole'
  BY <1>0 DEF TypeOK, Ids, PcLabels, PcByRole, FreezeLabels, FlushLabels
<1>3. LocksHeld'
  BY <1>0 DEF TypeOK, Ids, PcLabels, LocksHeld, InStateLock, InWrite, FreezeLabels
<1>4. WriteInProgress'
  BY <1>0 DEF TypeOK, Ids, PcLabels, WriteInProgress, InWrite, FreezeLabels
<1>5. IdsInState'
  BY <1>0 DEF TypeOK, Ids, PcLabels, IdsInState, IdsNamed
<1>6. CopyIsCurrent'
  BY <1>0 DEF TypeOK, Ids, PcLabels, CopyIsCurrent, Preparing
<1>7. FlushingIsFrozen'
  BY <1>0 DEF TypeOK, Ids, PcLabels, FlushingIsFrozen
<1>8. FlushedContentIsFinal'
  BY <1>0 DEF TypeOK, Ids, PcLabels, FlushedContentIsFinal
<1> QED BY <1>1, <1>2, <1>3, <1>4, <1>5, <1>6, <1>7, <1>8 DEF IInv

LEMMA FreezeCopyInv ==
    ASSUME IInv, NEW t \in Freezers, FreezeCopy(t)
    PROVE  IInv'
<1> USE StorageAssumption
        DEF FreezeCopy, Goto, engine, mvcc, freeze, reading, Threads,
            Flushers, Freezers
<1>0. TypeOK /\ PcByRole /\ LocksHeld /\ WriteInProgress /\ IdsInState /\
      CopyIsCurrent /\ FlushingIsFrozen /\ FlushedContentIsFinal
  BY DEF IInv
<1>a. /\ next_sst_id' = next_sst_id + 1
      /\ Ids \subseteq Ids' /\ next_sst_id \in Ids' /\ next_sst_id \notin Ids
      /\ Ids' = 0 .. next_sst_id
  BY <1>0 DEF AllocateId, TypeOK, Ids
<1>b. /\ \A id \in Ids : memtables'[id] = memtables[id]
      /\ memtables'[next_sst_id] = EmptyTable
      /\ \A id \in Ids : sst_tables'[id] = sst_tables[id]
  BY <1>0, <1>a DEF AllocateId, TypeOK, Ids
<1>c. new_state'[t] = Frozen(state, next_sst_id)
  BY <1>0 DEF TypeOK
<1>d. \A u \in Freezers : u # t => ~ InStateLock(u)
  BY <1>0 DEF LocksHeld, InStateLock
<1>1. TypeOK'
  <2>1. memtables' \in [Ids' -> Tables] /\ sst_tables' \in [Ids' -> Tables]
    BY <1>0, <1>a, EmptyTableType DEF AllocateId, TypeOK, Ids
  <2>2. approx_size' \in [Ids' -> Nat]
    BY SMTT(20), <1>0, <1>a DEF AllocateId, TypeOK, Ids
  <2>3. Frozen(state, next_sst_id) \in States
    BY <1>0, FrozenType DEF TypeOK
  <2>4. new_state' \in [Freezers -> States \cup {Nil}]
    BY <1>0, <2>3 DEF TypeOK
  <2>5. next_sst_id' \in Nat /\ pc' \in [Threads -> PcLabels]
    BY <1>0, <1>a DEF TypeOK, PcLabels
  <2> QED BY <1>0, <2>1, <2>2, <2>4, <2>5 DEF TypeOK
<1>2. PcByRole'
  BY <1>0 DEF TypeOK, Ids, PcLabels, PcByRole, FreezeLabels, FlushLabels
<1>3. LocksHeld'
  BY <1>0 DEF TypeOK, Ids, PcLabels, LocksHeld, InStateLock, InWrite, FreezeLabels
<1>4. WriteInProgress'
  BY <1>0 DEF TypeOK, Ids, PcLabels, WriteInProgress, InWrite, FreezeLabels
<1>5. IdsInState'
  BY <1>0, <1>a DEF IdsInState, IdsNamed
<1>6. CopyIsCurrent'
  <2> SUFFICES ASSUME NEW u \in Freezers, Preparing(u)'
               PROVE  \E id \in Ids' :
                        /\ new_state'[u] = Frozen(state', id)
                        /\ id # state'.memtable
                        /\ id \notin state'.sstables
                        /\ \A i \in DOMAIN state'.imm_memtables : state'.imm_memtables[i] # id
                        /\ \A x \in Flushers : flush_id'[x] # id
                        /\ memtables'[id] = EmptyTable
    BY DEF CopyIsCurrent
  <2>1. u = t
    BY <1>0, <1>d DEF TypeOK, Preparing, InStateLock
  <2>2. next_sst_id # state.memtable /\ next_sst_id \notin state.sstables
    BY <1>0, <1>a DEF IdsInState, IdsNamed
  <2>3. \A i \in DOMAIN state.imm_memtables : state.imm_memtables[i] # next_sst_id
    BY <1>0, <1>a DEF IdsInState, IdsNamed
  <2>4. \A x \in Flushers : flush_id[x] # next_sst_id
    BY <1>0, <1>a DEF FlushingIsFrozen, TypeOK
  <2> QED BY <1>a, <1>b, <1>c, <2>1, <2>2, <2>3, <2>4, ZenonT(40)
<1>7. FlushingIsFrozen'
  <2>1. \A u \in Flushers :
            \A label \in {"flush_build", "flush_lock", "flush_install"} :
                pc'[u] = label <=> pc[u] = label
    BY <1>0 DEF TypeOK
  <2>2. flush_id' = flush_id /\ state' = state
    OBVIOUS
  <2> HIDE DEF FreezeCopy
  <2> QED BY <1>0, <1>a, <1>b, <2>1, <2>2, ZenonT(40) DEF FlushingIsFrozen
<1>8. FlushedContentIsFinal'
  BY <1>0, <1>b DEF FlushedContentIsFinal, IdsInState, IdsNamed
<1> QED BY <1>1, <1>2, <1>3, <1>4, <1>5, <1>6, <1>7, <1>8 DEF IInv

LEMMA FreezeRecordInv ==
    ASSUME IInv, NEW t \in Freezers, FreezeRecord(t)
    PROVE  IInv'
<1> USE StorageAssumption
        DEF FreezeRecord, Goto, engine, mvcc, freeze, reading, Threads,
            Flushers, Freezers
<1>0. TypeOK /\ PcByRole /\ LocksHeld /\ WriteInProgress /\ IdsInState /\
      CopyIsCurrent /\ FlushingIsFrozen /\ FlushedContentIsFinal
  BY DEF IInv
<1>1. TypeOK'
  <2>1. PICK id \in Ids : new_state[t] = Frozen(state, id)
    BY <1>0 DEF CopyIsCurrent, Preparing
  <2>2. id \in Nat /\ state \in States
    BY <1>0 DEF TypeOK, Ids
  <2>3. Frozen(state, id).memtable = id
    BY <2>2, FrozenType
  <2>4. manifest' \in Seq(ManifestRecords)
    BY <1>0, <2>1, <2>2, <2>3 DEF TypeOK, ManifestRecords
  <2> QED BY <1>0, <2>4 DEF TypeOK, Ids, PcLabels
<1>2. PcByRole'
  BY <1>0 DEF TypeOK, Ids, PcLabels, PcByRole, FreezeLabels, FlushLabels
<1>3. LocksHeld'
  BY <1>0 DEF TypeOK, Ids, PcLabels, LocksHeld, InStateLock, InWrite, FreezeLabels
<1>4. WriteInProgress'
  BY <1>0 DEF TypeOK, Ids, PcLabels, WriteInProgress, InWrite, FreezeLabels
<1>5. IdsInState'
  BY <1>0 DEF TypeOK, Ids, PcLabels, IdsInState, IdsNamed
<1>6. CopyIsCurrent'
  BY <1>0 DEF TypeOK, Ids, PcLabels, CopyIsCurrent, Preparing
<1>7. FlushingIsFrozen'
  BY <1>0 DEF TypeOK, Ids, PcLabels, FlushingIsFrozen
<1>8. FlushedContentIsFinal'
  BY <1>0 DEF TypeOK, Ids, PcLabels, FlushedContentIsFinal
<1> QED BY <1>1, <1>2, <1>3, <1>4, <1>5, <1>6, <1>7, <1>8 DEF IInv

LEMMA FreezeFailsInv ==
    ASSUME IInv, NEW t \in Freezers, FreezeFails(t)
    PROVE  IInv'
<1> USE StorageAssumption
        DEF FreezeFails, Goto, engine, mvcc, freeze, reading, Threads,
            Flushers, Freezers
<1>0. TypeOK /\ PcByRole /\ LocksHeld /\ WriteInProgress /\ IdsInState /\
      CopyIsCurrent /\ FlushingIsFrozen /\ FlushedContentIsFinal
  BY DEF IInv
<1>1. TypeOK'
  <2>1. faults' \in 0 .. MaxFaults
    BY <1>0, FaultType
  <2>2. CASE t \in Writers
    <3>1. <<>> \in Seq(Records) /\ 0 \in 0 .. MaxTs /\ 0 \in Nat
      BY TablesAssumption
    <3>2. WriteReturns(t)
      BY <2>2
    <3>3. write_lock' \in Writers \cup {NoThread}
      BY <3>2 DEF WriteReturns
    <3>4. batch' \in [Writers -> Seq(Records)]
      BY <1>0, <3>1, <3>2 DEF WriteReturns, TypeOK
    <3>5. inserted' \in [Writers -> Nat]
      BY <1>0, <3>1, <3>2 DEF WriteReturns, TypeOK
    <3>6. write_ts' \in [Writers -> 0 .. MaxTs]
      BY <1>0, <3>1, <3>2 DEF WriteReturns, TypeOK
    <3>7. pc' \in [Threads -> PcLabels] /\ new_state' \in [Freezers -> States \cup {Nil}]
      BY <1>0 DEF TypeOK, PcLabels
    <3> QED BY <1>0, <2>1, <3>3, <3>4, <3>5, <3>6, <3>7 DEF TypeOK, Ids
  <2>3. CASE t \notin Writers
    <3>1. pc' \in [Threads -> PcLabels] /\ new_state' \in [Freezers -> States \cup {Nil}]
      BY <1>0 DEF TypeOK, PcLabels
    <3> QED BY <1>0, <2>1, <2>3, <3>1 DEF TypeOK, Ids
  <2> QED BY <2>2, <2>3
<1>2. PcByRole'
  BY <1>0 DEF TypeOK, Ids, PcLabels, PcByRole, FreezeLabels, FlushLabels
<1>3. LocksHeld'
  BY <1>0 DEF WriteReturns, TypeOK, PcByRole, LocksHeld, InStateLock, InWrite,
              FreezeLabels
<1>4. WriteInProgress'
  <2>1. CASE t \in Writers
    <3>1. \A u \in Writers : u # t => ~ InWrite(u)
      BY <1>0, <2>1 DEF TypeOK, LocksHeld, InWrite, FreezeLabels
    <3>2. \A u \in Writers : ~ InWrite(u)'
      BY <1>0, <2>1, <3>1 DEF TypeOK, InWrite, FreezeLabels
    <3>3. \A u \in Writers : inserted'[u] = 0
      BY <1>0, <2>1, <3>1 DEF WriteReturns, TypeOK, WriteInProgress
    <3> QED BY <3>2, <3>3 DEF WriteInProgress, InWrite
  <2>2. CASE t \notin Writers
    BY <1>0, <2>2 DEF TypeOK, WriteInProgress, InWrite, FreezeLabels
  <2> QED BY <2>1, <2>2
<1>5. IdsInState'
  BY <1>0 DEF TypeOK, Ids, PcLabels, IdsInState, IdsNamed
<1>6. CopyIsCurrent'
  <2>1. \A u \in Freezers : Preparing(u)' => Preparing(u) /\ u # t
    BY <1>0 DEF TypeOK, Preparing
  <2>2. \A u \in Freezers : u # t => new_state'[u] = new_state[u]
    BY <1>0 DEF TypeOK
  <2> QED BY <1>0, <2>1, <2>2 DEF CopyIsCurrent, Ids
<1>7. FlushingIsFrozen'
  BY <1>0 DEF TypeOK, Ids, PcLabels, FlushingIsFrozen
<1>8. FlushedContentIsFinal'
  BY <1>0 DEF TypeOK, Ids, PcLabels, FlushedContentIsFinal
<1> QED BY <1>1, <1>2, <1>3, <1>4, <1>5, <1>6, <1>7, <1>8 DEF IInv

LEMMA FreezeSwapInv ==
    ASSUME IInv, NEW t \in Freezers, FreezeSwap(t)
    PROVE  IInv'
<1> USE StorageAssumption
        DEF FreezeSwap, Goto, engine, mvcc, freeze, reading, Threads,
            Flushers, Freezers
<1>0. TypeOK /\ PcByRole /\ LocksHeld /\ WriteInProgress /\ IdsInState /\
      CopyIsCurrent /\ FlushingIsFrozen /\ FlushedContentIsFinal
  BY DEF IInv
<1>a. PICK id \in Ids :
        /\ new_state[t] = Frozen(state, id)
        /\ id # state.memtable
        /\ id \notin state.sstables
        /\ \A i \in DOMAIN state.imm_memtables : state.imm_memtables[i] # id
        /\ \A u \in Flushers : flush_id[u] # id
        /\ memtables[id] = EmptyTable
  BY <1>0 DEF CopyIsCurrent, Preparing
<1>b. state \in States /\ id \in Nat /\ Ids \in SUBSET Nat /\ Ids' = Ids
      /\ state' = Frozen(state, id)
  BY <1>0, <1>a DEF TypeOK, Ids
<1>c. /\ state' \in States
      /\ state'.memtable = id
      /\ state'.sstables = state.sstables
  BY SMTT(20), <1>b, FrozenType
<1>d. \A u \in Freezers : u # t => ~ InStateLock(u)
  BY <1>0 DEF LocksHeld, InStateLock
<1>1. TypeOK'
  <2>1. pc' \in [Threads -> PcLabels] /\ new_state' \in [Freezers -> States \cup {Nil}]
    BY <1>0 DEF TypeOK, PcLabels
  <2> QED BY <1>0, <1>c, <2>1 DEF TypeOK, Ids
<1>2. PcByRole'
  BY <1>0 DEF TypeOK, Ids, PcLabels, PcByRole, FreezeLabels, FlushLabels
<1>3. LocksHeld'
  BY <1>0 DEF TypeOK, Ids, PcLabels, LocksHeld, InStateLock, InWrite, FreezeLabels
<1>4. WriteInProgress'
  BY <1>0 DEF TypeOK, Ids, PcLabels, WriteInProgress, InWrite, FreezeLabels
<1>5. IdsInState'
  BY <1>0, <1>a, <1>b, FrozenIds DEF IdsInState
<1>6. CopyIsCurrent'
  <2>1. \A u \in Freezers : ~ Preparing(u)'
    BY <1>0, <1>d DEF TypeOK, Preparing, InStateLock
  <2> QED BY <2>1 DEF CopyIsCurrent
<1>7. FlushingIsFrozen'
  <2>1. \A u \in Flushers :
            \A label \in {"flush_build", "flush_lock", "flush_install"} :
                pc'[u] = label <=> pc[u] = label
    BY <1>0 DEF TypeOK
  <2>2. flush_id' = flush_id /\ memtables' = memtables /\ sst_tables' = sst_tables
    OBVIOUS
  <2> HIDE DEF FreezeSwap
  <2> QED BY <1>0, <1>a, <1>b, <1>c, <2>1, <2>2 DEF FlushingIsFrozen
<1>8. FlushedContentIsFinal'
  BY <1>0, <1>c DEF FlushedContentIsFinal
<1> QED BY <1>1, <1>2, <1>3, <1>4, <1>5, <1>6, <1>7, <1>8 DEF IInv

LEMMA ForceFlushInv ==
    ASSUME IInv, NEW f \in Forcers, ForceFlush(f)
    PROVE  IInv'
<1> USE StorageAssumption
        DEF ForceFlush, Goto, engine, mvcc, freeze, reading, Threads,
            Flushers, Freezers
<1>0. TypeOK /\ PcByRole /\ LocksHeld /\ WriteInProgress /\ IdsInState /\
      CopyIsCurrent /\ FlushingIsFrozen /\ FlushedContentIsFinal
  BY DEF IInv
<1>1. TypeOK'
  BY <1>0 DEF TypeOK, Ids, PcLabels
<1>2. PcByRole'
  BY <1>0 DEF TypeOK, Ids, PcLabels, PcByRole, FreezeLabels, FlushLabels
<1>3. LocksHeld'
  BY <1>0 DEF TypeOK, Ids, PcLabels, LocksHeld, InStateLock, InWrite, FreezeLabels
<1>4. WriteInProgress'
  BY <1>0 DEF TypeOK, Ids, PcLabels, WriteInProgress, InWrite, FreezeLabels
<1>5. IdsInState'
  BY <1>0 DEF TypeOK, Ids, PcLabels, IdsInState, IdsNamed
<1>6. CopyIsCurrent'
  BY <1>0 DEF TypeOK, Ids, PcLabels, CopyIsCurrent, Preparing
<1>7. FlushingIsFrozen'
  BY <1>0 DEF TypeOK, Ids, PcLabels, FlushingIsFrozen
<1>8. FlushedContentIsFinal'
  BY <1>0 DEF TypeOK, Ids, PcLabels, FlushedContentIsFinal
<1> QED BY <1>1, <1>2, <1>3, <1>4, <1>5, <1>6, <1>7, <1>8 DEF IInv

LEMMA ForceFlushCheckInv ==
    ASSUME IInv, NEW f \in Forcers, ForceFlushCheck(f)
    PROVE  IInv'
<1> USE StorageAssumption
        DEF ForceFlushCheck, Goto, engine, mvcc, freeze, reading, Threads,
            Flushers, Freezers
<1>0. TypeOK /\ PcByRole /\ LocksHeld /\ WriteInProgress /\ IdsInState /\
      CopyIsCurrent /\ FlushingIsFrozen /\ FlushedContentIsFinal
  BY DEF IInv
<1>1. TypeOK'
  BY <1>0 DEF TypeOK, Ids, PcLabels
<1>2. PcByRole'
  BY <1>0 DEF TypeOK, Ids, PcLabels, PcByRole, FreezeLabels, FlushLabels
<1>3. LocksHeld'
  BY <1>0 DEF TypeOK, Ids, PcLabels, LocksHeld, InStateLock, InWrite, FreezeLabels
<1>4. WriteInProgress'
  BY <1>0 DEF TypeOK, Ids, PcLabels, WriteInProgress, InWrite, FreezeLabels
<1>5. IdsInState'
  BY <1>0 DEF TypeOK, Ids, PcLabels, IdsInState, IdsNamed
<1>6. CopyIsCurrent'
  BY <1>0 DEF TypeOK, Ids, PcLabels, CopyIsCurrent, Preparing
<1>7. FlushingIsFrozen'
  BY <1>0 DEF TypeOK, Ids, PcLabels, FlushingIsFrozen
<1>8. FlushedContentIsFinal'
  BY <1>0 DEF TypeOK, Ids, PcLabels, FlushedContentIsFinal
<1> QED BY <1>1, <1>2, <1>3, <1>4, <1>5, <1>6, <1>7, <1>8 DEF IInv

LEMMA TriggerFlushInv ==
    ASSUME IInv, TriggerFlush
    PROVE  IInv'
<1> USE StorageAssumption
        DEF TriggerFlush, Goto, engine, mvcc, freeze, reading, Threads,
            Flushers, Freezers
<1>0. TypeOK /\ PcByRole /\ LocksHeld /\ WriteInProgress /\ IdsInState /\
      CopyIsCurrent /\ FlushingIsFrozen /\ FlushedContentIsFinal
  BY DEF IInv
<1>1. TypeOK'
  BY <1>0 DEF TypeOK, Ids, PcLabels
<1>2. PcByRole'
  BY <1>0 DEF TypeOK, Ids, PcLabels, PcByRole, FreezeLabels, FlushLabels
<1>3. LocksHeld'
  BY <1>0 DEF TypeOK, Ids, PcLabels, LocksHeld, InStateLock, InWrite, FreezeLabels
<1>4. WriteInProgress'
  BY <1>0 DEF TypeOK, Ids, PcLabels, WriteInProgress, InWrite, FreezeLabels
<1>5. IdsInState'
  BY <1>0 DEF TypeOK, Ids, PcLabels, IdsInState, IdsNamed
<1>6. CopyIsCurrent'
  BY <1>0 DEF TypeOK, Ids, PcLabels, CopyIsCurrent, Preparing
<1>7. FlushingIsFrozen'
  BY <1>0 DEF TypeOK, Ids, PcLabels, FlushingIsFrozen
<1>8. FlushedContentIsFinal'
  BY <1>0 DEF TypeOK, Ids, PcLabels, FlushedContentIsFinal
<1> QED BY <1>1, <1>2, <1>3, <1>4, <1>5, <1>6, <1>7, <1>8 DEF IInv

LEMMA FlushPickInv ==
    ASSUME IInv, NEW t \in Flushers, FlushPick(t)
    PROVE  IInv'
<1> USE StorageAssumption
        DEF FlushPick, Goto, engine, mvcc, freeze, reading, Threads, Flushers,
            Freezers
<1>0. TypeOK /\ PcByRole /\ LocksHeld /\ WriteInProgress /\ IdsInState /\
      CopyIsCurrent /\ FlushingIsFrozen /\ FlushedContentIsFinal
  BY DEF IInv
<1>a. ASSUME state.imm_memtables # <<>>
      PROVE  /\ Last(state.imm_memtables) \in Ids \ {state.memtable}
             /\ Last(state.imm_memtables) = state.imm_memtables[Len(state.imm_memtables)]
             /\ Len(state.imm_memtables) \in DOMAIN state.imm_memtables
  <2>1. state.imm_memtables \in Seq(Nat)
    BY <1>0 DEF TypeOK, States
  <2> HIDE DEF FlushPick
  <2>2. Last(state.imm_memtables) = state.imm_memtables[Len(state.imm_memtables)]
        /\ Len(state.imm_memtables) \in DOMAIN state.imm_memtables
    BY <1>a, <2>1, FrontLastProperties
  <2> QED BY <1>0, <2>2 DEF IdsInState, IdsNamed
<1>b. \/ /\ state.imm_memtables # <<>>
         /\ pc' = [pc EXCEPT ![t] = "flush_build"]
         /\ flush_id' = [flush_id EXCEPT ![t] = Last(state.imm_memtables)]
      \/ /\ pc' = [pc EXCEPT ![t] = "idle"]
         /\ flush_id' = flush_id
  BY <1>0
<1>c. /\ pc[t] = "flush_pick"
      /\ UNCHANGED <<engine, mvcc, freeze, reading, faults>>
  OBVIOUS
<1> HIDE DEF FlushPick
<1>1. TypeOK'
  <2>1. pc' \in [Threads -> PcLabels]
    BY <1>0, <1>b DEF TypeOK, PcLabels
  <2>2. flush_id' \in [Flushers -> Nat \cup {Nil}]
    <3>1. Ids \subseteq Nat /\ flush_id \in [Flushers -> Nat \cup {Nil}]
      BY <1>0 DEF TypeOK, Ids
    <3>2. CASE state.imm_memtables # <<>>
      <4>1. Last(state.imm_memtables) \in Nat
        BY <1>a, <3>1, <3>2
      <4> QED BY <1>b, <3>1, <4>1
    <3>3. CASE state.imm_memtables = <<>>
      BY <1>b, <3>1, <3>3
    <3> QED BY <3>2, <3>3
  <2> QED BY <1>0, <1>c, <2>1, <2>2 DEF TypeOK, Ids
<1>2. PcByRole'
  <2>1. \A u \in Threads : u # t => pc'[u] = pc[u]
    BY <1>0, <1>b DEF TypeOK
  <2>2. pc'[t] \in {"flush_build", "idle"}
    BY <1>0, <1>b DEF TypeOK
  <2>3. \A u \in Writers \cup Readers : u # t
    OBVIOUS
  <2> QED BY <1>0, <2>1, <2>2, <2>3 DEF PcByRole, FreezeLabels, FlushLabels
<1>3. LocksHeld'
  BY SMTT(20), <1>0, <1>b, <1>c DEF TypeOK, LocksHeld, InStateLock, InWrite, FreezeLabels
<1>4. WriteInProgress'
  <2>1. \A w \in Writers : pc'[w] = pc[w]
    BY <1>0, <1>b DEF TypeOK
  <2> QED BY <1>0, <1>c, <2>1 DEF WriteInProgress, InWrite
<1>5. IdsInState'
  BY <1>0, <1>c DEF IdsInState, Ids
<1>6. CopyIsCurrent'
  <2>1. \A u \in Freezers : Preparing(u)' => Preparing(u)
    BY <1>0, <1>b DEF TypeOK, Preparing
  <2>2. \A u \in Flushers :
            \/ flush_id'[u] = flush_id[u]
            \/ \E i \in DOMAIN state.imm_memtables : flush_id'[u] = state.imm_memtables[i]
    BY <1>0, <1>a, <1>b DEF TypeOK
  <2> QED BY <1>0, <1>c, <2>1, <2>2 DEF CopyIsCurrent, Ids
<1>7. FlushingIsFrozen'
  <2>1. \A u \in Flushers : u # t => pc'[u] = pc[u] /\ flush_id'[u] = flush_id[u]
    BY <1>0, <1>b DEF TypeOK
  <2>2. \/ pc'[t] = "idle" /\ flush_id'[t] = flush_id[t]
        \/ pc'[t] = "flush_build" /\ flush_id'[t] \in Ids \ {state.memtable}
    BY <1>0, <1>a, <1>b DEF TypeOK
  <2> QED BY <1>0, <1>c, <2>1, <2>2 DEF FlushingIsFrozen, Ids
<1>8. FlushedContentIsFinal'
  BY <1>0, <1>c DEF FlushedContentIsFinal
<1> QED BY <1>1, <1>2, <1>3, <1>4, <1>5, <1>6, <1>7, <1>8 DEF IInv

LEMMA FlushBuildInv ==
    ASSUME IInv, NEW t \in Flushers, FlushBuild(t)
    PROVE  IInv'
<1> USE StorageAssumption
        DEF FlushBuild, Goto, engine, mvcc, freeze, reading, Threads,
            Flushers, Freezers
<1>0. TypeOK /\ PcByRole /\ LocksHeld /\ WriteInProgress /\ IdsInState /\
      CopyIsCurrent /\ FlushingIsFrozen /\ FlushedContentIsFinal
  BY DEF IInv
<1>1. TypeOK'
  BY <1>0 DEF TypeOK, Ids, PcLabels
<1>2. PcByRole'
  BY <1>0 DEF TypeOK, Ids, PcLabels, PcByRole, FreezeLabels, FlushLabels
<1>3. LocksHeld'
  BY <1>0 DEF TypeOK, Ids, PcLabels, LocksHeld, InStateLock, InWrite, FreezeLabels
<1>4. WriteInProgress'
  BY <1>0 DEF TypeOK, Ids, PcLabels, WriteInProgress, InWrite, FreezeLabels
<1>5. IdsInState'
  BY <1>0 DEF TypeOK, Ids, PcLabels, IdsInState, IdsNamed
<1>6. CopyIsCurrent'
  BY <1>0 DEF TypeOK, Ids, PcLabels, CopyIsCurrent, Preparing
<1>7. FlushingIsFrozen'
  BY <1>0 DEF TypeOK, Ids, PcLabels, FlushingIsFrozen
<1>8. FlushedContentIsFinal'
  BY <1>0 DEF TypeOK, Ids, PcLabels, FlushedContentIsFinal
<1> QED BY <1>1, <1>2, <1>3, <1>4, <1>5, <1>6, <1>7, <1>8 DEF IInv

LEMMA FlushFailsInv ==
    ASSUME IInv, NEW t \in Flushers, FlushFails(t)
    PROVE  IInv'
<1> USE StorageAssumption
        DEF FlushFails, Goto, engine, mvcc, freeze, reading, Threads,
            Flushers, Freezers
<1>0. TypeOK /\ PcByRole /\ LocksHeld /\ WriteInProgress /\ IdsInState /\
      CopyIsCurrent /\ FlushingIsFrozen /\ FlushedContentIsFinal
  BY DEF IInv
<1>1. TypeOK'
  <2>1. faults' \in 0 .. MaxFaults
    BY <1>0, FaultType
  <2>2. pc' \in [Threads -> PcLabels] /\ flush_id' \in [Flushers -> Nat \cup {Nil}]
    BY <1>0 DEF TypeOK, PcLabels
  <2> QED BY <1>0, <2>1, <2>2 DEF TypeOK, Ids
<1>2. PcByRole'
  BY <1>0 DEF TypeOK, Ids, PcLabels, PcByRole, FreezeLabels, FlushLabels
<1>3. LocksHeld'
  BY <1>0 DEF TypeOK, Ids, PcLabels, LocksHeld, InStateLock, InWrite, FreezeLabels
<1>4. WriteInProgress'
  BY <1>0 DEF TypeOK, Ids, PcLabels, WriteInProgress, InWrite, FreezeLabels
<1>5. IdsInState'
  BY <1>0 DEF TypeOK, Ids, PcLabels, IdsInState, IdsNamed
<1>6. CopyIsCurrent'
  <2>1. \A u \in Freezers : Preparing(u)' => Preparing(u)
    BY <1>0 DEF TypeOK, Preparing
  <2>2. \A u \in Flushers : flush_id'[u] = flush_id[u] \/ flush_id'[u] = Nil
    BY <1>0 DEF TypeOK
  <2> QED BY <1>0, <2>1, <2>2 DEF CopyIsCurrent, Ids
<1>7. FlushingIsFrozen'
  BY <1>0 DEF TypeOK, Ids, PcLabels, FlushingIsFrozen
<1>8. FlushedContentIsFinal'
  BY <1>0 DEF TypeOK, Ids, PcLabels, FlushedContentIsFinal
<1> QED BY <1>1, <1>2, <1>3, <1>4, <1>5, <1>6, <1>7, <1>8 DEF IInv

LEMMA FlushLockInv ==
    ASSUME IInv, NEW t \in Flushers, FlushLock(t)
    PROVE  IInv'
<1> USE StorageAssumption
        DEF FlushLock, Goto, engine, mvcc, freeze, reading, Threads, Flushers,
            Freezers
<1>0. TypeOK /\ PcByRole /\ LocksHeld /\ WriteInProgress /\ IdsInState /\
      CopyIsCurrent /\ FlushingIsFrozen /\ FlushedContentIsFinal
  BY DEF IInv
<1>1. TypeOK'
  BY <1>0 DEF TypeOK, Ids, PcLabels
<1>2. PcByRole'
  BY <1>0 DEF TypeOK, Ids, PcLabels, PcByRole, FreezeLabels, FlushLabels
<1>3. LocksHeld'
  BY <1>0 DEF TypeOK, Ids, PcLabels, LocksHeld, InStateLock, InWrite, FreezeLabels
<1>4. WriteInProgress'
  BY <1>0 DEF TypeOK, Ids, PcLabels, WriteInProgress, InWrite, FreezeLabels
<1>5. IdsInState'
  BY <1>0 DEF TypeOK, Ids, PcLabels, IdsInState, IdsNamed
<1>6. CopyIsCurrent'
  BY <1>0 DEF TypeOK, Ids, PcLabels, CopyIsCurrent, Preparing
<1>7. FlushingIsFrozen'
  BY <1>0 DEF TypeOK, Ids, PcLabels, FlushingIsFrozen
<1>8. FlushedContentIsFinal'
  BY <1>0 DEF TypeOK, Ids, PcLabels, FlushedContentIsFinal
<1> QED BY <1>1, <1>2, <1>3, <1>4, <1>5, <1>6, <1>7, <1>8 DEF IInv

LEMMA FlushInstallInv ==
    ASSUME IInv, NEW t \in Flushers, FlushInstall(t)
    PROVE  IInv'
<1> USE StorageAssumption
        DEF FlushInstall, Goto, engine, mvcc, freeze, reading, Threads,
            Flushers, Freezers
<1>0. TypeOK /\ PcByRole /\ LocksHeld /\ WriteInProgress /\ IdsInState /\
      CopyIsCurrent /\ FlushingIsFrozen /\ FlushedContentIsFinal
  BY DEF IInv
<1> DEFINE id == flush_id[t]
<1>a. id \in Ids \ {state.memtable} /\ sst_tables[id] = memtables[id]
  BY <1>0 DEF FlushingIsFrozen
<1>b. state.imm_memtables # <<>> /\ Last(state.imm_memtables) = id
  BY DEF FlushIsOldest
<1>c. id \in Nat /\ state \in States /\ Ids \in SUBSET Nat /\ Ids' = Ids
      /\ state' = Flushed(state, id)
  BY <1>0, <1>a DEF TypeOK, Ids
<1>d. \A u \in Freezers : ~ Preparing(u)'
  BY <1>0 DEF TypeOK, PcByRole, LocksHeld, InStateLock, Preparing
<1>e. manifest' \in Seq(ManifestRecords)
  <2>1. [kind |-> "Flush", id |-> id] \in ManifestRecords
    BY <1>c DEF ManifestRecords
  <2>2. manifest' = manifest \/ manifest' = Append(manifest, [kind |-> "Flush", id |-> id])
    OBVIOUS
  <2>3. manifest \in Seq(ManifestRecords)
    BY <1>0 DEF TypeOK
  <2> HIDE DEF FlushInstall, id
  <2> QED BY <2>1, <2>2, <2>3
<1> HIDE DEF id
<1>f. /\ state' \in States
      /\ state'.memtable = state.memtable
      /\ state'.sstables = state.sstables \cup {id}
  <2> HIDE DEF FlushInstall
  <2> QED BY <1>b, <1>c, FlushedType
<1>1. TypeOK'
  <2>1. faults' \in 0 .. MaxFaults
    <3>1. faults' = faults \/ Fault
      OBVIOUS
    <3>2. faults \in 0 .. MaxFaults
      BY <1>0 DEF TypeOK
    <3>3. Fault => faults' \in 0 .. MaxFaults
      BY <1>0, FaultType
    <3> HIDE DEF FlushInstall
    <3> QED BY <3>1, <3>2, <3>3
  <2>2. pc' \in [Threads -> PcLabels] /\ flush_id' \in [Flushers -> Nat \cup {Nil}]
    BY <1>0 DEF TypeOK, PcLabels
  <2> QED BY <1>0, <1>e, <1>f, <2>1, <2>2 DEF TypeOK, Ids
<1>2. PcByRole'
  BY <1>0 DEF TypeOK, Ids, PcLabels, PcByRole, FreezeLabels, FlushLabels
<1>3. LocksHeld'
  BY <1>0 DEF TypeOK, Ids, PcLabels, LocksHeld, InStateLock, InWrite, FreezeLabels
<1>4. WriteInProgress'
  BY <1>0 DEF TypeOK, Ids, PcLabels, WriteInProgress, InWrite, FreezeLabels
<1>5. IdsInState'
  <2> HIDE DEF FlushInstall
  <2> QED BY <1>0, <1>a, <1>b, <1>c, FlushedIds DEF IdsInState
<1>6. CopyIsCurrent'
  BY <1>d DEF CopyIsCurrent
<1>7. FlushingIsFrozen'
  BY <1>0, <1>f DEF TypeOK, FlushingIsFrozen, Ids
<1>8. FlushedContentIsFinal'
  BY <1>0, <1>a, <1>f DEF FlushedContentIsFinal
<1> QED BY <1>1, <1>2, <1>3, <1>4, <1>5, <1>6, <1>7, <1>8 DEF IInv

LEMMA FlushPanicsInv ==
    ASSUME IInv, NEW t \in Flushers, FlushPanics(t)
    PROVE  IInv'
<1> USE StorageAssumption
        DEF FlushPanics, Goto, engine, mvcc, freeze, reading, Threads,
            Flushers, Freezers
<1>0. TypeOK /\ PcByRole /\ LocksHeld /\ WriteInProgress /\ IdsInState /\
      CopyIsCurrent /\ FlushingIsFrozen /\ FlushedContentIsFinal
  BY DEF IInv
<1>1. TypeOK'
  BY <1>0 DEF TypeOK, Ids, PcLabels
<1>2. PcByRole'
  BY <1>0 DEF TypeOK, Ids, PcLabels, PcByRole, FreezeLabels, FlushLabels
<1>3. LocksHeld'
  BY <1>0 DEF TypeOK, Ids, PcLabels, LocksHeld, InStateLock, InWrite, FreezeLabels
<1>4. WriteInProgress'
  BY <1>0 DEF TypeOK, Ids, PcLabels, WriteInProgress, InWrite, FreezeLabels
<1>5. IdsInState'
  BY <1>0 DEF TypeOK, Ids, PcLabels, IdsInState, IdsNamed
<1>6. CopyIsCurrent'
  <2>1. \A u \in Freezers : Preparing(u)' => Preparing(u)
    BY <1>0 DEF TypeOK, Preparing
  <2>2. \A u \in Flushers : flush_id'[u] = flush_id[u] \/ flush_id'[u] = Nil
    BY <1>0 DEF TypeOK
  <2> QED BY <1>0, <2>1, <2>2 DEF CopyIsCurrent, Ids
<1>7. FlushingIsFrozen'
  BY <1>0 DEF TypeOK, Ids, PcLabels, FlushingIsFrozen
<1>8. FlushedContentIsFinal'
  BY <1>0 DEF TypeOK, Ids, PcLabels, FlushedContentIsFinal
<1> QED BY <1>1, <1>2, <1>3, <1>4, <1>5, <1>6, <1>7, <1>8 DEF IInv

LEMMA NewTxnInv ==
    ASSUME IInv, NEW r \in Readers, NewTxn(r)
    PROVE  IInv'
<1> USE StorageAssumption
        DEF NewTxn, Goto, engine, mvcc, freeze, reading, Threads, Flushers,
            Freezers
<1>0. TypeOK /\ PcByRole /\ LocksHeld /\ WriteInProgress /\ IdsInState /\
      CopyIsCurrent /\ FlushingIsFrozen /\ FlushedContentIsFinal
  BY DEF IInv
<1>1. TypeOK'
  BY <1>0 DEF TypeOK, Ids, PcLabels
<1>2. PcByRole'
  BY <1>0 DEF TypeOK, Ids, PcLabels, PcByRole, FreezeLabels, FlushLabels
<1>3. LocksHeld'
  BY <1>0 DEF TypeOK, Ids, PcLabels, LocksHeld, InStateLock, InWrite, FreezeLabels
<1>4. WriteInProgress'
  BY <1>0 DEF TypeOK, Ids, PcLabels, WriteInProgress, InWrite, FreezeLabels
<1>5. IdsInState'
  BY <1>0 DEF TypeOK, Ids, PcLabels, IdsInState, IdsNamed
<1>6. CopyIsCurrent'
  BY <1>0 DEF TypeOK, Ids, PcLabels, CopyIsCurrent, Preparing
<1>7. FlushingIsFrozen'
  BY <1>0 DEF TypeOK, Ids, PcLabels, FlushingIsFrozen
<1>8. FlushedContentIsFinal'
  BY <1>0 DEF TypeOK, Ids, PcLabels, FlushedContentIsFinal
<1> QED BY <1>1, <1>2, <1>3, <1>4, <1>5, <1>6, <1>7, <1>8 DEF IInv

LEMMA ReadSnapshotInv ==
    ASSUME IInv, NEW r \in Readers, ReadSnapshot(r)
    PROVE  IInv'
<1> USE StorageAssumption
        DEF ReadSnapshot, Goto, engine, mvcc, freeze, reading, Threads,
            Flushers, Freezers
<1>0. TypeOK /\ PcByRole /\ LocksHeld /\ WriteInProgress /\ IdsInState /\
      CopyIsCurrent /\ FlushingIsFrozen /\ FlushedContentIsFinal
  BY DEF IInv
<1>1. TypeOK'
  BY <1>0 DEF TypeOK, Ids, PcLabels
<1>2. PcByRole'
  BY <1>0 DEF TypeOK, Ids, PcLabels, PcByRole, FreezeLabels, FlushLabels
<1>3. LocksHeld'
  BY <1>0 DEF TypeOK, Ids, PcLabels, LocksHeld, InStateLock, InWrite, FreezeLabels
<1>4. WriteInProgress'
  BY <1>0 DEF TypeOK, Ids, PcLabels, WriteInProgress, InWrite, FreezeLabels
<1>5. IdsInState'
  BY <1>0 DEF TypeOK, Ids, PcLabels, IdsInState, IdsNamed
<1>6. CopyIsCurrent'
  BY <1>0 DEF TypeOK, Ids, PcLabels, CopyIsCurrent, Preparing
<1>7. FlushingIsFrozen'
  BY <1>0 DEF TypeOK, Ids, PcLabels, FlushingIsFrozen
<1>8. FlushedContentIsFinal'
  BY <1>0 DEF TypeOK, Ids, PcLabels, FlushedContentIsFinal
<1> QED BY <1>1, <1>2, <1>3, <1>4, <1>5, <1>6, <1>7, <1>8 DEF IInv

LEMMA ReadEndInv ==
    ASSUME IInv, NEW r \in Readers, ReadEnd(r)
    PROVE  IInv'
<1> USE StorageAssumption
        DEF ReadEnd, Goto, engine, mvcc, freeze, reading, Threads, Flushers,
            Freezers
<1>0. TypeOK /\ PcByRole /\ LocksHeld /\ WriteInProgress /\ IdsInState /\
      CopyIsCurrent /\ FlushingIsFrozen /\ FlushedContentIsFinal
  BY DEF IInv
<1>1. TypeOK'
  <2>1. pc' \in [Threads -> PcLabels]
    BY <1>0 DEF TypeOK, PcLabels
  <2>2. 0 \in 0 .. MaxTs
    BY TablesAssumption
  <2>3. read_ts' \in [Readers -> 0 .. MaxTs]
    <3>1. read_ts' = read_ts \/ read_ts' = [read_ts EXCEPT ![r] = 0]
      OBVIOUS
    <3>2. read_ts \in [Readers -> 0 .. MaxTs]
      BY <1>0 DEF TypeOK
    <3>3. CASE read_ts' = read_ts
      BY <3>2, <3>3
    <3>4. CASE read_ts' = [read_ts EXCEPT ![r] = 0]
      BY <2>2, <3>2, <3>4
    <3> QED BY <3>1, <3>3, <3>4
  <2> QED BY <1>0, <2>1, <2>3 DEF TypeOK, Ids
<1>2. PcByRole'
  BY <1>0 DEF TypeOK, Ids, PcLabels, PcByRole, FreezeLabels, FlushLabels
<1>3. LocksHeld'
  BY <1>0 DEF TypeOK, Ids, PcLabels, LocksHeld, InStateLock, InWrite, FreezeLabels
<1>4. WriteInProgress'
  BY <1>0, ZenonT(40)
     DEF TypeOK, Ids, PcLabels, WriteInProgress, InWrite, FreezeLabels
<1>5. IdsInState'
  BY <1>0 DEF TypeOK, Ids, PcLabels, IdsInState, IdsNamed
<1>6. CopyIsCurrent'
  <2>1. \A t \in Freezers : pc'[t] = pc[t]
    BY <1>0 DEF TypeOK
  <2> QED BY <1>0, <2>1 DEF CopyIsCurrent, Preparing, Ids
<1>7. FlushingIsFrozen'
  <2>1. \A u \in Flushers : pc'[u] = pc[u]
    BY <1>0 DEF TypeOK
  <2> QED BY <1>0, <2>1 DEF FlushingIsFrozen, Ids
<1>8. FlushedContentIsFinal'
  BY <1>0 DEF TypeOK, Ids, PcLabels, FlushedContentIsFinal
<1> QED BY <1>1, <1>2, <1>3, <1>4, <1>5, <1>6, <1>7, <1>8 DEF IInv

-------------------------------------------------------------------------------
(* The invariant holds initially, and every step keeps it.                 *)
LEMMA InitInv ==
    ASSUME Init
    PROVE  IInv
<1> USE StorageAssumption, TablesAssumption
        DEF Init, InitState, Ids, Threads, Flushers, Freezers
<1>1. TypeOK
  <2>1. state \in States
    <3> DEFINE NoIds == <<>>
    <3>0. NoIds \in Seq(Nat)
      OBVIOUS
    <3>1. NoIds \in Seq(Nat) /\ <<1, NoIds>> \in Nat \X Seq(Nat)
      BY <3>0
    <3> DEFINE NoLevels == <<>>
               EmptyLevels == [i \in 1 .. MaxLevels |-> <<i, NoIds>>]
    <3>2. EmptyLevels \in Seq(Nat \X Seq(Nat)) /\ NoLevels \in Seq(Nat \X Seq(Nat))
      <4>0. MaxLevels \in Nat
        OBVIOUS
      <4>1. \A i \in 1 .. MaxLevels : <<i, NoIds>> \in Nat \X Seq(Nat)
        <5> HIDE DEF NoIds, Init, InitState
        <5> QED BY <3>0, <4>0
      <4>2. EmptyLevels \in [1 .. MaxLevels -> Nat \X Seq(Nat)]
        BY <4>1
      <4> DEFINE Level == Nat \X Seq(Nat)
      <4>4. EmptyLevels \in [1 .. MaxLevels -> Level]
        BY <4>2
      <4>5. NoLevels \in Seq(Level)
        OBVIOUS
      <4> HIDE DEF EmptyLevels, NoLevels, Level, Init, InitState
      <4>6. EmptyLevels \in Seq(Level)
        BY <4>0, <4>4
      <4> QED BY <4>5, <4>6 DEF Level
    <3>3. state.levels = EmptyLevels \/ state.levels = NoLevels
      OBVIOUS
    <3>4. state.levels \in Seq(Nat \X Seq(Nat))
      <4> HIDE DEF EmptyLevels, NoLevels, Init, InitState
      <4> QED BY <3>2, <3>3
    <3>5. /\ state.memtable \in Nat
          /\ state.imm_memtables \in Seq(Nat)
          /\ state.l0_sstables \in Seq(Nat)
          /\ state.sstables \in SUBSET Nat
      OBVIOUS
    <3>6. state = [memtable |-> state.memtable,
                   imm_memtables |-> state.imm_memtables,
                   l0_sstables |-> state.l0_sstables,
                   levels |-> state.levels,
                   sstables |-> state.sstables]
      OBVIOUS
    <3> HIDE DEF Init, InitState
    <3> QED BY <3>4, <3>5, <3>6 DEF States
  <2>2. 0 .. next_sst_id - 1 = {0}
    OBVIOUS
  <2>3. memtables \in [Ids -> Tables] /\ sst_tables \in [Ids -> Tables]
    BY <2>2, EmptyTableType
  <2>4. approx_size \in [Ids -> Nat]
    BY <2>2
  <2>5. batch \in [Writers -> Seq(Records)] /\ manifest \in Seq(ManifestRecords)
    OBVIOUS
  <2> HIDE DEF InitState
  <2> QED BY <2>1, <2>3, <2>4, <2>5 DEF TypeOK, PcLabels
<1>2. PcByRole
  BY DEF PcByRole
<1>3. LocksHeld
  BY DEF LocksHeld, InStateLock, InWrite, FreezeLabels
<1>4. WriteInProgress
  BY DEF WriteInProgress, InWrite, FreezeLabels
<1>5. IdsInState
  BY DEF IdsInState, IdsNamed
<1>6. CopyIsCurrent
  BY DEF CopyIsCurrent, Preparing
<1>7. FlushingIsFrozen
  BY DEF FlushingIsFrozen
<1>8. FlushedContentIsFinal
  BY DEF FlushedContentIsFinal
<1> QED BY <1>1, <1>2, <1>3, <1>4, <1>5, <1>6, <1>7, <1>8 DEF IInv

LEMMA StutterInv ==
    ASSUME IInv, UNCHANGED vars
    PROVE  IInv'
<1> USE DEF vars, engine, mvcc, freeze, reading
<1>1. TypeOK'
  BY DEF IInv, TypeOK, Ids
<1>2. PcByRole' /\ LocksHeld' /\ WriteInProgress'
  BY DEF IInv, PcByRole, LocksHeld, InStateLock, WriteInProgress, InWrite
<1>3. IdsInState' /\ FlushingIsFrozen' /\ FlushedContentIsFinal'
  BY DEF IInv, IdsInState, FlushingIsFrozen, FlushedContentIsFinal, Ids
<1>4. CopyIsCurrent'
  BY DEF IInv, CopyIsCurrent, Preparing, Ids
<1> QED BY <1>1, <1>2, <1>3, <1>4 DEF IInv

LEMMA StepInv ==
    ASSUME IInv, [Next]_vars
    PROVE  IInv'
<1>1. ASSUME NEW w \in Writers, WriterStep(w)
      PROVE  IInv'
  BY <1>1, WriteBeginInv, PutRecordInv, TryFreezeInv, CommitInv DEF WriterStep
<1>2. ASSUME NEW t \in Freezers, FreezeStep(t)
      PROVE  IInv'
  BY <1>2, FreezeLockInv, FreezeCopyInv, FreezeRecordInv, FreezeFailsInv,
     FreezeSwapInv DEF FreezeStep
<1>3. ASSUME NEW f \in Forcers, ForceFlush(f) \/ ForceFlushCheck(f)
      PROVE  IInv'
  BY <1>3, ForceFlushInv, ForceFlushCheckInv
<1>4. CASE TriggerFlush
  BY <1>4, TriggerFlushInv
<1>5. ASSUME NEW t \in Flushers, FlushStep(t)
      PROVE  IInv'
  BY <1>5, FlushPickInv, FlushBuildInv, FlushFailsInv, FlushLockInv,
     FlushInstallInv, FlushPanicsInv DEF FlushStep
<1>6. ASSUME NEW r \in Readers, ReaderStep(r)
      PROVE  IInv'
  BY <1>6, NewTxnInv, ReadSnapshotInv, ReadEndInv DEF ReaderStep
<1>7. CASE UNCHANGED vars
  BY <1>7, StutterInv
<1> QED BY <1>1, <1>2, <1>3, <1>4, <1>5, <1>6, <1>7 DEF Next

-------------------------------------------------------------------------------
(* The theorems                                                            *)

(* Every variable of the engine keeps its type, and no state ever names an *)
(* id that next_sst_id.fetch_add has not handed out.                       *)
THEOREM TypeCorrect == Spec => []TypeOK
<1>1. Init => IInv
  BY InitInv
<1>2. IInv /\ [Next]_vars => IInv'
  BY StepInv
<1>3. IInv => TypeOK
  BY DEF IInv
<1> QED BY <1>1, <1>2, <1>3, PTL DEF Spec

THEOREM InvariantHolds == Spec => []IInv
<1>1. Init => IInv
  BY InitInv
<1>2. IInv /\ [Next]_vars => IInv'
  BY StepInv
<1> QED BY <1>1, <1>2, PTL DEF Spec

(* A memtable that force_flush_next_imm_memtable has installed as an SST   *)
(* never receives another record: the SST holds all the memtable will ever *)
(* hold, for any number of writers, flushers and failures.                 *)
THEOREM FlushedContentFinal == Spec => []FlushedContentIsFinal
<1>1. IInv => FlushedContentIsFinal
  BY DEF IInv
<1> QED BY <1>1, InvariantHolds, PTL

-------------------------------------------------------------------------------
(* Who replaces the state                                                  *)

(* Only the end of a freeze and the end of a flush do.                     *)
LEMMA StateStep ==
    ASSUME [Next]_vars
    PROVE  \/ state' = state
           \/ \E t \in Freezers : FreezeSwap(t)
           \/ \E t \in Flushers : FlushInstall(t)
<1> USE DEF engine
<1>1. ASSUME NEW w \in Writers, WriterStep(w) PROVE state' = state
  BY <1>1 DEF WriterStep, WriteBegin, PutRecord, TryFreeze, Commit
<1>2. ASSUME NEW t \in Freezers, FreezeStep(t) PROVE state' = state \/ FreezeSwap(t)
  BY <1>2 DEF FreezeStep, FreezeLock, FreezeCopy, FreezeRecord, FreezeFails
<1>3. ASSUME NEW f \in Forcers, ForceFlush(f) \/ ForceFlushCheck(f)
      PROVE  state' = state
  BY <1>3 DEF ForceFlush, ForceFlushCheck
<1>4. TriggerFlush => state' = state
  BY DEF TriggerFlush
<1>5. ASSUME NEW t \in Flushers, FlushStep(t) PROVE state' = state \/ FlushInstall(t)
  BY <1>5 DEF FlushStep, FlushPick, FlushBuild, FlushFails, FlushLock, FlushPanics
<1>6. ASSUME NEW r \in Readers, ReaderStep(r) PROVE state' = state
  BY <1>6 DEF ReaderStep, NewTxn, ReadSnapshot, ReadEnd
<1>7. UNCHANGED vars => state' = state
  BY DEF vars
<1> QED BY <1>1, <1>2, <1>3, <1>4, <1>5, <1>6, <1>7 DEF Next

(* What they replace it with.                                              *)
LEMMA FreezeSwapState ==
    ASSUME IInv, NEW t \in Freezers, FreezeSwap(t)
    PROVE  \E id \in Ids :
              /\ state' = Frozen(state, id) /\ id # state.memtable
              /\ id \notin state.sstables /\ memtables[id] = EmptyTable
              /\ new_state[t] = Frozen(state, id)
BY DEF IInv, CopyIsCurrent, Preparing, FreezeSwap

LEMMA StateFields ==
    ASSUME IInv, [Next]_vars
    PROVE  \/ state' = state
           \/ \E t \in Freezers, id \in Ids :
                /\ FreezeSwap(t)
                /\ state'.memtable = id
                /\ state'.imm_memtables = InsertFirst(state.memtable, state.imm_memtables)
                /\ state'.l0_sstables = state.l0_sstables
                /\ state'.levels = state.levels
                /\ state'.sstables = state.sstables
           \/ \E t \in Flushers :
                /\ FlushInstall(t)
                /\ flush_id[t] \in Ids
                /\ state.imm_memtables # <<>>
                /\ Last(state.imm_memtables) = flush_id[t]
                /\ state'.memtable = state.memtable
                /\ state'.imm_memtables = Front(state.imm_memtables)
                /\ state'.sstables = state.sstables \cup {flush_id[t]}
                /\ FlushToL0 =>
                        /\ state'.l0_sstables = InsertFirst(flush_id[t], state.l0_sstables)
                        /\ state'.levels = state.levels
                /\ ~ FlushToL0 => state'.l0_sstables = state.l0_sstables
<1>0. TypeOK /\ FlushingIsFrozen /\ state \in States /\ Ids \subseteq Nat
  BY DEF IInv, TypeOK, Ids
<1>1. ASSUME NEW t \in Freezers, FreezeSwap(t)
      PROVE  \E id \in Ids :
                /\ state'.memtable = id
                /\ state'.imm_memtables = InsertFirst(state.memtable, state.imm_memtables)
                /\ state'.l0_sstables = state.l0_sstables
                /\ state'.levels = state.levels
                /\ state'.sstables = state.sstables
  <2>1. PICK id \in Ids : state' = Frozen(state, id)
    BY <1>1, FreezeSwapState
  <2> QED BY <1>0, <2>1, FrozenType
<1>2. ASSUME NEW t \in Flushers, FlushInstall(t)
      PROVE  /\ flush_id[t] \in Ids
             /\ state.imm_memtables # <<>>
             /\ Last(state.imm_memtables) = flush_id[t]
             /\ state' = Flushed(state, flush_id[t])
  BY <1>0, <1>2 DEF FlushInstall, FlushIsOldest, FlushingIsFrozen
<1>3. ASSUME NEW t \in Flushers, FlushInstall(t)
      PROVE  /\ state'.memtable = state.memtable
             /\ state'.imm_memtables = Front(state.imm_memtables)
             /\ state'.sstables = state.sstables \cup {flush_id[t]}
             /\ FlushToL0 =>
                    /\ state'.l0_sstables = InsertFirst(flush_id[t], state.l0_sstables)
                    /\ state'.levels = state.levels
             /\ ~ FlushToL0 => state'.l0_sstables = state.l0_sstables
  <2>1. /\ state \in States /\ flush_id[t] \in Nat
        /\ state.imm_memtables # <<>> /\ state' = Flushed(state, flush_id[t])
    BY <1>0, <1>2, <1>3
  <2> QED BY <2>1, FlushedType
<1>4. CASE state' = state
  BY <1>4
<1>5. CASE \E t \in Freezers : FreezeSwap(t)
  BY <1>1, <1>5
<1>6. CASE \E t \in Flushers : FlushInstall(t)
  <2>1. PICK t \in Flushers : FlushInstall(t)
    BY <1>6
  <2> QED BY <1>2, <1>3, <2>1
<1> QED BY <1>4, <1>5, <1>6, StateStep

(* No step forgets a failure.                                              *)
LEMMA FaultsStep ==
    ASSUME [Next]_vars
    PROVE  faults' = faults \/ faults' = faults + 1
<1>1. ASSUME NEW w \in Writers, WriterStep(w) PROVE faults' = faults
  BY <1>1 DEF WriterStep, WriteBegin, PutRecord, TryFreeze, Commit
<1>2. ASSUME NEW t \in Freezers, FreezeStep(t) PROVE faults' = faults \/ faults' = faults + 1
  BY <1>2 DEF FreezeStep, FreezeLock, FreezeCopy, FreezeRecord, FreezeFails, FreezeSwap, Fault
<1>3. ASSUME NEW f \in Forcers, ForceFlush(f) \/ ForceFlushCheck(f) PROVE faults' = faults
  BY <1>3 DEF ForceFlush, ForceFlushCheck
<1>4. TriggerFlush => faults' = faults
  BY DEF TriggerFlush
<1>5. ASSUME NEW t \in Flushers, FlushStep(t) PROVE faults' = faults \/ faults' = faults + 1
  BY <1>5 DEF FlushStep, FlushPick, FlushBuild, FlushFails, FlushLock, FlushInstall,
              FlushPanics, Fault
<1>6. ASSUME NEW r \in Readers, ReaderStep(r) PROVE faults' = faults
  BY <1>6 DEF ReaderStep, NewTxn, ReadSnapshot, ReadEnd
<1>7. UNCHANGED vars => faults' = faults
  BY DEF vars
<1> QED BY <1>1, <1>2, <1>3, <1>4, <1>5, <1>6, <1>7 DEF Next

(* Under the tiered policy flushes go to the levels and L0 stays empty.    *)
TiersAlone == ~ FlushToL0 => state.l0_sstables = <<>>

LEMMA TiersAloneHolds == Spec => []TiersAlone
<1>1. Init => TiersAlone
  BY DEF Init, InitState, TiersAlone
<1>2. IInv /\ TiersAlone /\ [Next]_vars => TiersAlone'
  BY StateFields DEF TiersAlone
<1> QED BY <1>1, <1>2, InvariantHolds, PTL DEF Spec

-------------------------------------------------------------------------------
(* When only the flush thread flushes                                      *)

(* The memtable it picked stays the oldest until it has installed it:      *)
(* freezes push at the other end of imm_memtables.                         *)
FlushSolo ==
    pc[FlushThread] \in {"flush_build", "flush_lock", "flush_install"} =>
        state.imm_memtables # <<>> /\ Last(state.imm_memtables) = flush_id[FlushThread]

LEMMA LastOfInsertFirst ==
    ASSUME NEW s \in Seq(Nat), NEW x \in Nat, s # <<>>
    PROVE  InsertFirst(x, s) # <<>> /\ Last(InsertFirst(x, s)) = Last(s)
<1>1. Len(s) \in Nat \ {0}
  BY FrontLastProperties
<1>2. Len(InsertFirst(x, s)) = Len(s) + 1 /\ InsertFirst(x, s)[Len(s) + 1] = s[Len(s)]
  BY <1>1 DEF InsertFirst
<1> QED BY <1>1, <1>2 DEF Last

LEMMA FlushSoloStep ==
    ASSUME Forcers = {}, IInv, FlushSolo, NoFlushPanic, [Next]_vars
    PROVE  FlushSolo' /\ NoFlushPanic'
<1> USE StorageAssumption DEF Threads, Flushers, Freezers
<1> DEFINE ft == FlushThread
           Kept == /\ pc'[ft] = pc[ft] /\ flush_id' = flush_id
                   /\ state'.imm_memtables = state.imm_memtables
<1>0. TypeOK
  BY DEF IInv
<1>1. Kept => FlushSolo' /\ NoFlushPanic'
  BY DEF FlushSolo, NoFlushPanic
<1> USE DEF engine, mvcc, freeze, reading, Goto
<1>2. ASSUME NEW w \in Writers, WriterStep(w)
      PROVE  Kept
  BY <1>0, <1>2 DEF WriterStep, WriteBegin, PutRecord, TryFreeze, Commit, TypeOK
<1>3. ASSUME NEW t \in Freezers, FreezeLock(t) \/ FreezeCopy(t) \/ FreezeRecord(t)
                                  \/ FreezeFails(t)
      PROVE  Kept
  BY <1>0, <1>3 DEF FreezeLock, FreezeCopy, FreezeRecord, FreezeFails, TypeOK
<1>4. ASSUME NEW t \in Freezers, FreezeSwap(t)
      PROVE  FlushSolo' /\ NoFlushPanic'
  <2>1. pc'[ft] = pc[ft] /\ flush_id' = flush_id
    BY <1>0, <1>4 DEF FreezeSwap, TypeOK
  <2>2. PICK id \in Ids : state' = Frozen(state, id)
    BY <1>4 DEF IInv, CopyIsCurrent, Preparing, FreezeSwap
  <2>3. /\ state \in States /\ id \in Nat
        /\ state.imm_memtables \in Seq(Nat) /\ state.memtable \in Nat
    BY <1>0 DEF TypeOK, States, Ids
  <2>4. state'.imm_memtables = InsertFirst(state.memtable, state.imm_memtables)
    BY <2>2, <2>3, FrozenType
  <2> QED BY <2>1, <2>3, <2>4, LastOfInsertFirst DEF FlushSolo, NoFlushPanic
<1>5. ASSUME TriggerFlush
      PROVE  FlushSolo' /\ NoFlushPanic'
  BY <1>0, <1>5 DEF TriggerFlush, FlushSolo, NoFlushPanic, TypeOK
<1>6. ASSUME FlushPick(ft)
      PROVE  FlushSolo' /\ NoFlushPanic'
  BY <1>0, <1>6 DEF FlushPick, FlushSolo, NoFlushPanic, TypeOK
<1>7. ASSUME FlushBuild(ft) \/ FlushFails(ft) \/ FlushLock(ft)
      PROVE  FlushSolo' /\ NoFlushPanic'
  BY <1>0, <1>7 DEF FlushBuild, FlushFails, FlushLock, FlushSolo, NoFlushPanic, TypeOK
<1>8. ASSUME FlushInstall(ft)
      PROVE  FlushSolo' /\ NoFlushPanic'
  BY <1>0, <1>8 DEF FlushInstall, FlushSolo, NoFlushPanic, TypeOK
<1>9. ~ FlushPanics(ft)
  BY DEF FlushPanics, FlushIsOldest, FlushSolo
<1>10. ASSUME NEW r \in Readers, ReaderStep(r)
       PROVE  Kept
  BY <1>0, <1>10 DEF ReaderStep, NewTxn, ReadSnapshot, ReadEnd, TypeOK
<1>11. ASSUME UNCHANGED vars
       PROVE  Kept
  BY <1>11 DEF vars
<1> HIDE DEF Kept, Goto, engine, mvcc, freeze, reading
<1> QED BY <1>1, <1>2, <1>3, <1>4, <1>5, <1>6, <1>7, <1>8, <1>9, <1>10, <1>11
        DEF Next, FreezeStep, FlushStep

(* As long as nobody calls force_flush, pop().unwrap() and the assertion   *)
(* after it never fail, whatever the writers and failures do between       *)
(* picking the memtable and locking the state.                             *)
THEOREM NoPanicWithoutForceFlush ==
    ASSUME Forcers = {}
    PROVE  Spec => []NoFlushPanic
<1>1. Init => FlushSolo /\ NoFlushPanic
  BY StorageAssumption DEF Init, FlushSolo, NoFlushPanic, Threads, Flushers
<1>2. IInv /\ (FlushSolo /\ NoFlushPanic) /\ [Next]_vars => (FlushSolo /\ NoFlushPanic)'
  BY FlushSoloStep
<1> QED BY <1>1, <1>2, InvariantHolds, PTL DEF Spec
===============================================================================
