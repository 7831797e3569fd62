-------------------------- MODULE LsmCompactionProofs --------------------------
(***************************************************************************)
(* Theorems about LsmCompaction: for every policy, any number of writers,  *)
(* flushers, readers and compactors at work at the same time, levels,      *)
(* tiers, SSTs and I/O failures, up to the first installation that         *)
(* overtakes another one (Races).                                          *)
(***************************************************************************)
EXTENDS LsmCompaction, LsmReadProofs, SequenceTheorems

-------------------------------------------------------------------------------
(* The inductive invariant, by concern                                     *)

(* An SST that was built from what no insertion reaches any more: no       *)
(* memtable of its id is active or about to be.                            *)
Settled(id) ==
    /\ id \in Ids \ {state.memtable}
    /\ \A t \in Freezers : Preparing(t) => new_state[t].memtable # id
    /\ sst_tables[id] = memtables[id]

(* Every SST of the map is in one list, and no two levels share one.       *)
ListsApart(s) ==
    /\ Listed(s) = s.sstables
    /\ \A x, y \in IdsOf(s.levels) : x # y => IdsOf(x[2]) \cap IdsOf(y[2]) = {}
    /\ \A x \in IdsOf(s.levels) : IdsOf(s.l0_sstables) \cap IdsOf(x[2]) = {}

(* No element of a sequence is there twice.                                *)
Once(seq) == \A i, j \in DOMAIN seq : seq[i] = seq[j] => i = j

(* Levels are numbered from 1 on and never go away; a tier is never empty. *)
LevelsShape(s) ==
    /\ FlushToL0 => /\ Len(s.levels) = MaxLevels
                    /\ \A i \in DOMAIN s.levels : s.levels[i][1] = i
    /\ ~ FlushToL0 => /\ s.l0_sstables = <<>>
                      /\ \A x \in IdsOf(s.levels) : x[2] # <<>>
    /\ Once(s.levels)

(* A memtable is frozen once, and is no SST while it waits to be flushed.  *)
MemtablesOnce(s) ==
    /\ Once(s.imm_memtables)
    /\ IdsOf(s.imm_memtables) \cap s.sstables = {}

InOrder(s) == ListsApart(s) /\ LevelsShape(s) /\ MemtablesOnce(s)

FlushBuilt(t) == pc[t] \in {"flush_lock", "flush_install"}

(* A task takes SSTs that the state s lists.  What flushes add meanwhile   *)
(* does not keep it from fitting.                                          *)
FullFits(s, t) ==
    /\ t.kind = "full"
    /\ s.levels # <<>>
    /\ t.task.upper_level_sst_ids \in Seq(Nat) /\ t.task.lower_level_sst_ids \in Seq(Nat)
    /\ IdsOf(t.task.upper_level_sst_ids) \subseteq IdsOf(s.l0_sstables)
    /\ IdsOf(t.task.lower_level_sst_ids) \subseteq s.sstables
    /\ ~ FlushToL0 => t.task.lower_level_sst_ids # <<>>

UpperIds(s, up) == IF up = Policy!L0 THEN IdsOf(s.l0_sstables) ELSE IdsOf(s.levels[up][2])

LevelFits(s, t) ==
    /\ t.kind \in {"simple", "leveled"}
    /\ FlushToL0
    /\ t.task.upper_level \in 0 .. Len(s.levels)
    /\ t.task.lower_level \in 1 .. Len(s.levels)
    /\ t.task.upper_level # t.task.lower_level
    /\ t.task.upper_level_sst_ids \in Seq(Nat) /\ t.task.lower_level_sst_ids \in Seq(Nat)
    /\ IdsOf(t.task.upper_level_sst_ids) \subseteq UpperIds(s, t.task.upper_level)
    /\ IdsOf(t.task.lower_level_sst_ids) \subseteq IdsOf(s.levels[t.task.lower_level][2])
    /\ t.kind = "simple" =>
        /\ t.task.upper_level = Policy!L0 => t.task.lower_level = 1
        /\ t.task.upper_level # Policy!L0 =>
            t.task.upper_level_sst_ids = s.levels[t.task.upper_level][2]
        /\ t.task.lower_level_sst_ids = s.levels[t.task.lower_level][2]

TieredFits(s, t) ==
    /\ t.kind = "tiered"
    /\ ~ FlushToL0
    /\ t.task.tiers \in Seq(Nat \X Seq(Nat)) /\ t.task.tiers # <<>>
    /\ IdsOf(t.task.tiers) \subseteq IdsOf(s.levels)

TaskFits(s, t) == FullFits(s, t) \/ LevelFits(s, t) \/ TieredFits(s, t)

(* What a compaction of the task t leaves in place of the SSTs it took.    *)
Replaces(s, new, t, out) ==
    /\ new \in States
    /\ new.memtable = s.memtable
    /\ new.imm_memtables = s.imm_memtables
    /\ new.sstables = (s.sstables \ IdsOf(Inputs(t))) \cup IdsOf(out)
    /\ ListsApart(new)
    /\ LevelsShape(new)

(* What a compaction wrote: SSTs which hold what its inputs held, but for  *)
(* delete markers.                                                         *)
SameCells(ins, outs) ==
    \A c \in Cells :
        /\ \A o \in outs : memtables[o][c] # NoEntry =>
                \E i \in ins : memtables[i][c] = memtables[o][c]
        /\ (\E i \in ins : memtables[i][c] # NoEntry) =>
                \/ \E o \in outs : memtables[o][c] # NoEntry
                \/ \E i \in ins : memtables[i][c] = Tombstone

Produced(c) ==
    /\ ~ FlushToL0 => output[c] # <<>>
    /\ \A id \in IdsOf(Inputs(task[c])) : CellsOf(sst_tables[id]) # {}
    /\ SameCells(IdsOf(Inputs(task[c])), IdsOf(output[c]))

TaskOK(c) ==
    /\ HasTask(c) => /\ TaskFits(state, task[c])
                     /\ task[c].kind = "full" <=> c # CompactionThread
    /\ cpc[c] \in {"idle", "merge"} => output[c] = <<>>
    /\ cpc[c] \in {"copy", "install", "full_install"} => Produced(c)
    /\ cpc[c] \in {"copy", "install"} => c = CompactionThread
    /\ cpc[c] = "full_install" => c # CompactionThread
    /\ cpc[c] = "install" => removed_ssts[c] = Inputs(task[c])
    /\ cpc[c] \in {"idle", "panicked"} => removed_ssts[c] = <<>>

TasksOK == \A c \in Compactors : TaskOK(c)

(* The SSTs a compactor is about to bring in, or to take off the disk: each*)
(* has one owner.                                                          *)
InFlight(c) == IF HasTask(c) THEN IdsOf(output[c]) ELSE IdsOf(removed_ssts[c])

FlightsApart ==
    /\ \A c \in Compactors :
        /\ InFlight(c) \cap (state.sstables \cup IdsOf(state.imm_memtables)) = {}
        /\ \A id \in InFlight(c) : Settled(id)
    /\ \A c, d \in Compactors : c # d => InFlight(c) \cap InFlight(d) = {}

(* The disk holds the SSTs of the state and those on their way into it or  *)
(* out of it; after a failure, or a flush that another one overtook, it may*)
(* hold others.                                                            *)
FilesKept ==
    /\ files \subseteq Ids
    /\ state.sstables \subseteq files
    /\ \A t \in Flushers :
        FlushBuilt(t) /\ flush_id[t] \in IdsOf(state.imm_memtables) => flush_id[t] \in files
    /\ \A c \in Compactors : InFlight(c) \subseteq files
    /\ faults = 0 /\ (\A t \in Flushers : pc[t] # "panicked") =>
        \A id \in files :
            \/ id \in state.sstables
            \/ \E t \in Flushers : FlushBuilt(t) /\ id = flush_id[t]
            \/ \E c \in Compactors : id \in InFlight(c)

(* What a reader holds on to is settled.                                   *)
SnapshotSettled(r) ==
    /\ read_ts[r] <= commit_ts
    /\ pc[r] = "reading" =>
        /\ snapshot[r] \in States
        /\ IdsNamed(snapshot[r], Ids)
        /\ \A id \in snapshot[r].sstables : Settled(id)

SnapshotsSettled == \A r \in Readers : SnapshotSettled(r)

LocalTypes ==
    /\ policy \in Policies
    /\ cpc \in [Compactors -> {"idle", "merge", "copy", "install", "full_install",
                              "remove", "panicked"}]
    /\ DOMAIN task = Compactors
    /\ output \in [Compactors -> Seq(Ids)]
    /\ replacement \in [Compactors -> States \cup {Nil}]
    /\ removed_ssts \in [Compactors -> Seq(Ids)]

CompInv ==
    /\ IInv
    /\ LocalTypes
    /\ InOrder(state)
    /\ TasksOK
    /\ FlightsApart
    /\ FilesKept
    /\ SnapshotsSettled

(* Cells beyond the commit timestamp are in the active memtable, or in the *)
(* one its writer froze; layers that hold the same cell hold the same.     *)
Publishing == \E w \in Writers : pc[w] = "commit"

CellsPublished ==
    \A id \in LayerIds : \A c \in Cells :
        memtables[id][c] # NoEntry =>
            \/ c[2] <= commit_ts
            \/ (id = state.memtable \/ Publishing) /\ c[2] = commit_ts + 1

HoldersAgree ==
    \A c \in Cells : \A i, j \in LayerIds :
        memtables[i][c] # NoEntry /\ memtables[j][c] # NoEntry =>
            memtables[i][c] = memtables[j][c]

-------------------------------------------------------------------------------
(* Recursive functions on sequences                                        *)

(* A function of which every value comes from the one before exists.       *)
IsDefined(V, first, step, n) ==
    \E g \in [0 .. n -> V] :
        g[0] = first /\ \A i \in 1 .. n : g[i] = step[<<i, g[i - 1]>>]

LEMMA RecursionExists ==
    ASSUME NEW V, NEW first \in V, NEW step \in [Nat \X V -> V], NEW n \in Nat
    PROVE  IsDefined(V, first, step, n)
<1> DEFINE Defines(g, m) ==
              /\ g \in [0 .. m -> V] /\ g[0] = first
              /\ \A i \in 1 .. m : g[i] = step[<<i, g[i - 1]>>]
           bad == {m \in Nat : ~ \E g : Defines(g, m)}
<1>1. SUFFICES bad = {}
  BY DEF IsDefined
<1>2. SUFFICES ASSUME bad # {} PROVE FALSE
  OBVIOUS
<1>3. PICK m \in bad : \A k \in bad : m <= k
  <2> HIDE DEF bad
  <2>1. bad \in SUBSET Nat
    BY DEF bad
  <2> QED BY <1>2, <2>1, NatLeast
<1>4. m # 0
  <2>1. Defines([i \in 0 .. 0 |-> first], 0)
    OBVIOUS
  <2> HIDE DEF Defines
  <2> QED BY <1>3, <2>1
<1>5. m \in Nat /\ m - 1 \in Nat /\ m - 1 \notin bad
  BY <1>3, <1>4
<1>6. PICK g : Defines(g, m - 1)
  <2> HIDE DEF Defines
  <2> QED BY <1>5
<1> DEFINE h == [i \in 0 .. m |-> IF i = m THEN step[<<m, g[m - 1]>>] ELSE g[i]]
<1>7. h \in [0 .. m -> V]
  <2>1. g[m - 1] \in V
    BY <1>5, <1>6
  <2>2. step[<<m, g[m - 1]>>] \in V
    BY <1>5, <2>1
  <2>3. \A i \in 0 .. m : i # m => i \in 0 .. m - 1
    BY <1>5
  <2> QED BY <1>6, <2>2, <2>3
<1>8. h[0] = first
  BY <1>4, <1>5, <1>6
<1>9. ASSUME NEW i \in 1 .. m PROVE h[i] = step[<<i, h[i - 1]>>]
  <2>1. i - 1 \in 0 .. m /\ i - 1 # m /\ i \in 0 .. m
    BY <1>5, <1>9
  <2>2. h[i - 1] = g[i - 1]
    BY <2>1
  <2>3. CASE i = m
    BY <2>1, <2>2, <2>3
  <2>4. CASE i # m
    <3>1. i \in 1 .. m - 1
      BY <1>5, <1>9, <2>4
    <3>2. g[i] = step[<<i, g[i - 1]>>]
      BY <1>6, <3>1
    <3>3. h[i] = g[i]
      BY <2>1, <2>4
    <3> QED BY <2>2, <3>2, <3>3
  <2> QED BY <2>3, <2>4
<1>10. Defines(h, m)
  <2> HIDE DEF h
  <2> QED BY <1>7, <1>8, <1>9
<1> HIDE DEF Defines
<1> QED BY <1>3, <1>10

LEMMA AppendOnce ==
    ASSUME NEW S, NEW s \in Seq(S), NEW x \in S, x \notin IdsOf(s), Once(s),
           NEW t, t = Append(s, x)
    PROVE  Once(t)
<1>1. /\ DOMAIN t = 1 .. Len(s) + 1 /\ Len(s) \in Nat /\ DOMAIN s = 1 .. Len(s)
      /\ \A i \in 1 .. Len(s) : t[i] = s[i]
      /\ t[Len(s) + 1] = x
  OBVIOUS
<1>2. \A i \in 1 .. Len(s) : s[i] # x
  BY <1>1 DEF IdsOf
<1>3. \A i, j \in 1 .. Len(s) : s[i] = s[j] => i = j
  BY <1>1 DEF Once
<1>4. ASSUME NEW i \in 1 .. Len(s) + 1, NEW j \in 1 .. Len(s) + 1, t[i] = t[j]
      PROVE  i = j
  <2>1. (i \in 1 .. Len(s) \/ i = Len(s) + 1) /\ (j \in 1 .. Len(s) \/ j = Len(s) + 1)
    BY <1>1
  <2>2. CASE i \in 1 .. Len(s) /\ j \in 1 .. Len(s)
    BY <1>1, <1>3, <1>4, <2>2
  <2>3. CASE i \in 1 .. Len(s) /\ j = Len(s) + 1
    BY <1>1, <1>2, <1>4, <2>3
  <2>4. CASE i = Len(s) + 1 /\ j \in 1 .. Len(s)
    BY <1>1, <1>2, <1>4, <2>4
  <2> QED BY <2>1, <2>2, <2>3, <2>4
<1> QED BY ONLY <1>1, <1>4 DEF Once

(* Without leaves the elements it was not told to take out.                *)
LEMMA WithoutElements ==
    ASSUME NEW S, NEW seq \in Seq(S), NEW ids
    PROVE  /\ Policy!Without(seq, ids) \in Seq(S)
           /\ IdsOf(Policy!Without(seq, ids)) = IdsOf(seq) \ ids
           /\ Once(seq) => Once(Policy!Without(seq, ids))
<1> DEFINE n == Len(seq)
           step == [p \in Nat \X Seq(S) |->
                        IF p[1] \notin 1 .. n \/ seq[p[1]] \in ids THEN p[2]
                        ELSE Append(p[2], seq[p[1]])]
           Body(f) == [k \in 0 .. n |->
                        IF k = 0 THEN <<>>
                        ELSE IF seq[k] \in ids THEN f[k - 1] ELSE Append(f[k - 1], seq[k])]
           kept == CHOOSE f : f = Body(f)
<1>0. /\ n \in Nat /\ DOMAIN seq = 1 .. n /\ \A i \in 1 .. n : seq[i] \in S
  OBVIOUS
<1>1. Policy!Without(seq, ids) = kept[n]
  BY DEF Policy!Without
<1> HIDE DEF n
<1>2. PICK g \in [0 .. n -> Seq(S)] :
            g[0] = <<>> /\ \A i \in 1 .. n : g[i] = step[<<i, g[i - 1]>>]
  <2>1. ASSUME NEW p \in Nat \X Seq(S)
        PROVE  step[p] \in Seq(S)
    <3>1. p[1] \in Nat /\ p[2] \in Seq(S)
      OBVIOUS
    <3>2. CASE p[1] \notin 1 .. n \/ seq[p[1]] \in ids
      BY <3>1, <3>2
    <3>3. CASE ~ (p[1] \notin 1 .. n \/ seq[p[1]] \in ids)
      <4>1. Append(p[2], seq[p[1]]) \in Seq(S)
        BY <1>0, <3>1, <3>3
      <4> QED BY <3>3, <4>1
    <3> QED BY <3>2, <3>3
  <2>2. step \in [Nat \X Seq(S) -> Seq(S)]
    BY <2>1
  <2>3. <<>> \in Seq(S)
    OBVIOUS
  <2> HIDE DEF step
  <2>4. PICK V : V = Seq(S)
    OBVIOUS
  <2>5. step \in [Nat \X V -> V] /\ <<>> \in V /\ n \in Nat
    BY <1>0, <2>2, <2>3, <2>4
  <2>6. IsDefined(V, <<>>, step, n)
    BY <2>5, RecursionExists
  <2> QED BY <2>4, <2>6 DEF IsDefined
<1>3. g = Body(g)
  <2>1. ASSUME NEW k \in 0 .. n
        PROVE  g[k] = IF k = 0 THEN <<>>
                      ELSE IF seq[k] \in ids THEN g[k - 1] ELSE Append(g[k - 1], seq[k])
    <3>1. CASE k = 0
      BY <1>2, <3>1
    <3>2. CASE k # 0
      <4>1. k \in 1 .. n /\ k - 1 \in 0 .. n /\ k \in Nat
        BY <1>0, <3>2
      <4>2. g[k - 1] \in Seq(S) /\ <<k, g[k - 1]>> \in Nat \X Seq(S)
        BY <1>2, <4>1
      <4>3. g[k] = step[<<k, g[k - 1]>>]
        BY <1>2, <4>1
      <4> QED BY <3>2, <4>1, <4>2, <4>3
    <3> QED BY <3>1, <3>2
  <2>2. g = [k \in 0 .. n |-> g[k]]
    BY <1>2
  <2> HIDE DEF step
  <2> QED BY <2>1, <2>2
<1>4. kept = Body(kept)
  <2> HIDE DEF Body
  <2> QED BY <1>3
<1>5. /\ kept[0] = <<>>
      /\ \A k \in 1 .. n : kept[k] = IF seq[k] \in ids THEN kept[k - 1]
                                       ELSE Append(kept[k - 1], seq[k])
  <2> HIDE DEF kept
  <2>1. \A k \in 0 .. n : kept[k] = Body(kept)[k]
    BY <1>4
  <2>2. 0 \in 0 .. n /\ \A k \in 1 .. n : k \in 0 .. n /\ k # 0
    BY <1>0
  <2> QED BY <2>1, <2>2
<1> HIDE DEF kept, Body, step
<1> DEFINE Good(k) == /\ kept[k] \in Seq(S)
                      /\ IdsOf(kept[k]) = {seq[j] : j \in 1 .. k} \ ids
                      /\ Once(seq) => Once(kept[k])
           bad == {k \in 0 .. n : ~ Good(k)}
<1>6. Good(0)
  BY <1>5 DEF IdsOf, Once
<1>7. ASSUME NEW k \in 1 .. n, Good(k - 1)
      PROVE  Good(k)
  <2>1. {seq[j] : j \in 1 .. k} = {seq[j] : j \in 1 .. k - 1} \cup {seq[k]}
    <3>1. 1 .. k = (1 .. k - 1) \cup {k}
      BY <1>0
    <3> QED BY <3>1
  <2>2. CASE seq[k] \in ids
    BY <1>5, <1>7, <2>1, <2>2
  <2>3. CASE seq[k] \notin ids
    <3> DEFINE before == kept[k - 1]
    <3>0. before \in Seq(S) /\ seq[k] \in S /\ IdsOf(before) = {seq[j] : j \in 1 .. k - 1} \ ids
      BY <1>0, <1>7
    <3>1. kept[k] = Append(before, seq[k])
      BY <1>5, <2>3
    <3> HIDE DEF before
    <3>2. kept[k] \in Seq(S)
      BY <3>0, <3>1
    <3>3. IdsOf(Append(before, seq[k])) = IdsOf(before) \cup {seq[k]}
      <4>1. /\ DOMAIN Append(before, seq[k]) = 1 .. Len(before) + 1
            /\ DOMAIN before = 1 .. Len(before) /\ Len(before) \in Nat
            /\ \A i \in 1 .. Len(before) : Append(before, seq[k])[i] = before[i]
            /\ Append(before, seq[k])[Len(before) + 1] = seq[k]
        BY <3>0
      <4>2. 1 .. Len(before) + 1 = (1 .. Len(before)) \cup {Len(before) + 1}
        BY <4>1
      <4> QED BY <4>1, <4>2 DEF IdsOf
    <3>4. Once(seq) => Once(kept[k])
      <4>1. ASSUME Once(seq) PROVE seq[k] \notin IdsOf(before)
        <5>1. \A j \in 1 .. k - 1 : j \in DOMAIN seq /\ k \in DOMAIN seq /\ j # k
          BY <1>0
        <5>2. \A j \in 1 .. k - 1 : seq[j] # seq[k]
          BY <4>1, <5>1 DEF Once
        <5> QED BY <3>0, <5>2
      <4>2. Once(seq) => Once(before)
        BY <1>7 DEF before
      <4>3. ASSUME Once(seq) PROVE Once(Append(before, seq[k]))
        <5>1. PICK b, x, t : b = before /\ x = seq[k] /\ t = Append(b, x)
          OBVIOUS
        <5>2. b \in Seq(S) /\ x \in S /\ x \notin IdsOf(b) /\ Once(b)
          BY <3>0, <4>1, <4>2, <4>3, <5>1
        <5>3. Once(t)
          BY ONLY <5>1, <5>2, AppendOnce
        <5> QED BY ONLY <5>1, <5>3
      <4> QED BY <3>1, <4>3
    <3> QED BY <2>1, <2>3, <3>0, <3>1, <3>2, <3>3, <3>4
  <2> QED BY <2>2, <2>3
<1>8. bad = {}
  <2> SUFFICES ASSUME bad # {} PROVE FALSE
    OBVIOUS
  <2>1. PICK k \in bad : \A j \in bad : k <= j
    <3>1. bad \in SUBSET Nat
      BY <1>0
    <3> HIDE DEF bad
    <3> QED BY <3>1, NatLeast
  <2> HIDE DEF Good
  <2>2. k \in 1 .. n /\ k - 1 \in 0 .. n
    BY <1>0, <1>6, <2>1
  <2>3. ~ Good(k - 1)
    BY <1>7, <2>1, <2>2
  <2>4. k - 1 \in bad
    BY <2>2, <2>3
  <2>5. k <= k - 1 /\ k \in Nat
    BY <2>1, <2>2, <2>4, <1>0
  <2> QED BY <2>5
<1>9. Good(n)
  <2> HIDE DEF Good
  <2>1. n \in 0 .. n
    BY <1>0
  <2> QED BY <1>8, <2>1
<1> QED BY <1>0, <1>1, <1>9 DEF IdsOf

LEMMA ConcatElements ==
    ASSUME NEW S, NEW a \in Seq(S), NEW b \in Seq(S)
    PROVE  a \o b \in Seq(S) /\ IdsOf(a \o b) = IdsOf(a) \cup IdsOf(b)
<1>1. /\ a \o b \in Seq(S) /\ Len(a \o b) = Len(a) + Len(b)
      /\ Len(a) \in Nat /\ Len(b) \in Nat
      /\ DOMAIN a = 1 .. Len(a) /\ DOMAIN b = 1 .. Len(b)
      /\ DOMAIN (a \o b) = 1 .. Len(a) + Len(b)
      /\ \A i \in 1 .. Len(a) : (a \o b)[i] = a[i]
      /\ \A i \in 1 .. Len(b) : (a \o b)[Len(a) + i] = b[i]
  OBVIOUS
<1>2. PICK ab : ab = a \o b
  OBVIOUS
<1>3. IdsOf(ab) \subseteq IdsOf(a) \cup IdsOf(b)
  <2> SUFFICES ASSUME NEW i \in 1 .. Len(a) + Len(b)
               PROVE  ab[i] \in IdsOf(a) \cup IdsOf(b)
    BY <1>1, <1>2 DEF IdsOf
  <2>1. CASE i <= Len(a)
    <3>1. i \in 1 .. Len(a)
      BY <1>1, <2>1
    <3>2. ab[i] = a[i]
      BY <1>1, <1>2, <3>1
    <3> QED BY <1>1, <3>1, <3>2 DEF IdsOf
  <2>2. CASE ~ (i <= Len(a))
    <3>1. i - Len(a) \in 1 .. Len(b) /\ Len(a) + (i - Len(a)) = i
      BY <1>1, <2>2
    <3>2. ab[i] = b[i - Len(a)]
      BY <1>1, <1>2, <3>1
    <3> QED BY <1>1, <3>1, <3>2 DEF IdsOf
  <2> QED BY <2>1, <2>2
<1>4. IdsOf(a) \subseteq IdsOf(ab)
  <2>1. \A i \in 1 .. Len(a) : i \in 1 .. Len(a) + Len(b) /\ ab[i] = a[i]
    BY <1>1, <1>2
  <2> QED BY <1>1, <1>2, <2>1 DEF IdsOf
<1>5. IdsOf(b) \subseteq IdsOf(ab)
  <2>1. \A i \in 1 .. Len(b) : Len(a) + i \in 1 .. Len(a) + Len(b) /\ ab[Len(a) + i] = b[i]
    BY <1>1, <1>2
  <2>2. DOMAIN ab = 1 .. Len(a) + Len(b)
    BY <1>1, <1>2
  <2>3. \A i \in 1 .. Len(b) : b[i] \in IdsOf(ab)
    BY <2>1, <2>2 DEF IdsOf
  <2> QED BY <1>1, <2>3 DEF IdsOf
<1> QED BY <1>1, <1>2, <1>3, <1>4, <1>5

LEMMA ConcatOnce ==
    ASSUME NEW S, NEW a \in Seq(S), NEW b \in Seq(S), Once(a), Once(b),
           IdsOf(a) \cap IdsOf(b) = {}
    PROVE  Once(a \o b)
<1>1. /\ a \o b \in Seq(S) /\ Len(a \o b) = Len(a) + Len(b)
      /\ Len(a) \in Nat /\ Len(b) \in Nat
      /\ DOMAIN a = 1 .. Len(a) /\ DOMAIN b = 1 .. Len(b)
      /\ DOMAIN (a \o b) = 1 .. Len(a) + Len(b)
      /\ \A i \in 1 .. Len(a) : (a \o b)[i] = a[i]
      /\ \A i \in 1 .. Len(b) : (a \o b)[Len(a) + i] = b[i]
  OBVIOUS
<1>2. PICK ab : ab = a \o b
  OBVIOUS
<1>3. \A i \in 1 .. Len(a), j \in 1 .. Len(b) : a[i] # b[j]
  BY <1>1 DEF IdsOf
<1>4. SUFFICES ASSUME NEW i \in 1 .. Len(a) + Len(b), NEW j \in 1 .. Len(a) + Len(b),
                      ab[i] = ab[j]
               PROVE  i = j
  BY <1>1, <1>2 DEF Once
<1>5. ASSUME NEW k \in 1 .. Len(a) + Len(b)
      PROVE  \/ k \in 1 .. Len(a) /\ ab[k] = a[k]
             \/ k - Len(a) \in 1 .. Len(b) /\ ab[k] = b[k - Len(a)]
  <2>1. CASE k <= Len(a)
    <3>1. k \in 1 .. Len(a)
      BY <1>1, <2>1
    <3> QED BY <1>1, <1>2, <3>1
  <2>2. CASE ~ (k <= Len(a))
    <3>1. k - Len(a) \in 1 .. Len(b) /\ Len(a) + (k - Len(a)) = k
      BY <1>1, <2>2
    <3>2. ab[k] = b[k - Len(a)]
      BY <1>1, <1>2, <3>1
    <3> QED BY <3>1, <3>2
  <2> QED BY <2>1, <2>2
<1>6. \/ i \in 1 .. Len(a) /\ ab[i] = a[i]
      \/ i - Len(a) \in 1 .. Len(b) /\ ab[i] = b[i - Len(a)]
  BY <1>5
<1>7. \/ j \in 1 .. Len(a) /\ ab[j] = a[j]
      \/ j - Len(a) \in 1 .. Len(b) /\ ab[j] = b[j - Len(a)]
  BY <1>5
<1>8. /\ \A x, y \in 1 .. Len(a) : a[x] = a[y] => x = y
      /\ \A x, y \in 1 .. Len(b) : b[x] = b[y] => x = y
  BY <1>1 DEF Once
<1>9. CASE i - Len(a) \in 1 .. Len(b) /\ j - Len(a) \in 1 .. Len(b)
           /\ ab[i] = b[i - Len(a)] /\ ab[j] = b[j - Len(a)]
  <2>1. i - Len(a) = j - Len(a)
    BY <1>4, <1>8, <1>9
  <2> QED BY <1>1, <2>1
<1>10. CASE i \in 1 .. Len(a) /\ ab[i] = a[i] /\ j \in 1 .. Len(a) /\ ab[j] = a[j]
  BY <1>4, <1>8, <1>10
<1> QED BY <1>3, <1>4, <1>6, <1>7, <1>9, <1>10

(* Flattening puts the sequences together, and leaves no element out.      *)
LEMMA FlattenElements ==
    ASSUME NEW S, NEW seqs \in Seq(Seq(S))
    PROVE  /\ Policy!FlattenSeq(seqs) \in Seq(S)
           /\ \A x : x \in IdsOf(Policy!FlattenSeq(seqs)) <=>
                        \E i \in DOMAIN seqs : x \in IdsOf(seqs[i])
<1> DEFINE n == Len(seqs)
           step == [p \in Nat \X Seq(S) |->
                        IF p[1] \in 1 .. n THEN p[2] \o seqs[p[1]] ELSE p[2]]
           Body(f) == [i \in 1 .. n |-> IF i = 1 THEN seqs[i] ELSE f[i - 1] \o seqs[i]]
           flatten == CHOOSE f : f = Body(f)
<1>0. /\ n \in Nat /\ DOMAIN seqs = 1 .. n /\ \A i \in 1 .. n : seqs[i] \in Seq(S)
  OBVIOUS
<1>1. Policy!FlattenSeq(seqs) = IF n = 0 THEN seqs ELSE flatten[n]
  BY DEF Policy!FlattenSeq
<1>2. CASE n = 0
  <2>1. seqs = <<>> /\ DOMAIN seqs = {}
    BY <1>0, <1>2
  <2>2. IdsOf(seqs) = {}
    BY <2>1 DEF IdsOf
  <2>3. seqs \in Seq(S)
    BY <2>1
  <2> QED BY <1>1, <1>2, <2>1, <2>2, <2>3
<1>3. CASE n # 0
  <2> HIDE DEF n
  <2>1. PICK g \in [0 .. n -> Seq(S)] :
            g[0] = <<>> /\ \A i \in 1 .. n : g[i] = step[<<i, g[i - 1]>>]
    <3>1. ASSUME NEW p \in Nat \X Seq(S)
          PROVE  step[p] \in Seq(S)
      <4>1. p[2] \in Seq(S)
        OBVIOUS
      <4>2. CASE p[1] \in 1 .. n
        <5>1. p[2] \o seqs[p[1]] \in Seq(S)
          BY <1>0, <4>1, <4>2
        <5> QED BY <4>2, <5>1
      <4> QED BY <4>1, <4>2
    <3>2. step \in [Nat \X Seq(S) -> Seq(S)]
      BY <3>1
    <3>3. <<>> \in Seq(S)
      OBVIOUS
    <3> HIDE DEF step
    <3>4. PICK V : V = Seq(S)
      OBVIOUS
    <3>5. step \in [Nat \X V -> V] /\ <<>> \in V /\ n \in Nat
      BY <1>0, <3>2, <3>3, <3>4
    <3>6. IsDefined(V, <<>>, step, n)
      BY <3>5, RecursionExists
    <3> QED BY <3>4, <3>6 DEF IsDefined
  <2>2. ASSUME NEW i \in 1 .. n
        PROVE  /\ g[i] = IF i = 1 THEN seqs[i] ELSE g[i - 1] \o seqs[i]
               /\ g[i - 1] \in Seq(S) /\ g[i] = g[i - 1] \o seqs[i]
    <3>1. i - 1 \in 0 .. n /\ i \in Nat
      BY <1>0
    <3>2. g[i - 1] \in Seq(S) /\ <<i, g[i - 1]>> \in Nat \X Seq(S)
      BY <2>1, <3>1
    <3>3. g[i] = g[i - 1] \o seqs[i]
      BY <2>1, <3>2
    <3>4. i = 1 => g[i - 1] \o seqs[i] = seqs[i]
      <4>1. PICK t \in Seq(S) : t = seqs[i]
        BY <1>0
      <4>2. <<>> \o t = t
        OBVIOUS
      <4>3. i = 1 => g[i - 1] = <<>>
        BY <2>1
      <4> QED BY <4>1, <4>2, <4>3
    <3> QED BY <3>2, <3>3, <3>4
  <2> DEFINE h == [i \in 1 .. n |-> g[i]]
  <2>3. h = Body(h)
    <3>1. ASSUME NEW i \in 1 .. n
          PROVE  h[i] = IF i = 1 THEN seqs[i] ELSE h[i - 1] \o seqs[i]
      <4>1. i # 1 => i - 1 \in 1 .. n
        BY <1>0
      <4> QED BY <2>2, <4>1
    <3> QED BY <3>1
  <2>4. flatten = Body(flatten)
    <3> HIDE DEF Body, h
    <3> QED BY <2>3
  <2>5. \A i \in 1 .. n : flatten[i] = IF i = 1 THEN seqs[i] ELSE flatten[i - 1] \o seqs[i]
    <3> HIDE DEF flatten
    <3>1. \A i \in 1 .. n : flatten[i] = Body(flatten)[i]
      BY <2>4
    <3> QED BY <3>1
  <2> HIDE DEF flatten, Body, step, h
  <2> DEFINE Good(k) == /\ flatten[k] \in Seq(S)
                        /\ \A x : x \in IdsOf(flatten[k]) <=>
                                    \E j \in 1 .. k : x \in IdsOf(seqs[j])
             bad == {k \in 1 .. n : ~ Good(k)}
  <2>6. Good(1)
    <3>1. 1 \in 1 .. n /\ 1 .. 1 = {1}
      BY <1>0, <1>3
    <3>2. flatten[1] = seqs[1] /\ seqs[1] \in Seq(S)
      BY <1>0, <2>5, <3>1
    <3> QED BY <3>1, <3>2
  <2>7. ASSUME NEW k \in 2 .. n, Good(k - 1)
        PROVE  Good(k)
    <3>1. k \in 1 .. n /\ k # 1
      BY <1>0
    <3>2. flatten[k] = flatten[k - 1] \o seqs[k]
      BY <2>5, <3>1
    <3>3. PICK before : before = flatten[k - 1]
      OBVIOUS
    <3>4. seqs[k] \in Seq(S) /\ before \in Seq(S)
      BY <1>0, <2>7, <3>1, <3>3
    <3>5. /\ before \o seqs[k] \in Seq(S)
          /\ IdsOf(before \o seqs[k]) = IdsOf(before) \cup IdsOf(seqs[k])
      BY <3>4, ConcatElements
    <3>6. \A j : j \in 1 .. k <=> j \in 1 .. k - 1 \/ j = k
      BY <1>0, <3>1
    <3>7. flatten[k] \in Seq(S) /\ IdsOf(flatten[k]) = IdsOf(flatten[k - 1]) \cup IdsOf(seqs[k])
      BY <3>2, <3>3, <3>5
    <3>8. \A x : x \in IdsOf(flatten[k - 1]) <=> \E j \in 1 .. k - 1 : x \in IdsOf(seqs[j])
      BY <2>7
    <3>9. \A x : x \in IdsOf(flatten[k]) <=> \E j \in 1 .. k : x \in IdsOf(seqs[j])
      BY <3>6, <3>7, <3>8
    <3> QED BY <3>7, <3>9
  <2>8. bad = {}
    <3> SUFFICES ASSUME bad # {} PROVE FALSE
      OBVIOUS
    <3>1. PICK k \in bad : \A j \in bad : k <= j
      <4>1. bad \in SUBSET Nat
        BY <1>0
      <4> HIDE DEF bad
      <4> QED BY <4>1, NatLeast
    <3> HIDE DEF Good
    <3>2. k \in 2 .. n /\ k - 1 \in 1 .. n
      BY <1>0, <2>6, <3>1
    <3>3. ~ Good(k - 1)
      BY <2>7, <3>1, <3>2
    <3>4. k - 1 \in bad
      BY <3>2, <3>3
    <3>5. k <= k - 1 /\ k \in Nat
      BY <3>1, <3>2, <3>4, <1>0
    <3> QED BY <3>5
  <2>9. Good(n)
    <3> HIDE DEF Good
    <3>1. n \in 1 .. n
      BY <1>0, <1>3
    <3> QED BY <2>8, <3>1
  <2> QED BY <1>0, <1>1, <1>3, <2>9
<1> QED BY <1>2, <1>3

-------------------------------------------------------------------------------
(* What a compaction writes                                                *)

(* Entry p of those that are kept goes to one of the SSTs, at its place    *)
(* in it.                                                                  *)
LEMMA ChunkOfEntry ==
    ASSUME NEW n \in Nat, NEW size \in Nat \ {0}, NEW p \in 1 .. n
    PROVE  \E i \in 1 .. (n + size - 1) \div size :
              /\ (i - 1) * size \in Nat /\ i * size \in Nat
              /\ (i - 1) * size + 1 <= p /\ p <= i * size
<1> DEFINE q == (p - 1) \div size
           m == (n + size - 1) \div size
<1>1. q \in Nat /\ q * size <= p - 1 /\ p - 1 < (q + 1) * size
  BY SMTT(30)
<1>2. m \in Nat /\ n + size - 1 < (m + 1) * size
  BY SMTT(30)
<1>3. (q + 1) * size = q * size + size /\ (m + 1) * size = m * size + size
      /\ q * size \in Nat /\ m * size \in Nat
  <2> HIDE DEF q, m
  <2> QED BY <1>1, <1>2, SMTT(30)
<1> HIDE DEF q, m
<1>4. q * size < m * size
  BY <1>1, <1>2, <1>3
<1>5. q < m
  <2>1. SUFFICES ASSUME m <= q PROVE FALSE
    BY <1>1, <1>2
  <2>2. m * size <= q * size
    BY <1>1, <1>2, <2>1, SMTT(30)
  <2> QED BY <1>3, <1>4, <2>2
<1>6. q + 1 \in 1 .. m /\ (q + 1) - 1 = q
  BY <1>1, <1>2, <1>5
<1>7. q * size + 1 <= p /\ p <= (q + 1) * size /\ (q + 1) * size \in Nat
  BY <1>1, <1>3
<1> QED BY <1>3, <1>6, <1>7 DEF m

LEMMA LeastOfTwo ==
    ASSUME NEW a \in Nat, NEW b \in Nat
    PROVE  /\ Policy!Min({a, b}) \in {a, b}
           /\ Policy!Min({a, b}) <= a /\ Policy!Min({a, b}) <= b
<1>1. \E x \in {a, b} : \A y \in {a, b} : x <= y
  OBVIOUS
<1> QED BY <1>1 DEF Policy!Min

(* The SSTs hold what was merged, and all of it but delete markers; when   *)
(* there was anything, there is an SST.                                    *)
LEMMA GeneratedSsts ==
    ASSUME NEW table \in Tables, NEW to_bottom
    PROVE  /\ GenerateSst(table, to_bottom) \in Seq(Tables)
           /\ CellsOf(table) # {} => GenerateSst(table, to_bottom) # <<>>
           /\ \A i \in DOMAIN GenerateSst(table, to_bottom) : \A c \in Cells :
                GenerateSst(table, to_bottom)[i][c] \in {NoEntry, table[c]}
           /\ \A c \in CellsOf(table) :
                \/ table[c] = Tombstone
                \/ \E i \in DOMAIN GenerateSst(table, to_bottom) :
                        GenerateSst(table, to_bottom)[i][c] = table[c]
<1> DEFINE sorted == Entries(table)
           dropped == {c \in Cells : to_bottom /\ table[c] = Tombstone}
           kept == Policy!Without(sorted, dropped)
           size == Len(kept)
           chunk(i) == SubSeq(kept, (i - 1) * SstCells + 1, Policy!Min({i * SstCells, size}))
           n == (size + SstCells - 1) \div SstCells
           ends_dropped == /\ sorted # <<>>
                           /\ size % SstCells = 0
                           /\ kept = <<>> \/ Last(kept) # Last(sorted)
           chunks == [i \in 1 .. n |-> Restricted(table, IdsOf(chunk(i)))]
           ssts == GenerateSst(table, to_bottom)
<1>1. ssts = IF ends_dropped THEN Append(chunks, EmptyTable) ELSE chunks
  BY DEF GenerateSst
<1>2. SstCells \in Nat \ {0}
  BY CompactionAssumption
<1>3. /\ sorted \in Seq(CellsOf(table)) /\ IdsOf(sorted) = CellsOf(table)
  <2>1. Keys \subseteq Int /\ IsFiniteSet(Keys)
    BY CompactionAssumption
  <2>2. /\ Cardinality(CellsOf(table)) \in Nat
        /\ sorted \in [1 .. Cardinality(CellsOf(table)) -> CellsOf(table)]
        /\ \A c \in CellsOf(table) :
                \E i \in 1 .. Cardinality(CellsOf(table)) : sorted[i] = c
    BY <2>1, EntriesAreCells
  <2>3. sorted \in Seq(CellsOf(table))
    BY <2>2
  <2>4. DOMAIN sorted = 1 .. Cardinality(CellsOf(table))
    BY <2>2
  <2> HIDE DEF sorted
  <2> QED BY <2>2, <2>3, <2>4 DEF IdsOf
<1>4. kept \in Seq(CellsOf(table)) /\ IdsOf(kept) = CellsOf(table) \ dropped
  <2> HIDE DEF sorted, dropped
  <2>1. PICK S : S = CellsOf(table)
    OBVIOUS
  <2>2. sorted \in Seq(S)
    BY <1>3, <2>1
  <2>3. kept \in Seq(S) /\ IdsOf(kept) = IdsOf(sorted) \ dropped
    BY <2>2, WithoutElements
  <2> QED BY <1>3, <2>1, <2>3
<1>5. size \in Nat /\ DOMAIN kept = 1 .. size
  <2> HIDE DEF kept
  <2> QED BY <1>4
<1> HIDE DEF sorted, dropped, kept, size, chunk
<1>6. n \in Nat
  BY <1>2, <1>5, SMTT(30)
<1>7. \A X : Restricted(table, X) \in Tables
  BY DEF Restricted, Tables
<1>8. \A i \in 1 .. n : chunks[i] \in Tables
  BY <1>7
<1>9. chunks \in Seq(Tables) /\ DOMAIN chunks = 1 .. n /\ Len(chunks) = n
  <2>1. chunks \in [1 .. n -> Tables]
    BY <1>8
  <2> HIDE DEF chunks, n
  <2> QED BY <1>6, <2>1
<1>10. \A i \in 1 .. n : \A c \in Cells : chunks[i][c] \in {NoEntry, table[c]}
  BY DEF Restricted
<1>11. ASSUME NEW c \in CellsOf(table), table[c] # Tombstone
       PROVE  \E i \in 1 .. n : chunks[i][c] = table[c]
  <2>1. c \in IdsOf(kept)
    BY <1>4, <1>11 DEF dropped
  <2>2. PICK p \in 1 .. size : kept[p] = c
    BY <1>5, <2>1 DEF IdsOf
  <2>3. PICK i \in 1 .. n :
              /\ (i - 1) * SstCells \in Nat /\ i * SstCells \in Nat
              /\ (i - 1) * SstCells + 1 <= p /\ p <= i * SstCells
    BY <1>2, <1>5, ChunkOfEntry
  <2>4. PICK a, b : a = (i - 1) * SstCells + 1 /\ b = Policy!Min({i * SstCells, size})
    OBVIOUS
  <2>5. a \in Nat \ {0} /\ b \in Nat /\ a <= p /\ p <= b /\ b <= size
    BY <1>5, <2>3, <2>4, LeastOfTwo
  <2>6. chunk(i) = SubSeq(kept, a, b)
    BY <2>4 DEF chunk
  <2>7. p - a + 1 \in DOMAIN SubSeq(kept, a, b) /\ SubSeq(kept, a, b)[p - a + 1] = kept[p]
    BY <1>4, <1>5, <2>5 DEF size
  <2>8. c \in IdsOf(chunk(i))
    BY <2>2, <2>6, <2>7 DEF IdsOf
  <2>9. c \in Cells
    BY DEF CellsOf
  <2> QED BY <2>3, <2>8, <2>9 DEF Restricted
<1>12. CellsOf(table) # {} /\ ~ ends_dropped => n # 0
  <2> SUFFICES ASSUME CellsOf(table) # {}, ~ ends_dropped, n = 0 PROVE FALSE
    OBVIOUS
  <2>1. sorted # <<>>
    BY <1>3 DEF IdsOf
  <2>2. size = 0
    <3>1. CASE size # 0
      <4>1. 1 \in 1 .. size
        BY <1>5, <3>1
      <4>2. \E i \in 1 .. n : TRUE
        BY <1>2, <1>5, <4>1, ChunkOfEntry
      <4> QED BY <1>6, <4>2
    <3> QED BY <3>1
  <2>3. kept = <<>> /\ size % SstCells = 0
    <3>1. kept = <<>>
      BY <1>4, <2>2 DEF size
    <3>2. 0 % SstCells = 0
      BY <1>2, SMTT(30)
    <3> QED BY <2>2, <3>1, <3>2
  <2> QED BY <2>1, <2>3
<1> HIDE DEF n, ends_dropped, chunks
<1>13. EmptyTable \in Tables /\ \A c \in Cells : EmptyTable[c] = NoEntry
  BY DEF EmptyTable, Tables
<1>14. CASE ends_dropped
  <2>1. /\ ssts = Append(chunks, EmptyTable) /\ ssts \in Seq(Tables)
        /\ DOMAIN ssts = 1 .. n + 1 /\ Len(ssts) = n + 1
        /\ \A i \in 1 .. n : ssts[i] = chunks[i]
        /\ ssts[n + 1] = EmptyTable
    BY <1>1, <1>6, <1>9, <1>13, <1>14
  <2> HIDE DEF ssts
  <2>2. ssts # <<>>
    BY <1>6, <2>1
  <2>3. ASSUME NEW i \in DOMAIN ssts, NEW c \in Cells
        PROVE  ssts[i][c] \in {NoEntry, table[c]}
    <3>1. i \in 1 .. n \/ i = n + 1
      BY <1>6, <2>1
    <3> QED BY <1>10, <1>13, <2>1, <3>1
  <2>4. \A i \in 1 .. n : i \in DOMAIN ssts
    BY <1>6, <2>1
  <2> QED BY <1>11, <2>1, <2>2, <2>3, <2>4 DEF ssts
<1>15. CASE ~ ends_dropped
  <2>1. ssts = chunks
    BY <1>1, <1>15
  <2>2. CellsOf(table) # {} => chunks # <<>>
    BY <1>6, <1>9, <1>12, <1>15
  <2> QED BY <1>9, <1>10, <1>11, <2>1, <2>2
<1> QED BY <1>14, <1>15

-------------------------------------------------------------------------------
(* What leveled.rs works out from sizes and keys                           *)

LEMMA PolicyCardinality ==
    ASSUME NEW S
    PROVE  Policy!Cardinality(S) = Cardinality(S)
BY DEF Policy!Cardinality, Cardinality
LEMMA RankNatural ==
    ASSUME NEW c \in Cells
    PROVE  Rank(c) \in Nat
<1>1. c[1] \in Keys /\ c[2] \in 1 .. MaxTs
  BY DEF Cells
<1>2. c[1] \in Nat /\ MaxTs \in Nat
  BY <1>1, CompactionAssumption, TablesAssumption
<1>3. c[1] * (MaxTs + 1) \in Nat /\ MaxTs - c[2] \in Nat
  BY <1>1, <1>2, SMTT(30)
<1> QED BY <1>1, <1>2, <1>3 DEF Rank

LEMMA LeastMember ==
    ASSUME NEW U \in SUBSET Nat, U # {}
    PROVE  Policy!Min(U) \in U /\ \A x \in U : Policy!Min(U) <= x
<1>1. \E x \in U : \A y \in U : x <= y
  BY NatLeast
<1> QED BY <1>1 DEF Policy!Min

LEMMA FirstKeyIsNumber ==
    ASSUME NEW id
    PROVE  KeyRange(id).first_key \in Int
<1> DEFINE ranks == {Rank(c) : c \in CellsOf(sst_tables[id])}
<1>1. ranks \in SUBSET Nat
  <2>1. CellsOf(sst_tables[id]) \subseteq Cells
    BY DEF CellsOf
  <2> QED BY <2>1, RankNatural
<1>2. KeyRange(id).first_key = IF ranks = {} THEN -1 ELSE Policy!Min(ranks)
  BY DEF KeyRange
<1> HIDE DEF ranks
<1>3. ranks # {} => Policy!Min(ranks) \in Nat
  BY <1>1, LeastMember
<1> QED BY <1>2, <1>3

(* A level sorted holds what it held.                                      *)
LEMMA SortedElements ==
    ASSUME NEW S, NEW seq \in Seq(S), NEW ssts,
           \A i \in DOMAIN seq : ssts[seq[i]].first_key \in Int
    PROVE  /\ Policy!SortByFirstKey(seq, ssts) \in Seq(S)
           /\ IdsOf(Policy!SortByFirstKey(seq, ssts)) = IdsOf(seq)
<1> DEFINE n == Len(seq)
           D == DOMAIN seq
           key(i) == ssts[seq[i]].first_key
           before(j, i) == key(j) < key(i) \/ (key(j) = key(i) /\ j <= i)
           Upto(i) == {j \in D : before(j, i)}
           place == [i \in D |-> Cardinality(Upto(i))]
           sorted == [m \in D |-> seq[CHOOSE i \in D : Policy!Cardinality(Upto(i)) = m]]
<1>1. n \in Nat /\ D = 1 .. n /\ \A i \in D : seq[i] \in S /\ i \in Int /\ key(i) \in Int
  OBVIOUS
<1>2. IsFiniteSet(D) /\ Cardinality(D) = n
  BY <1>1, FS_Interval
<1>3. Policy!SortByFirstKey(seq, ssts) = sorted
  BY DEF Policy!SortByFirstKey
<1> HIDE DEF n, key, D
<1>4. ASSUME NEW i \in D
      PROVE  Upto(i) \subseteq D /\ IsFiniteSet(Upto(i)) /\ Cardinality(Upto(i)) \in D
  <2>1. Upto(i) \subseteq D /\ i \in Upto(i)
    BY <1>1
  <2> HIDE DEF Upto
  <2>2. IsFiniteSet(Upto(i)) /\ Cardinality(Upto(i)) <= n
    BY <1>2, <2>1, FS_Subset
  <2>3. Cardinality(Upto(i)) \in Nat /\ Cardinality(Upto(i)) # 0
    BY <2>1, <2>2, FS_EmptySet, FS_CardinalityType
  <2> QED BY <1>1, <2>1, <2>2, <2>3
<1>5. ASSUME NEW i \in D, NEW j \in D, before(i, j), i # j
      PROVE  Cardinality(Upto(i)) # Cardinality(Upto(j))
  <2>1. Upto(i) \subseteq Upto(j)
    BY <1>1, <1>5
  <2>2. j \in Upto(j) /\ j \notin Upto(i)
    BY <1>1, <1>5
  <2>3. IsFiniteSet(Upto(j))
    BY <1>4
  <2> HIDE DEF Upto
  <2> QED BY <2>1, <2>2, <2>3, FS_Subset
<1>6. \A i, j \in D : before(i, j) \/ before(j, i)
  BY <1>1
<1>7. place \in Injection(D, D)
  <2>1. place \in [D -> D]
    BY <1>4
  <2>2. \A i, j \in D : i # j => place[i] # place[j]
    BY <1>5, <1>6
  <2> QED BY <2>1, <2>2 DEF Injection, IsInjective
<1>8. place \in Surjection(D, D)
  <2> HIDE DEF place
  <2> QED BY <1>2, <1>7, FS_Injection
<1>9. \A m \in D : \E i \in D : Policy!Cardinality(Upto(i)) = m
  BY <1>8, PolicyCardinality DEF Surjection
<1>10. \A i, j \in D :
            Policy!Cardinality(Upto(i)) = Policy!Cardinality(Upto(j)) => i = j
  BY <1>5, <1>6, PolicyCardinality
<1> HIDE DEF Upto
<1>11. \A m \in D : sorted[m] \in S /\ \E i \in D : sorted[m] = seq[i]
  BY <1>1, <1>9
<1>12. \A i \in D : sorted[Cardinality(Upto(i))] = seq[i]
  BY <1>4, <1>10, PolicyCardinality
<1>13. sorted \in Seq(S) /\ DOMAIN sorted = D
  <2>1. sorted \in [D -> S] /\ DOMAIN sorted = D
    BY <1>11
  <2> HIDE DEF sorted
  <2>2. sorted \in [1 .. n -> S] /\ n \in Nat
    BY <1>1, <2>1
  <2> QED BY <2>1, <2>2
<1>14. IdsOf(sorted) = IdsOf(seq)
  <2>1. \A x \in IdsOf(sorted) : x \in IdsOf(seq)
    <3> HIDE DEF sorted
    <3>1. \A x \in IdsOf(sorted) : \E m \in D : x = sorted[m]
      BY <1>13 DEF IdsOf
    <3>2. \A i \in D : seq[i] \in IdsOf(seq)
      BY DEF IdsOf, D
    <3> QED BY <1>11, <3>1, <3>2
  <2>2. \A i \in D : seq[i] \in IdsOf(sorted)
    <3> HIDE DEF sorted
    <3>1. \A m \in D : sorted[m] \in IdsOf(sorted)
      BY <1>13 DEF IdsOf
    <3> QED BY <1>4, <1>12, <3>1
  <2>3. \A x \in IdsOf(seq) : \E i \in D : x = seq[i]
    BY DEF IdsOf, D
  <2> HIDE DEF sorted
  <2> QED BY <2>1, <2>2, <2>3
<1> QED BY <1>3, <1>13, <1>14

-------------------------------------------------------------------------------
LEMMA FiniteImage ==
    ASSUME NEW f, IsFiniteSet(DOMAIN f)
    PROVE  IsFiniteSet({f[x] : x \in DOMAIN f})
<1> DEFINE D == DOMAIN f
           T == {f[x] : x \in D}
           g == [x \in D |-> f[x]]
<1>1. g \in Surjection(D, T)
  BY DEF Surjection
<1> HIDE DEF g, D, T
<1>2. IsFiniteSet(T)
  BY <1>1, FS_Surjection DEF D
<1> QED BY <1>2 DEF D, T

LEMMA FiniteElements ==
    ASSUME NEW S, NEW seq \in Seq(S)
    PROVE  IsFiniteSet(IdsOf(seq))
<1>1. DOMAIN seq = 1 .. Len(seq) /\ Len(seq) \in Nat
  OBVIOUS
<1>2. IsFiniteSet(DOMAIN seq)
  BY <1>1, FS_Interval
<1> QED BY <1>2, FiniteImage DEF IdsOf

LEMMA TableSizeIsNumber ==
    ASSUME NEW id
    PROVE  KeyRange(id).table_size \in Nat
<1> DEFINE cells == CellsOf(sst_tables[id])
           f == [c \in cells |-> Rank(c)]
           ranks == {Rank(c) : c \in cells}
<1>1. IsFiniteSet(cells)
  <2>1. IsFiniteSet(Cells)
    <3>1. IsFiniteSet(1 .. MaxTs)
      BY TablesAssumption, FS_Interval
    <3> QED BY <3>1, CompactionAssumption, FS_Product DEF Cells
  <2>2. cells \subseteq Cells
    BY DEF CellsOf
  <2> QED BY <2>1, <2>2, FS_Subset
<1>2. DOMAIN f = cells /\ ranks = {f[c] : c \in DOMAIN f}
  OBVIOUS
<1> HIDE DEF f, cells
<1>3. IsFiniteSet({f[c] : c \in DOMAIN f})
  BY <1>1, <1>2, FiniteImage
<1>4. Cardinality(ranks) \in Nat
  BY <1>2, <1>3, FS_CardinalityType
<1> QED BY <1>4 DEF KeyRange, cells

LEMMA LevelSizeIsNumber ==
    ASSUME NEW s, NEW i, Policy!Files(s, i) \in Seq(Nat),
           IdsOf(Policy!Files(s, i)) \subseteq Ids
    PROVE  Policy!RealLevelSize(s, Ssts, i) \in Nat
<1> DEFINE I == IdsOf(Policy!Files(s, i))
           f == [id \in I |-> {id} \X (1 .. Ssts[id].table_size)]
           parts == {f[id] : id \in DOMAIN f}
<1>1. IsFiniteSet(I)
  BY FiniteElements
<1>2. \A id \in I : IsFiniteSet({id} \X (1 .. Ssts[id].table_size))
  <2> TAKE id \in I
  <2>1. Ssts[id].table_size \in Int
    BY TableSizeIsNumber DEF Ssts
  <2>2. IsFiniteSet(1 .. Ssts[id].table_size)
    BY <2>1, FS_Interval
  <2> QED BY <2>2, FS_Singleton, FS_Product
<1>3. DOMAIN f = I /\ \A id \in I : f[id] = {id} \X (1 .. Ssts[id].table_size)
  OBVIOUS
<1>4. parts = {{id} \X (1 .. Ssts[id].table_size) : id \in I}
  OBVIOUS
<1> HIDE DEF f, I
<1>5. IsFiniteSet(parts)
  BY <1>1, <1>3, FiniteImage
<1>6. \A X \in parts : IsFiniteSet(X)
  BY <1>2, <1>3
<1>7. IsFiniteSet(UNION parts)
  BY <1>5, <1>6, FS_UNION
<1>8. Cardinality(UNION parts) \in Nat
  BY <1>7, FS_CardinalityType
<1>9. Policy!RealLevelSize(s, Ssts, i) = Policy!Cardinality(UNION parts)
  BY <1>4 DEF Policy!RealLevelSize, Policy!Ids, IdsOf, I
<1> QED BY <1>8, <1>9, PolicyCardinality

(* The last level is never larger than its target.                         *)
LEMMA LastLevelWithinTarget ==
    ASSUME NEW p \in Policies, p.kind = "leveled", NEW s, NEW ssts,
           Policy!RealLevelSize(s, ssts, MaxLevels) \in Nat
    PROVE  ~ (Policy!RealLevelSize(s, ssts, MaxLevels)
                    > Policy!TargetLevelSize(p, s, ssts)[MaxLevels])
<1> DEFINE n == MaxLevels - 1
           base == p.base_level_size
           real == Policy!RealLevelSize(s, ssts, MaxLevels)
           first == Policy!Max({real, base})
           smaller(v) == IF v > base THEN v \div p.level_size_multiplier ELSE 0
           step == [q \in Nat \X Nat |-> smaller(q[2])]
           Body(f) == [i \in 1 .. MaxLevels |->
                          IF i = MaxLevels THEN first
                          ELSE IF f[i + 1] > base
                               THEN f[i + 1] \div p.level_size_multiplier ELSE 0]
           target == CHOOSE f : f = Body(f)
<1>1. /\ base \in Nat /\ p.level_size_multiplier \in Nat \ {0}
      /\ p.max_levels = MaxLevels /\ MaxLevels \in Nat \ {0} /\ n \in Nat
  BY CompactionAssumption, StorageAssumption
<1>2. Policy!TargetLevelSize(p, s, ssts) = target
  <2>1. target = CHOOSE f : f = [i \in 1 .. MaxLevels |->
                          IF i = MaxLevels THEN Policy!Max({real, base})
                          ELSE IF f[i + 1] > base
                               THEN f[i + 1] \div p.level_size_multiplier ELSE 0]
    OBVIOUS
  <2> QED BY <1>1, <2>1 DEF Policy!TargetLevelSize
<1>3. first \in Nat /\ real <= first
  <2>1. \E x \in {real, base} : \A y \in {real, base} : x >= y
    BY <1>1
  <2> QED BY <1>1, <2>1 DEF Policy!Max
<1> HIDE DEF real, first, base
<1>4. \A v \in Nat : smaller(v) \in Nat
  BY <1>1, SMTT(30)
<1> HIDE DEF smaller
<1>5. PICK g \in [0 .. n -> Nat] :
            g[0] = first /\ \A i \in 1 .. n : g[i] = step[<<i, g[i - 1]>>]
  <2>1. step \in [Nat \X Nat -> Nat]
    BY <1>4
  <2> HIDE DEF step
  <2>2. PICK V : V = Nat
    OBVIOUS
  <2>3. step \in [Nat \X V -> V] /\ first \in V /\ n \in Nat
    BY <1>1, <1>3, <2>1, <2>2
  <2> HIDE DEF n
  <2>4. IsDefined(V, first, step, n)
    BY <2>3, RecursionExists
  <2> QED BY <2>2, <2>4 DEF IsDefined
<1> DEFINE h == [i \in 1 .. MaxLevels |-> g[MaxLevels - i]]
<1>6. h = Body(h)
  <2>1. ASSUME NEW i \in 1 .. MaxLevels
        PROVE  h[i] = IF i = MaxLevels THEN first
                      ELSE IF h[i + 1] > base
                           THEN h[i + 1] \div p.level_size_multiplier ELSE 0
    <3>1. CASE i = MaxLevels
      BY <1>1, <1>5, <3>1
    <3>2. CASE i # MaxLevels
      <4>1. /\ MaxLevels - i \in 1 .. n /\ (MaxLevels - i) - 1 = MaxLevels - (i + 1)
            /\ i + 1 \in 1 .. MaxLevels /\ MaxLevels - (i + 1) \in 0 .. n
            /\ MaxLevels - i \in Nat
        BY <1>1, <3>2
      <4>2. h[i] = g[MaxLevels - i] /\ h[i + 1] = g[MaxLevels - (i + 1)]
        BY <4>1
      <4> HIDE DEF h
      <4>3. h[i] = step[<<MaxLevels - i, h[i + 1]>>] /\ h[i + 1] \in Nat
        BY <1>5, <4>1, <4>2
      <4>4. h[i] = smaller(h[i + 1])
        BY <4>1, <4>3
      <4> QED BY <3>2, <4>4 DEF smaller
    <3> QED BY <3>1, <3>2
  <2>2. h = [i \in 1 .. MaxLevels |-> h[i]]
    OBVIOUS
  <2> HIDE DEF h
  <2> QED BY <2>1, <2>2
<1>7. target = Body(target)
  <2> HIDE DEF Body, h
  <2> QED BY <1>6
<1>8. target[MaxLevels] = first
  <2> HIDE DEF target
  <2>1. MaxLevels \in 1 .. MaxLevels
    BY <1>1
  <2>2. target[MaxLevels] = Body(target)[MaxLevels]
    BY <1>7
  <2> QED BY <2>1, <2>2
<1> HIDE DEF target
<1> QED BY <1>1, <1>2, <1>3, <1>8 DEF real

-------------------------------------------------------------------------------
(* What a task takes, and the state that it leaves                         *)

LEMMA ListedIs ==
    ASSUME NEW s
    PROVE  \A x : x \in Listed(s) <=> \/ x \in IdsOf(s.l0_sstables)
                                      \/ \E y \in IdsOf(s.levels) : x \in IdsOf(y[2])
<1> SUFFICES ASSUME NEW x
             PROVE  x \in Listed(s) <=> \/ x \in IdsOf(s.l0_sstables)
                                        \/ \E y \in IdsOf(s.levels) : x \in IdsOf(y[2])
  OBVIOUS
<1>1. (\E y \in IdsOf(s.levels) : x \in IdsOf(y[2]))
      <=> \E i \in DOMAIN s.levels : x \in IdsOf(s.levels[i][2])
  <2>1. \A y : y \in IdsOf(s.levels) <=> \E i \in DOMAIN s.levels : y = s.levels[i]
    BY DEF IdsOf
  <2> QED BY <2>1
<1>2. x \in Listed(s) <=> \/ x \in IdsOf(s.l0_sstables)
                          \/ \E i \in DOMAIN s.levels : x \in IdsOf(s.levels[i][2])
  BY DEF Listed
<1> QED BY <1>1, <1>2

LEMMA SubSeqElements ==
    ASSUME NEW S, NEW seq \in Seq(S), NEW m \in 0 .. Len(seq)
    PROVE  /\ SubSeq(seq, 1, m) \in Seq(S) /\ SubSeq(seq, m + 1, Len(seq)) \in Seq(S)
           /\ IdsOf(SubSeq(seq, 1, m)) \cup IdsOf(SubSeq(seq, m + 1, Len(seq))) = IdsOf(seq)
           /\ m # 0 => SubSeq(seq, 1, m) # <<>>
<1>1. /\ Len(seq) \in Nat /\ DOMAIN seq = 1 .. Len(seq) /\ m \in Nat /\ m <= Len(seq)
      /\ SubSeq(seq, 1, m) \in Seq(S) /\ Len(SubSeq(seq, 1, m)) = m
      /\ \A i \in 1 .. m : SubSeq(seq, 1, m)[i] = seq[i]
  OBVIOUS
<1>2. /\ SubSeq(seq, m + 1, Len(seq)) \in Seq(S)
      /\ Len(SubSeq(seq, m + 1, Len(seq))) = Len(seq) - m
      /\ \A i \in 1 .. Len(seq) - m : SubSeq(seq, m + 1, Len(seq))[i] = seq[m + i]
  <2>1. PICK lo, hi : lo = m + 1 /\ hi = Len(seq)
    OBVIOUS
  <2>2. /\ lo \in Nat /\ hi \in Nat /\ 1 <= lo /\ lo <= hi + 1
        /\ \A i \in lo .. hi : seq[i] \in S
    BY <1>1, <2>1
  <2>3. /\ SubSeq(seq, lo, hi) \in Seq(S)
        /\ Len(SubSeq(seq, lo, hi)) = hi - lo + 1
        /\ \A i \in 1 .. hi - lo + 1 : SubSeq(seq, lo, hi)[i] = seq[lo + i - 1]
    BY <2>2, SubSeqProperties
  <2>4. hi - lo + 1 = Len(seq) - m /\ \A i \in Nat : lo + i - 1 = m + i
    BY <1>1, <2>1
  <2>5. \A i \in 1 .. Len(seq) - m : i \in Nat
    OBVIOUS
  <2> QED BY <2>1, <2>3, <2>4, <2>5
<1>3. PICK a, b : a = SubSeq(seq, 1, m) /\ b = SubSeq(seq, m + 1, Len(seq))
  OBVIOUS
<1>4. DOMAIN a = 1 .. m /\ DOMAIN b = 1 .. Len(seq) - m
  <2>1. a \in Seq(S) /\ Len(a) = m /\ b \in Seq(S) /\ Len(b) = Len(seq) - m
    BY <1>1, <1>2, <1>3
  <2> QED BY <2>1
<1>5. IdsOf(a) \subseteq IdsOf(seq)
  <2>1. \A i \in 1 .. m : i \in DOMAIN seq
    BY <1>1
  <2> QED BY <1>1, <1>3, <1>4, <2>1 DEF IdsOf
<1>6. IdsOf(b) \subseteq IdsOf(seq)
  <2>1. \A i \in 1 .. Len(seq) - m : m + i \in DOMAIN seq
    BY <1>1
  <2> QED BY <1>2, <1>3, <1>4, <2>1 DEF IdsOf
<1>7. ASSUME NEW i \in DOMAIN seq
      PROVE  seq[i] \in IdsOf(a) \cup IdsOf(b)
  <2>1. CASE i <= m
    <3>1. i \in 1 .. m
      BY <1>1, <2>1
    <3> QED BY <1>1, <1>3, <1>4, <3>1 DEF IdsOf
  <2>2. CASE ~ (i <= m)
    <3>1. i - m \in 1 .. Len(seq) - m /\ m + (i - m) = i
      BY <1>1, <2>2
    <3>2. b[i - m] = seq[i]
      BY <1>2, <1>3, <3>1
    <3> QED BY <1>4, <3>1, <3>2 DEF IdsOf
  <2> QED BY <2>1, <2>2
<1>8. m # 0 => a # <<>>
  BY <1>1, <1>3
<1>9. IdsOf(seq) \subseteq IdsOf(a) \cup IdsOf(b)
  BY <1>7 DEF IdsOf
<1> QED BY <1>1, <1>2, <1>3, <1>5, <1>6, <1>8, <1>9

(* A task takes SSTs that are in the lists of the state.                   *)
LEMMA TaskInputs ==
    ASSUME NEW s \in States, ListsApart(s), NEW t, TaskFits(s, t)
    PROVE  /\ Inputs(t) \in Seq(Nat)
           /\ IdsOf(Inputs(t)) \subseteq Listed(s)
           /\ t.kind # "tiered" =>
                /\ t.task.upper_level_sst_ids \in Seq(Nat)
                /\ t.task.lower_level_sst_ids \in Seq(Nat)
                /\ IdsOf(Inputs(t)) = IdsOf(t.task.upper_level_sst_ids)
                                      \cup IdsOf(t.task.lower_level_sst_ids)
           /\ t.kind = "tiered" =>
                /\ t.task.tiers \in Seq(Nat \X Seq(Nat))
                /\ t.task.tiers # <<>>
                /\ IdsOf(t.task.tiers) \subseteq IdsOf(s.levels)
                /\ \A x : x \in IdsOf(Inputs(t)) <=>
                        \E y \in IdsOf(t.task.tiers) : x \in IdsOf(y[2])
<1>0. /\ s.levels \in Seq(Nat \X Seq(Nat)) /\ DOMAIN s.levels = 1 .. Len(s.levels)
      /\ Len(s.levels) \in Nat
  BY DEF States
<1>1. \A i \in 1 .. Len(s.levels) : s.levels[i] \in IdsOf(s.levels)
  BY <1>0 DEF IdsOf
<1>2. CASE t.kind # "tiered"
  <2> DEFINE upper == t.task.upper_level_sst_ids
             lower == t.task.lower_level_sst_ids
  <2>1. upper \in Seq(Nat) /\ lower \in Seq(Nat) /\ Inputs(t) = upper \o lower
    BY <1>2 DEF TaskFits, FullFits, LevelFits, TieredFits, Inputs
  <2>2. IdsOf(upper) \subseteq Listed(s) /\ IdsOf(lower) \subseteq Listed(s)
    <3>1. CASE FullFits(s, t)
      <4>1. s.sstables = Listed(s)
        BY DEF ListsApart
      <4> QED BY <3>1, <4>1, ListedIs DEF FullFits
    <3>2. CASE LevelFits(s, t)
      <4>1. UpperIds(s, t.task.upper_level) \subseteq Listed(s)
        <5>1. t.task.upper_level = 0 \/ t.task.upper_level \in 1 .. Len(s.levels)
          BY <1>0, <3>2 DEF LevelFits
        <5> QED BY <1>1, <5>1, ListedIs DEF UpperIds, Policy!L0
      <4>2. IdsOf(s.levels[t.task.lower_level][2]) \subseteq Listed(s)
        BY <1>1, <3>2, ListedIs DEF LevelFits
      <4> QED BY <3>2, <4>1, <4>2 DEF LevelFits
    <3> QED BY <1>2, <3>1, <3>2 DEF TaskFits, TieredFits
  <2> HIDE DEF upper, lower
  <2>4. Inputs(t) \in Seq(Nat) /\ IdsOf(Inputs(t)) = IdsOf(upper) \cup IdsOf(lower)
    BY <2>1, ConcatElements
  <2> QED BY <1>2, <2>1, <2>2, <2>4 DEF upper, lower
<1>3. CASE t.kind = "tiered"
  <2> DEFINE tiers == t.task.tiers
             lists == [i \in DOMAIN tiers |-> tiers[i][2]]
  <2>2. tiers \in Seq(Nat \X Seq(Nat)) /\ tiers # <<>> /\ IdsOf(tiers) \subseteq IdsOf(s.levels)
    BY <1>3 DEF TaskFits, FullFits, LevelFits, TieredFits
  <2>3. Inputs(t) = Policy!FlattenSeq(lists)
    BY <1>3 DEF Inputs, Policy!TieredFilesToRemove
  <2>4. lists \in Seq(Seq(Nat)) /\ DOMAIN lists = DOMAIN tiers
    <3> HIDE DEF tiers
    <3>1. \A i \in DOMAIN tiers : tiers[i][2] \in Seq(Nat)
      BY <2>2
    <3>2. DOMAIN tiers = 1 .. Len(tiers) /\ Len(tiers) \in Nat
      BY <2>2
    <3> QED BY <3>1, <3>2
  <2>5. /\ Inputs(t) \in Seq(Nat)
        /\ \A x : x \in IdsOf(Inputs(t)) <=> \E i \in DOMAIN tiers : x \in IdsOf(lists[i])
    <3> HIDE DEF lists, tiers
    <3> QED BY <2>3, <2>4, FlattenElements
  <2>6. ASSUME NEW x
        PROVE  x \in IdsOf(Inputs(t)) <=> \E y \in IdsOf(tiers) : x \in IdsOf(y[2])
    <3> HIDE DEF tiers
    <3>1. \A i \in DOMAIN tiers : lists[i] = tiers[i][2]
      OBVIOUS
    <3>2. \A y : y \in IdsOf(tiers) <=> \E i \in DOMAIN tiers : y = tiers[i]
      BY DEF IdsOf
    <3> HIDE DEF lists
    <3> QED BY <2>5, <3>1, <3>2
  <2>7. IdsOf(Inputs(t)) \subseteq Listed(s)
    BY <2>2, <2>6, ListedIs
  <2> QED BY <1>3, <2>2, <2>5, <2>6, <2>7
<1> QED BY <1>2, <1>3

(* Merging SSTs takes every cell from one of them, and leaves none out.    *)
LEMMA ContentsHolder ==
    ASSUME NEW ids \in Seq(Nat), NEW c \in Cells
    PROVE  /\ MergeIterator(Contents(ids))[c] # NoEntry =>
                \E id \in IdsOf(ids) : sst_tables[id][c] = MergeIterator(Contents(ids))[c]
           /\ (\E id \in IdsOf(ids) : sst_tables[id][c] # NoEntry) =>
                MergeIterator(Contents(ids))[c] # NoEntry
<1>1. /\ DOMAIN Contents(ids) = DOMAIN ids /\ DOMAIN ids \subseteq Nat
      /\ \A i \in DOMAIN ids : Contents(ids)[i] = sst_tables[ids[i]]
  BY DEF Contents
<1>2. /\ MergeIterator(Contents(ids))[c] # NoEntry =>
            \E i \in DOMAIN ids : Contents(ids)[i][c] = MergeIterator(Contents(ids))[c]
      /\ (\E i \in DOMAIN ids : Contents(ids)[i][c] # NoEntry) =>
            MergeIterator(Contents(ids))[c] # NoEntry
  BY <1>1, MergeHolder
<1> QED BY <1>1, <1>2 DEF IdsOf

LEMMA MergedCells ==
    ASSUME NEW s \in States, ListsApart(s), NEW t, TaskFits(s, t), NEW c \in Cells
    PROVE  /\ Merged(t)[c] # NoEntry =>
                \E id \in IdsOf(Inputs(t)) : sst_tables[id][c] = Merged(t)[c]
           /\ (\E id \in IdsOf(Inputs(t)) : sst_tables[id][c] # NoEntry) =>
                Merged(t)[c] # NoEntry
<1>1. CASE t.kind # "tiered"
  <2> DEFINE upper == t.task.upper_level_sst_ids
             lower == t.task.lower_level_sst_ids
  <2>1. /\ upper \in Seq(Nat) /\ lower \in Seq(Nat)
        /\ IdsOf(Inputs(t)) = IdsOf(upper) \cup IdsOf(lower)
    BY <1>1, TaskInputs
  <2>2. Merged(t) = TwoMergeIterator(MergeIterator(Contents(upper)),
                                     MergeIterator(Contents(lower)))
    BY <1>1 DEF Merged, UpperIterator, SstConcatIterator
  <2> HIDE DEF upper, lower
  <2>3. Merged(t)[c] = IF MergeIterator(Contents(upper))[c] # NoEntry
                       THEN MergeIterator(Contents(upper))[c]
                       ELSE MergeIterator(Contents(lower))[c]
    BY <2>2 DEF TwoMergeIterator
  <2> QED BY <2>1, <2>3, ContentsHolder
<1>2. CASE t.kind = "tiered"
  <2> DEFINE tiers == t.task.tiers
             runs == [i \in DOMAIN tiers |-> SstConcatIterator(Contents(tiers[i][2]))]
  <2>1. /\ tiers \in Seq(Nat \X Seq(Nat))
        /\ \A x : x \in IdsOf(Inputs(t)) <=> \E y \in IdsOf(tiers) : x \in IdsOf(y[2])
    BY <1>2, TaskInputs
  <2>2. Merged(t) = MergeIterator(runs)
    BY <1>2 DEF Merged
  <2> HIDE DEF tiers
  <2>3. /\ DOMAIN runs = DOMAIN tiers /\ DOMAIN tiers \subseteq Nat
        /\ \A i \in DOMAIN tiers : /\ tiers[i][2] \in Seq(Nat)
                                   /\ runs[i] = MergeIterator(Contents(tiers[i][2]))
    BY <2>1 DEF SstConcatIterator
  <2>4. \A y : y \in IdsOf(tiers) <=> \E i \in DOMAIN tiers : y = tiers[i]
    BY DEF IdsOf
  <2> HIDE DEF runs
  <2>5. /\ Merged(t)[c] # NoEntry => \E i \in DOMAIN tiers : runs[i][c] = Merged(t)[c]
        /\ (\E i \in DOMAIN tiers : runs[i][c] # NoEntry) => Merged(t)[c] # NoEntry
    BY <2>2, <2>3, MergeHolder
  <2>6. ASSUME Merged(t)[c] # NoEntry
        PROVE  \E id \in IdsOf(Inputs(t)) : sst_tables[id][c] = Merged(t)[c]
    <3>1. PICK i \in DOMAIN tiers : runs[i][c] = Merged(t)[c]
      BY <2>5, <2>6
    <3>2. PICK id \in IdsOf(tiers[i][2]) : sst_tables[id][c] = Merged(t)[c]
      BY <2>3, <2>6, <3>1, ContentsHolder
    <3> QED BY <2>1, <2>4, <3>2
  <2>7. ASSUME NEW id \in IdsOf(Inputs(t)), sst_tables[id][c] # NoEntry
        PROVE  Merged(t)[c] # NoEntry
    <3>1. PICK i \in DOMAIN tiers : id \in IdsOf(tiers[i][2])
      BY <2>1, <2>4
    <3>2. runs[i][c] # NoEntry
      BY <2>3, <2>7, <3>1, ContentsHolder
    <3> QED BY <2>5, <3>2
  <2> QED BY <2>6, <2>7
<1> QED BY <1>1, <1>2

LEMMA MergedType ==
    ASSUME NEW s \in States, ListsApart(s), NEW t, TaskFits(s, t),
           sst_tables \in [Ids -> Tables], Listed(s) \subseteq Ids
    PROVE  Merged(t) \in Tables
<1>1. Merged(t) = [c \in Cells |-> Merged(t)[c]]
  <2>1. \A a : MergeIterator(a) = [c \in Cells |-> MergeIterator(a)[c]]
    BY DEF MergeIterator
  <2>2. \A a, b : TwoMergeIterator(a, b) = [c \in Cells |-> TwoMergeIterator(a, b)[c]]
    BY DEF TwoMergeIterator
  <2>3. (\E a : Merged(t) = MergeIterator(a)) \/ (\E a, b : Merged(t) = TwoMergeIterator(a, b))
    BY DEF Merged
  <2> QED BY <2>1, <2>2, <2>3
<1>2. ASSUME NEW c \in Cells
      PROVE  Merged(t)[c] \in Values \cup {NoEntry}
  <2>1. \A id \in IdsOf(Inputs(t)) : sst_tables[id] \in Tables
    BY TaskInputs
  <2>2. \A id \in IdsOf(Inputs(t)) : sst_tables[id][c] \in Values \cup {NoEntry}
    BY <2>1 DEF Tables
  <2> QED BY <2>2, MergedCells
<1> HIDE DEF Merged
<1> QED BY <1>1, <1>2 DEF Tables

LEMMA IndexedElements ==
    ASSUME NEW seq, NEW D, DOMAIN seq = D
    PROVE  \A y : y \in IdsOf(seq) <=> \E i \in D : y = seq[i]
BY DEF IdsOf

LEMMA IndexedLists ==
    ASSUME NEW levels, NEW D, DOMAIN levels = D
    PROVE  \A x : (\E y \in IdsOf(levels) : x \in IdsOf(y[2]))
                  <=> \E i \in D : x \in IdsOf(levels[i][2])
<1> SUFFICES ASSUME NEW x
             PROVE  (\E y \in IdsOf(levels) : x \in IdsOf(y[2]))
                    <=> \E i \in D : x \in IdsOf(levels[i][2])
  OBVIOUS
<1>1. \A y : y \in IdsOf(levels) <=> \E i \in D : y = levels[i]
  BY IndexedElements
<1>2. ASSUME NEW y \in IdsOf(levels), x \in IdsOf(y[2])
      PROVE  \E i \in D : x \in IdsOf(levels[i][2])
  BY <1>1, <1>2
<1>3. ASSUME NEW i \in D, x \in IdsOf(levels[i][2])
      PROVE  \E y \in IdsOf(levels) : x \in IdsOf(y[2])
  BY <1>1, <1>3
<1> QED BY <1>2, <1>3
(* The levels of L0 engines, by number.                                    *)
LEMMA LevelsAt ==
    ASSUME NEW s \in States, FlushToL0, ListsApart(s), LevelsShape(s)
    PROVE  /\ MaxLevels \in Nat \ {0} /\ Len(s.levels) = MaxLevels
           /\ DOMAIN s.levels = 1 .. MaxLevels
           /\ \A i \in 1 .. MaxLevels :
                /\ s.levels[i] \in IdsOf(s.levels) /\ s.levels[i][1] = i
                /\ s.levels[i][2] \in Seq(Nat) /\ s.levels[i] = <<i, s.levels[i][2]>>
                /\ IdsOf(s.l0_sstables) \cap IdsOf(s.levels[i][2]) = {}
           /\ \A i, j \in 1 .. MaxLevels :
                i # j => IdsOf(s.levels[i][2]) \cap IdsOf(s.levels[j][2]) = {}
           /\ \A x : x \in s.sstables <=> \/ x \in IdsOf(s.l0_sstables)
                                          \/ \E i \in 1 .. MaxLevels :
                                                x \in IdsOf(s.levels[i][2])
<1>1. /\ s.levels \in Seq(Nat \X Seq(Nat)) /\ Len(s.levels) = MaxLevels
      /\ MaxLevels \in Nat \ {0}
  BY StorageAssumption DEF States, LevelsShape
<1>2. DOMAIN s.levels = 1 .. MaxLevels /\ \A i \in 1 .. MaxLevels : s.levels[i] \in Nat \X Seq(Nat)
  BY <1>1
<1>3. \A i \in 1 .. MaxLevels :
        /\ s.levels[i] \in IdsOf(s.levels) /\ s.levels[i][1] = i
        /\ s.levels[i][2] \in Seq(Nat) /\ s.levels[i] = <<i, s.levels[i][2]>>
  BY <1>2 DEF LevelsShape, IdsOf
<1>4. \A i \in 1 .. MaxLevels : IdsOf(s.l0_sstables) \cap IdsOf(s.levels[i][2]) = {}
  BY <1>3 DEF ListsApart
<1>5. ASSUME NEW i \in 1 .. MaxLevels, NEW j \in 1 .. MaxLevels, i # j
      PROVE  IdsOf(s.levels[i][2]) \cap IdsOf(s.levels[j][2]) = {}
  <2>1. s.levels[i] # s.levels[j]
    BY <1>3, <1>5
  <2> QED BY <1>3, <2>1 DEF ListsApart
<1>6. \A x : (\E y \in IdsOf(s.levels) : x \in IdsOf(y[2]))
             <=> \E i \in 1 .. MaxLevels : x \in IdsOf(s.levels[i][2])
  <2>1. PICK D, levels : D = 1 .. MaxLevels /\ levels = s.levels
    OBVIOUS
  <2>2. DOMAIN levels = D
    BY <1>2, <2>1
  <2>3. \A x : (\E y \in IdsOf(levels) : x \in IdsOf(y[2]))
               <=> \E i \in D : x \in IdsOf(levels[i][2])
    BY <2>2, IndexedLists
  <2> QED BY ONLY <2>1, <2>3
<1>7. \A x : x \in s.sstables <=> \/ x \in IdsOf(s.l0_sstables)
                                  \/ \E i \in 1 .. MaxLevels : x \in IdsOf(s.levels[i][2])
  BY <1>6, ListedIs DEF ListsApart
<1> QED BY <1>1, <1>2, <1>3, <1>4, <1>5, <1>7

(* What is taken from one level, or L0, and another is not taken elsewhere.*)
LEMMA TakenApart ==
    ASSUME NEW s \in States, FlushToL0, ListsApart(s), LevelsShape(s),
           NEW up \in 0 .. MaxLevels, NEW low \in 1 .. MaxLevels, up # low,
           NEW U, U \subseteq UpperIds(s, up),
           NEW W, W \subseteq IdsOf(s.levels[low][2])
    PROVE  /\ IdsOf(s.l0_sstables) \ (U \cup W)
                = IF up = 0 THEN IdsOf(s.l0_sstables) \ U ELSE IdsOf(s.l0_sstables)
           /\ \A i \in 1 .. MaxLevels :
                IdsOf(s.levels[i][2]) \ (U \cup W)
                    = IF i = up THEN IdsOf(s.levels[i][2]) \ U
                      ELSE IF i = low THEN IdsOf(s.levels[i][2]) \ W
                      ELSE IdsOf(s.levels[i][2])
<1>1. /\ MaxLevels \in Nat \ {0}
      /\ \A i \in 1 .. MaxLevels : IdsOf(s.l0_sstables) \cap IdsOf(s.levels[i][2]) = {}
      /\ \A i, j \in 1 .. MaxLevels :
            i # j => IdsOf(s.levels[i][2]) \cap IdsOf(s.levels[j][2]) = {}
  BY LevelsAt
<1>2. /\ up = 0 => U \subseteq IdsOf(s.l0_sstables)
      /\ up # 0 => up \in 1 .. MaxLevels /\ U \subseteq IdsOf(s.levels[up][2])
  BY <1>1 DEF UpperIds, Policy!L0
<1>3. IdsOf(s.l0_sstables) \ (U \cup W)
        = IF up = 0 THEN IdsOf(s.l0_sstables) \ U ELSE IdsOf(s.l0_sstables)
  BY <1>1, <1>2
<1>4. ASSUME NEW i \in 1 .. MaxLevels
      PROVE  IdsOf(s.levels[i][2]) \ (U \cup W)
                = IF i = up THEN IdsOf(s.levels[i][2]) \ U
                  ELSE IF i = low THEN IdsOf(s.levels[i][2]) \ W
                  ELSE IdsOf(s.levels[i][2])
  <2>1. i # low => IdsOf(s.levels[i][2]) \cap W = {}
    BY <1>1
  <2>2. i # up => IdsOf(s.levels[i][2]) \cap U = {}
    BY <1>1, <1>2
  <2> QED BY <2>1, <2>2
<1> QED BY <1>3, <1>4

(* SSTs go into a level in place of those taken out of L0 and the levels.  *)
RunGoesIn(s, new, ins, low, out) ==
    /\ s \in States /\ FlushToL0 /\ ListsApart(s) /\ LevelsShape(s)
    /\ low \in 1 .. MaxLevels
    /\ out \in Seq(Nat) /\ IdsOf(out) \cap s.sstables = {}
    /\ new.levels \in Seq(Nat \X Seq(Nat)) /\ Len(new.levels) = MaxLevels
    /\ \A i \in 1 .. MaxLevels :
            /\ new.levels[i][1] = i
            /\ IdsOf(new.levels[i][2]) = (IdsOf(s.levels[i][2]) \ ins)
                                         \cup (IF i = low THEN IdsOf(out) ELSE {})
    /\ IdsOf(new.l0_sstables) = IdsOf(s.l0_sstables) \ ins
    /\ new.sstables = (s.sstables \ ins) \cup IdsOf(out)

LEMMA RunReplaced ==
    ASSUME NEW s, NEW new, NEW ins, NEW low, NEW out,
           RunGoesIn(s, new, ins, low, out)
    PROVE  ListsApart(new) /\ LevelsShape(new)
<1> DEFINE n == MaxLevels
           L == [i \in 1 .. n |-> IdsOf(s.levels[i][2])]
           N == [i \in 1 .. n |-> IdsOf(new.levels[i][2])]
           l0 == IdsOf(s.l0_sstables)
           outs == IdsOf(out)
<1>a. /\ s \in States /\ FlushToL0 /\ ListsApart(s) /\ LevelsShape(s)
      /\ low \in 1 .. n
      /\ outs \cap s.sstables = {}
      /\ new.levels \in Seq(Nat \X Seq(Nat)) /\ Len(new.levels) = n
      /\ \A i \in 1 .. n : new.levels[i][1] = i
      /\ IdsOf(new.l0_sstables) = l0 \ ins
      /\ new.sstables = (s.sstables \ ins) \cup outs
  BY DEF RunGoesIn
<1>1. n \in Nat \ {0} /\ DOMAIN new.levels = 1 .. n
  BY <1>a, StorageAssumption
<1>2. \A i \in 1 .. n : N[i] = (L[i] \ ins) \cup (IF i = low THEN outs ELSE {})
  BY DEF RunGoesIn
<1>3. /\ \A i, j \in 1 .. n : i # j => L[i] \cap L[j] = {}
      /\ \A i \in 1 .. n : l0 \cap L[i] = {}
      /\ \A x : x \in s.sstables <=> x \in l0 \/ \E i \in 1 .. n : x \in L[i]
  BY <1>a, LevelsAt
<1>4. \A i \in 1 .. n : N[i] = IdsOf(new.levels[i][2])
  OBVIOUS
<1> HIDE DEF L, N
<1>5. \A y : y \in IdsOf(new.levels) <=> \E i \in 1 .. n : y = new.levels[i]
  <2>1. PICK D, levels : D = 1 .. n /\ levels = new.levels
    OBVIOUS
  <2>2. DOMAIN levels = D
    BY <1>1, <2>1
  <2>3. \A y : y \in IdsOf(levels) <=> \E i \in D : y = levels[i]
    BY <2>2, IndexedElements
  <2> QED BY ONLY <2>1, <2>3
<1>6. \A x : x \in Listed(new) <=> \/ x \in IdsOf(new.l0_sstables)
                                   \/ \E i \in 1 .. n : x \in N[i]
  <2>1. \A x : (\E y \in IdsOf(new.levels) : x \in IdsOf(y[2])) <=> \E i \in 1 .. n : x \in N[i]
    <3> SUFFICES ASSUME NEW x
                 PROVE  (\E y \in IdsOf(new.levels) : x \in IdsOf(y[2]))
                        <=> \E i \in 1 .. n : x \in N[i]
      OBVIOUS
    <3> QED BY <1>4, <1>5
  <2> QED BY <2>1, ListedIs
<1>7. LevelsShape(new)
  <2>1. Once(new.levels)
    BY <1>a, <1>1 DEF Once
  <2> QED BY <1>a, <1>1, <2>1 DEF LevelsShape
<1> HIDE DEF outs, l0, n
<1>8. \A i, j \in 1 .. n : i # j => N[i] \cap N[j] = {}
  <2> SUFFICES ASSUME NEW i \in 1 .. n, NEW j \in 1 .. n, i # j, NEW x, x \in N[i], x \in N[j]
               PROVE  FALSE
    OBVIOUS
  <2>1. (x \in L[i] \/ (x \in outs /\ i = low)) /\ (x \in L[j] \/ (x \in outs /\ j = low))
    BY <1>2
  <2>2. x \in outs => x \notin L[i] /\ x \notin L[j]
    BY <1>a, <1>3
  <2>3. ~ (x \in L[i] /\ x \in L[j])
    BY <1>3
  <2> QED BY <2>1, <2>2, <2>3
<1>9. \A i \in 1 .. n : IdsOf(new.l0_sstables) \cap N[i] = {}
  <2> SUFFICES ASSUME NEW i \in 1 .. n, NEW x, x \in IdsOf(new.l0_sstables), x \in N[i]
               PROVE  FALSE
    OBVIOUS
  <2>1. x \in l0 /\ x \in s.sstables
    BY <1>a, <1>3
  <2>2. x \in L[i] \/ x \in outs
    BY <1>2
  <2> QED BY <1>a, <1>3, <2>1, <2>2
<1>10. ASSUME NEW x
       PROVE  x \in Listed(new) <=> x \in new.sstables
  <2>1. ASSUME x \in new.sstables PROVE x \in Listed(new)
    <3>1. CASE x \in outs
      BY <1>a, <1>2, <1>6, <3>1
    <3>2. CASE x \in s.sstables /\ x \notin ins
      BY <1>a, <1>2, <1>3, <1>6, <3>2
    <3> QED BY <1>a, <2>1, <3>1, <3>2
  <2>2. ASSUME x \in Listed(new) PROVE x \in new.sstables
    <3>1. CASE x \in IdsOf(new.l0_sstables)
      BY <1>a, <1>3, <3>1
    <3>2. CASE \E i \in 1 .. n : x \in N[i]
      BY <1>a, <1>2, <1>3, <3>2
    <3> QED BY <1>6, <2>2, <3>1, <3>2
  <2> QED BY <2>1, <2>2
<1>11. \A x, y \in IdsOf(new.levels) : x # y => IdsOf(x[2]) \cap IdsOf(y[2]) = {}
  BY <1>4, <1>5, <1>8
<1>12. \A x \in IdsOf(new.levels) : IdsOf(new.l0_sstables) \cap IdsOf(x[2]) = {}
  BY <1>4, <1>5, <1>9
<1>13. Listed(new) = new.sstables
  BY ONLY <1>10
<1> QED BY <1>7, <1>11, <1>12, <1>13 DEF ListsApart

(* One tier takes the place of several.                                    *)
LEMMA TierReplaced ==
    ASSUME NEW s \in States, ~ FlushToL0, ListsApart(s), LevelsShape(s),
           NEW tiers, tiers \subseteq IdsOf(s.levels),
           NEW out \in Seq(Nat), out # <<>>, IdsOf(out) \cap s.sstables = {}, NEW num,
           NEW ins, \A x : x \in ins <=> \E y \in tiers : x \in IdsOf(y[2]),
           NEW new, new.l0_sstables = s.l0_sstables,
           IdsOf(new.levels) = (IdsOf(s.levels) \ tiers) \cup {<<num, out>>},
           Once(new.levels),
           new.sstables = (s.sstables \ ins) \cup IdsOf(out)
    PROVE  ListsApart(new) /\ LevelsShape(new)
<1> DEFINE tier == <<num, out>>
<1>1. tier[2] = out
  OBVIOUS
<1> HIDE DEF tier
<1>2. IdsOf(new.levels) = (IdsOf(s.levels) \ tiers) \cup {tier}
  BY DEF tier
<1>3. s.l0_sstables = <<>> /\ IdsOf(s.l0_sstables) = {}
      /\ \A x \in IdsOf(s.levels) : x[2] # <<>>
  BY DEF LevelsShape, IdsOf
<1>4. /\ \A x : x \in s.sstables <=> \E y \in IdsOf(s.levels) : x \in IdsOf(y[2])
      /\ \A x : x \in Listed(new) <=> \E y \in IdsOf(new.levels) : x \in IdsOf(y[2])
  BY <1>3, ListedIs DEF ListsApart
<1>5. \A x, y \in IdsOf(s.levels) : x # y => IdsOf(x[2]) \cap IdsOf(y[2]) = {}
  BY DEF ListsApart
<1>6. LevelsShape(new)
  BY <1>1, <1>2, <1>3 DEF LevelsShape
<1>7. ASSUME NEW x \in IdsOf(new.levels), NEW y \in IdsOf(new.levels), x # y
      PROVE  IdsOf(x[2]) \cap IdsOf(y[2]) = {}
  <2>1. \A z \in IdsOf(s.levels) : IdsOf(out) \cap IdsOf(z[2]) = {}
    BY <1>4
  <2> QED BY <1>1, <1>2, <1>5, <1>7, <2>1
<1>8. ASSUME NEW x
      PROVE  x \in Listed(new) <=> x \in new.sstables
  <2>1. ASSUME x \in new.sstables PROVE x \in Listed(new)
    <3>1. CASE x \in IdsOf(out)
      BY <1>1, <1>2, <1>4, <3>1
    <3>2. CASE x \in s.sstables /\ x \notin ins
      BY <1>2, <1>4, <3>2
    <3> QED BY <2>1, <3>1, <3>2
  <2>2. ASSUME NEW y \in IdsOf(new.levels), x \in IdsOf(y[2])
        PROVE  x \in new.sstables
    <3>1. CASE y = tier
      BY <1>1, <2>2, <3>1
    <3>2. CASE y \in IdsOf(s.levels) \ tiers
      <4>1. x \in s.sstables
        BY <1>4, <2>2, <3>2
      <4>2. x \notin ins
        BY <1>5, <2>2, <3>2
      <4> QED BY <4>1, <4>2
    <3> QED BY <1>2, <2>2, <3>1, <3>2
  <2> QED BY <1>4, <2>1, <2>2
<1> QED BY <1>3, <1>6, <1>7, <1>8 DEF ListsApart

(* SSTs that are no tier's yet make a new one.                             *)
LEMMA NewTier ==
    ASSUME NEW s \in States, ~ FlushToL0, ListsApart(s), LevelsShape(s),
           NEW out \in Seq(Nat), out # <<>>, IdsOf(out) \cap s.sstables = {}, NEW num
    PROVE  <<num, out>> \notin IdsOf(s.levels)
<1>1. PICK tier : tier = <<num, out>>
  OBVIOUS
<1>2. tier[2] = out
  BY <1>1
<1>3. out[1] \in IdsOf(out)
  <2>1. 1 \in DOMAIN out
    OBVIOUS
  <2> QED BY <2>1 DEF IdsOf
<1>4. tier \in IdsOf(s.levels) => out[1] \in s.sstables
  BY <1>2, <1>3, ListedIs DEF ListsApart
<1> QED BY <1>1, <1>3, <1>4

LEMMA LevelSet ==
    ASSUME NEW levels \in Seq(Nat \X Seq(Nat)), NEW i \in 1 .. Len(levels),
           NEW num \in Nat, NEW out \in Seq(Nat)
    PROVE  /\ [levels EXCEPT ![i] = <<num, out>>] \in Seq(Nat \X Seq(Nat))
           /\ Len([levels EXCEPT ![i] = <<num, out>>]) = Len(levels)
           /\ \A j \in 1 .. Len(levels) :
                [levels EXCEPT ![i] = <<num, out>>][j] = IF j = i THEN <<num, out>> ELSE levels[j]
<1> DEFINE S == Nat \X Seq(Nat)
           level == <<num, out>>
<1>1. Len(levels) \in Nat /\ i \in Nat /\ levels \in Seq(S) /\ level \in S
  OBVIOUS
<1> HIDE DEF S, level
<1>2. levels \in [1 .. Len(levels) -> S] /\ DOMAIN levels = 1 .. Len(levels)
  BY <1>1
<1>3. [levels EXCEPT ![i] = level] \in [1 .. Len(levels) -> S]
  BY <1>1, <1>2
<1>4. \A j \in 1 .. Len(levels) :
        [levels EXCEPT ![i] = level][j] = IF j = i THEN level ELSE levels[j]
  BY <1>2
<1>5. PICK f : f = [levels EXCEPT ![i] = level]
  OBVIOUS
<1>6. f \in Seq(S) /\ Len(f) = Len(levels)
  BY <1>1, <1>3, <1>5
<1> QED BY <1>4, <1>5, <1>6 DEF S, level

(* The state that force_full_compaction installs.                          *)
FullInstalled(s, t, out) ==
    [s EXCEPT !.l0_sstables = Policy!Without(@, IdsOf(Inputs(t))),
              !.sstables = (@ \ IdsOf(Inputs(t))) \cup IdsOf(out),
              !.levels[1] = <<1, out>>]

LEMMA FullReplaces ==
    ASSUME NEW s \in States, ListsApart(s), LevelsShape(s), NEW t, FullFits(s, t),
           s.levels[1][2] = t.task.lower_level_sst_ids,
           NEW out \in Seq(Nat), ~ FlushToL0 => out # <<>>, IdsOf(out) \cap s.sstables = {}
    PROVE  Replaces(s, FullInstalled(s, t, out), t, out)
<1> DEFINE U == IdsOf(t.task.upper_level_sst_ids)
           W == IdsOf(t.task.lower_level_sst_ids)
           ins == IdsOf(Inputs(t))
           rest == Policy!Without(s.l0_sstables, ins)
           levels == [s.levels EXCEPT ![1] = <<1, out>>]
           new == FullInstalled(s, t, out)
<1>0. /\ s.memtable \in Nat /\ s.imm_memtables \in Seq(Nat)
      /\ s.l0_sstables \in Seq(Nat) /\ s.levels \in Seq(Nat \X Seq(Nat))
      /\ s.sstables \in SUBSET Nat
  BY DEF States
<1>1. t.kind = "full" /\ s.levels # <<>> /\ U \subseteq IdsOf(s.l0_sstables)
  BY DEF FullFits
<1>2. ins = U \cup W
  <2>1. TaskFits(s, t)
    BY DEF TaskFits
  <2> QED BY <1>1, <2>1, TaskInputs
<1> HIDE DEF ins
<1>3. rest \in Seq(Nat) /\ IdsOf(rest) = IdsOf(s.l0_sstables) \ ins
  BY <1>0, WithoutElements
<1>4. /\ levels \in Seq(Nat \X Seq(Nat)) /\ Len(levels) = Len(s.levels)
      /\ \A j \in 1 .. Len(s.levels) : levels[j] = IF j = 1 THEN <<1, out>> ELSE s.levels[j]
      /\ Len(s.levels) \in Nat /\ 1 \in 1 .. Len(s.levels)
      /\ DOMAIN levels = 1 .. Len(s.levels) /\ DOMAIN s.levels = 1 .. Len(s.levels)
  <2>1. Len(s.levels) \in Nat /\ 1 \in 1 .. Len(s.levels) /\ DOMAIN s.levels = 1 .. Len(s.levels)
    <3>1. PICK S, seq : S = Nat \X Seq(Nat) /\ seq = s.levels
      OBVIOUS
    <3>2. seq \in Seq(S) /\ seq # <<>>
      BY <1>0, <1>1, <3>1
    <3>3. Len(seq) \in Nat /\ 1 \in 1 .. Len(seq) /\ DOMAIN seq = 1 .. Len(seq)
      BY <3>2
    <3> QED BY <3>1, <3>3
  <2>2. /\ levels \in Seq(Nat \X Seq(Nat)) /\ Len(levels) = Len(s.levels)
        /\ \A j \in 1 .. Len(s.levels) : levels[j] = IF j = 1 THEN <<1, out>> ELSE s.levels[j]
    <3>1. PICK old, one : old = s.levels /\ one = 1
      OBVIOUS
    <3>2. old \in Seq(Nat \X Seq(Nat)) /\ one \in 1 .. Len(old) /\ one \in Nat
      BY <1>0, <2>1, <3>1
    <3>3. /\ [old EXCEPT ![one] = <<one, out>>] \in Seq(Nat \X Seq(Nat))
          /\ Len([old EXCEPT ![one] = <<one, out>>]) = Len(old)
          /\ \A j \in 1 .. Len(old) : [old EXCEPT ![one] = <<one, out>>][j]
                                        = IF j = one THEN <<one, out>> ELSE old[j]
      BY <3>2, LevelSet
    <3> QED BY <3>1, <3>3
  <2> QED BY <2>1, <2>2
<1> HIDE DEF rest, levels
<1>5. IdsOf(out) \subseteq Nat
  BY DEF IdsOf
<1>6. /\ new \in States
      /\ new.memtable = s.memtable /\ new.imm_memtables = s.imm_memtables
      /\ new.l0_sstables = rest /\ new.levels = levels
      /\ new.sstables = (s.sstables \ ins) \cup IdsOf(out)
  <2>1. new = [s EXCEPT !.l0_sstables = rest,
                        !.sstables = (s.sstables \ ins) \cup IdsOf(out),
                        !.levels = levels]
    BY DEF FullInstalled, rest, ins, levels, States
  <2>2. (s.sstables \ ins) \cup IdsOf(out) \in SUBSET Nat
    BY <1>0, <1>5
  <2> QED BY <1>3, <1>4, <2>1, <2>2 DEF States
<1> HIDE DEF new
<1>7. CASE FlushToL0
  <2>0. PICK n, low : n = MaxLevels /\ low = 1
    OBVIOUS
  <2>1. /\ n \in Nat \ {0} /\ Len(s.levels) = n /\ low \in 1 .. n
        /\ \A i \in 1 .. n : s.levels[i][1] = i /\ IdsOf(s.levels[i][2]) = IdsOf(s.levels[i][2])
    BY <1>7, <2>0, LevelsAt
  <2>2. /\ U \subseteq UpperIds(s, 0) /\ W \subseteq IdsOf(s.levels[low][2])
        /\ low \in 1 .. MaxLevels /\ 0 \in 0 .. MaxLevels /\ 0 # low
    BY <1>1, <2>0, <2>1 DEF UpperIds, Policy!L0
  <2> HIDE DEF U, W
  <2>3. \A i \in 1 .. MaxLevels :
                IdsOf(s.levels[i][2]) \ (U \cup W)
                    = IF i = 0 THEN IdsOf(s.levels[i][2]) \ U
                      ELSE IF i = low THEN IdsOf(s.levels[i][2]) \ W
                      ELSE IdsOf(s.levels[i][2])
    BY <1>7, <2>2, TakenApart
  <2>4. \A i \in 1 .. MaxLevels :
            /\ new.levels[i][1] = i
            /\ IdsOf(new.levels[i][2]) = (IdsOf(s.levels[i][2]) \ ins)
                                         \cup (IF i = low THEN IdsOf(out) ELSE {})
    <3> SUFFICES ASSUME NEW i \in 1 .. MaxLevels
                 PROVE  /\ new.levels[i][1] = i
                        /\ IdsOf(new.levels[i][2]) = (IdsOf(s.levels[i][2]) \ ins)
                                             \cup (IF i = low THEN IdsOf(out) ELSE {})
      OBVIOUS
    <3>1. CASE i = low
      <4>1. new.levels[i] = <<1, out>> /\ s.levels[i][2] = t.task.lower_level_sst_ids
        BY <1>4, <1>6, <2>0, <2>1, <3>1
      <4>2. IdsOf(s.levels[i][2]) \subseteq ins
        BY <1>2, <4>1 DEF W
      <4> QED BY <2>0, <3>1, <4>1, <4>2
    <3>2. CASE i # low
      <4>1. new.levels[i] = s.levels[i] /\ s.levels[i][1] = i
        BY <1>4, <1>6, <2>0, <2>1, <3>2
      <4>2. IdsOf(s.levels[i][2]) \ ins = IdsOf(s.levels[i][2])
        BY <1>2, <2>0, <2>1, <2>3, <3>2
      <4> QED BY <3>2, <4>1, <4>2
    <3> QED BY <3>1, <3>2
  <2>5. /\ new.levels \in Seq(Nat \X Seq(Nat)) /\ Len(new.levels) = MaxLevels
        /\ IdsOf(new.l0_sstables) = IdsOf(s.l0_sstables) \ ins
        /\ new.sstables = (s.sstables \ ins) \cup IdsOf(out)
    BY <1>3, <1>4, <1>6, <2>0, <2>1
  <2>6. RunGoesIn(s, new, ins, low, out)
    BY <1>7, <2>2, <2>4, <2>5 DEF RunGoesIn
  <2>7. ListsApart(new) /\ LevelsShape(new)
    BY <2>6, RunReplaced
  <2> QED BY <1>6, <2>7 DEF Replaces, new, ins
<1>8. CASE ~ FlushToL0
  <2> DEFINE old == s.levels[1]
  <2>1. /\ s.l0_sstables = <<>> /\ IdsOf(s.l0_sstables) = {} /\ Once(s.levels)
        /\ old \in IdsOf(s.levels) /\ old[2] = t.task.lower_level_sst_ids
    BY <1>4, <1>8 DEF LevelsShape, IdsOf
  <2> HIDE DEF old
  <2>2. ins = IdsOf(old[2])
    BY <1>1, <1>2, <2>1
  <2>3. PICK tier : tier = <<1, out>>
    OBVIOUS
  <2>4. tier \notin IdsOf(s.levels)
    BY <1>8, <2>3, NewTier
  <2>5. \A y : y \in IdsOf(s.levels) <=> \E i \in 1 .. Len(s.levels) : y = s.levels[i]
    BY <1>4 DEF IdsOf
  <2>6. \A y : y \in IdsOf(levels) <=> \E i \in 1 .. Len(s.levels) : y = levels[i]
    BY <1>4 DEF IdsOf
  <2>7. IdsOf(levels) = (IdsOf(s.levels) \ {old}) \cup {tier}
    <3>1. \A i \in 1 .. Len(s.levels) : levels[i] = IF i = 1 THEN tier ELSE s.levels[i]
      BY <1>4, <2>3
    <3>2. \A i \in 1 .. Len(s.levels) : s.levels[i] = old => i = 1
      BY <1>4, <2>1 DEF Once, old
    <3>3. s.levels[1] = old
      BY DEF old
    <3>4. \A y : y \in IdsOf(levels) <=> (y \in IdsOf(s.levels) /\ y # old) \/ y = tier
      <4>1. ASSUME NEW i \in 1 .. Len(s.levels)
            PROVE  (levels[i] \in IdsOf(s.levels) /\ levels[i] # old) \/ levels[i] = tier
        BY <2>5, <3>1, <3>2
      <4>2. ASSUME NEW y \in IdsOf(s.levels), y # old
            PROVE  y \in IdsOf(levels)
        <5>1. PICK i \in 1 .. Len(s.levels) : y = s.levels[i]
          BY <2>5
        <5>2. levels[i] = y
          BY <3>1, <3>3, <4>2, <5>1
        <5> QED BY <2>6, <5>2
      <4>3. tier \in IdsOf(levels)
        BY <1>4, <2>6, <3>1
      <4> QED BY <2>6, <4>1, <4>2, <4>3
    <3> QED BY <3>4
  <2>8. Once(levels)
    <3>1. \A i \in 1 .. Len(s.levels) : s.levels[i] # tier
      BY <2>4, <2>5
    <3>2. \A i \in 1 .. Len(s.levels) : levels[i] = IF i = 1 THEN tier ELSE s.levels[i]
      BY <1>4, <2>3
    <3>3. \A i, j \in 1 .. Len(s.levels) : s.levels[i] = s.levels[j] => i = j
      BY <1>4, <2>1 DEF Once
    <3>4. \A i, j \in 1 .. Len(s.levels) : levels[i] = levels[j] => i = j
      BY <3>1, <3>2, <3>3
    <3> QED BY <1>4, <3>4 DEF Once
  <2>9. new.l0_sstables = s.l0_sstables
    <3>1. DOMAIN rest = {}
      BY <1>3, <2>1 DEF IdsOf
    <3>2. rest = <<>>
      BY <1>3, <3>1
    <3> QED BY <1>6, <2>1, <3>2
  <2>10. PICK tiers : tiers = {old}
    OBVIOUS
  <2>11. \A x : x \in ins <=> \E y \in tiers : x \in IdsOf(y[2])
    BY <2>2, <2>10
  <2>12. /\ tiers \subseteq IdsOf(s.levels)
         /\ IdsOf(new.levels) = (IdsOf(s.levels) \ tiers) \cup {<<1, out>>}
         /\ Once(new.levels)
         /\ new.sstables = (s.sstables \ ins) \cup IdsOf(out)
    BY <1>6, <2>1, <2>3, <2>7, <2>8, <2>10
  <2>13. ListsApart(new) /\ LevelsShape(new)
    BY ONLY <1>8, <2>9, <2>11, <2>12, TierReplaced, s \in States, ListsApart(s), LevelsShape(s),
            out \in Seq(Nat), (~ FlushToL0 => out # <<>>), IdsOf(out) \cap s.sstables = {}
  <2> QED BY <1>6, <2>13 DEF Replaces, new, ins
<1> QED BY <1>7, <1>8

(* What is taken from a level, or L0, and the next one goes to the latter. *)
LevelMerged(s, new, t, out) ==
    LET up == t.task.upper_level
        low == t.task.lower_level
        U == IdsOf(t.task.upper_level_sst_ids)
        W == IdsOf(t.task.lower_level_sst_ids)
    IN /\ new \in States
       /\ new.memtable = s.memtable
       /\ new.imm_memtables = s.imm_memtables
       /\ new.sstables = (s.sstables \ IdsOf(Inputs(t))) \cup IdsOf(out)
       /\ Len(new.levels) = MaxLevels
       /\ IdsOf(new.l0_sstables) = IF up = 0 THEN IdsOf(s.l0_sstables) \ U
                                             ELSE IdsOf(s.l0_sstables)
       /\ \A i \in 1 .. MaxLevels :
            /\ new.levels[i][1] = i
            /\ IdsOf(new.levels[i][2]) =
                    IF i = low THEN (IdsOf(s.levels[i][2]) \ W) \cup IdsOf(out)
                    ELSE IF i = up THEN IdsOf(s.levels[i][2]) \ U
                    ELSE IdsOf(s.levels[i][2])

LEMMA LevelReplaces ==
    ASSUME NEW s \in States, ListsApart(s), LevelsShape(s), NEW t, LevelFits(s, t),
           NEW out \in Seq(Nat), IdsOf(out) \cap s.sstables = {},
           NEW new, LevelMerged(s, new, t, out)
    PROVE  Replaces(s, new, t, out)
<1> DEFINE up == t.task.upper_level
           low == t.task.lower_level
           U == IdsOf(t.task.upper_level_sst_ids)
           W == IdsOf(t.task.lower_level_sst_ids)
           ins == IdsOf(Inputs(t))
<1>1. /\ FlushToL0 /\ Len(s.levels) = MaxLevels
      /\ up \in 0 .. MaxLevels /\ low \in 1 .. MaxLevels /\ up # low
      /\ U \subseteq UpperIds(s, up) /\ W \subseteq IdsOf(s.levels[low][2])
      /\ t.kind # "tiered"
  BY LevelsAt DEF LevelFits
<1>2. ins = U \cup W
  <2>1. TaskFits(s, t)
    BY DEF TaskFits
  <2> QED BY <1>1, <2>1, TaskInputs
<1> DEFINE L == [i \in 1 .. MaxLevels |-> IdsOf(s.levels[i][2])]
           N == [i \in 1 .. MaxLevels |-> IdsOf(new.levels[i][2])]
<1>3. /\ new \in States /\ new.memtable = s.memtable /\ new.imm_memtables = s.imm_memtables
      /\ new.sstables = (s.sstables \ ins) \cup IdsOf(out)
      /\ Len(new.levels) = MaxLevels
      /\ IdsOf(new.l0_sstables) = IF up = 0 THEN IdsOf(s.l0_sstables) \ U
                                            ELSE IdsOf(s.l0_sstables)
      /\ \A i \in 1 .. MaxLevels :
            /\ new.levels[i][1] = i
            /\ N[i] = IF i = low THEN (L[i] \ W) \cup IdsOf(out)
                      ELSE IF i = up THEN L[i] \ U ELSE L[i]
  BY DEF LevelMerged
<1> HIDE DEF up, low, U, W, ins
<1>4. /\ IdsOf(s.l0_sstables) \ ins
            = IF up = 0 THEN IdsOf(s.l0_sstables) \ U ELSE IdsOf(s.l0_sstables)
      /\ \A i \in 1 .. MaxLevels :
            IdsOf(s.levels[i][2]) \ ins
                = IF i = up THEN IdsOf(s.levels[i][2]) \ U
                  ELSE IF i = low THEN IdsOf(s.levels[i][2]) \ W
                  ELSE IdsOf(s.levels[i][2])
  BY <1>1, <1>2, TakenApart
<1>5. \A i \in 1 .. MaxLevels : L[i] \ ins = IF i = up THEN L[i] \ U
                                             ELSE IF i = low THEN L[i] \ W ELSE L[i]
  BY <1>4
<1>6. \A i \in 1 .. MaxLevels :
            N[i] = (L[i] \ ins) \cup (IF i = low THEN IdsOf(out) ELSE {})
  <2> HIDE DEF L, N
  <2> TAKE i \in 1 .. MaxLevels
  <2>1. CASE i = low
    BY <1>1, <1>3, <1>5, <2>1
  <2>2. CASE i # low
    BY <1>3, <1>5, <2>2
  <2> QED BY <2>1, <2>2
<1>7. RunGoesIn(s, new, ins, low, out)
  <2>1. new.levels \in Seq(Nat \X Seq(Nat))
    BY <1>3 DEF States
  <2> QED BY <1>1, <1>3, <1>4, <1>6, <2>1 DEF RunGoesIn
<1>8. ListsApart(new) /\ LevelsShape(new)
  BY <1>7, RunReplaced
<1> QED BY <1>3, <1>8 DEF Replaces, ins

LEMMA SimpleReplaces ==
    ASSUME NEW s \in States, ListsApart(s), LevelsShape(s), NEW t, LevelFits(s, t),
           t.kind = "simple",
           NEW out \in Seq(Nat), IdsOf(out) \cap s.sstables = {}
    PROVE  Replaces(s, Compacted(s, t, out), t, out)
<1> DEFINE ins == IdsOf(Inputs(t))
           up == t.task.upper_level
           low == t.task.lower_level
           U == IdsOf(t.task.upper_level_sst_ids)
           W == IdsOf(t.task.lower_level_sst_ids)
           new == Compacted(s, t, out)
           added == [s EXCEPT !.sstables = @ \cup IdsOf(out)]
           applied == Policy!SimpleApply(added, t.task, out)
<1>0. /\ s.memtable \in Nat /\ s.imm_memtables \in Seq(Nat)
      /\ s.l0_sstables \in Seq(Nat) /\ s.levels \in Seq(Nat \X Seq(Nat))
      /\ s.sstables \in SUBSET Nat
  BY DEF States
<1>1. /\ FlushToL0 /\ Len(s.levels) = MaxLevels /\ MaxLevels \in Nat \ {0}
      /\ \A i \in 1 .. MaxLevels : s.levels[i][1] = i
  BY LevelsAt DEF LevelFits
<1>2. /\ up \in 0 .. MaxLevels /\ low \in 1 .. MaxLevels /\ up # low
      /\ low \in Nat /\ up \in Nat
      /\ up = 0 => low = 1
      /\ up # 0 => t.task.upper_level_sst_ids = s.levels[up][2]
      /\ t.task.lower_level_sst_ids = s.levels[low][2]
  BY <1>1 DEF LevelFits, Policy!L0
<1>3. ins \subseteq s.sstables
  <2>1. TaskFits(s, t)
    BY DEF TaskFits
  <2>2. IdsOf(Inputs(t)) \subseteq Listed(s)
    BY <2>1, TaskInputs
  <2>3. Listed(s) = s.sstables
    BY DEF ListsApart
  <2> QED BY <2>2, <2>3
<1>4. new = [applied EXCEPT !.sstables = @ \ ins]
  BY DEF Compacted
<1>5. IdsOf(out) \subseteq Nat /\ IdsOf(<<>>) = {} /\ <<>> \in Seq(Nat)
  BY DEF IdsOf
<1> HIDE DEF ins
<1>7. /\ (s.sstables \ ins) \cup IdsOf(out) \in SUBSET Nat
      /\ (s.sstables \cup IdsOf(out)) \ ins = (s.sstables \ ins) \cup IdsOf(out)
  BY <1>0, <1>3, <1>5
<1>8. CASE up = 0
  <2> DEFINE rest == Policy!Without(s.l0_sstables, U)
             levels == [s.levels EXCEPT ![1] = <<1, out>>]
  <2>1. rest \in Seq(Nat) /\ IdsOf(rest) = IdsOf(s.l0_sstables) \ U
    <3> HIDE DEF U
    <3> QED BY <1>0, WithoutElements
  <2>2. /\ levels \in Seq(Nat \X Seq(Nat)) /\ Len(levels) = MaxLevels
        /\ \A j \in 1 .. MaxLevels : levels[j] = IF j = 1 THEN <<1, out>> ELSE s.levels[j]
    <3>1. PICK old, one : old = s.levels /\ one = 1
      OBVIOUS
    <3>2. old \in Seq(Nat \X Seq(Nat)) /\ one \in 1 .. Len(old) /\ one \in Nat
      BY <1>0, <1>1, <3>1
    <3>3. /\ [old EXCEPT ![one] = <<one, out>>] \in Seq(Nat \X Seq(Nat))
          /\ Len([old EXCEPT ![one] = <<one, out>>]) = Len(old)
          /\ \A j \in 1 .. Len(old) : [old EXCEPT ![one] = <<one, out>>][j]
                                        = IF j = one THEN <<one, out>> ELSE old[j]
      BY <3>2, LevelSet
    <3> QED BY <1>1, <3>1, <3>3
  <2>3. applied = [added EXCEPT !.l0_sstables = rest, !.levels[1] = <<1, out>>]
    BY <1>2, <1>8 DEF Policy!SimpleApply, Policy!L0, Policy!Ids, IdsOf, States
  <2> HIDE DEF rest, applied
  <2>4. /\ new \in States
        /\ new.memtable = s.memtable /\ new.imm_memtables = s.imm_memtables
        /\ new.l0_sstables = rest /\ new.levels = levels
        /\ new.sstables = (s.sstables \ ins) \cup IdsOf(out)
    <3>1. new = [s EXCEPT !.l0_sstables = rest,
                          !.sstables = (s.sstables \cup IdsOf(out)) \ ins,
                          !.levels = levels]
      BY <1>4, <2>3 DEF States
    <3> HIDE DEF new, levels, added
    <3> QED BY <1>7, <2>1, <2>2, <3>1 DEF States
  <2> HIDE DEF new, levels, up, low
  <2>5. \A i \in 1 .. MaxLevels :
            /\ new.levels[i][1] = i
            /\ IdsOf(new.levels[i][2]) =
                    IF i = low THEN (IdsOf(s.levels[i][2]) \ W) \cup IdsOf(out)
                    ELSE IF i = up THEN IdsOf(s.levels[i][2]) \ U
                    ELSE IdsOf(s.levels[i][2])
    <3> TAKE i \in 1 .. MaxLevels
    <3>1. CASE i = low
      <4>1. new.levels[i] = <<1, out>> /\ i = 1
        BY <1>2, <1>8, <2>2, <2>4, <3>1
      <4>2. IdsOf(s.levels[i][2]) \ W = {}
        BY <1>2, <3>1
      <4> QED BY <3>1, <4>1, <4>2
    <3>2. CASE i # low
      <4>1. new.levels[i] = s.levels[i] /\ i # up
        BY <1>2, <1>8, <2>2, <2>4, <3>2
      <4> QED BY <1>1, <3>2, <4>1
    <3> QED BY <3>1, <3>2
  <2>6. LevelMerged(s, new, t, out)
    BY <1>8, <2>1, <2>2, <2>4, <2>5 DEF LevelMerged, up, low, ins
  <2> QED BY <2>6, LevelReplaces DEF new
<1>9. CASE up # 0
  <2> DEFINE emptied == [s.levels EXCEPT ![up] = <<up, <<>>>>]
             levels == [emptied EXCEPT ![low] = <<low, out>>]
  <2>1. /\ emptied \in Seq(Nat \X Seq(Nat)) /\ Len(emptied) = MaxLevels
        /\ \A j \in 1 .. MaxLevels :
                emptied[j] = IF j = up THEN <<up, <<>>>> ELSE s.levels[j]
    <3>2. PICK old, none, i : old = s.levels /\ none = <<>> /\ i = up
      OBVIOUS
    <3> HIDE DEF up
    <3>5. old \in Seq(Nat \X Seq(Nat)) /\ i \in 1 .. Len(old) /\ i \in Nat /\ none \in Seq(Nat)
      BY <1>0, <1>1, <1>2, <1>5, <1>9, <3>2
    <3>6. /\ [old EXCEPT ![i] = <<i, none>>] \in Seq(Nat \X Seq(Nat))
          /\ Len([old EXCEPT ![i] = <<i, none>>]) = Len(old)
          /\ \A j \in 1 .. Len(old) : [old EXCEPT ![i] = <<i, none>>][j]
                = IF j = i THEN <<i, none>> ELSE old[j]
      BY ONLY <3>5, LevelSet
    <3>7. emptied = [old EXCEPT ![i] = <<i, none>>]
      BY <3>2
    <3> HIDE DEF emptied
    <3> QED BY <1>1, <3>2, <3>6, <3>7
  <2> HIDE DEF emptied
  <2>2. /\ levels \in Seq(Nat \X Seq(Nat)) /\ Len(levels) = MaxLevels
        /\ \A j \in 1 .. MaxLevels :
                levels[j] = IF j = low THEN <<low, out>> ELSE emptied[j]
    <3> HIDE DEF low
    <3> QED BY <1>1, <1>2, <2>1, LevelSet
  <2>3. applied = [added EXCEPT !.levels[up] = <<up, <<>>>>, !.levels[low] = <<low, out>>]
    BY <1>2, <1>9 DEF Policy!SimpleApply, Policy!L0
  <2> HIDE DEF applied
  <2>4. /\ new \in States
        /\ new.memtable = s.memtable /\ new.imm_memtables = s.imm_memtables
        /\ new.l0_sstables = s.l0_sstables /\ new.levels = levels
        /\ new.sstables = (s.sstables \ ins) \cup IdsOf(out)
    <3>1. new = [s EXCEPT !.sstables = (s.sstables \cup IdsOf(out)) \ ins,
                          !.levels = levels]
      BY <1>4, <2>3 DEF States, emptied
    <3> HIDE DEF new, levels, added
    <3> QED BY <1>0, <1>7, <2>2, <3>1 DEF States
  <2> HIDE DEF new, levels, up, low
  <2>5. \A i \in 1 .. MaxLevels :
            /\ new.levels[i][1] = i
            /\ IdsOf(new.levels[i][2]) =
                    IF i = low THEN (IdsOf(s.levels[i][2]) \ W) \cup IdsOf(out)
                    ELSE IF i = up THEN IdsOf(s.levels[i][2]) \ U
                    ELSE IdsOf(s.levels[i][2])
    <3> TAKE i \in 1 .. MaxLevels
    <3>0. new.levels[i] = IF i = low THEN <<low, out>>
                          ELSE IF i = up THEN <<up, <<>>>> ELSE s.levels[i]
      BY <2>1, <2>2, <2>4
    <3>1. CASE i = low
      <4>1. IdsOf(s.levels[i][2]) \ W = {} /\ new.levels[i] = <<low, out>>
        BY <1>2, <3>0, <3>1
      <4> QED BY <3>1, <4>1
    <3>2. CASE i # low /\ i = up
      <4>1. IdsOf(s.levels[i][2]) \ U = {} /\ new.levels[i] = <<up, <<>>>>
        BY <1>2, <1>9, <3>0, <3>2
      <4> QED BY <1>5, <3>2, <4>1
    <3>3. CASE i # low /\ i # up
      <4>1. new.levels[i] = s.levels[i]
        BY <3>0, <3>3
      <4> QED BY <1>1, <3>3, <4>1
    <3> QED BY <3>1, <3>2, <3>3
  <2>6. LevelMerged(s, new, t, out)
    BY <1>9, <2>2, <2>4, <2>5 DEF LevelMerged, up, low, ins
  <2> QED BY <2>6, LevelReplaces DEF new
<1> QED BY <1>8, <1>9

LEMMA LeveledReplaces ==
    ASSUME NEW s \in States, ListsApart(s), LevelsShape(s), NEW t, LevelFits(s, t),
           t.kind = "leveled",
           NEW out \in Seq(Nat), IdsOf(out) \cap s.sstables = {}
    PROVE  Replaces(s, Compacted(s, t, out), t, out)
<1> DEFINE ins == IdsOf(Inputs(t))
           up == t.task.upper_level
           low == t.task.lower_level
           U == IdsOf(t.task.upper_level_sst_ids)
           W == IdsOf(t.task.lower_level_sst_ids)
           new == Compacted(s, t, out)
           added == [s EXCEPT !.sstables = @ \cup IdsOf(out)]
           ssts == [id \in s.sstables \cup IdsOf(out) |-> KeyRange(id)]
           unsorted == Policy!Without(s.levels[low][2], W) \o out
           run == Policy!SortByFirstKey(unsorted, ssts)
           applied == Policy!LeveledApply(added, ssts, t.task, out, FALSE)
           lowered == [s.levels EXCEPT ![low][2] = run]
<1>0. /\ s.memtable \in Nat /\ s.imm_memtables \in Seq(Nat)
      /\ s.l0_sstables \in Seq(Nat) /\ s.levels \in Seq(Nat \X Seq(Nat))
      /\ s.sstables \in SUBSET Nat
  BY DEF States
<1>1. /\ FlushToL0 /\ Len(s.levels) = MaxLevels /\ MaxLevels \in Nat \ {0}
      /\ \A i \in 1 .. MaxLevels : /\ s.levels[i][1] = i /\ s.levels[i][2] \in Seq(Nat)
                                   /\ s.levels[i] = <<i, s.levels[i][2]>>
      /\ \A x : x \in s.sstables <=> \/ x \in IdsOf(s.l0_sstables)
                                     \/ \E i \in 1 .. MaxLevels : x \in IdsOf(s.levels[i][2])
  BY LevelsAt DEF LevelFits
<1>2. /\ up \in 0 .. MaxLevels /\ low \in 1 .. MaxLevels /\ up # low
      /\ low \in Nat /\ up \in Nat
  BY <1>1 DEF LevelFits, Policy!L0
<1>3. ins \subseteq s.sstables
  <2>1. TaskFits(s, t)
    BY DEF TaskFits
  <2>2. IdsOf(Inputs(t)) \subseteq Listed(s)
    BY <2>1, TaskInputs
  <2>3. Listed(s) = s.sstables
    BY DEF ListsApart
  <2> QED BY <2>2, <2>3
<1>4. new = [applied EXCEPT !.sstables = @ \ ins]
  BY DEF Compacted
<1>5. IdsOf(out) \subseteq Nat
  BY DEF IdsOf
<1> HIDE DEF ins
<1>6. /\ (s.sstables \ ins) \cup IdsOf(out) \in SUBSET Nat
      /\ (s.sstables \cup IdsOf(out)) \ ins = (s.sstables \ ins) \cup IdsOf(out)
  BY <1>0, <1>3, <1>5
<1>7. unsorted \in Seq(Nat) /\ IdsOf(unsorted) = (IdsOf(s.levels[low][2]) \ W) \cup IdsOf(out)
  <2> HIDE DEF W
  <2>1. PICK old : old = s.levels[low][2]
    OBVIOUS
  <2>2. old \in Seq(Nat)
    BY <1>1, <1>2, <2>1
  <2>3. PICK kept : kept = Policy!Without(old, W)
    OBVIOUS
  <2>4. kept \in Seq(Nat) /\ IdsOf(kept) = IdsOf(old) \ W
    BY <2>2, <2>3, WithoutElements
  <2>5. kept \o out \in Seq(Nat) /\ IdsOf(kept \o out) = IdsOf(kept) \cup IdsOf(out)
    BY <2>4, ConcatElements
  <2> QED BY <2>1, <2>3, <2>4, <2>5
<1>8. run \in Seq(Nat) /\ IdsOf(run) = (IdsOf(s.levels[low][2]) \ W) \cup IdsOf(out)
  <2>1. \A x \in IdsOf(unsorted) : x \in s.sstables \cup IdsOf(out)
    BY <1>1, <1>2, <1>7
  <2>2. \A i \in DOMAIN unsorted : unsorted[i] \in IdsOf(unsorted)
    BY DEF IdsOf
  <2>3. \A i \in DOMAIN unsorted : ssts[unsorted[i]].first_key \in Int
    <3> HIDE DEF unsorted
    <3>1. \A x \in s.sstables \cup IdsOf(out) : ssts[x].first_key \in Int
      BY FirstKeyIsNumber
    <3> QED BY <2>1, <2>2, <3>1
  <2> HIDE DEF unsorted, ssts
  <2>4. /\ Policy!SortByFirstKey(unsorted, ssts) \in Seq(Nat)
        /\ IdsOf(Policy!SortByFirstKey(unsorted, ssts)) = IdsOf(unsorted)
    BY <1>7, <2>3, SortedElements
  <2> QED BY <1>7, <2>4
<1>9. applied = Policy!LeveledInstall(added, t.task, run)
  <2>1. added.levels = s.levels
    BY DEF States
  <2>2. Policy!LeveledLower(added, t.task, out) = unsorted
    BY <2>1 DEF Policy!LeveledLower, Policy!Files, Policy!Ids, IdsOf
  <2> HIDE DEF unsorted, ssts, added
  <2> QED BY <2>2 DEF Policy!LeveledApply
<1> HIDE DEF run, applied
<1>10. /\ lowered \in Seq(Nat \X Seq(Nat)) /\ Len(lowered) = MaxLevels
       /\ \A j \in 1 .. MaxLevels : lowered[j] = IF j = low THEN <<low, run>> ELSE s.levels[j]
  <2>1. PICK old, i, before, f :
            old = s.levels /\ i = low /\ before = s.levels[low][2] /\ f = lowered
    OBVIOUS
  <2>2. f = [old EXCEPT ![i] = [old[i] EXCEPT ![2] = run]]
    BY <2>1
  <2> HIDE DEF lowered, low, run
  <2>2a. /\ old \in Seq(Nat \X Seq(Nat)) /\ i \in 1 .. Len(old) /\ old[i] = <<i, before>>
         /\ run \in Seq(Nat)
    BY <1>0, <1>1, <1>2, <1>8, <2>1
  <2>3. /\ f \in Seq(Nat \X Seq(Nat)) /\ Len(f) = Len(old)
        /\ \A j \in 1 .. Len(old) : f[j] = IF j = i THEN <<i, run>> ELSE old[j]
    <3>1. [<<i, before>> EXCEPT ![2] = run] = <<i, run>>
      OBVIOUS
    <3>2. f = [old EXCEPT ![i] = <<i, run>>]
      BY <2>2, <2>2a, <3>1
    <3>3. i \in Nat
      BY <1>2, <2>1
    <3>4. /\ [old EXCEPT ![i] = <<i, run>>] \in Seq(Nat \X Seq(Nat))
          /\ Len([old EXCEPT ![i] = <<i, run>>]) = Len(old)
          /\ \A j \in 1 .. Len(old) :
                    [old EXCEPT ![i] = <<i, run>>][j] = IF j = i THEN <<i, run>> ELSE old[j]
      BY ONLY <2>2a, <3>3, LevelSet
    <3> QED BY <3>2, <3>4
  <2> QED BY <1>1, <2>1, <2>3
<1>11. CASE up = 0
  <2> DEFINE rest == Policy!Without(s.l0_sstables, U)
  <2>1. rest \in Seq(Nat) /\ IdsOf(rest) = IdsOf(s.l0_sstables) \ U
    <3> HIDE DEF U
    <3> QED BY <1>0, WithoutElements
  <2>2. applied = [[added EXCEPT !.levels[low][2] = run] EXCEPT !.l0_sstables = rest]
    <3>1. Policy!Without(Policy!LeveledUpper(added, t.task),
                         Policy!Ids(t.task.upper_level_sst_ids)) = rest
      BY <1>11 DEF Policy!LeveledUpper, Policy!L0, Policy!Ids, IdsOf, States
    <3> HIDE DEF added, rest
    <3> QED BY <1>9, <1>11, <3>1 DEF Policy!LeveledInstall, Policy!L0
  <2> HIDE DEF rest
  <2>3. new = [s EXCEPT !.l0_sstables = rest,
                        !.sstables = (s.sstables \cup IdsOf(out)) \ ins,
                        !.levels = lowered]
    BY <1>4, <2>2 DEF States
  <2> HIDE DEF new, lowered, added
  <2>4. /\ new \in States
        /\ new.memtable = s.memtable /\ new.imm_memtables = s.imm_memtables
        /\ new.l0_sstables = rest /\ new.levels = lowered
        /\ new.sstables = (s.sstables \ ins) \cup IdsOf(out)
    BY <1>6, <1>10, <2>1, <2>3 DEF States
  <2> HIDE DEF up, low
  <2>5. \A i \in 1 .. MaxLevels :
            /\ new.levels[i][1] = i
            /\ IdsOf(new.levels[i][2]) =
                    IF i = low THEN (IdsOf(s.levels[i][2]) \ W) \cup IdsOf(out)
                    ELSE IF i = up THEN IdsOf(s.levels[i][2]) \ U
                    ELSE IdsOf(s.levels[i][2])
    <3> TAKE i \in 1 .. MaxLevels
    <3>1. CASE i = low
      <4>1. new.levels[i] = <<low, run>>
        BY <1>10, <2>4, <3>1
      <4> QED BY <1>8, <3>1, <4>1
    <3>2. CASE i # low
      <4>1. new.levels[i] = s.levels[i] /\ i # up
        BY <1>10, <1>11, <2>4, <3>2
      <4> QED BY <1>1, <3>2, <4>1
    <3> QED BY <3>1, <3>2
  <2>6. LevelMerged(s, new, t, out)
    BY <1>10, <1>11, <2>1, <2>4, <2>5 DEF LevelMerged, up, low, ins
  <2> QED BY <2>6, LevelReplaces DEF new
<1>12. CASE up # 0
  <2> DEFINE upper == Policy!Without(s.levels[up][2], U)
             levels == [lowered EXCEPT ![up][2] = upper]
  <2>0. up \in 1 .. MaxLevels
    <3> HIDE DEF up
    <3> QED BY <1>1, <1>2, <1>12
  <2>1. upper \in Seq(Nat) /\ IdsOf(upper) = IdsOf(s.levels[up][2]) \ U
    <3> HIDE DEF U, up
    <3>1. s.levels[up][2] \in Seq(Nat)
      BY <1>1, <2>0
    <3> QED BY <3>1, WithoutElements
  <2>2. applied = [[added EXCEPT !.levels[low][2] = run] EXCEPT !.levels[up][2] = upper]
    <3>1. Policy!Without(Policy!LeveledUpper(added, t.task),
                         Policy!Ids(t.task.upper_level_sst_ids)) = upper
      BY <1>12 DEF Policy!LeveledUpper, Policy!L0, Policy!Files, Policy!Ids, IdsOf, States
    <3> HIDE DEF added, upper
    <3> QED BY <1>9, <1>12, <3>1 DEF Policy!LeveledInstall, Policy!L0
  <2> HIDE DEF upper
  <2>3. new = [s EXCEPT !.sstables = (s.sstables \cup IdsOf(out)) \ ins, !.levels = levels]
    BY <1>4, <2>2 DEF States
  <2> HIDE DEF lowered, added
  <2>4. /\ levels \in Seq(Nat \X Seq(Nat)) /\ Len(levels) = MaxLevels
        /\ \A j \in 1 .. MaxLevels : levels[j] = IF j = up THEN <<up, upper>> ELSE lowered[j]
    <3>1. PICK old, i, before, f :
              old = lowered /\ i = up /\ before = s.levels[up][2] /\ f = levels
      OBVIOUS
    <3>1a. f = [old EXCEPT ![i] = [old[i] EXCEPT ![2] = upper]]
      BY <3>1
    <3> HIDE DEF up, low, levels
    <3>2. /\ old \in Seq(Nat \X Seq(Nat)) /\ i \in 1 .. Len(old) /\ old[i] = <<i, before>>
          /\ upper \in Seq(Nat)
      BY <1>1, <1>2, <1>10, <2>0, <2>1, <3>1
    <3>3. /\ f \in Seq(Nat \X Seq(Nat)) /\ Len(f) = Len(old)
          /\ \A j \in 1 .. Len(old) : f[j] = IF j = i THEN <<i, upper>> ELSE old[j]
      <4>1. [<<i, before>> EXCEPT ![2] = upper] = <<i, upper>>
        OBVIOUS
      <4>2. f = [old EXCEPT ![i] = <<i, upper>>]
        BY <3>1a, <3>2, <4>1
      <4>3. i \in Nat
        BY <1>2, <3>1
      <4>4. /\ [old EXCEPT ![i] = <<i, upper>>] \in Seq(Nat \X Seq(Nat))
            /\ Len([old EXCEPT ![i] = <<i, upper>>]) = Len(old)
            /\ \A j \in 1 .. Len(old) : [old EXCEPT ![i] = <<i, upper>>][j]
                                            = IF j = i THEN <<i, upper>> ELSE old[j]
        BY ONLY <3>2, <4>3, LevelSet
      <4> QED BY <4>2, <4>4
    <3> QED BY <1>10, <3>1, <3>3
  <2> HIDE DEF new, levels
  <2>5. /\ new \in States
        /\ new.memtable = s.memtable /\ new.imm_memtables = s.imm_memtables
        /\ new.l0_sstables = s.l0_sstables /\ new.levels = levels
        /\ new.sstables = (s.sstables \ ins) \cup IdsOf(out)
    BY <1>0, <1>6, <2>3, <2>4 DEF States
  <2> HIDE DEF up, low
  <2>6. \A i \in 1 .. MaxLevels :
            /\ new.levels[i][1] = i
            /\ IdsOf(new.levels[i][2]) =
                    IF i = low THEN (IdsOf(s.levels[i][2]) \ W) \cup IdsOf(out)
                    ELSE IF i = up THEN IdsOf(s.levels[i][2]) \ U
                    ELSE IdsOf(s.levels[i][2])
    <3> TAKE i \in 1 .. MaxLevels
    <3>1. CASE i = low
      <4>1. new.levels[i] = <<low, run>>
        BY <1>2, <1>10, <2>4, <2>5, <3>1
      <4> QED BY <1>8, <3>1, <4>1
    <3>2. CASE i # low /\ i = up
      <4>1. new.levels[i] = <<up, upper>>
        BY <2>4, <2>5, <3>2
      <4> QED BY <2>1, <3>2, <4>1
    <3>3. CASE i # low /\ i # up
      <4>1. new.levels[i] = s.levels[i]
        BY <1>10, <2>4, <2>5, <3>3
      <4> QED BY <1>1, <3>3, <4>1
    <3> QED BY <3>1, <3>2, <3>3
  <2>7. LevelMerged(s, new, t, out)
    BY <1>12, <2>4, <2>5, <2>6 DEF LevelMerged, up, low, ins
  <2> QED BY <2>7, LevelReplaces DEF new
<1> QED BY <1>11, <1>12

LEMMA SubSeqOnce ==
    ASSUME NEW S, NEW seq \in Seq(S), NEW m \in 0 .. Len(seq), Once(seq)
    PROVE  /\ Once(SubSeq(seq, 1, m)) /\ Once(SubSeq(seq, m + 1, Len(seq)))
           /\ IdsOf(SubSeq(seq, 1, m)) \cap IdsOf(SubSeq(seq, m + 1, Len(seq))) = {}
<1>1. /\ Len(seq) \in Nat /\ DOMAIN seq = 1 .. Len(seq) /\ m \in Nat /\ m <= Len(seq)
      /\ SubSeq(seq, 1, m) \in Seq(S) /\ Len(SubSeq(seq, 1, m)) = m
      /\ \A i \in 1 .. m : SubSeq(seq, 1, m)[i] = seq[i]
  OBVIOUS
<1>2. /\ SubSeq(seq, m + 1, Len(seq)) \in Seq(S)
      /\ Len(SubSeq(seq, m + 1, Len(seq))) = Len(seq) - m
      /\ \A i \in 1 .. Len(seq) - m : SubSeq(seq, m + 1, Len(seq))[i] = seq[m + i]
  <2>1. PICK lo, hi : lo = m + 1 /\ hi = Len(seq)
    OBVIOUS
  <2>2. /\ lo \in Nat /\ hi \in Nat /\ 1 <= lo /\ lo <= hi + 1
        /\ \A i \in lo .. hi : seq[i] \in S
    BY <1>1, <2>1
  <2>3. /\ SubSeq(seq, lo, hi) \in Seq(S)
        /\ Len(SubSeq(seq, lo, hi)) = hi - lo + 1
        /\ \A i \in 1 .. hi - lo + 1 : SubSeq(seq, lo, hi)[i] = seq[lo + i - 1]
    BY <2>2, SubSeqProperties
  <2>4. hi - lo + 1 = Len(seq) - m /\ \A i \in Nat : lo + i - 1 = m + i
    BY <1>1, <2>1
  <2>5. \A i \in 1 .. Len(seq) - m : i \in Nat
    OBVIOUS
  <2> QED BY <2>1, <2>3, <2>4, <2>5
<1>3. PICK a, b : a = SubSeq(seq, 1, m) /\ b = SubSeq(seq, m + 1, Len(seq))
  OBVIOUS
<1>4. DOMAIN a = 1 .. m /\ DOMAIN b = 1 .. Len(seq) - m
  <2>1. a \in Seq(S) /\ Len(a) = m /\ b \in Seq(S) /\ Len(b) = Len(seq) - m
    BY <1>1, <1>2, <1>3
  <2> QED BY <2>1
<1>5. /\ \A i \in 1 .. m : a[i] = seq[i] /\ i \in 1 .. Len(seq)
      /\ \A i \in 1 .. Len(seq) - m : b[i] = seq[m + i] /\ m + i \in 1 .. Len(seq) /\ i \in Nat
  <2>1. \A i \in 1 .. m : a[i] = seq[i] /\ i \in 1 .. Len(seq)
    BY <1>1, <1>3
  <2>2. \A i \in 1 .. Len(seq) - m : b[i] = seq[m + i]
    BY <1>2, <1>3
  <2>3. \A i \in 1 .. Len(seq) - m : m + i \in 1 .. Len(seq) /\ i \in Nat
    BY <1>1
  <2> QED BY <2>1, <2>2, <2>3
<1>6. \A i, j \in 1 .. Len(seq) : seq[i] = seq[j] => i = j
  BY <1>1 DEF Once
<1>7. Once(a)
  BY <1>4, <1>5, <1>6 DEF Once
<1>8. Once(b)
  <2>1. ASSUME NEW i \in 1 .. Len(seq) - m, NEW j \in 1 .. Len(seq) - m, b[i] = b[j]
        PROVE  i = j
    <3>1. m + i = m + j
      BY <1>5, <1>6, <2>1
    <3> QED BY <1>1, <3>1
  <2> QED BY <1>4, <2>1 DEF Once
<1>9. ASSUME NEW x \in IdsOf(a), x \in IdsOf(b) PROVE FALSE
  <2>1. PICK i \in 1 .. m : x = seq[i]
    BY <1>4, <1>5 DEF IdsOf
  <2>2. PICK j \in 1 .. Len(seq) - m : x = b[j]
    BY <1>4, <1>9 DEF IdsOf
  <2>3. x = seq[m + j] /\ m + j \in 1 .. Len(seq) /\ i \in 1 .. Len(seq)
    BY <1>5, <2>2
  <2>4. i = m + j
    BY <1>6, <2>1, <2>3
  <2> QED BY <1>1, <2>4
<1>10. IdsOf(a) \cap IdsOf(b) = {}
  BY <1>9
<1> QED BY <1>3, <1>7, <1>8, <1>10

LEMMA TieredReplaces ==
    ASSUME NEW s \in States, ListsApart(s), LevelsShape(s), NEW t, TieredFits(s, t),
           NEW out \in Seq(Nat), out # <<>>, IdsOf(out) \cap s.sstables = {}
    PROVE  Replaces(s, Compacted(s, t, out), t, out)
<1> DEFINE ins == IdsOf(Inputs(t))
           tiers == IdsOf(t.task.tiers)
           new == Compacted(s, t, out)
           added == [s EXCEPT !.sstables = @ \cup IdsOf(out)]
           applied == Policy!TieredApply(added, t.task, out)
           at == {i \in DOMAIN s.levels : s.levels[i] \in tiers}
           last == Policy!Max(at)
           tier == <<out[1], out>>
           above == Policy!Without(SubSeq(s.levels, 1, last), tiers)
           below == Policy!Without(SubSeq(s.levels, last + 1, Len(s.levels)), tiers)
           levels == above \o <<tier>> \o below
<1>0. /\ s.memtable \in Nat /\ s.imm_memtables \in Seq(Nat)
      /\ s.l0_sstables \in Seq(Nat) /\ s.levels \in Seq(Nat \X Seq(Nat))
      /\ s.sstables \in SUBSET Nat
  BY DEF States
<1>1. ~ FlushToL0 /\ t.kind = "tiered" /\ TaskFits(s, t)
  BY DEF TieredFits, TaskFits
<1>2. /\ t.task.tiers # <<>> /\ t.task.tiers \in Seq(Nat \X Seq(Nat))
      /\ tiers \subseteq IdsOf(s.levels)
      /\ \A x : x \in ins <=> \E y \in tiers : x \in IdsOf(y[2])
      /\ ins \subseteq s.sstables
  <2>1. IdsOf(Inputs(t)) \subseteq Listed(s)
    BY <1>1, TaskInputs
  <2>2. /\ t.task.tiers # <<>> /\ t.task.tiers \in Seq(Nat \X Seq(Nat))
        /\ IdsOf(t.task.tiers) \subseteq IdsOf(s.levels)
        /\ \A x : x \in IdsOf(Inputs(t)) <=>
                \E y \in IdsOf(t.task.tiers) : x \in IdsOf(y[2])
    BY <1>1, TaskInputs
  <2> QED BY <2>1, <2>2 DEF ListsApart
<1>3. tiers # {}
  <2>0. PICK S, seq : S = Nat \X Seq(Nat) /\ seq = t.task.tiers
    OBVIOUS
  <2>1. 1 \in DOMAIN t.task.tiers
    <3>1. seq \in Seq(S) /\ seq # <<>>
      BY <1>2, <2>0
    <3>2. 1 \in DOMAIN seq
      BY <3>1
    <3> QED BY <2>0, <3>2
  <2> QED BY <2>1 DEF IdsOf
<1>4. last \in 1 .. Len(s.levels) /\ Len(s.levels) \in Nat
  <2>1. DOMAIN s.levels = 1 .. Len(s.levels) /\ Len(s.levels) \in Nat
    BY <1>0
  <2>2. at # {} /\ at \in SUBSET (0 .. Len(s.levels))
    <3>1. PICK x \in tiers : x \in IdsOf(s.levels)
      BY <1>2, <1>3
    <3> HIDE DEF tiers
    <3>2. PICK i \in DOMAIN s.levels : s.levels[i] = x
      BY <3>1 DEF IdsOf
    <3>3. i \in at
      BY <3>1, <3>2
    <3>4. \A j \in at : j \in 1 .. Len(s.levels)
      BY <2>1
    <3>5. \A j \in 1 .. Len(s.levels) : j \in 0 .. Len(s.levels)
      BY <2>1
    <3> QED BY <3>3, <3>4, <3>5
  <2> HIDE DEF at
  <2>3. \E x \in at : \A y \in at : y <= x
    BY <2>1, <2>2, NatGreatest
  <2>4. \E x \in at : \A y \in at : x >= y
    <3>1. \A x, y \in at : y <= x <=> x >= y
      BY <2>1, <2>2
    <3> QED BY <2>3, <3>1
  <2>5. last \in at
    BY <2>4 DEF Policy!Max
  <2> QED BY <2>1, <2>5 DEF at
<1> HIDE DEF at, last
<1>5. tier \in Nat \X Seq(Nat)
  <2>1. out[1] \in Nat
    <3>1. 1 \in DOMAIN out
      OBVIOUS
    <3> QED BY <3>1
  <2> QED BY <2>1
<1> HIDE DEF tier, tiers
<1>5a. tier \notin IdsOf(s.levels) /\ Once(s.levels)
  BY <1>1, NewTier DEF tier, LevelsShape
<1>6. /\ levels \in Seq(Nat \X Seq(Nat)) /\ IdsOf(levels) = (IdsOf(s.levels) \ tiers) \cup {tier}
      /\ Once(levels)
  <2> HIDE DEF above, below, levels
  <2>1. PICK S, old : S = Nat \X Seq(Nat) /\ old = s.levels
    OBVIOUS
  <2>2. PICK top, rest : top = SubSeq(old, 1, last) /\ rest = SubSeq(old, last + 1, Len(old))
    OBVIOUS
  <2>3. old \in Seq(S) /\ last \in 0 .. Len(old)
    BY <1>0, <1>4, <2>1
  <2>4. top \in Seq(S) /\ rest \in Seq(S) /\ IdsOf(top) \cup IdsOf(rest) = IdsOf(old)
    BY <2>2, <2>3, SubSeqElements
  <2>4a. Once(top) /\ Once(rest) /\ IdsOf(top) \cap IdsOf(rest) = {}
    <3>1. Once(old)
      BY <1>5a, <2>1
    <3> QED BY <2>2, <2>3, <3>1, SubSeqOnce
  <2>5. above = Policy!Without(top, tiers) /\ below = Policy!Without(rest, tiers)
    BY <2>1, <2>2 DEF above, below
  <2>6. above \in Seq(S) /\ IdsOf(above) = IdsOf(top) \ tiers /\ Once(above)
    BY <2>4, <2>4a, <2>5, WithoutElements
  <2>7. below \in Seq(S) /\ IdsOf(below) = IdsOf(rest) \ tiers /\ Once(below)
    BY <2>4, <2>4a, <2>5, WithoutElements
  <2>8. PICK one : one = <<tier>>
    OBVIOUS
  <2>9. one \in Seq(S) /\ IdsOf(one) = {tier}
    BY <1>5, <2>1, <2>8 DEF IdsOf
  <2>10. above \o one \in Seq(S) /\ IdsOf(above \o one) = IdsOf(above) \cup IdsOf(one)
    BY <2>6, <2>9, ConcatElements
  <2>11. PICK upto : upto = above \o one
    OBVIOUS
  <2>12. upto \o below \in Seq(S) /\ IdsOf(upto \o below) = IdsOf(upto) \cup IdsOf(below)
    <3>1. upto \in Seq(S) /\ below \in Seq(S)
      BY <2>7, <2>10, <2>11
    <3> QED BY <3>1, ConcatElements

  <2>13. levels = upto \o below
    BY <2>8, <2>11 DEF levels
  <2>14. IdsOf(levels) = (IdsOf(old) \ tiers) \cup {tier}
    BY <2>4, <2>6, <2>7, <2>9, <2>10, <2>11, <2>12, <2>13
  <2>15. Once(levels)
    <3>1. Once(one)
      BY <2>8 DEF Once
    <3>2. IdsOf(above) \cap IdsOf(one) = {}
      BY <1>5a, <2>1, <2>4, <2>6, <2>9
    <3>3. Once(upto)
      <4>1. Once(above \o one)
        BY <2>6, <2>9, <3>1, <3>2, ConcatOnce
      <4> QED BY <2>11, <4>1
    <3>4. IdsOf(upto) \cap IdsOf(below) = {}
      BY <1>5a, <2>1, <2>4, <2>4a, <2>6, <2>7, <2>9, <2>10, <2>11
    <3>5. upto \in Seq(S) /\ below \in Seq(S)
      BY <2>7, <2>10, <2>11
    <3>6. Once(upto \o below)
      BY <2>7, <3>3, <3>4, <3>5, ConcatOnce
    <3> QED BY <2>13, <3>6
  <2> QED BY <2>1, <2>12, <2>13, <2>14, <2>15
<1>7. new = [applied EXCEPT !.sstables = @ \ ins]
  BY <1>1 DEF Compacted
<1>8. applied = [added EXCEPT !.levels = levels]
  <2>1. added.levels = s.levels
    BY DEF States
  <2> HIDE DEF added, levels
  <2> QED BY <2>1 DEF Policy!TieredApply, Policy!Ids, IdsOf, levels, above, below, last, at,
                      tiers, tier
<1> HIDE DEF levels, applied, ins
<1>9. IdsOf(out) \subseteq Nat
  BY DEF IdsOf
<1>10. /\ (s.sstables \ ins) \cup IdsOf(out) \in SUBSET Nat
       /\ (s.sstables \cup IdsOf(out)) \ ins = (s.sstables \ ins) \cup IdsOf(out)
  BY <1>0, <1>2, <1>9
<1>11. /\ new \in States
       /\ new.memtable = s.memtable /\ new.imm_memtables = s.imm_memtables
       /\ new.l0_sstables = s.l0_sstables /\ new.levels = levels
       /\ new.sstables = (s.sstables \ ins) \cup IdsOf(out)
  <2>1. new = [s EXCEPT !.sstables = (s.sstables \cup IdsOf(out)) \ ins, !.levels = levels]
    BY <1>7, <1>8 DEF States
  <2> HIDE DEF new, added
  <2> QED BY <1>0, <1>6, <1>10, <2>1 DEF States
<1> HIDE DEF new
<1>12. ListsApart(new) /\ LevelsShape(new)
  <2>1. IdsOf(new.levels) = (IdsOf(s.levels) \ tiers) \cup {<<out[1], out>>}
    BY <1>6, <1>11 DEF tier
  <2>2. new.l0_sstables = s.l0_sstables /\ new.sstables = (s.sstables \ ins) \cup IdsOf(out)
    BY <1>11
  <2>3. Once(new.levels)
    BY <1>6, <1>11
  <2>4. PICK num : num = out[1]
    OBVIOUS
  <2>5. IdsOf(new.levels) = (IdsOf(s.levels) \ tiers) \cup {<<num, out>>}
    BY <2>1, <2>4
  <2> QED BY <1>1, <1>2, <2>2, <2>3, <2>5, TierReplaced
<1> QED BY <1>11, <1>12 DEF Replaces, new, ins
LEMMA CompactedReplaces ==
    ASSUME NEW s \in States, ListsApart(s), LevelsShape(s), NEW t, TaskFits(s, t),
           t.kind # "full",
           NEW out \in Seq(Nat), ~ FlushToL0 => out # <<>>,
           IdsOf(out) \cap s.sstables = {}
    PROVE  Replaces(s, Compacted(s, t, out), t, out)
<1>1. \/ LevelFits(s, t) /\ t.kind \in {"simple", "leveled"}
      \/ TieredFits(s, t) /\ t.kind = "tiered" /\ ~ FlushToL0
  BY DEF TaskFits, FullFits, LevelFits, TieredFits
<1> QED BY <1>1, SimpleReplaces, LeveledReplaces, TieredReplaces

-------------------------------------------------------------------------------
(***************************************************************************)
(* The engine's steps: what they leave to the compactors                   *)
(***************************************************************************)
Flushing(t) == pc[t] \in {"flush_build", "flush_lock", "flush_install"}

(* What a reader's step leaves alone.                                      *)
LEMMA ReaderKeeps ==
    ASSUME IInv, NEW r \in Readers, ReaderStep(r)
    PROVE  /\ engine' = engine /\ mvcc' = mvcc /\ freeze' = freeze /\ flush_id' = flush_id
           /\ faults' = faults
           /\ \A t \in Writers \cup Flushers : pc'[t] = pc[t]
<1>1. pc \in [Threads -> PcLabels] /\ r \notin Writers \cup Flushers /\ r \in Threads
      /\ Writers \cup Flushers \subseteq Threads
  BY StorageAssumption DEF IInv, TypeOK, Threads
<1> QED BY <1>1 DEF ReaderStep, NewTxn, ReadSnapshot, ReadEnd, Goto

(* A freeze under way keeps its copy.                                      *)
LEMMA PreparingStep ==
    ASSUME IInv, [Next]_vars, NEW t \in Freezers, Preparing(t)'
    PROVE  (Preparing(t) /\ new_state'[t] = new_state[t]) \/ FreezeCopy(t)
<1> DEFINE Same == pc'[t] = pc[t] /\ new_state'[t] = new_state[t]
           Elsewhere == pc'[t] \notin {"freeze_record", "freeze_swap"}
           Goal == (Preparing(t) /\ new_state'[t] = new_state[t]) \/ FreezeCopy(t)
<1>0. /\ pc \in [Threads -> PcLabels] /\ t \in Threads
      /\ new_state \in [Freezers -> States \cup {Nil}]
      /\ Writers \subseteq Threads /\ Flushers \subseteq Threads /\ Freezers \subseteq Threads
      /\ Readers \subseteq Threads /\ Forcers \subseteq Threads /\ FlushThread \in Threads
  BY DEF IInv, TypeOK, Threads, Freezers, Flushers
<1>1. Same \/ Elsewhere => Goal
  BY DEF Preparing
<1> USE DEF Goto
<1>2. ASSUME NEW w \in Writers, WriterStep(w)
      PROVE  Same \/ Elsewhere
  <2>1. new_state'[t] = new_state[t]
    BY <1>2 DEF WriterStep, WriteBegin, PutRecord, TryFreeze, Commit, freeze
  <2>2. w # t => pc'[t] = pc[t]
    BY <1>0, <1>2 DEF WriterStep, WriteBegin, PutRecord, TryFreeze, Commit
  <2>3. w = t => Elsewhere
    BY <1>0, <1>2 DEF WriterStep, WriteBegin, PutRecord, TryFreeze, Commit
  <2> QED BY <2>1, <2>2, <2>3
<1>3. ASSUME NEW u \in Freezers, FreezeStep(u)
      PROVE  Goal
  <2>1. CASE u = t
    <3>1. FreezeLock(t) \/ FreezeFails(t) \/ FreezeSwap(t) => Elsewhere
      BY <1>0 DEF FreezeLock, FreezeFails, FreezeSwap
    <3>2. FreezeRecord(t) => Goal
      BY DEF FreezeRecord, freeze, Preparing
    <3> QED BY <1>1, <1>3, <2>1, <3>1, <3>2 DEF FreezeStep
  <2>2. CASE u # t
    <3>1. pc'[t] = pc[t]
      BY <1>0, <1>3, <2>2 DEF FreezeStep, FreezeLock, FreezeCopy, FreezeRecord, FreezeFails,
                              FreezeSwap
    <3>2. new_state'[t] = new_state[t]
      BY <1>0, <1>3, <2>2 DEF FreezeStep, FreezeLock, FreezeCopy, FreezeRecord, FreezeFails,
                              FreezeSwap, freeze
    <3> QED BY <1>1, <3>1, <3>2
  <2> QED BY <2>1, <2>2
<1>4. ASSUME NEW f \in Forcers, ForceFlush(f) \/ ForceFlushCheck(f)
      PROVE  Same \/ Elsewhere
  BY <1>0, <1>4 DEF ForceFlush, ForceFlushCheck, freeze
<1>5. ASSUME TriggerFlush
      PROVE  Same \/ Elsewhere
  BY <1>0, <1>5 DEF TriggerFlush, freeze
<1>6. ASSUME NEW u \in Flushers, FlushStep(u)
      PROVE  Same \/ Elsewhere
  <2>1. new_state'[t] = new_state[t]
    BY <1>6 DEF FlushStep, FlushPick, FlushBuild, FlushFails, FlushLock, FlushInstall,
                FlushPanics, freeze
  <2>2. u # t => pc'[t] = pc[t]
    BY <1>0, <1>6 DEF FlushStep, FlushPick, FlushBuild, FlushFails, FlushLock, FlushInstall,
                      FlushPanics
  <2>3. u = t => Elsewhere
    BY <1>0, <1>6 DEF FlushStep, FlushPick, FlushBuild, FlushFails, FlushLock, FlushInstall,
                      FlushPanics
  <2> QED BY <2>1, <2>2, <2>3
<1>7. ASSUME NEW r \in Readers, ReaderStep(r)
      PROVE  Same
  <2>1. freeze' = freeze /\ \A x \in Writers \cup Flushers : pc'[x] = pc[x]
    BY <1>7, ReaderKeeps
  <2> QED BY <2>1 DEF freeze, Freezers, Flushers
<1>8. UNCHANGED vars => Same
  BY DEF vars, freeze
<1> HIDE DEF Same, Elsewhere, Goal, Goto
<1>9. Goal
  BY <1>1, <1>2, <1>3, <1>4, <1>5, <1>6, <1>7, <1>8 DEF Next
<1> QED BY <1>9 DEF Goal

(* What an SST holds is settled for good.                                  *)
LEMMA SettledStays ==
    ASSUME IInv, IInv', [Next]_vars, NEW id, Settled(id)
    PROVE  Settled(id)'
<1>0. /\ id \in Ids \ {state.memtable} /\ sst_tables[id] = memtables[id]
      /\ \A t \in Freezers : Preparing(t) => new_state[t].memtable # id
      /\ next_sst_id \in Nat /\ state \in States /\ id \in Nat
      /\ sst_tables \in [Ids -> Tables] /\ memtables \in [Ids -> Tables]
  <2>1. /\ next_sst_id \in Nat /\ state \in States
        /\ sst_tables \in [Ids -> Tables] /\ memtables \in [Ids -> Tables]
    BY DEF IInv, TypeOK
  <2>2. /\ id \in Ids \ {state.memtable} /\ sst_tables[id] = memtables[id]
        /\ \A t \in Freezers : Preparing(t) => new_state[t].memtable # id
    BY DEF Settled
  <2>3. id \in Nat
    BY <2>1, <2>2 DEF Ids
  <2> QED BY <2>1, <2>2, <2>3
<1>1. ASSUME NEW t \in Freezers, Preparing(t)'

      PROVE  new_state'[t].memtable # id
  <2>1. CASE Preparing(t) /\ new_state'[t] = new_state[t]
    BY <1>0, <2>1
  <2>2. CASE FreezeCopy(t)
    <3>1. new_state'[t] = Frozen(state, next_sst_id)
      BY <2>2 DEF FreezeCopy, IInv, TypeOK
    <3>2. PICK n : n = next_sst_id
      OBVIOUS
    <3>3. n \in Nat /\ n \notin Ids
      BY <1>0, <3>2 DEF Ids
    <3>4. Frozen(state, n).memtable = n
      BY <1>0, <3>3, FrozenType
    <3> QED BY <1>0, <3>1, <3>2, <3>3, <3>4
  <2> QED BY <1>1, <2>1, <2>2, PreparingStep
<1>2. id \in Ids'
  BY <1>0, CommittedContentStays
<1>3. state'.memtable # id
  <2>1. CASE state'.memtable = state.memtable
    BY <1>0, <2>1
  <2>2. ASSUME NEW t \in Freezers, FreezeSwap(t)
        PROVE  state'.memtable # id
    <3>1. state' = new_state[t] /\ Preparing(t)
      BY <2>2 DEF FreezeSwap, Preparing
    <3> QED BY <1>0, <3>1
  <2> QED BY <2>1, <2>2, StateFields
<1>4. sst_tables'[id] = memtables'[id]
  <2> DEFINE Kept == memtables' = memtables /\ sst_tables' = sst_tables
             Goal == sst_tables'[id] = memtables'[id]
  <2> USE DEF engine
  <2>1. ASSUME NEW w \in Writers, WriterStep(w)
        PROVE  Goal
    <3>1. CASE PutRecord(w)
      BY <1>0, <3>1 DEF PutRecord
    <3>2. CASE ~ PutRecord(w)
      <4>1. Kept
        BY <2>1, <3>2 DEF WriterStep, WriteBegin, TryFreeze, Commit
      <4> QED BY <1>0, <4>1
    <3> QED BY <3>1, <3>2
  <2>2. ASSUME NEW t \in Freezers, FreezeStep(t)
        PROVE  Goal
    <3>1. CASE FreezeCopy(t)
      <4>1. id \in 0 .. next_sst_id /\ id # next_sst_id
        BY <1>0 DEF Ids
      <4>2. memtables'[id] = memtables[id] /\ sst_tables'[id] = sst_tables[id]
        BY <3>1, <4>1 DEF FreezeCopy, AllocateId
      <4> QED BY <1>0, <4>2
    <3>2. CASE ~ FreezeCopy(t)
      <4>1. Kept
        BY <2>2, <3>2 DEF FreezeStep, FreezeLock, FreezeRecord, FreezeFails, FreezeSwap
      <4> QED BY <1>0, <4>1
    <3> QED BY <3>1, <3>2
  <2>3. ASSUME NEW f \in Forcers, ForceFlush(f) \/ ForceFlushCheck(f)
        PROVE  Kept
    BY <2>3 DEF ForceFlush, ForceFlushCheck
  <2>4. TriggerFlush => Kept
    BY DEF TriggerFlush
  <2>5. ASSUME NEW t \in Flushers, FlushStep(t)
        PROVE  Goal
    <3>1. CASE FlushBuild(t)
      BY <1>0, <3>1 DEF FlushBuild
    <3>2. CASE ~ FlushBuild(t)
      <4>1. Kept
        BY <2>5, <3>2 DEF FlushStep, FlushPick, FlushFails, FlushLock, FlushInstall, FlushPanics
      <4> QED BY <1>0, <4>1
    <3> QED BY <3>1, <3>2
  <2>6. ASSUME NEW r \in Readers, ReaderStep(r)
        PROVE  Kept
    BY <2>6, ReaderKeeps
  <2>7. UNCHANGED vars => Kept
    BY DEF vars
  <2>8. Kept => Goal
    BY <1>0
  <2> HIDE DEF Kept, Goal, engine
  <2>9. Goal
    BY <2>1, <2>2, <2>3, <2>4, <2>5, <2>6, <2>7, <2>8 DEF Next
  <2> QED BY <2>9 DEF Goal
<1> QED BY <1>0, <1>1, <1>2, <1>3, <1>4 DEF Settled

LEMMA InsertFirstIds ==
    ASSUME NEW S, NEW seq \in Seq(S), NEW x \in S
    PROVE  IdsOf(InsertFirst(x, seq)) = IdsOf(seq) \cup {x}
<1>1. PICK one : one = <<x>>
  OBVIOUS
<1>2. one \in Seq(S) /\ IdsOf(one) = {x}
  BY <1>1 DEF IdsOf
<1>3. IdsOf(one \o seq) = IdsOf(one) \cup IdsOf(seq)
  BY <1>2, ConcatElements
<1> QED BY <1>1, <1>2, <1>3 DEF InsertFirst

LEMMA InsertFirstOnce ==
    ASSUME NEW S, NEW seq \in Seq(S), NEW x \in S, x \notin IdsOf(seq), Once(seq)
    PROVE  Once(InsertFirst(x, seq))
<1> DEFINE new == InsertFirst(x, seq)
<1>1. /\ Len(seq) \in Nat /\ DOMAIN seq = 1 .. Len(seq)
      /\ DOMAIN new = 1 .. Len(seq) + 1 /\ new[1] = x
      /\ \A i \in 2 .. Len(seq) + 1 : new[i] = seq[i - 1]
  <2>1. Len(seq) \in Nat /\ DOMAIN seq = 1 .. Len(seq)
    OBVIOUS
  <2>2. /\ DOMAIN new = 1 .. Len(seq) + 1
        /\ new[1] = x
        /\ \A i \in 2 .. Len(seq) + 1 : new[i] = seq[i - 1]
    BY ONLY InsertFirstProperties, seq \in Seq(S), x \in S
  <2> QED BY ONLY <2>1, <2>2
<1> HIDE DEF new
<1>2. ASSUME NEW i \in 1 .. Len(seq) + 1, NEW j \in 1 .. Len(seq) + 1, new[i] = new[j]
      PROVE  i = j
  <2>1. \A n \in 1 .. Len(seq) + 1 : n # 1 =>
            /\ n - 1 \in DOMAIN seq /\ new[n] = seq[n - 1] /\ new[n] \in IdsOf(seq)
    BY <1>1 DEF IdsOf
  <2>2. CASE i = 1 \/ j = 1
    BY <1>1, <1>2, <2>1, <2>2
  <2>3. CASE i # 1 /\ j # 1
    <3>1. i - 1 = j - 1
      BY <1>2, <2>1, <2>3 DEF Once
    <3> QED BY <1>1, <3>1
  <2> QED BY <2>2, <2>3
<1> QED BY ONLY <1>1, <1>2 DEF Once, new

(* Freezes and flushes keep the lists in order: what a flush adds to them  *)
(* was a memtable, and no SST.                                             *)
LEMMA FrozenInOrder ==
    ASSUME NEW s \in States, InOrder(s), NEW ids \in SUBSET Nat, IdsNamed(s, ids), NEW id \in Nat
    PROVE  InOrder(Frozen(s, id))
<1> DEFINE new == Frozen(s, id)
<1>1. /\ new.imm_memtables = InsertFirst(s.memtable, s.imm_memtables)
      /\ new.l0_sstables = s.l0_sstables
      /\ new.levels = s.levels
      /\ new.sstables = s.sstables
  BY FrozenType
<1>2. s.imm_memtables \in Seq(Nat) /\ s.memtable \in Nat
  BY DEF States
<1>3. /\ DOMAIN s.imm_memtables = 1 .. Len(s.imm_memtables) /\ Len(s.imm_memtables) \in Nat
      /\ DOMAIN InsertFirst(s.memtable, s.imm_memtables) = 1 .. Len(s.imm_memtables) + 1
      /\ InsertFirst(s.memtable, s.imm_memtables)[1] = s.memtable
      /\ \A i \in 2 .. Len(s.imm_memtables) + 1 :
            InsertFirst(s.memtable, s.imm_memtables)[i] = s.imm_memtables[i - 1]
  <2>1. PICK V, q, m : V = Nat /\ q = s.imm_memtables /\ m = s.memtable
    OBVIOUS
  <2>2. q \in Seq(V) /\ m \in V
    BY <1>2, <2>1
  <2>3. DOMAIN q = 1 .. Len(q) /\ Len(q) \in Nat
    BY <2>2
  <2>4. /\ DOMAIN InsertFirst(m, q) = 1 .. Len(q) + 1
        /\ InsertFirst(m, q)[1] = m
        /\ \A i \in 2 .. Len(q) + 1 : InsertFirst(m, q)[i] = q[i - 1]
    BY ONLY <2>2, InsertFirstProperties

  <2> QED BY <2>1, <2>3, <2>4
<1> HIDE DEF new
<1>4. /\ DOMAIN new.imm_memtables = 1 .. Len(s.imm_memtables) + 1
      /\ new.imm_memtables[1] = s.memtable
      /\ \A i \in DOMAIN new.imm_memtables : i # 1 =>
            i - 1 \in DOMAIN s.imm_memtables /\ new.imm_memtables[i] = s.imm_memtables[i - 1]
  <2>1. \A i \in 1 .. Len(s.imm_memtables) + 1 : i # 1 =>
            i - 1 \in 1 .. Len(s.imm_memtables) /\ i \in 2 .. Len(s.imm_memtables) + 1
    BY <1>3
  <2> QED BY <1>1, <1>3, <2>1
<1>5. MemtablesOnce(new)
  <2>1. ASSUME NEW i \in DOMAIN new.imm_memtables, NEW j \in DOMAIN new.imm_memtables,
               new.imm_memtables[i] = new.imm_memtables[j]
        PROVE  i = j
    <3>1. CASE i = 1 \/ j = 1
      BY <1>4, <2>1, <3>1 DEF IdsNamed
    <3>2. CASE i # 1 /\ j # 1
      <4>1. i - 1 = j - 1
        BY <1>4, <2>1, <3>2 DEF InOrder, MemtablesOnce, Once
      <4>2. i \in Nat /\ j \in Nat
        BY <1>3, <1>4
      <4> QED BY <4>1, <4>2
    <3> QED BY <3>1, <3>2
  <2>2. ASSUME NEW i \in DOMAIN new.imm_memtables
        PROVE  new.imm_memtables[i] \notin new.sstables
    <3>1. CASE i = 1
      BY <1>1, <1>4, <3>1 DEF IdsNamed
    <3>2. CASE i # 1
      BY <1>1, <1>4, <3>2 DEF InOrder, MemtablesOnce, IdsOf
    <3> QED BY <3>1, <3>2
  <2> QED BY <2>1, <2>2 DEF MemtablesOnce, IdsOf, Once
<1>6. ListsApart(new) /\ LevelsShape(new)
  <2>1. Listed(new) = Listed(s)
    BY <1>1 DEF Listed
  <2>2. ListsApart(new)
    BY <1>1, <2>1 DEF InOrder, ListsApart
  <2>3. LevelsShape(new)
    BY <1>1 DEF InOrder, LevelsShape
  <2> QED BY <2>2, <2>3
<1> QED BY <1>5, <1>6 DEF InOrder, new

LEMMA FlushedInOrder ==
    ASSUME NEW s \in States, InOrder(s), s.imm_memtables # <<>>, NEW id \in Nat,
           Last(s.imm_memtables) = id
    PROVE  InOrder(Flushed(s, id))
<1> DEFINE new == Flushed(s, id)
           tier == <<id, <<id>>>>
<1>1. /\ new.imm_memtables = Front(s.imm_memtables)
      /\ new.sstables = s.sstables \cup {id}
      /\ FlushToL0 =>
            new.l0_sstables = InsertFirst(id, s.l0_sstables) /\ new.levels = s.levels
      /\ ~ FlushToL0 =>
            new.l0_sstables = s.l0_sstables /\ new.levels = InsertFirst(tier, s.levels)
  BY FlushedType
<1>2. /\ s.imm_memtables \in Seq(Nat) /\ s.l0_sstables \in Seq(Nat)
      /\ s.levels \in Seq(Nat \X Seq(Nat)) /\ tier \in Nat \X Seq(Nat)
  <2>1. /\ s.imm_memtables \in Seq(Nat) /\ s.l0_sstables \in Seq(Nat)
        /\ s.levels \in Seq(Nat \X Seq(Nat))
    BY DEF States
  <2>2. tier \in Nat \X Seq(Nat)
    OBVIOUS
  <2> QED BY <2>1, <2>2
<1>2a. IdsOf(tier[2]) = {id} /\ tier[2] # <<>>
  BY DEF IdsOf
<1> HIDE DEF new, tier
<1>3. /\ Len(s.imm_memtables) \in DOMAIN s.imm_memtables
      /\ s.imm_memtables[Len(s.imm_memtables)] = id
      /\ DOMAIN Front(s.imm_memtables) \subseteq DOMAIN s.imm_memtables
      /\ \A i \in DOMAIN Front(s.imm_memtables) :
            /\ Front(s.imm_memtables)[i] = s.imm_memtables[i]
            /\ i # Len(s.imm_memtables)
  <2>1. /\ Len(s.imm_memtables) \in Nat \ {0}
        /\ DOMAIN Front(s.imm_memtables) = 1 .. Len(s.imm_memtables) - 1
    BY <1>2, FrontLastProperties
  <2>2. /\ DOMAIN Front(s.imm_memtables) \subseteq DOMAIN s.imm_memtables
        /\ \A i \in DOMAIN Front(s.imm_memtables) :
                Front(s.imm_memtables)[i] = s.imm_memtables[i]
    BY <1>2, FrontElements
  <2>3. DOMAIN s.imm_memtables = 1 .. Len(s.imm_memtables)
    BY <1>2
  <2> QED BY <2>1, <2>2, <2>3 DEF Last
<1>4. id \notin s.sstables
  BY <1>3 DEF InOrder, MemtablesOnce, IdsOf
<1>5. MemtablesOnce(new)
  <2>1. \A i, j \in DOMAIN new.imm_memtables :
            new.imm_memtables[i] = new.imm_memtables[j] => i = j
    BY <1>1, <1>3 DEF InOrder, MemtablesOnce, Once
  <2>2. \A i \in DOMAIN new.imm_memtables : new.imm_memtables[i] \notin new.sstables
    <3>1. \A i \in DOMAIN new.imm_memtables :
            new.imm_memtables[i] # id /\ new.imm_memtables[i] \notin s.sstables
      BY <1>1, <1>3 DEF InOrder, MemtablesOnce, IdsOf, Once
    <3> QED BY <1>1, <3>1
  <2> QED BY <2>1, <2>2 DEF MemtablesOnce, IdsOf, Once
<1>6. /\ ListsApart(s) /\ LevelsShape(s)
      /\ \A x \in IdsOf(s.levels) : IdsOf(x[2]) \subseteq s.sstables
      /\ IdsOf(s.l0_sstables) \subseteq s.sstables
      /\ \A y : y \in s.sstables <=> y \in Listed(s)
      /\ \A y : y \in Listed(s) <=> \/ y \in IdsOf(s.l0_sstables)
                                    \/ \E x \in IdsOf(s.levels) : y \in IdsOf(x[2])
      /\ \A y : y \in Listed(new) <=> \/ y \in IdsOf(new.l0_sstables)
                                      \/ \E x \in IdsOf(new.levels) : y \in IdsOf(x[2])
  <2>1. ListsApart(s) /\ LevelsShape(s)
    BY DEF InOrder
  <2>2. /\ \A y : y \in Listed(s) <=> \/ y \in IdsOf(s.l0_sstables)
                                      \/ \E x \in IdsOf(s.levels) : y \in IdsOf(x[2])
        /\ \A y : y \in Listed(new) <=> \/ y \in IdsOf(new.l0_sstables)
                                        \/ \E x \in IdsOf(new.levels) : y \in IdsOf(x[2])
    BY ListedIs
  <2> QED BY <2>1, <2>2 DEF ListsApart
<1>7. CASE FlushToL0
  <2>1. IdsOf(new.l0_sstables) = IdsOf(s.l0_sstables) \cup {id} /\ new.levels = s.levels
    <3>1. PICK V, q : V = Nat /\ q = s.l0_sstables
      OBVIOUS
    <3>2. q \in Seq(V) /\ id \in V
      BY <1>2, <3>1
    <3>3. IdsOf(InsertFirst(id, q)) = IdsOf(q) \cup {id}
      BY <3>2, InsertFirstIds
    <3> QED BY <1>1, <1>7, <3>1, <3>3

  <2>2. Listed(new) = new.sstables
    BY <1>1, <1>6, <2>1
  <2>3. ListsApart(new)
    <3>1. \A x, y \in IdsOf(new.levels) : x # y => IdsOf(x[2]) \cap IdsOf(y[2]) = {}
      BY <1>6, <2>1 DEF ListsApart
    <3>2. ASSUME NEW x \in IdsOf(new.levels)
          PROVE  IdsOf(new.l0_sstables) \cap IdsOf(x[2]) = {}
      <4>1. x \in IdsOf(s.levels) /\ IdsOf(s.l0_sstables) \cap IdsOf(x[2]) = {}
        BY <1>6, <2>1, <3>2 DEF ListsApart
      <4>2. id \notin IdsOf(x[2])
        BY <1>4, <1>6, <4>1
      <4> QED BY <2>1, <4>1, <4>2
    <3> QED BY <2>2, <3>1, <3>2 DEF ListsApart
  <2>4. LevelsShape(new)
    BY <1>6, <1>7, <2>1 DEF LevelsShape

  <2> QED BY <1>5, <2>3, <2>4 DEF InOrder, new
<1>8. CASE ~ FlushToL0
  <2>1. IdsOf(new.levels) = IdsOf(s.levels) \cup {tier} /\ new.l0_sstables = s.l0_sstables
    <3>1. PICK V : V = Nat \X Seq(Nat)
      OBVIOUS
    <3>2. s.levels \in Seq(V) /\ tier \in V
      BY <1>2, <3>1
    <3> QED BY <1>1, <1>8, <3>2, InsertFirstIds
  <2>2. Listed(new) = new.sstables
    <3>1. ASSUME NEW y
          PROVE  y \in Listed(new) <=> y \in s.sstables \/ y = id
      BY <1>2a, <1>6, <2>1
    <3> QED BY <1>1, <3>1
  <2>3. ListsApart(new)
    <3>1. s.l0_sstables = <<>> /\ IdsOf(new.l0_sstables) = {}
      BY <1>6, <1>8, <2>1 DEF LevelsShape, IdsOf
    <3>2. ASSUME NEW x \in IdsOf(new.levels), NEW y \in IdsOf(new.levels), x # y
          PROVE  IdsOf(x[2]) \cap IdsOf(y[2]) = {}
      <4>1. CASE x \in IdsOf(s.levels) /\ y \in IdsOf(s.levels)
        BY <1>6, <3>2, <4>1 DEF ListsApart
      <4>2. CASE x = tier /\ y \in IdsOf(s.levels)
        BY <1>2a, <1>4, <1>6, <4>2
      <4>3. CASE y = tier /\ x \in IdsOf(s.levels)
        BY <1>2a, <1>4, <1>6, <4>3
      <4> QED BY <2>1, <3>2, <4>1, <4>2, <4>3
    <3> QED BY <2>2, <3>1, <3>2 DEF ListsApart
  <2>4. Once(new.levels)
    <3>1. tier \notin IdsOf(s.levels)
      BY <1>2a, <1>4, <1>6
    <3>2. PICK V, q, x : V = Nat \X Seq(Nat) /\ q = s.levels /\ x = tier
      OBVIOUS
    <3>3. q \in Seq(V) /\ x \in V /\ x \notin IdsOf(q) /\ Once(q)
      BY <1>2, <1>6, <3>1, <3>2 DEF LevelsShape
    <3>4. Once(InsertFirst(x, q))
      BY ONLY <3>3, InsertFirstOnce
    <3> QED BY <1>1, <1>8, <3>2, <3>4
  <2>5. LevelsShape(new)
    BY <1>2a, <1>6, <1>8, <2>1, <2>4 DEF LevelsShape
  <2> QED BY <1>5, <2>3, <2>5 DEF InOrder, new
<1> QED BY <1>7, <1>8

LEMMA InOrderStays ==
    ASSUME IInv, InOrder(state), [Next]_vars
    PROVE  InOrder(state)'
<1>0. state \in States /\ IdsNamed(state, Ids) /\ Ids \in SUBSET Nat /\ FlushingIsFrozen
  BY DEF IInv, TypeOK, IdsInState, Ids
<1>1. CASE state' = state
  BY <1>1
<1>2. ASSUME NEW t \in Freezers, FreezeSwap(t)
      PROVE  InOrder(state')
  <2>1. PICK id \in Ids : state' = Frozen(state, id)
    BY <1>2, FreezeSwapState
  <2>2. id \in Nat
    BY <1>0
  <2>3. InOrder(Frozen(state, id))
    BY <1>0, <2>2, FrozenInOrder
  <2> QED BY <2>1, <2>3
<1>3. ASSUME NEW t \in Flushers, FlushInstall(t)
      PROVE  InOrder(state')
  <2>1. /\ flush_id[t] \in Ids /\ state.imm_memtables # <<>>
        /\ Last(state.imm_memtables) = flush_id[t] /\ state' = Flushed(state, flush_id[t])
    BY <1>0, <1>3 DEF FlushInstall, FlushIsOldest, FlushingIsFrozen
  <2>2. PICK id \in Nat : id = flush_id[t]
    BY <1>0, <2>1
  <2>3. InOrder(Flushed(state, id))
    BY <1>0, <2>1, <2>2, FlushedInOrder
  <2> QED BY <2>1, <2>2, <2>3
<1> QED BY <1>1, <1>2, <1>3, StateStep

(* A flusher's locals change only in its own steps.                        *)
LEMMA FlushFrame ==
    ASSUME IInv, [Next]_vars, NEW t \in Flushers, ~ FlushStep(t)
    PROVE  /\ flush_id'[t] = flush_id[t]
           /\ pc'[t] = pc[t] \/ (~ Flushing(t) /\ ~ Flushing(t)')
<1> DEFINE Same == flush_id'[t] = flush_id[t] /\ pc'[t] = pc[t]
           Elsewhere == /\ flush_id'[t] = flush_id[t]
                        /\ pc[t] \notin {"flush_build", "flush_lock", "flush_install"}
                        /\ pc'[t] \notin {"flush_build", "flush_lock", "flush_install"}
           Goal == /\ flush_id'[t] = flush_id[t]
                   /\ pc'[t] = pc[t] \/ (~ Flushing(t) /\ ~ Flushing(t)')
<1>0. /\ pc \in [Threads -> PcLabels] /\ t \in Threads /\ t \notin Writers /\ t \notin Readers
      /\ flush_id \in [Flushers -> Nat \cup {Nil}]
      /\ Flushers \subseteq Threads /\ Freezers \subseteq Threads
      /\ Forcers \subseteq Threads /\ FlushThread \in Threads
  BY StorageAssumption DEF IInv, TypeOK, Threads, Freezers, Flushers
<1>1. Same \/ Elsewhere => Goal
  BY DEF Flushing
<1> USE DEF Goto
<1>2. ASSUME NEW w \in Writers, WriterStep(w)
      PROVE  Same
  BY <1>0, <1>2 DEF WriterStep, WriteBegin, PutRecord, TryFreeze, Commit
<1>3. ASSUME NEW u \in Freezers, FreezeStep(u)
      PROVE  Same \/ Elsewhere
  <2>1. flush_id' = flush_id
    BY <1>3 DEF FreezeStep, FreezeLock, FreezeCopy, FreezeRecord, FreezeFails, FreezeSwap
  <2>2. u # t => pc'[t] = pc[t]
    BY <1>0, <1>3 DEF FreezeStep, FreezeLock, FreezeCopy, FreezeRecord, FreezeFails, FreezeSwap
  <2>3. u = t => Elsewhere
    BY <1>0, <1>3, <2>1 DEF FreezeStep, FreezeLock, FreezeCopy, FreezeRecord, FreezeFails,
                            FreezeSwap
  <2> QED BY <2>1, <2>2, <2>3
<1>4. ASSUME NEW f \in Forcers, ForceFlush(f) \/ ForceFlushCheck(f)
      PROVE  Same \/ Elsewhere
  BY <1>0, <1>4 DEF ForceFlush, ForceFlushCheck
<1>5. ASSUME TriggerFlush
      PROVE  Same \/ Elsewhere
  BY <1>0, <1>5 DEF TriggerFlush
<1>6. ASSUME NEW u \in Flushers, FlushStep(u)
      PROVE  Same
  <2>1. u # t
    BY <1>6
  <2>2. pc'[t] = pc[t]
    BY <1>0, <1>6, <2>1 DEF FlushStep, FlushPick, FlushBuild, FlushFails, FlushLock,
                            FlushInstall, FlushPanics
  <2>3. flush_id'[t] = flush_id[t]
    BY <1>0, <1>6, <2>1 DEF FlushStep, FlushPick, FlushBuild, FlushFails, FlushLock,
                            FlushInstall, FlushPanics
  <2> QED BY <2>2, <2>3
<1>7. ASSUME NEW r \in Readers, ReaderStep(r)
      PROVE  Same
  BY <1>7, ReaderKeeps
<1>8. UNCHANGED vars => Same
  BY DEF vars
<1> HIDE DEF Same, Elsewhere, Goal, Goto
<1>9. Goal
  BY <1>1, <1>2, <1>3, <1>4, <1>5, <1>6, <1>7, <1>8 DEF Next
<1> QED BY <1>9 DEF Goal

LEMMA SstsSettled ==
    ASSUME IInv, NEW id \in state.sstables
    PROVE  Settled(id)
<1>1. id \in Ids \ {state.memtable} /\ sst_tables[id] = memtables[id]
  BY DEF IInv, IdsInState, IdsNamed, FlushedContentIsFinal
<1>2. ASSUME NEW t \in Freezers, Preparing(t)
      PROVE  new_state[t].memtable # id
  <2>1. PICK n \in Ids : new_state[t] = Frozen(state, n) /\ n \notin state.sstables
    BY <1>2 DEF IInv, CopyIsCurrent
  <2>2. n \in Nat /\ state \in States
    BY DEF IInv, TypeOK, Ids
  <2>3. Frozen(state, n).memtable = n
    BY <2>2, FrozenType
  <2> QED BY <2>1, <2>3
<1> QED BY <1>1, <1>2 DEF Settled

LEMMA SnapshotsSettledStep ==
    ASSUME IInv, IInv', SnapshotsSettled, [Next]_vars
    PROVE  SnapshotsSettled'
<1> SUFFICES ASSUME NEW r \in Readers
             PROVE  SnapshotSettled(r)'
  BY DEF SnapshotsSettled
<1>0. /\ SnapshotSettled(r) /\ commit_ts \in Nat /\ commit_ts' \in Nat
      /\ pc \in [Threads -> PcLabels] /\ r \in Threads
      /\ read_ts \in [Readers -> 0 .. MaxTs] /\ snapshot \in [Readers -> States \cup {Nil}]
      /\ read_ts[r] \in Nat /\ state \in States /\ IdsNamed(state, Ids)
  <2>1. TypeOK /\ TypeOK' /\ IdsNamed(state, Ids)
    BY DEF IInv, IdsInState
  <2>2. commit_ts \in 0 .. MaxTs /\ commit_ts' \in 0 .. MaxTs /\ MaxTs \in Nat
    BY <2>1, TablesAssumption DEF TypeOK
  <2>3. /\ pc \in [Threads -> PcLabels] /\ r \in Threads /\ state \in States
        /\ read_ts \in [Readers -> 0 .. MaxTs] /\ snapshot \in [Readers -> States \cup {Nil}]
    BY <2>1 DEF TypeOK, Threads
  <2>4. SnapshotSettled(r)
    BY DEF SnapshotsSettled
  <2> QED BY <2>1, <2>2, <2>3, <2>4
<1>1. commit_ts <= commit_ts' /\ Ids \subseteq Ids'
  BY CommittedContentStays
<1>2. CASE ~ ReaderStep(r)
  <2>1. pc'[r] = pc[r] /\ read_ts'[r] = read_ts[r] /\ snapshot'[r] = snapshot[r]
    BY <1>2, ReaderFrame
  <2>2. read_ts'[r] <= commit_ts'
    BY <1>0, <1>1, <2>1 DEF SnapshotSettled
  <2>3. ASSUME pc[r] = "reading"
        PROVE  /\ snapshot[r] \in States /\ IdsNamed(snapshot[r], Ids')
               /\ \A id \in snapshot[r].sstables : Settled(id)'
    <3>1. /\ snapshot[r] \in States /\ IdsNamed(snapshot[r], Ids)
          /\ \A id \in snapshot[r].sstables : Settled(id)
      BY <1>0, <2>3 DEF SnapshotSettled
    <3>2. IdsNamed(snapshot[r], Ids')
      BY <1>1, <3>1 DEF IdsNamed
    <3> QED BY <3>1, <3>2, SettledStays
  <2> QED BY <2>1, <2>2, <2>3 DEF SnapshotSettled
<1>3. CASE ReadSnapshot(r)
  <2>1. /\ snapshot'[r] = state /\ read_ts' = read_ts /\ commit_ts' = commit_ts
        /\ next_sst_id' = next_sst_id
    BY <1>0, <1>3 DEF ReadSnapshot, mvcc, engine
  <2>2. \A id \in state.sstables : Settled(id)'
    BY SstsSettled, SettledStays
  <2>3. Ids' = Ids /\ read_ts[r] <= commit_ts
    BY <1>0, <2>1 DEF Ids, SnapshotSettled
  <2> QED BY <1>0, <2>1, <2>2, <2>3 DEF SnapshotSettled
<1>4. CASE NewTxn(r) \/ ReadEnd(r)
  <2>1. pc'[r] # "reading" /\ commit_ts' = commit_ts
    BY <1>0, <1>4 DEF NewTxn, ReadEnd, Goto, mvcc
  <2>2. read_ts'[r] \in {0, read_ts[r], commit_ts}
    BY <1>0, <1>4 DEF NewTxn, ReadEnd
  <2>3. read_ts'[r] <= commit_ts'
    BY <1>0, <2>1, <2>2 DEF SnapshotSettled
  <2> QED BY <2>1, <2>3 DEF SnapshotSettled
<1> QED BY <1>2, <1>3, <1>4 DEF ReaderStep

(* Nothing writes to an SST any more.                                      *)
LEMMA SettledFrozen ==
    ASSUME IInv, [Next]_vars, NEW id, Settled(id)
    PROVE  memtables'[id] = memtables[id] /\ sst_tables'[id] = sst_tables[id]
<1> DEFINE Kept == memtables' = memtables /\ sst_tables' = sst_tables
           Goal == memtables'[id] = memtables[id] /\ sst_tables'[id] = sst_tables[id]
<1>0. /\ id \in Ids \ {state.memtable} /\ sst_tables[id] = memtables[id]
      /\ next_sst_id \in Nat
      /\ sst_tables \in [Ids -> Tables] /\ memtables \in [Ids -> Tables]
  BY DEF IInv, TypeOK, Settled
<1> USE DEF engine
<1>1. ASSUME NEW w \in Writers, WriterStep(w)
      PROVE  Goal
  <2>1. CASE PutRecord(w)
    BY <1>0, <2>1 DEF PutRecord
  <2>2. CASE ~ PutRecord(w)
    <3>1. Kept
      BY <1>1, <2>2 DEF WriterStep, WriteBegin, TryFreeze, Commit
    <3> QED BY <3>1
  <2> QED BY <2>1, <2>2
<1>2. ASSUME NEW t \in Freezers, FreezeStep(t)
      PROVE  Goal
  <2>1. CASE FreezeCopy(t)
    <3>1. id \in 0 .. next_sst_id /\ id # next_sst_id
      BY <1>0 DEF Ids
    <3> QED BY <2>1, <3>1 DEF FreezeCopy, AllocateId
  <2>2. CASE ~ FreezeCopy(t)
    <3>1. Kept
      BY <1>2, <2>2 DEF FreezeStep, FreezeLock, FreezeRecord, FreezeFails, FreezeSwap
    <3> QED BY <3>1
  <2> QED BY <2>1, <2>2
<1>3. ASSUME NEW f \in Forcers, ForceFlush(f) \/ ForceFlushCheck(f)
      PROVE  Kept
  BY <1>3 DEF ForceFlush, ForceFlushCheck
<1>4. TriggerFlush => Kept
  BY DEF TriggerFlush
<1>5. ASSUME NEW t \in Flushers, FlushStep(t)
      PROVE  Goal
  <2>1. CASE FlushBuild(t)
    <3>1. memtables' = memtables
      BY <2>1 DEF FlushBuild
    <3>2. CASE flush_id[t] = id
      <4>1. sst_tables'[id] = memtables[id]
        BY <1>0, <2>1, <3>2 DEF FlushBuild
      <4> QED BY <1>0, <3>1, <4>1
    <3>3. CASE flush_id[t] # id
      BY <1>0, <2>1, <3>1, <3>3 DEF FlushBuild
    <3> QED BY <3>2, <3>3
  <2>2. CASE ~ FlushBuild(t)
    <3>1. Kept
      BY <1>5, <2>2 DEF FlushStep, FlushPick, FlushFails, FlushLock, FlushInstall, FlushPanics
    <3> QED BY <3>1
  <2> QED BY <2>1, <2>2
<1>6. ASSUME NEW r \in Readers, ReaderStep(r)
      PROVE  Kept
  BY <1>6, ReaderKeeps
<1>7. UNCHANGED vars => Kept
  BY DEF vars
<1>8. Kept => Goal
  OBVIOUS
<1> HIDE DEF Kept, Goal, engine
<1>9. Goal
  BY <1>1, <1>2, <1>3, <1>4, <1>5, <1>6, <1>7, <1>8 DEF Next
<1> QED BY <1>9 DEF Goal

(* A flusher that panicked does nothing more.                              *)
LEMMA PanickedStays ==
    ASSUME IInv, [Next]_vars, NEW t \in Flushers, pc[t] = "panicked"
    PROVE  pc'[t] = "panicked"
<1> DEFINE Goal == pc'[t] = "panicked"
<1>0. /\ pc \in [Threads -> PcLabels] /\ t \in Threads /\ t \notin Writers /\ t \notin Readers
      /\ Flushers \subseteq Threads /\ Freezers \subseteq Threads
      /\ Forcers \subseteq Threads /\ FlushThread \in Threads
  BY StorageAssumption DEF IInv, TypeOK, Threads, Freezers, Flushers
<1> USE DEF Goto
<1>1. ASSUME NEW w \in Writers, WriterStep(w)
      PROVE  Goal
  BY <1>0, <1>1 DEF WriterStep, WriteBegin, PutRecord, TryFreeze, Commit
<1>2. ASSUME NEW u \in Freezers, FreezeStep(u)
      PROVE  Goal
  BY <1>0, <1>2 DEF FreezeStep, FreezeLock, FreezeCopy, FreezeRecord, FreezeFails, FreezeSwap
<1>3. ASSUME NEW f \in Forcers, ForceFlush(f) \/ ForceFlushCheck(f)
      PROVE  Goal
  BY <1>0, <1>3 DEF ForceFlush, ForceFlushCheck
<1>4. ASSUME TriggerFlush
      PROVE  Goal
  BY <1>0, <1>4 DEF TriggerFlush
<1>5. ASSUME NEW u \in Flushers, FlushStep(u)
      PROVE  Goal
  BY <1>0, <1>5 DEF FlushStep, FlushPick, FlushBuild, FlushFails, FlushLock, FlushInstall,
                    FlushPanics
<1>6. ASSUME NEW r \in Readers, ReaderStep(r)
      PROVE  Goal
  BY <1>6, ReaderKeeps
<1>7. UNCHANGED vars => Goal
  BY DEF vars
<1> HIDE DEF Goal, Goto
<1>8. Goal
  BY <1>1, <1>2, <1>3, <1>4, <1>5, <1>6, <1>7 DEF Next
<1> QED BY <1>8 DEF Goal

(* What the state names was a memtable or an SST before.                   *)
LEMMA NamesStay ==
    ASSUME IInv, [Next]_vars
    PROVE  /\ IdsOf(state'.imm_memtables) \subseteq IdsOf(state.imm_memtables)
                                                    \cup {state.memtable}
           /\ state'.sstables \subseteq state.sstables \cup IdsOf(state.imm_memtables)
<1>0. state.imm_memtables \in Seq(Nat) /\ state.memtable \in Nat
  BY DEF IInv, TypeOK, States
<1>1. CASE state' = state
  BY <1>1
<1>2. CASE /\ state'.imm_memtables = InsertFirst(state.memtable, state.imm_memtables)
           /\ state'.sstables = state.sstables
  <2>1. IdsOf(InsertFirst(state.memtable, state.imm_memtables))
            = IdsOf(state.imm_memtables) \cup {state.memtable}
    <3>1. PICK V, q, x : V = Nat /\ q = state.imm_memtables /\ x = state.memtable
      OBVIOUS
    <3>2. q \in Seq(V) /\ x \in V
      BY <1>0, <3>1
    <3>3. IdsOf(InsertFirst(x, q)) = IdsOf(q) \cup {x}
      BY ONLY <3>2, InsertFirstIds
    <3> QED BY <3>1, <3>3
  <2> QED BY <1>2, <2>1
<1>3. ASSUME NEW id,
             state.imm_memtables # <<>>, Last(state.imm_memtables) = id,
             state'.imm_memtables = Front(state.imm_memtables),
             state'.sstables = state.sstables \cup {id}
      PROVE  /\ IdsOf(state'.imm_memtables) \subseteq IdsOf(state.imm_memtables)
             /\ state'.sstables \subseteq state.sstables \cup IdsOf(state.imm_memtables)
  <2>1. /\ Len(state.imm_memtables) \in DOMAIN state.imm_memtables
        /\ \A i \in DOMAIN Front(state.imm_memtables) :
              /\ i \in DOMAIN state.imm_memtables
              /\ Front(state.imm_memtables)[i] = state.imm_memtables[i]
    <3>1. PICK q : q = state.imm_memtables
      OBVIOUS
    <3>2. q \in Seq(Nat) /\ q # <<>>
      BY <1>0, <1>3, <3>1
    <3>3. Len(q) \in DOMAIN q
      BY <3>2
    <3>4. \A i \in DOMAIN Front(q) : i \in DOMAIN q /\ Front(q)[i] = q[i]
      BY <3>2, FrontElements
    <3> QED BY <3>1, <3>3, <3>4
  <2>2. id \in IdsOf(state.imm_memtables)
    BY <1>3, <2>1 DEF Last, IdsOf
  <2>3. IdsOf(Front(state.imm_memtables)) \subseteq IdsOf(state.imm_memtables)
    BY <2>1 DEF IdsOf
  <2> QED BY <1>3, <2>2, <2>3
<1> QED BY <1>1, <1>2, <1>3, StateFields

(* A flush leaves a task the SSTs it took, and may put others before them. *)
LEMMA FitsStays ==
    ASSUME IInv, [Next]_vars, NEW t, TaskFits(state, t)
    PROVE  TaskFits(state', t)
<1> DEFINE More == /\ IdsOf(state.l0_sstables) \subseteq IdsOf(state'.l0_sstables)
                   /\ IdsOf(state.levels) \subseteq IdsOf(state'.levels)
                   /\ FlushToL0 => state'.levels = state.levels
                   /\ state.levels # <<>> => state'.levels # <<>>
                   /\ state.sstables \subseteq state'.sstables
<1>0. state \in States /\ IdsNamed(state, Ids) /\ Ids \in SUBSET Nat /\ FlushingIsFrozen
  BY DEF IInv, TypeOK, IdsInState, Ids
<1>1. CASE state' = state
  BY <1>1
<1>2. ASSUME NEW u \in Freezers, FreezeSwap(u)
      PROVE  More
  <2>1. PICK id \in Ids : state' = Frozen(state, id)
    BY <1>2, FreezeSwapState
  <2>2. id \in Nat
    BY <1>0
  <2>3. /\ state'.l0_sstables = state.l0_sstables /\ state'.levels = state.levels
        /\ state'.sstables = state.sstables
    BY <1>0, <2>1, <2>2, FrozenType
  <2> QED BY <2>3
<1>3. ASSUME NEW u \in Flushers, FlushInstall(u)
      PROVE  More
  <2>1. /\ flush_id[u] \in Ids /\ state.imm_memtables # <<>>
        /\ Last(state.imm_memtables) = flush_id[u] /\ state' = Flushed(state, flush_id[u])
    BY <1>0, <1>3 DEF FlushInstall, FlushIsOldest, FlushingIsFrozen
  <2>2. PICK id \in Nat : id = flush_id[u]
    BY <1>0, <2>1
  <2>3. PICK tier : tier = <<id, <<id>>>>
    OBVIOUS
  <2>4. /\ state'.sstables = state.sstables \cup {id}
        /\ FlushToL0 => /\ state'.l0_sstables = InsertFirst(id, state.l0_sstables)
                        /\ state'.levels = state.levels
        /\ ~ FlushToL0 => /\ state'.l0_sstables = state.l0_sstables
                          /\ state'.levels = InsertFirst(tier, state.levels)
    BY <1>0, <2>1, <2>2, <2>3, FlushedType
  <2>5. state.l0_sstables \in Seq(Nat) /\ state.levels \in Seq(Nat \X Seq(Nat))
        /\ tier \in Nat \X Seq(Nat)
    <3>1. state.l0_sstables \in Seq(Nat) /\ state.levels \in Seq(Nat \X Seq(Nat))
      BY <1>0 DEF States
    <3>2. tier \in Nat \X Seq(Nat)
      BY <2>3
    <3> QED BY <3>1, <3>2
  <2>6. CASE FlushToL0
    <3>1. PICK V, q : V = Nat /\ q = state.l0_sstables
      OBVIOUS
    <3>2. q \in Seq(V) /\ id \in V
      BY <2>5, <3>1
    <3>3. IdsOf(InsertFirst(id, q)) = IdsOf(q) \cup {id}
      BY ONLY <3>2, InsertFirstIds
    <3> QED BY <2>4, <2>6, <3>1, <3>3
  <2>7. CASE ~ FlushToL0
    <3>1. PICK V, q : V = Nat \X Seq(Nat) /\ q = state.levels
      OBVIOUS
    <3>2. q \in Seq(V) /\ tier \in V
      BY <2>5, <3>1
    <3>3. IdsOf(InsertFirst(tier, q)) = IdsOf(q) \cup {tier}
      BY ONLY <3>2, InsertFirstIds
    <3>4. InsertFirst(tier, q) # <<>>
      <4>1. tier \in IdsOf(InsertFirst(tier, q))
        BY <3>3
      <4>2. IdsOf(<<>>) = {}
        BY DEF IdsOf
      <4> QED BY <4>1, <4>2
    <3> QED BY <2>4, <2>7, <3>1, <3>3, <3>4
  <2> QED BY <2>6, <2>7
<1>4. CASE More
  <2>1. FullFits(state, t) => FullFits(state', t)
    BY <1>4 DEF FullFits
  <2>2. LevelFits(state, t) => LevelFits(state', t)
    BY <1>4 DEF LevelFits, UpperIds
  <2>3. TieredFits(state, t) => TieredFits(state', t)
    BY <1>4 DEF TieredFits
  <2> QED BY <2>1, <2>2, <2>3 DEF TaskFits
<1> HIDE DEF More
<1> QED BY <1>1, <1>2, <1>3, <1>4, StateStep

LEMMA EngineTasks ==
    ASSUME IInv, IInv', InOrder(state), TasksOK, FlightsApart, [Next]_vars,
           cpc' = cpc, task' = task, output' = output, removed_ssts' = removed_ssts
    PROVE  TasksOK'
<1> SUFFICES ASSUME NEW c \in Compactors
             PROVE  TaskOK(c)'
  BY DEF TasksOK
<1>1. TaskOK(c)
  BY DEF TasksOK
<1>2. HasTask(c) => TaskFits(state', task[c])
  BY <1>1, FitsStays DEF TaskOK
<1>3. ASSUME cpc[c] \in {"copy", "install", "full_install"}
      PROVE  Produced(c)'
  <2>1. HasTask(c) /\ Produced(c) /\ TaskFits(state, task[c])
    BY <1>1, <1>3 DEF TaskOK, HasTask
  <2>2. \A id \in IdsOf(output[c]) : memtables'[id] = memtables[id]
    <3>1. \A id \in IdsOf(output[c]) : Settled(id)
      BY <2>1 DEF FlightsApart, InFlight
    <3> QED BY <3>1, SettledFrozen
  <2>3. \A id \in IdsOf(Inputs(task[c])) :
            memtables'[id] = memtables[id] /\ sst_tables'[id] = sst_tables[id]
    <3>1. IdsOf(Inputs(task[c])) \subseteq state.sstables
      <4>1. state \in States /\ ListsApart(state)
        BY DEF IInv, TypeOK, InOrder
      <4>2. IdsOf(Inputs(task[c])) \subseteq Listed(state)
        BY <2>1, <4>1, TaskInputs
      <4> QED BY <4>1, <4>2 DEF ListsApart
    <3>2. \A id \in IdsOf(Inputs(task[c])) : Settled(id)
      BY <3>1, SstsSettled
    <3> QED BY <3>2, SettledFrozen
  <2>4. PICK ins, outs : ins = IdsOf(Inputs(task[c])) /\ outs = IdsOf(output[c])
    OBVIOUS
  <2>5. SameCells(ins, outs)
    BY <2>1, <2>4 DEF Produced
  <2>6. SameCells(ins, outs)'
    BY <2>2, <2>3, <2>4, <2>5 DEF SameCells
  <2>7. /\ IdsOf(Inputs(task[c]))' = IdsOf(Inputs(task[c]))
        /\ IdsOf(output[c])' = IdsOf(output[c])
    BY DEF IdsOf, Inputs, Policy!TieredFilesToRemove
  <2>8. SameCells(IdsOf(Inputs(task[c])), IdsOf(output[c]))'
    BY <2>4, <2>6, <2>7
  <2>9. \A id \in IdsOf(Inputs(task[c])) : CellsOf(sst_tables'[id]) # {}
    BY <2>1, <2>3 DEF Produced
  <2> QED BY <2>1, <2>7, <2>8, <2>9 DEF Produced
<1>4. (Inputs(task[c]))' = Inputs(task[c])
  BY DEF Inputs, Policy!TieredFilesToRemove
<1> QED BY <1>1, <1>2, <1>3, <1>4 DEF TaskOK, HasTask

LEMMA EngineFlights ==
    ASSUME IInv, IInv', FlightsApart, [Next]_vars,
           cpc' = cpc, output' = output, removed_ssts' = removed_ssts
    PROVE  FlightsApart'
<1>1. \A c \in Compactors : InFlight(c)' = InFlight(c)
  BY DEF InFlight, HasTask, IdsOf
<1>2. ASSUME NEW c \in Compactors
      PROVE  /\ InFlight(c) \cap (state'.sstables \cup IdsOf(state'.imm_memtables)) = {}
             /\ \A id \in InFlight(c) : Settled(id)'
  <2>1. /\ InFlight(c) \cap (state.sstables \cup IdsOf(state.imm_memtables)) = {}
        /\ \A id \in InFlight(c) : Settled(id)
    BY DEF FlightsApart
  <2>2. \A id \in InFlight(c) : Settled(id)'
    BY <2>1, SettledStays
  <2>3. state.memtable \notin InFlight(c)
    BY <2>1 DEF Settled
  <2> QED BY <2>1, <2>2, <2>3, NamesStay
<1>3. \A c, d \in Compactors : c # d => InFlight(c)' \cap InFlight(d)' = {}
  BY <1>1 DEF FlightsApart
<1>4. \A c \in Compactors :
        /\ InFlight(c)' \cap (state'.sstables \cup IdsOf(state'.imm_memtables)) = {}
        /\ \A id \in InFlight(c)' : Settled(id)'
  BY <1>1, <1>2
<1> QED BY <1>3, <1>4 DEF FlightsApart, IdsOf

LEMMA EngineFiles ==
    ASSUME IInv, IInv', FilesKept, [Next]_vars, files' = files \cup Built,
           cpc' = cpc, output' = output, removed_ssts' = removed_ssts
    PROVE  FilesKept'
<1>0. /\ pc \in [Threads -> PcLabels] /\ Flushers \subseteq Threads
      /\ flush_id \in [Flushers -> Nat \cup {Nil}]
      /\ faults \in Nat /\ faults' \in Nat
  <2>1. TypeOK /\ TypeOK'
    BY DEF IInv
  <2>2. faults \in 0 .. MaxFaults /\ faults' \in 0 .. MaxFaults
    BY <2>1 DEF TypeOK
  <2>3. faults \in Nat /\ faults' \in Nat
    BY <2>2
  <2>4. /\ pc \in [Threads -> PcLabels] /\ Flushers \subseteq Threads
        /\ flush_id \in [Flushers -> Nat \cup {Nil}]
    BY <2>1 DEF TypeOK, Threads
  <2> QED BY <2>3, <2>4
<1>1. /\ Ids \subseteq Ids' /\ state.sstables \subseteq state'.sstables
  BY CommittedContentStays
<1>2. \A id \in Built : \E t \in Flushers :
            pc[t] = "flush_build" /\ pc'[t] = "flush_lock" /\ id = flush_id[t]
  BY DEF Built
<1>3. files' \subseteq Ids'
  <2>1. Built \subseteq Ids
    BY <1>2 DEF IInv, FlushingIsFrozen
  <2> QED BY <1>1, <2>1 DEF FilesKept
<1>4. state'.sstables \subseteq files'
  <2>1. CASE state'.sstables = state.sstables
    BY <2>1 DEF FilesKept
  <2>2. ASSUME NEW t \in Flushers, FlushInstall(t), state.imm_memtables # <<>>,
               Last(state.imm_memtables) = flush_id[t],
               state'.sstables = state.sstables \cup {flush_id[t]}
        PROVE  state'.sstables \subseteq files'
    <3>1. FlushBuilt(t)
      BY <2>2 DEF FlushInstall, FlushBuilt
    <3>2. flush_id[t] \in IdsOf(state.imm_memtables)
      <4>1. state.imm_memtables \in Seq(Nat)
        BY DEF IInv, TypeOK, States
      <4>2. Len(state.imm_memtables) \in DOMAIN state.imm_memtables
        BY <2>2, <4>1
      <4> QED BY <2>2, <4>2 DEF Last, IdsOf
    <3> QED BY <2>2, <3>1, <3>2 DEF FilesKept
  <2> QED BY <2>1, <2>2, StateFields
<1>5. ASSUME NEW t \in Flushers
      PROVE  \/ FlushBuild(t) /\ flush_id'[t] = flush_id[t] /\ FlushBuilt(t)'
             \/ /\ FlushBuilt(t)' => FlushBuilt(t) /\ flush_id'[t] = flush_id[t]
                /\ FlushBuilt(t) => \/ FlushBuilt(t)' /\ flush_id'[t] = flush_id[t]
                                    \/ FlushInstall(t)
                                    \/ FlushPanics(t)
  <2>1. CASE FlushStep(t)
    <3>1. CASE FlushPick(t) \/ FlushFails(t)
      BY <1>0, <3>1 DEF FlushPick, FlushFails, Goto, FlushBuilt
    <3>2. CASE FlushBuild(t)
      BY <1>0, <3>2 DEF FlushBuild, Goto, FlushBuilt
    <3>3. CASE FlushLock(t)
      BY <1>0, <3>3 DEF FlushLock, Goto, FlushBuilt
    <3>4. CASE FlushInstall(t)
      BY <1>0, <3>4 DEF FlushInstall, Goto, FlushBuilt
    <3>5. CASE FlushPanics(t)
      BY <1>0, <3>5 DEF FlushPanics, Goto, FlushBuilt
    <3> QED BY <2>1, <3>1, <3>2, <3>3, <3>4, <3>5 DEF FlushStep
  <2>2. CASE ~ FlushStep(t)
    BY <2>2, FlushFrame DEF Flushing, FlushBuilt
  <2> QED BY <2>1, <2>2
<1>6. ASSUME NEW t \in Flushers, FlushBuilt(t)', flush_id'[t] \in IdsOf(state'.imm_memtables)
      PROVE  flush_id'[t] \in files'
  <2>1. CASE FlushBuild(t) /\ flush_id'[t] = flush_id[t]
    <3>1. pc[t] = "flush_build" /\ pc'[t] = "flush_lock"
      BY <1>0, <2>1 DEF FlushBuild, Goto
    <3> QED BY <2>1, <3>1 DEF Built
  <2>2. CASE FlushBuilt(t) /\ flush_id'[t] = flush_id[t]
    <3>1. flush_id[t] # state.memtable
      BY <2>2 DEF IInv, FlushingIsFrozen, FlushBuilt
    <3>2. flush_id[t] \in IdsOf(state.imm_memtables)
      BY <1>6, <2>2, <3>1, NamesStay
    <3> QED BY <2>2, <3>2 DEF FilesKept
  <2> QED BY <1>5, <1>6, <2>1, <2>2
<1>7. \A c \in Compactors : InFlight(c)' = InFlight(c)
  BY DEF InFlight, HasTask, IdsOf
<1>8. ASSUME faults' = 0, \A t \in Flushers : pc'[t] # "panicked", NEW id \in files'
      PROVE  \/ id \in state'.sstables
             \/ \E t \in Flushers : FlushBuilt(t)' /\ id = flush_id'[t]
             \/ \E c \in Compactors : id \in InFlight(c)'
  <2>1. faults = 0 /\ \A t \in Flushers : pc[t] # "panicked"
    BY <1>0, <1>8, FaultsStep, PanickedStays
  <2>2. CASE id \in Built
    <3>1. PICK t \in Flushers : pc[t] = "flush_build" /\ pc'[t] = "flush_lock" /\ id = flush_id[t]
      BY <1>2, <2>2
    <3>2. FlushBuilt(t)' /\ ~ FlushBuilt(t)
      BY <3>1 DEF FlushBuilt
    <3>3. flush_id'[t] = flush_id[t]
      BY <1>5, <3>2
    <3> QED BY <3>1, <3>2, <3>3
  <2>3. CASE id \in state.sstables
    BY <1>1, <2>3
  <2>4. CASE \E c \in Compactors : id \in InFlight(c)
    BY <1>7, <2>4
  <2>5. ASSUME NEW t \in Flushers, FlushBuilt(t), id = flush_id[t]
        PROVE  \/ id \in state'.sstables
               \/ FlushBuilt(t)' /\ id = flush_id'[t]
    <3>1. CASE FlushInstall(t)
      <4>1. flush_id[t] \in state'.sstables
        <5>1. /\ state \in States /\ state.imm_memtables # <<>>
              /\ state' = Flushed(state, flush_id[t]) /\ flush_id[t] \in Nat
          BY <3>1 DEF IInv, TypeOK, FlushInstall, FlushIsOldest, FlushingIsFrozen, Ids
        <5> QED BY <5>1, FlushedType
      <4> QED BY <2>5, <4>1
    <3>2. ~ FlushPanics(t)
      BY <1>0, <1>8 DEF FlushPanics, Goto
    <3>3. CASE FlushBuilt(t)' /\ flush_id'[t] = flush_id[t]
      BY <2>5, <3>3
    <3>4. ~ FlushBuild(t)
      BY <2>5 DEF FlushBuild, FlushBuilt
    <3> QED BY <1>5, <2>5, <3>1, <3>2, <3>3, <3>4
  <2> QED BY <1>8, <2>1, <2>2, <2>3, <2>4, <2>5 DEF FilesKept
<1>9. \A c \in Compactors : InFlight(c)' \subseteq files'
  BY <1>7 DEF FilesKept
<1> QED BY <1>3, <1>4, <1>6, <1>8, <1>9 DEF FilesKept, IdsOf

LEMMA EngineInv ==
    ASSUME CompInv, EngineStep
    PROVE  CompInv'
<1>0. /\ IInv /\ LocalTypes /\ InOrder(state) /\ TasksOK /\ FlightsApart
      /\ FilesKept /\ SnapshotsSettled
  BY DEF CompInv
<1>1. /\ [Next]_vars /\ files' = files \cup Built
      /\ policy' = policy /\ cpc' = cpc /\ task' = task /\ output' = output
      /\ replacement' = replacement /\ removed_ssts' = removed_ssts
  BY DEF EngineStep
<1>2. IInv'
  BY <1>0, <1>1, StepInv
<1>3. InOrder(state)'
  BY <1>0, <1>1, InOrderStays
<1>4. TasksOK' /\ FlightsApart'
  BY <1>0, <1>1, <1>2, EngineTasks, EngineFlights
<1>5. FilesKept'
  BY <1>0, <1>1, <1>2, EngineFiles
<1>6. SnapshotsSettled'
  BY <1>0, <1>1, <1>2, SnapshotsSettledStep
<1>7. LocalTypes'
  <2>1. Seq(Ids) \subseteq Seq(Ids')
    <3>1. PICK A, B : A = Ids /\ B = Ids'
      OBVIOUS
    <3>2. A \subseteq B
      BY <1>0, <1>1, <1>2, <3>1, CommittedContentStays
    <3>3. Seq(A) \subseteq Seq(B)
      BY <3>2
    <3> QED BY <3>1, <3>3
  <2>2. [Compactors -> Seq(Ids)] \subseteq [Compactors -> Seq(Ids')]
    BY <2>1
  <2> QED BY <1>0, <1>1, <2>2 DEF LocalTypes
<1> QED BY <1>2, <1>3, <1>4, <1>5, <1>6, <1>7 DEF CompInv

-------------------------------------------------------------------------------
(* A compactor's steps                                                     *)

(* The SSTs a compaction builds get the next ids, in their order.          *)
LEMMA BuiltSsts ==
    ASSUME TypeOK, NEW ssts \in Seq(Tables), BuildSsts(ssts)
    PROVE  /\ next_sst_id' \in Nat /\ Ids \subseteq Ids'
           /\ memtables' \in [Ids' -> Tables]
           /\ approx_size' \in [Ids' -> Nat]
           /\ sst_tables' \in [Ids' -> Tables]
           /\ \A id \in Ids : memtables'[id] = memtables[id] /\ sst_tables'[id] = sst_tables[id]
           /\ \A i \in DOMAIN ssts :
                /\ next_sst_id + i - 1 \in Ids' \ Ids
                /\ memtables'[next_sst_id + i - 1] = ssts[i]
                /\ sst_tables'[next_sst_id + i - 1] = ssts[i]
<1> DEFINE last == next_sst_id + Len(ssts) - 1
<1>1. /\ next_sst_id \in Nat /\ memtables \in [Ids -> Tables] /\ sst_tables \in [Ids -> Tables]
      /\ approx_size \in [Ids -> Nat]
  BY DEF TypeOK
<1>2. /\ Len(ssts) \in Nat /\ DOMAIN ssts = 1 .. Len(ssts)
      /\ \A i \in 1 .. Len(ssts) : ssts[i] \in Tables
  OBVIOUS
<1>3. /\ next_sst_id' = last + 1
      /\ memtables' = [i \in 0 .. last |-> IF i < next_sst_id THEN memtables[i]
                                           ELSE ssts[i - next_sst_id + 1]]
      /\ approx_size' = [i \in 0 .. last |-> IF i < next_sst_id THEN approx_size[i] ELSE 0]
      /\ sst_tables' = [i \in 0 .. last |-> IF i < next_sst_id THEN sst_tables[i]
                                            ELSE ssts[i - next_sst_id + 1]]
  BY DEF BuildSsts
<1> HIDE DEF last
<1>4. last + 1 = next_sst_id + Len(ssts) /\ last \in Int
  BY <1>1, <1>2 DEF last
<1>5. /\ next_sst_id' \in Nat /\ Ids' = 0 .. last
      /\ \A i \in 0 .. last : i < next_sst_id => i \in Ids
      /\ \A i \in 0 .. last : ~ (i < next_sst_id) => i - next_sst_id + 1 \in 1 .. Len(ssts)
      /\ \A i \in Ids : i \in 0 .. last /\ i < next_sst_id
  BY <1>1, <1>2, <1>3, <1>4 DEF Ids
<1>6. ASSUME NEW i \in 1 .. Len(ssts)
      PROVE  /\ next_sst_id + i - 1 \in 0 .. last /\ next_sst_id + i - 1 \notin Ids
             /\ ~ (next_sst_id + i - 1 < next_sst_id)
             /\ (next_sst_id + i - 1) - next_sst_id + 1 = i
  BY <1>1, <1>2, <1>4 DEF Ids
<1>7. memtables' \in [Ids' -> Tables] /\ sst_tables' \in [Ids' -> Tables]
  BY <1>1, <1>2, <1>3, <1>5
<1>8. approx_size' \in [Ids' -> Nat]
  BY <1>1, <1>3, <1>5
<1>9. \A id \in Ids : memtables'[id] = memtables[id] /\ sst_tables'[id] = sst_tables[id]
  BY <1>3, <1>5
<1>10. ASSUME NEW i \in DOMAIN ssts
       PROVE  /\ next_sst_id + i - 1 \in Ids' \ Ids
              /\ memtables'[next_sst_id + i - 1] = ssts[i]
              /\ sst_tables'[next_sst_id + i - 1] = ssts[i]
  <2>1. PICK n : n = next_sst_id + i - 1
    OBVIOUS
  <2>2. n \in 0 .. last /\ n \notin Ids /\ ~ (n < next_sst_id) /\ n - next_sst_id + 1 = i
    BY <1>2, <1>6, <2>1
  <2>3. memtables'[n] = ssts[i] /\ sst_tables'[n] = ssts[i]
    BY <1>3, <2>2
  <2> QED BY <1>5, <2>1, <2>2, <2>3
<1> QED BY <1>5, <1>7, <1>8, <1>9, <1>10

(* What a compactor's step leaves alone: the engine's locals, its memtables*)
(* and what its SSTs hold.                                                 *)
EngineKept ==
    /\ pc' = pc /\ reading' = reading /\ freeze' = freeze /\ mvcc' = mvcc
    /\ flush_id' = flush_id /\ manifest' = manifest
    /\ next_sst_id' \in Nat /\ Ids \subseteq Ids'
    /\ memtables' \in [Ids' -> Tables]
    /\ approx_size' \in [Ids' -> Nat]
    /\ sst_tables' \in [Ids' -> Tables]
    /\ \A id \in Ids : memtables'[id] = memtables[id] /\ sst_tables'[id] = sst_tables[id]
    /\ faults' \in 0 .. MaxFaults /\ (faults' = 0 => faults = 0)

(* And the other compactors'.                                              *)
OnlyOf(c) ==
    \A d \in Compactors : d # c =>
        /\ cpc'[d] = cpc[d] /\ task'[d] = task[d] /\ output'[d] = output[d]
        /\ removed_ssts'[d] = removed_ssts[d]

(* The state is replaced by c only when neither a freeze nor another       *)
(* compaction has made something of the old one.                           *)
Takes(c) ==
    \/ state' = state
    \/ /\ HasTask(c)
       /\ Replaces(state, state', task[c], output[c])
       /\ \A t \in Freezers : ~ Preparing(t)
       /\ \A d \in Compactors : d # c => ~ HasTask(d)

LEMMA TableKept ==
    ASSUME IInv, next_sst_id' = next_sst_id, memtables' = memtables,
           approx_size' = approx_size, sst_tables' = sst_tables
    PROVE  /\ next_sst_id' \in Nat /\ Ids \subseteq Ids'
           /\ memtables' \in [Ids' -> Tables]
           /\ approx_size' \in [Ids' -> Nat]
           /\ sst_tables' \in [Ids' -> Tables]
           /\ \A id \in Ids : memtables'[id] = memtables[id] /\ sst_tables'[id] = sst_tables[id]
BY DEF IInv, TypeOK, Ids

(* Whatever a compaction puts in place of the state, the engine can go on  *)
(* from there.                                                             *)
LEMMA RestInv ==
    ASSUME IInv, InOrder(state), FlightsApart, EngineKept, NEW c \in Compactors, Takes(c)
    PROVE  /\ IInv' /\ InOrder(state)' /\ state'.memtable = state.memtable
           /\ state'.imm_memtables = state.imm_memtables
<1>0. /\ TypeOK /\ PcByRole /\ LocksHeld /\ WriteInProgress /\ IdsInState
      /\ FlushingIsFrozen /\ FlushedContentIsFinal /\ CopyIsCurrent /\ state \in States
  BY DEF IInv, TypeOK
<1>1. /\ state' \in States /\ state'.memtable = state.memtable
      /\ state'.imm_memtables = state.imm_memtables
      /\ ListsApart(state') /\ LevelsShape(state')
  BY <1>0 DEF Takes, Replaces, InOrder
<1>2. ASSUME NEW id \in state'.sstables
      PROVE  /\ id \in Ids /\ id # state.memtable /\ sst_tables[id] = memtables[id]
             /\ id \notin IdsOf(state.imm_memtables)
  <2>1. CASE id \in state.sstables
    BY <1>0, <2>1 DEF IdsInState, IdsNamed, FlushedContentIsFinal, InOrder, MemtablesOnce
  <2>2. CASE HasTask(c) /\ id \in IdsOf(output[c])
    BY <2>2 DEF FlightsApart, InFlight, Settled
  <2> QED BY <2>1, <2>2 DEF Takes, Replaces
<1>3. InOrder(state')
  <2>1. MemtablesOnce(state')
    BY <1>1, <1>2 DEF InOrder, MemtablesOnce
  <2> QED BY <1>1, <2>1 DEF InOrder
<1>4. IdsNamed(state', Ids')
  <2>1. Listed(state') = state'.sstables /\ Ids \subseteq Ids'
    BY <1>1 DEF ListsApart, EngineKept
  <2>2. \A i \in DOMAIN state'.l0_sstables : state'.l0_sstables[i] \in state'.sstables
    BY <2>1 DEF Listed, IdsOf
  <2>3. \A i \in DOMAIN state'.levels : \A j \in DOMAIN state'.levels[i][2] :
            state'.levels[i][2][j] \in state'.sstables
    <3>1. SUFFICES ASSUME NEW i \in DOMAIN state'.levels, NEW j \in DOMAIN state'.levels[i][2]
                   PROVE  state'.levels[i][2][j] \in Listed(state')
      BY <2>1
    <3>2. state'.levels[i][2][j] \in IdsOf(state'.levels[i][2])
      BY DEF IdsOf
    <3> QED BY <3>2 DEF Listed
  <2> QED BY <1>0, <1>1, <1>2, <2>1, <2>2, <2>3 DEF IdsNamed, IdsInState
<1>5. FlushedContentIsFinal'
  BY <1>2 DEF FlushedContentIsFinal, EngineKept
<1>6. TypeOK'
  BY <1>0, <1>1 DEF TypeOK, EngineKept, mvcc, freeze, reading
<1>7. PcByRole' /\ LocksHeld' /\ WriteInProgress'
  BY <1>0 DEF PcByRole, LocksHeld, InStateLock, WriteInProgress, InWrite, EngineKept, mvcc, freeze
<1>8. CopyIsCurrent'
  <2>1. ASSUME NEW t \in Freezers, Preparing(t)
        PROVE  \E id \in Ids' :
                  /\ new_state[t] = Frozen(state, id)
                  /\ id # state.memtable
                  /\ id \notin state.sstables
                  /\ \A i \in DOMAIN state.imm_memtables : state.imm_memtables[i] # id
                  /\ \A u \in Flushers : flush_id[u] # id
                  /\ memtables'[id] = EmptyTable
    <3>1. PICK id \in Ids :
                  /\ new_state[t] = Frozen(state, id)
                  /\ id # state.memtable
                  /\ id \notin state.sstables
                  /\ \A i \in DOMAIN state.imm_memtables : state.imm_memtables[i] # id
                  /\ \A u \in Flushers : flush_id[u] # id
                  /\ memtables[id] = EmptyTable
      BY <1>0, <2>1 DEF CopyIsCurrent
    <3>2. id \in Ids' /\ memtables'[id] = EmptyTable
      BY <3>1 DEF EngineKept
    <3> QED BY <3>1, <3>2
  <2>2. /\ \A t \in Freezers : Preparing(t)' <=> Preparing(t)
        /\ new_state' = new_state /\ flush_id' = flush_id
    BY DEF EngineKept, Preparing, freeze
  <2>3. CASE state' = state
    BY <2>1, <2>2, <2>3 DEF CopyIsCurrent
  <2>4. CASE \A t \in Freezers : ~ Preparing(t)
    BY <2>2, <2>4 DEF CopyIsCurrent
  <2> QED BY <2>3, <2>4 DEF Takes
<1>9. FlushingIsFrozen'
  BY <1>0, <1>1 DEF FlushingIsFrozen, EngineKept
<1> QED BY <1>1, <1>3, <1>4, <1>5, <1>6, <1>7, <1>8, <1>9 DEF IInv, IdsInState

LEMMA KeptSettled ==
    ASSUME EngineKept, state'.memtable = state.memtable, NEW id, Settled(id)
    PROVE  Settled(id)'
<1>1. \A t \in Freezers : Preparing(t)' <=> Preparing(t)
  BY DEF EngineKept, Preparing
<1>2. new_state' = new_state
  BY DEF EngineKept, freeze
<1>3. id \in Ids /\ id \in Ids' /\ id # state'.memtable
  BY DEF Settled, EngineKept
<1>4. sst_tables'[id] = memtables'[id]
  BY <1>3 DEF Settled, EngineKept
<1> QED BY <1>1, <1>2, <1>3, <1>4 DEF Settled

(* A compaction's inputs are SSTs of the state until it replaces it.       *)
LEMMA InputsThere ==
    ASSUME CompInv, NEW t, TaskFits(state, t)
    PROVE  /\ Inputs(t) \in Seq(Ids) /\ IdsOf(Inputs(t)) \subseteq state.sstables
           /\ state.sstables \subseteq Ids /\ state.sstables \subseteq files
<1>0. /\ state \in States /\ ListsApart(state) /\ Listed(state) = state.sstables
      /\ state.sstables \subseteq Ids /\ state.sstables \subseteq files
  BY DEF CompInv, IInv, TypeOK, InOrder, ListsApart, IdsInState, IdsNamed, FilesKept
<1>1. Inputs(t) \in Seq(Nat) /\ IdsOf(Inputs(t)) \subseteq state.sstables
  BY <1>0, TaskInputs
<1>2. Inputs(t) \in Seq(Ids)
  <2>1. PICK q, B : q = Inputs(t) /\ B = Ids
    OBVIOUS
  <2>2. q \in Seq(Nat) /\ \A i \in DOMAIN q : q[i] \in B
    BY <1>0, <1>1, <2>1 DEF IdsOf
  <2>3. q \in Seq(B)
    BY <2>2
  <2> QED BY <2>1, <2>3
<1> QED BY <1>0, <1>1, <1>2

(* What another compaction wrote, and what it took, stays.                 *)
LEMMA ProducedStays ==
    ASSUME CompInv, EngineKept, NEW d \in Compactors, HasTask(d), Produced(d),
           task'[d] = task[d], output'[d] = output[d]
    PROVE  Produced(d)'
<1>1. TaskFits(state, task[d])
  BY DEF CompInv, TasksOK, TaskOK
<1>2. PICK ins, outs : ins = IdsOf(Inputs(task[d])) /\ outs = IdsOf(output[d])
  OBVIOUS
<1>3. ins \subseteq Ids
  BY <1>1, <1>2, InputsThere
<1>4. outs \subseteq Ids
  BY <1>2 DEF CompInv, FlightsApart, InFlight, Settled
<1>5. /\ \A id \in ins : CellsOf(sst_tables[id]) # {}
      /\ SameCells(ins, outs)
  BY <1>2 DEF Produced
<1>6. SameCells(ins, outs)'
  BY <1>3, <1>4, <1>5 DEF SameCells, EngineKept
<1>7. \A id \in ins : CellsOf(sst_tables[id])' # {}
  BY <1>3, <1>5 DEF EngineKept, CellsOf
<1>8. /\ IdsOf(Inputs(task[d]))' = ins /\ IdsOf(output[d])' = outs
  BY <1>2 DEF IdsOf, Inputs, Policy!TieredFilesToRemove
<1> QED BY <1>6, <1>7, <1>8 DEF Produced

(* One compactor's step, from what it does to its own SSTs and files.      *)
LEMMA CompactorInv ==
    ASSUME CompInv, NEW c \in Compactors, EngineKept, OnlyOf(c), Takes(c),
           LocalTypes', TaskOK(c)',
           InFlight(c)' \cap (state'.sstables \cup IdsOf(state'.imm_memtables)) = {},
           \A id \in InFlight(c)' : Settled(id)',
           \A d \in Compactors : d # c => InFlight(c)' \cap InFlight(d) = {},
           files' \subseteq Ids',
           state'.sstables \cup InFlight(c)' \subseteq files',
           files \ files' \subseteq InFlight(c),
           faults' = 0 => \A id \in files' :
                \/ id \in state'.sstables \cup InFlight(c)'
                \/ id \in files /\ id \notin state.sstables \cup InFlight(c)
    PROVE  CompInv'
<1>0. /\ IInv /\ InOrder(state) /\ SnapshotsSettled /\ TasksOK /\ FlightsApart /\ FilesKept
      /\ LocalTypes
  BY DEF CompInv
<1>1. /\ IInv' /\ InOrder(state)' /\ state'.memtable = state.memtable
      /\ state'.imm_memtables = state.imm_memtables
  BY <1>0, RestInv
<1>2. \A d \in Compactors : d # c => InFlight(d)' = InFlight(d)
  <2>1. ASSUME NEW d \in Compactors, d # c
        PROVE  InFlight(d)' = InFlight(d)
    <3>1. cpc'[d] = cpc[d] /\ output'[d] = output[d] /\ removed_ssts'[d] = removed_ssts[d]
      BY <2>1 DEF OnlyOf
    <3>2. HasTask(d)' <=> HasTask(d)
      BY <3>1 DEF HasTask
    <3>3. /\ IdsOf(output[d])' = IdsOf(output[d])
          /\ IdsOf(removed_ssts[d])' = IdsOf(removed_ssts[d])
      BY <3>1 DEF IdsOf
    <3> QED BY <3>2, <3>3 DEF InFlight
  <2> QED BY <2>1
<1>3. TasksOK'
  <2>1. ASSUME NEW d \in Compactors, d # c
        PROVE  TaskOK(d)'
    <3>0. /\ TaskOK(d) /\ cpc'[d] = cpc[d] /\ task'[d] = task[d] /\ output'[d] = output[d]
          /\ removed_ssts'[d] = removed_ssts[d]
      BY <1>0, <2>1 DEF TasksOK, OnlyOf
    <3>1. HasTask(d) => state' = state
      BY <2>1 DEF Takes
    <3>2. HasTask(d)' <=> HasTask(d)
      BY <3>0 DEF HasTask
    <3>3. HasTask(d)' => TaskFits(state, task[d])'
      <4>1. HasTask(d) => TaskFits(state', task[d])
        BY <3>0, <3>1 DEF TaskOK
      <4>2. TaskFits(state, task[d])' <=> TaskFits(state', task'[d])
        OBVIOUS
      <4> QED BY <3>0, <3>2, <4>1, <4>2
    <3>4. cpc[d] \in {"copy", "install", "full_install"} => Produced(d)'
      <4>1. cpc[d] \in {"copy", "install", "full_install"} => HasTask(d) /\ Produced(d)
        BY <3>0 DEF TaskOK, HasTask
      <4> QED BY <3>0, <4>1, ProducedStays
    <3>5. Inputs(task[d])' = Inputs(task[d])
      BY <3>0 DEF Inputs, Policy!TieredFilesToRemove
    <3>6. /\ (HasTask(d) => (task[d].kind = "full" <=> d # CompactionThread))
          /\ cpc[d] = "merge" => output[d] = <<>>
          /\ cpc[d] \in {"copy", "install"} => d = CompactionThread
          /\ cpc[d] = "full_install" => d # CompactionThread
          /\ cpc[d] = "install" => removed_ssts[d] = Inputs(task[d])
          /\ cpc[d] \in {"idle", "panicked"} => removed_ssts[d] = <<>>
      BY <3>0 DEF TaskOK
    <3> HIDE DEF HasTask
    <3> QED BY <3>0, <3>2, <3>3, <3>4, <3>5, <3>6 DEF TaskOK
  <2> QED BY <2>1 DEF TasksOK
<1>4. FlightsApart'
  <2>1. ASSUME NEW d \in Compactors, d # c
        PROVE  /\ InFlight(d) \cap (state'.sstables \cup IdsOf(state'.imm_memtables)) = {}
               /\ \A id \in InFlight(d) : Settled(id)'
    <3>1. /\ InFlight(d) \cap (state.sstables \cup IdsOf(state.imm_memtables)) = {}
          /\ \A id \in InFlight(d) : Settled(id)
          /\ InFlight(d) \cap InFlight(c) = {}
      BY <1>0, <2>1 DEF FlightsApart
    <3>2. state'.sstables \subseteq state.sstables \cup InFlight(c)
      BY DEF Takes, Replaces, InFlight
    <3>3. \A id \in InFlight(d) : Settled(id)'
      BY <1>1, <3>1, KeptSettled
    <3> QED BY <1>1, <3>1, <3>2, <3>3
  <2>2. ASSUME NEW d \in Compactors
        PROVE  /\ InFlight(d)' \cap (state'.sstables \cup IdsOf(state'.imm_memtables)) = {}
               /\ \A id \in InFlight(d)' : Settled(id)'
    BY <1>2, <2>1
  <2>3. ASSUME NEW d \in Compactors, NEW e \in Compactors, d # e
        PROVE  InFlight(d)' \cap InFlight(e)' = {}
    BY <1>0, <1>2, <2>3 DEF FlightsApart
  <2>4. IdsOf(state.imm_memtables)' = IdsOf(state'.imm_memtables)
    BY DEF IdsOf
  <2> QED BY <2>2, <2>3, <2>4 DEF FlightsApart
<1>5. FilesKept'
  <2>1. ASSUME NEW t \in Flushers, FlushBuilt(t)', flush_id'[t] \in IdsOf(state'.imm_memtables)
        PROVE  flush_id'[t] \in files'
    <3>1. FlushBuilt(t) /\ flush_id'[t] = flush_id[t]
      BY <2>1 DEF FlushBuilt, EngineKept
    <3>2. flush_id[t] \in IdsOf(state.imm_memtables)
      BY <1>1, <2>1, <3>1
    <3>3. flush_id[t] \in files /\ flush_id[t] \notin InFlight(c)
      BY <1>0, <3>1, <3>2 DEF FilesKept, FlightsApart
    <3> QED BY <3>1, <3>3
  <2>2. ASSUME NEW d \in Compactors
        PROVE  InFlight(d)' \subseteq files'
    <3>1. d # c => InFlight(d) \subseteq files /\ InFlight(d) \cap InFlight(c) = {}
      BY <1>0 DEF FilesKept, FlightsApart
    <3> QED BY <1>2, <3>1
  <2>3. ASSUME faults' = 0, \A t \in Flushers : pc'[t] # "panicked", NEW id \in files'
        PROVE  \/ id \in state'.sstables
               \/ \E t \in Flushers : FlushBuilt(t)' /\ id = flush_id'[t]
               \/ \E d \in Compactors : id \in InFlight(d)'
    <3>1. CASE id \in state'.sstables \cup InFlight(c)'
      BY <3>1
    <3>2. CASE id \in files /\ id \notin state.sstables \cup InFlight(c)
      <4>1. faults = 0 /\ (\A t \in Flushers : pc[t] # "panicked")
        BY <2>3 DEF EngineKept
      <4>2. \/ \E t \in Flushers : FlushBuilt(t) /\ id = flush_id[t]
            \/ \E d \in Compactors : id \in InFlight(d) /\ d # c
        BY <1>0, <3>2, <4>1 DEF FilesKept
      <4>3. \A t \in Flushers : FlushBuilt(t)' <=> FlushBuilt(t)
        BY DEF FlushBuilt, EngineKept
      <4> QED BY <1>2, <4>2, <4>3 DEF EngineKept
    <3> QED BY <2>3, <3>1, <3>2
  <2>4. IdsOf(state.imm_memtables)' = IdsOf(state'.imm_memtables)
    BY DEF IdsOf
  <2> QED BY <2>1, <2>2, <2>3, <2>4 DEF FilesKept
<1>6. SnapshotsSettled'
  <2> SUFFICES ASSUME NEW r \in Readers
               PROVE  SnapshotSettled(r)'
    BY DEF SnapshotsSettled
  <2>1. pc' = pc /\ read_ts' = read_ts /\ snapshot' = snapshot /\ commit_ts' = commit_ts
        /\ Ids \subseteq Ids'
    BY DEF EngineKept, reading, mvcc
  <2>2. SnapshotSettled(r)
    BY <1>0 DEF SnapshotsSettled
  <2>3. ASSUME pc[r] = "reading"
        PROVE  /\ snapshot[r] \in States /\ IdsNamed(snapshot[r], Ids')
               /\ \A id \in snapshot[r].sstables : Settled(id)'
    <3>1. /\ snapshot[r] \in States /\ IdsNamed(snapshot[r], Ids)
          /\ \A id \in snapshot[r].sstables : Settled(id)
      BY <2>2, <2>3 DEF SnapshotSettled
    <3>2. IdsNamed(snapshot[r], Ids')
      BY <2>1, <3>1 DEF IdsNamed
    <3> QED BY <1>1, <3>1, <3>2, KeptSettled
  <2> QED BY <2>1, <2>2, <2>3 DEF SnapshotSettled
<1> QED BY <1>1, <1>3, <1>4, <1>5, <1>6 DEF CompInv

(* A step which builds and installs nothing.                               *)
LEMMA UnchangedKept ==
    ASSUME IInv, pc' = pc, reading' = reading, freeze' = freeze, mvcc' = mvcc,
           flush_id' = flush_id, manifest' = manifest,
           next_sst_id' = next_sst_id, memtables' = memtables, approx_size' = approx_size,
           sst_tables' = sst_tables, faults' = faults \/ Fault
    PROVE  EngineKept
<1>1. faults' \in 0 .. MaxFaults /\ (faults' = 0 => faults = 0)
  <2>1. TypeOK /\ faults \in 0 .. MaxFaults
    BY DEF IInv, TypeOK
  <2>2. CASE faults' = faults
    BY <2>1, <2>2
  <2>3. CASE Fault
    <3>1. faults' \in 0 .. MaxFaults
      BY <2>1, <2>3, FaultType
    <3>2. faults' = faults + 1
      BY <2>3 DEF Fault
    <3>3. faults' # 0
      BY <2>1, <3>2
    <3> QED BY <3>1, <3>3
  <2> QED BY <2>2, <2>3
<1> QED BY <1>1, TableKept DEF EngineKept

LEMMA SeqKept ==
    ASSUME EngineKept
    PROVE  Seq(Ids) \subseteq Seq(Ids')
<1>1. PICK A, B : A = Ids /\ B = Ids'
  OBVIOUS
<1>2. A \subseteq B
  BY <1>1 DEF EngineKept
<1>3. Seq(A) \subseteq Seq(B)
  BY <1>2
<1> QED BY <1>1, <1>3

LEMMA IdsAreNumbers ==
    ASSUME TypeOK, NEW out \in Seq(Ids)
    PROVE  out \in Seq(Nat)
<1>1. PICK A, B : A = Ids /\ B = Nat
  OBVIOUS
<1>2. A \subseteq B
  BY <1>1 DEF Ids, TypeOK
<1>3. Seq(A) \subseteq Seq(B)
  BY <1>2
<1> QED BY <1>1, <1>3


(* What find_overlapping_ssts returns is in the level it looks at.         *)
LEMMA OverlappingSsts ==
    ASSUME NEW s, NEW ssts, NEW ids, NEW low, s.levels[low][2] \in Seq(Nat)
    PROVE  /\ Policy!FindOverlappingSsts(s, ssts, ids, low) \in Seq(Nat)
           /\ IdsOf(Policy!FindOverlappingSsts(s, ssts, ids, low)) \subseteq IdsOf(s.levels[low][2])
<1>1. PICK W : Policy!FindOverlappingSsts(s, ssts, ids, low)
                    = Policy!Without(s.levels[low][2], W)
  BY DEF Policy!FindOverlappingSsts, Policy!Files
<1>2. PICK q : q = s.levels[low][2]
  OBVIOUS
<1>3. Policy!Without(q, W) \in Seq(Nat) /\ IdsOf(Policy!Without(q, W)) \subseteq IdsOf(q)
  BY <1>2, WithoutElements
<1> QED BY <1>1, <1>2, <1>3

(* A task is made of lists of the state.                                   *)
LEMMA SimpleTaskFits ==
    ASSUME CompInv, policy.kind = "simple", NEW t \in Policy!SimpleTask(policy, state)
    PROVE  LevelFits(state, [kind |-> policy.kind, task |-> t])
<1> DEFINE made == [kind |-> policy.kind, task |-> t]
<1>0. /\ state \in States /\ LevelsShape(state) /\ policy \in Policies /\ MaxLevels \in Nat \ {0}
      /\ state.levels \in Seq(Nat \X Seq(Nat)) /\ state.l0_sstables \in Seq(Nat)
  BY StorageAssumption DEF CompInv, IInv, TypeOK, States, InOrder, LocalTypes
<1>1. FlushToL0 /\ Len(state.levels) = MaxLevels
  BY <1>0, CompactionAssumption DEF LevelsShape
<1>2. \A i \in 1 .. MaxLevels : state.levels[i][2] \in Seq(Nat)
  BY <1>0, <1>1
<1>3. CASE /\ t.upper_level = Policy!L0
           /\ t.upper_level_sst_ids = state.l0_sstables
           /\ t.lower_level = 1
           /\ t.lower_level_sst_ids = state.levels[1][2]
  BY <1>0, <1>1, <1>2, <1>3 DEF LevelFits, UpperIds, Policy!L0
<1>4. ASSUME NEW i \in 1 .. MaxLevels - 1,
             t.upper_level = i, t.upper_level_sst_ids = state.levels[i][2],
             t.lower_level = i + 1, t.lower_level_sst_ids = state.levels[i + 1][2]
      PROVE  LevelFits(state, made)
  <2>1. i \in 1 .. MaxLevels /\ i + 1 \in 1 .. MaxLevels /\ i # i + 1 /\ i # 0
    BY <1>0
  <2>2. i \in 0 .. MaxLevels /\ state.levels[i][2] \in Seq(Nat) /\ state.levels[i + 1][2] \in Seq(Nat)
    BY <1>0, <1>2, <2>1
  <2>3. IdsOf(state.levels[i][2]) \subseteq UpperIds(state, i)
    BY <2>1 DEF UpperIds, Policy!L0
  <2>4. /\ made.kind = "simple" /\ made.task.upper_level = i /\ made.task.lower_level = i + 1
        /\ made.task.upper_level_sst_ids = state.levels[i][2]
        /\ made.task.lower_level_sst_ids = state.levels[i + 1][2]
    BY <1>4
  <2> HIDE DEF made
  <2> QED BY <1>1, <2>1, <2>2, <2>3, <2>4 DEF LevelFits, Policy!L0
<1>5. CASE Len(state.l0_sstables) >= policy.level0_file_num_compaction_trigger
  <2>1. t = [upper_level |-> Policy!L0, upper_level_sst_ids |-> state.l0_sstables,
             lower_level |-> 1, lower_level_sst_ids |-> state.levels[1][2],
             is_lower_level_bottom_level |-> Policy!IsBottomLevel(1, Len(state.levels))]
    BY <1>5 DEF Policy!SimpleTask, Policy!Files
  <2> QED BY <1>3, <2>1
<1>6. CASE ~ (Len(state.l0_sstables) >= policy.level0_file_num_compaction_trigger)
  <2>1. PICK i \in 1 .. Len(state.levels) - 1 :
            t = [upper_level |-> i, upper_level_sst_ids |-> state.levels[i][2],
                 lower_level |-> i + 1, lower_level_sst_ids |-> state.levels[i + 1][2],
                 is_lower_level_bottom_level |->
                        Policy!IsBottomLevel(i + 1, Len(state.levels))]
    BY <1>6, Zenon DEF Policy!SimpleTask, Policy!Files
  <2> QED BY <1>1, <1>4, <2>1
<1> QED BY <1>5, <1>6

LEMMA LeveledTaskFits ==
    ASSUME CompInv, policy.kind = "leveled", NEW t \in Policy!LeveledTask(policy, state, Ssts)
    PROVE  LevelFits(state, [kind |-> policy.kind, task |-> t])
<1> DEFINE made == [kind |-> policy.kind, task |-> t]
           target == Policy!TargetLevelSize(policy, state, Ssts)
           bases == {MaxLevels} \cup {i \in 1 .. MaxLevels : target[i] > 0}
<1>0. /\ state \in States /\ LevelsShape(state) /\ policy \in Policies /\ MaxLevels \in Nat \ {0}
      /\ state.levels \in Seq(Nat \X Seq(Nat)) /\ state.l0_sstables \in Seq(Nat)
      /\ ListsApart(state) /\ state.sstables \subseteq Ids /\ Ids \subseteq Nat
  BY StorageAssumption DEF CompInv, IInv, TypeOK, States, InOrder, LocalTypes, IdsInState,
                           IdsNamed, Ids
<1>1. FlushToL0 /\ Len(state.levels) = MaxLevels /\ policy.max_levels = MaxLevels
  BY <1>0, CompactionAssumption DEF LevelsShape
<1>2. \A i \in 1 .. MaxLevels : /\ state.levels[i][2] \in Seq(Nat)
                                /\ IdsOf(state.levels[i][2]) \subseteq Ids
  <2>1. ASSUME NEW i \in 1 .. MaxLevels
        PROVE  IdsOf(state.levels[i][2]) \subseteq Ids
    <3>1. i \in DOMAIN state.levels
      BY <1>0, <1>1
    <3>2. IdsOf(state.levels[i][2]) \subseteq Listed(state)
      BY <3>1 DEF Listed
    <3> QED BY <1>0, <3>2 DEF ListsApart
  <2> QED BY <1>0, <1>1, <2>1
<1>3. ASSUME NEW up \in 0 .. MaxLevels, NEW low \in 1 .. MaxLevels, up # low,
             t.upper_level = up, t.lower_level = low,
             t.upper_level_sst_ids \in Seq(Nat),
             IdsOf(t.upper_level_sst_ids) \subseteq UpperIds(state, up),
             NEW ids, t.lower_level_sst_ids
                        = Policy!FindOverlappingSsts(state, Ssts, ids, low)
      PROVE  LevelFits(state, made)
  <2>1. /\ t.lower_level_sst_ids \in Seq(Nat)
        /\ IdsOf(t.lower_level_sst_ids) \subseteq IdsOf(state.levels[low][2])
    BY <1>2, <1>3, OverlappingSsts
  <2> QED BY <1>1, <1>3, <2>1 DEF LevelFits
<1>4. CASE Len(state.l0_sstables) > policy.level0_file_num_compaction_trigger
  <2>1. PICK b : t = [upper_level |-> Policy!L0, upper_level_sst_ids |-> state.l0_sstables,
             lower_level |-> Policy!Min(bases),
             lower_level_sst_ids |->
                Policy!FindOverlappingSsts(state, Ssts, Policy!Ids(state.l0_sstables),
                                           Policy!Min(bases)),
             is_lower_level_bottom_level |-> b]
    BY <1>1, <1>4, Zenon DEF Policy!LeveledTask
  <2>2. Policy!Min(bases) \in 1 .. MaxLevels
    <3>1. bases \subseteq 1 .. MaxLevels /\ bases # {}
      BY <1>0
    <3> HIDE DEF bases
    <3>2. bases \in SUBSET Nat
      BY <3>1
    <3>3. Policy!Min(bases) \in bases
      BY <3>1, <3>2, LeastMember
    <3> QED BY <3>1, <3>3
  <2> HIDE DEF bases, target
  <2>3. PICK low : low = Policy!Min(bases)
    OBVIOUS
  <2>4. PICK ids, q : ids = Policy!Ids(state.l0_sstables)
                      /\ q = Policy!FindOverlappingSsts(state, Ssts, ids, low)
    OBVIOUS
  <2>5. t = [upper_level |-> 0, upper_level_sst_ids |-> state.l0_sstables,
             lower_level |-> low, lower_level_sst_ids |-> q,
             is_lower_level_bottom_level |-> b]
    BY ONLY <2>1, <2>3, <2>4 DEF Policy!L0
  <2>6. /\ t.upper_level = 0 /\ t.lower_level = low
        /\ t.upper_level_sst_ids = state.l0_sstables /\ t.lower_level_sst_ids = q
    BY ONLY <2>5
  <2>7. 0 \in 0 .. MaxLevels /\ low \in 1 .. MaxLevels /\ 0 # low
        /\ IdsOf(state.l0_sstables) \subseteq UpperIds(state, 0)
    BY <1>0, <2>2, <2>3 DEF UpperIds, Policy!L0
  <2> QED BY <1>0, <1>3, <2>4, <2>6, <2>7
<1>5. CASE ~ (Len(state.l0_sstables) > policy.level0_file_num_compaction_trigger)
  <2>1. PICK i, b, ids :
            /\ i \in {j \in 1 .. MaxLevels :
                        /\ Policy!Files(state, j) # <<>> /\ target[j] > 0
                        /\ Policy!RealLevelSize(state, Ssts, j) > target[j]}
            /\ t = [upper_level |-> i,
                 upper_level_sst_ids |-> <<Policy!Min(Policy!Ids(Policy!Files(state, i)))>>,
                 lower_level |-> i + 1,
                 lower_level_sst_ids |-> Policy!FindOverlappingSsts(state, Ssts, ids, i + 1),
                 is_lower_level_bottom_level |-> b]
    BY <1>1, <1>5, Zenon DEF Policy!LeveledTask
  <2>2. i # MaxLevels
    <3>1. Policy!RealLevelSize(state, Ssts, i) \in Nat
      <4>1. Policy!Files(state, i) \in Seq(Nat) /\ IdsOf(Policy!Files(state, i)) \subseteq Ids
        BY <1>2, <2>1 DEF Policy!Files
      <4> HIDE DEF bases, target, made
      <4> QED BY <4>1, LevelSizeIsNumber
    <3> QED BY <1>0, <2>1, <3>1, LastLevelWithinTarget
  <2>3. i \in 1 .. MaxLevels /\ state.levels[i][2] # <<>>
    BY <2>1 DEF Policy!Files
  <2> HIDE DEF bases, target
  <2>4. PICK x, q : /\ x = Policy!Min(Policy!Ids(Policy!Files(state, i)))
                    /\ q = Policy!FindOverlappingSsts(state, Ssts, ids, i + 1)
    OBVIOUS
  <2>5. x \in IdsOf(state.levels[i][2])
    <3>1. PICK s : s = state.levels[i][2]
      OBVIOUS
    <3>2. s \in Seq(Nat) /\ s # <<>>
      BY <1>2, <2>3, <3>1
    <3>3. IdsOf(s) \in SUBSET Nat /\ IdsOf(s) # {}
      <4>1. 1 \in DOMAIN s /\ \A j \in DOMAIN s : s[j] \in Nat
        BY <3>2
      <4> QED BY <4>1 DEF IdsOf
    <3>4. Policy!Min(IdsOf(s)) \in IdsOf(s)
      BY <3>3, LeastMember
    <3>5. x = Policy!Min(IdsOf(s))
      BY <2>4, <3>1 DEF Policy!Ids, IdsOf, Policy!Files
    <3> QED BY <3>1, <3>4, <3>5
  <2>6. t = [upper_level |-> i, upper_level_sst_ids |-> <<x>>, lower_level |-> i + 1,
             lower_level_sst_ids |-> q, is_lower_level_bottom_level |-> b]
    BY ONLY <2>1, <2>4
  <2>7. /\ t.upper_level = i /\ t.lower_level = i + 1
        /\ t.upper_level_sst_ids = <<x>> /\ t.lower_level_sst_ids = q
    BY ONLY <2>6
  <2>8. i \in 0 .. MaxLevels /\ i + 1 \in 1 .. MaxLevels /\ i # i + 1 /\ i # 0
    BY <1>0, <2>2, <2>3
  <2>9. <<x>> \in Seq(Nat) /\ IdsOf(<<x>>) \subseteq UpperIds(state, i)
    <3>1. x \in Nat
      BY <1>0, <1>2, <2>3, <2>5
    <3>2. IdsOf(<<x>>) = {x}
      BY DEF IdsOf
    <3> QED BY <2>5, <2>8, <3>1, <3>2 DEF UpperIds, Policy!L0
  <2> QED BY <1>3, <2>4, <2>7, <2>8, <2>9
<1> QED BY <1>4, <1>5

LEMMA TieredTaskFits ==
    ASSUME CompInv, policy.kind = "tiered", NEW t \in Policy!TieredTask(policy, state)
    PROVE  TieredFits(state, [kind |-> policy.kind, task |-> t])
<1> DEFINE made == [kind |-> policy.kind, task |-> t]
           n == Len(state.levels)
<1>0. /\ state \in States /\ LevelsShape(state) /\ policy \in Policies
      /\ state.levels \in Seq(Nat \X Seq(Nat))
  BY DEF CompInv, IInv, TypeOK, States, InOrder, LocalTypes
<1>1. n \in Nat
  BY <1>0
<1>2. /\ ~ FlushToL0 /\ policy.num_tiers \in Nat \ {0} /\ policy.max_merge_width \in Nat \ {0}
  BY <1>0, CompactionAssumption
<1> HIDE DEF n
<1>3. /\ Policy!Min({n, policy.max_merge_width}) \in {n, policy.max_merge_width}
      /\ Policy!Min({n, policy.max_merge_width}) <= n
  BY <1>1, <1>2, LeastOfTwo
<1>4. n \in 1 .. n
  <2>1. ~ (n < policy.num_tiers)
    BY Zenon DEF Policy!TieredTask, n
  <2> QED BY <1>1, <1>2, <2>1
<1>5. Policy!Min({n, policy.max_merge_width}) \in 1 .. n
  BY <1>1, <1>2, <1>3, <1>4
<1> DEFINE over == {i \in 1 .. n - 1 :
            /\ Len(Policy!Files(state, i + 1)) * 100
                    > (100 + policy.size_ratio) * Policy!SizeOf(state, i)
            /\ i >= policy.min_merge_width}
<1>6. over # {} => Policy!Min(over) \in 1 .. n
  <2>1. over \in SUBSET Nat /\ over \subseteq 1 .. n - 1
    BY <1>1
  <2> HIDE DEF over
  <2>2. over # {} => Policy!Min(over) \in over
    BY <2>1, LeastMember
  <2>3. over # {} => Policy!Min(over) \in 1 .. n - 1
    BY <2>1, <2>2
  <2> QED BY <1>1, <2>3
<1>7. PICK b :
        \/ t = [tiers |-> SubSeq(state.levels, 1, n), bottom_tier_included |-> b]
        \/ /\ over # {}
           /\ t = [tiers |-> SubSeq(state.levels, 1, Policy!Min(over)),
                   bottom_tier_included |-> b]
        \/ t = [tiers |-> SubSeq(state.levels, 1,
                                 Policy!Min({n, policy.max_merge_width})),
                bottom_tier_included |-> b]
  BY Zenon DEF Policy!TieredTask, n
<1> HIDE DEF over
<1>8. \E m \in 1 .. n : t = [tiers |-> SubSeq(state.levels, 1, m), bottom_tier_included |-> b]
  BY <1>4, <1>5, <1>6, <1>7
<1>9. PICK m \in 1 .. n : t.tiers = SubSeq(state.levels, 1, m)
  BY <1>8
<1>10. PICK seq, q : seq = state.levels /\ q = SubSeq(state.levels, 1, m)
  OBVIOUS
<1>11. q \in Seq(Nat \X Seq(Nat)) /\ q # <<>> /\ IdsOf(q) \subseteq IdsOf(seq)
  <2>1. seq \in Seq(Nat \X Seq(Nat)) /\ m \in 0 .. Len(seq) /\ m # 0 /\ q = SubSeq(seq, 1, m)
    BY <1>0, <1>1, <1>10 DEF n
  <2>2. /\ q \in Seq(Nat \X Seq(Nat)) /\ q # <<>>
        /\ IdsOf(q) \cup IdsOf(SubSeq(seq, m + 1, Len(seq))) = IdsOf(seq)
    BY <2>1, SubSeqElements
  <2> QED BY <2>2
<1>12. made.kind = "tiered" /\ made.task.tiers = q
  BY <1>9, <1>10
<1> HIDE DEF made
<1> QED BY <1>2, <1>10, <1>11, <1>12 DEF TieredFits, made

LEMMA TriggeredFits ==
    ASSUME CompInv, NEW t \in Tasks
    PROVE  TaskFits(state, [kind |-> policy.kind, task |-> t]) /\ policy.kind # "full"
<1>1. policy \in Policies /\ policy.kind \in {"none", "simple", "tiered", "leveled"}
  BY CompactionAssumption DEF CompInv, LocalTypes
<1>2. policy.kind # "none"
  BY DEF Tasks
<1>3. CASE policy.kind = "simple"
  BY <1>3, SimpleTaskFits DEF Tasks, TaskFits
<1>4. CASE policy.kind = "tiered"
  BY <1>4, TieredTaskFits DEF Tasks, TaskFits
<1>5. CASE policy.kind = "leveled"
  BY <1>5, LeveledTaskFits DEF Tasks, TaskFits
<1> QED BY <1>1, <1>2, <1>3, <1>4, <1>5

LEMMA ReturnsOK ==
    ASSUME CompInv, EngineKept, NEW c \in Compactors, NEW label \in {"idle", "panicked"},
           CompactionReturns(c, label), policy' = policy
    PROVE  /\ OnlyOf(c) /\ TaskOK(c)' /\ LocalTypes' /\ InFlight(c)' = {}
<1>0. LocalTypes
  BY DEF CompInv
<1>1. /\ cpc' = [cpc EXCEPT ![c] = label] /\ task' = [task EXCEPT ![c] = Nil]
      /\ output' = [output EXCEPT ![c] = <<>>]
      /\ replacement' = [replacement EXCEPT ![c] = Nil]
      /\ removed_ssts' = [removed_ssts EXCEPT ![c] = <<>>]
  BY DEF CompactionReturns, CGoto
<1>2. OnlyOf(c) /\ cpc'[c] = label /\ output'[c] = <<>> /\ removed_ssts'[c] = <<>>
  BY <1>0, <1>1 DEF LocalTypes, OnlyOf
<1>3. TaskOK(c)'
  BY <1>2 DEF TaskOK, HasTask
<1>4. LocalTypes'
  <2>1. Seq(Ids) \subseteq Seq(Ids') /\ <<>> \in Seq(Ids')
    <3>1. \A S : <<>> \in Seq(S)
      OBVIOUS
    <3> QED BY <3>1, SeqKept
  <2>2. /\ output' \in [Compactors -> Seq(Ids')] /\ removed_ssts' \in [Compactors -> Seq(Ids')]
        /\ replacement' \in [Compactors -> States \cup {Nil}]
    <3> DEFINE V == Seq(Ids)
               W == Seq(Ids')
    <3>1. V \subseteq W /\ <<>> \in W
          /\ output \in [Compactors -> V] /\ removed_ssts \in [Compactors -> V]
          /\ replacement \in [Compactors -> States \cup {Nil}]
      BY <1>0, <2>1 DEF LocalTypes
    <3> HIDE DEF V, W
    <3>2. /\ output' \in [Compactors -> W] /\ removed_ssts' \in [Compactors -> W]
          /\ replacement' \in [Compactors -> States \cup {Nil}]
      BY <1>1, <3>1
    <3> QED BY <3>2 DEF W
  <2>3. /\ cpc' \in [Compactors -> {"idle", "merge", "copy", "install", "full_install",
                                    "remove", "panicked"}]
        /\ DOMAIN task' = Compactors /\ policy' \in Policies
    BY <1>0, <1>1 DEF LocalTypes
  <2> QED BY <2>2, <2>3 DEF LocalTypes
<1>5. InFlight(c)' = {}
  <2>1. IdsOf(removed_ssts'[c]) = {}
    BY <1>2 DEF IdsOf
  <2> QED BY <1>2, <2>1 DEF InFlight, HasTask, IdsOf
<1> QED BY <1>2, <1>3, <1>4, <1>5

(* A step that builds nothing, takes nothing off the disk and leaves the   *)
(* state alone: only what its compactor is up to changes.                  *)
LEMMA GoesOnInv ==
    ASSUME CompInv, NEW c \in Compactors, UNCHANGED <<vars, policy, files>>, OnlyOf(c),
           LocalTypes', TaskOK(c)', InFlight(c)' \subseteq InFlight(c),
           faults' = 0 => InFlight(c) \subseteq InFlight(c)'
    PROVE  CompInv'
<1>0. IInv /\ FlightsApart /\ FilesKept
  BY DEF CompInv
<1>1. /\ state' = state /\ pc' = pc /\ reading' = reading /\ freeze' = freeze /\ mvcc' = mvcc
      /\ flush_id' = flush_id /\ manifest' = manifest
      /\ next_sst_id' = next_sst_id /\ memtables' = memtables /\ approx_size' = approx_size
      /\ sst_tables' = sst_tables /\ faults' = faults /\ files' = files
  BY DEF vars, engine
<1>2. EngineKept /\ Takes(c)
  BY <1>0, <1>1, UnchangedKept DEF Takes
<1>3. InFlight(c)' \cap (state'.sstables \cup IdsOf(state'.imm_memtables)) = {}
  BY <1>0, <1>1 DEF FlightsApart
<1>4. \A id \in InFlight(c)' : Settled(id)'
  BY <1>0, <1>1, <1>2, KeptSettled DEF FlightsApart
<1>5. \A d \in Compactors : d # c => InFlight(c)' \cap InFlight(d) = {}
  BY <1>0 DEF FlightsApart
<1>6. files' \subseteq Ids' /\ state'.sstables \cup InFlight(c)' \subseteq files'
  BY <1>0, <1>1 DEF FilesKept, Ids
<1>7. faults' = 0 => \A id \in files' :
            \/ id \in state'.sstables \cup InFlight(c)'
            \/ id \in files /\ id \notin state.sstables \cup InFlight(c)
  BY <1>1
<1>8. files \ files' \subseteq InFlight(c)
  BY <1>1
<1> QED BY <1>2, <1>3, <1>4, <1>5, <1>6, <1>7, <1>8, CompactorInv

LEMMA TriggerInv ==
    ASSUME CompInv, NEW c \in Compactors, TriggerCompaction(c)
    PROVE  CompInv'
<1>0. LocalTypes /\ TaskOK(c) /\ cpc[c] = "idle"
  BY DEF CompInv, TasksOK, TriggerCompaction
<1>1. CanPlan(state)
  BY DEF CanPlan, CompInv, InOrder, ListsApart
<1>2. /\ UNCHANGED <<vars, policy, files>>
      /\ output' = output /\ replacement' = replacement /\ removed_ssts' = removed_ssts
      /\ cpc' = [cpc EXCEPT ![c] = "merge"] /\ c = CompactionThread
  BY <1>1 DEF TriggerCompaction, CGoto
<1>3. PICK t \in Tasks : task' = [task EXCEPT ![c] = [kind |-> policy.kind, task |-> t]]
  BY <1>1 DEF TriggerCompaction
<1>4. /\ cpc'[c] = "merge" /\ task'[c] = [kind |-> policy.kind, task |-> t]
      /\ output'[c] = output[c] /\ removed_ssts'[c] = removed_ssts[c]
      /\ \A d \in Compactors : d # c => cpc'[d] = cpc[d] /\ task'[d] = task[d]
  BY <1>0, <1>2, <1>3 DEF LocalTypes
<1>5. OnlyOf(c)
  BY <1>2, <1>4 DEF OnlyOf
<1>6. state' = state /\ Ids' = Ids
  BY <1>2 DEF vars, engine, Ids
<1>7. LocalTypes'
  BY <1>0, <1>2, <1>3, <1>6 DEF LocalTypes
<1>8. output[c] = <<>> /\ removed_ssts[c] = <<>>
  BY <1>0 DEF TaskOK
<1>9. TaskOK(c)'
  <2>1. TaskFits(state, task'[c]) /\ task'[c].kind # "full"
    BY <1>4, TriggeredFits
  <2> QED BY <1>2, <1>4, <1>6, <1>8, <2>1 DEF TaskOK
<1>10. InFlight(c)' = {} /\ InFlight(c) = {}
  <2>1. IdsOf(output[c]) = {} /\ IdsOf(removed_ssts[c]) = {}
    BY <1>8 DEF IdsOf
  <2>2. IdsOf(output[c])' = IdsOf(output'[c]) /\ IdsOf(removed_ssts[c])' = IdsOf(removed_ssts'[c])
    BY DEF IdsOf
  <2> QED BY <1>4, <2>1, <2>2 DEF InFlight
<1> QED BY <1>2, <1>5, <1>7, <1>9, <1>10, GoesOnInv

LEMMA ForceFullInv ==
    ASSUME CompInv, NEW c \in Compactors, ForceFullCompaction(c)
    PROVE  CompInv'
<1>0. /\ IInv /\ LocalTypes /\ TaskOK(c) /\ cpc[c] = "idle" /\ c # CompactionThread
      /\ state \in States /\ LevelsShape(state) /\ ListsApart(state) /\ c \in FullCompactors
  BY CompactionAssumption DEF CompInv, IInv, TypeOK, InOrder, TasksOK, ForceFullCompaction
<1>1. UNCHANGED <<vars, policy, files>>
  BY DEF ForceFullCompaction
<1>2. /\ state' = state /\ Ids' = Ids /\ pc' = pc /\ reading' = reading /\ freeze' = freeze
      /\ mvcc' = mvcc /\ flush_id' = flush_id /\ manifest' = manifest
      /\ next_sst_id' = next_sst_id /\ memtables' = memtables /\ approx_size' = approx_size
      /\ sst_tables' = sst_tables /\ faults' = faults
  BY <1>1 DEF vars, engine, Ids
<1>3. output[c] = <<>> /\ removed_ssts[c] = <<>> /\ InFlight(c) = {}
  <2>1. output[c] = <<>> /\ removed_ssts[c] = <<>>
    BY <1>0 DEF TaskOK
  <2>2. IdsOf(output[c]) = {} /\ IdsOf(removed_ssts[c]) = {}
    BY <2>1 DEF IdsOf
  <2> QED BY <2>1, <2>2 DEF InFlight
<1>4. CASE state.levels = <<>>
  <2>1. CompactionReturns(c, "panicked") /\ policy' = policy
    BY <1>1, <1>4 DEF ForceFullCompaction
  <2>2. EngineKept
    BY <1>0, <1>2, UnchangedKept
  <2>3. OnlyOf(c) /\ TaskOK(c)' /\ LocalTypes' /\ InFlight(c)' = {}
    BY <2>1, <2>2, ReturnsOK
  <2> QED BY <1>1, <1>3, <2>3, GoesOnInv
<1>5. CASE state.levels # <<>>
  <2>1. /\ output' = output /\ replacement' = replacement /\ removed_ssts' = removed_ssts
        /\ cpc' = [cpc EXCEPT ![c] = "merge"]
        /\ task' = [task EXCEPT ![c] =
                    [kind |-> "full",
                     task |-> [upper_level_sst_ids |-> state.l0_sstables,
                               lower_level_sst_ids |-> state.levels[1][2]]]]
    BY <1>5 DEF ForceFullCompaction, CGoto
  <2>2. /\ cpc'[c] = "merge"
        /\ task'[c] = [kind |-> "full",
                       task |-> [upper_level_sst_ids |-> state.l0_sstables,
                                 lower_level_sst_ids |-> state.levels[1][2]]]
        /\ output'[c] = output[c] /\ removed_ssts'[c] = removed_ssts[c]
        /\ \A d \in Compactors : d # c => cpc'[d] = cpc[d] /\ task'[d] = task[d]
    BY <1>0, <2>1 DEF LocalTypes
  <2>3. OnlyOf(c)
    BY <2>1, <2>2 DEF OnlyOf
  <2>4. LocalTypes'
    BY <1>0, <1>1, <1>2, <2>1 DEF LocalTypes
  <2>5. FullFits(state, task'[c])
    <3>1. state.levels \in Seq(Nat \X Seq(Nat)) /\ state.l0_sstables \in Seq(Nat)
      BY <1>0 DEF States
    <3>2. 1 \in DOMAIN state.levels
      BY <1>5, <3>1
    <3>3. state.levels[1][2] \in Seq(Nat) /\ state.levels[1] \in IdsOf(state.levels)
      BY <3>1, <3>2 DEF IdsOf
    <3>4. IdsOf(state.levels[1][2]) \subseteq state.sstables
      BY <1>0, <3>2 DEF ListsApart, Listed
    <3>5. ~ FlushToL0 => state.levels[1][2] # <<>>
      BY <1>0, <3>3 DEF LevelsShape
    <3> QED BY <1>5, <2>2, <3>1, <3>3, <3>4, <3>5 DEF FullFits
  <2>6. TaskOK(c)'
    <3>1. task'[c].kind = "full"
      BY <2>2
    <3> QED BY <1>0, <1>2, <1>3, <2>2, <2>5, <3>1 DEF TaskOK, TaskFits
  <2>7. InFlight(c)' = {}
    <3>1. IdsOf(output'[c]) = {} /\ IdsOf(removed_ssts'[c]) = {}
      BY <1>3, <2>2 DEF IdsOf
    <3>2. IdsOf(output[c])' = IdsOf(output'[c]) /\ IdsOf(removed_ssts[c])' = IdsOf(removed_ssts'[c])
      BY DEF IdsOf
    <3> QED BY <3>1, <3>2 DEF InFlight
  <2> QED BY <1>1, <1>3, <2>3, <2>4, <2>6, <2>7, GoesOnInv
<1> QED BY <1>4, <1>5

(* The assertions of apply_compaction_result hold of a task that fits.     *)
LEMMA TaskApplies ==
    ASSUME NEW s \in States, LevelsShape(s), ListsApart(s), NEW t, TaskFits(s, t),
           t.kind # "full"
    PROVE  Applies(s, t)
<1>1. CASE LevelFits(s, t) /\ t.kind = "simple"
  BY <1>1 DEF Applies
<1>2. CASE LevelFits(s, t) /\ t.kind = "leveled"
  <2>1. /\ t.task.lower_level \in 1 .. Len(s.levels) /\ s.levels \in Seq(Nat \X Seq(Nat))
        /\ IdsOf(t.task.upper_level_sst_ids) \subseteq UpperIds(s, t.task.upper_level)
        /\ IdsOf(t.task.lower_level_sst_ids) \subseteq IdsOf(s.levels[t.task.lower_level][2])
    BY <1>2 DEF LevelFits, States
  <2>2. t.task.lower_level \in DOMAIN s.levels
    BY <2>1
  <2>3. IdsOf(s.levels[t.task.lower_level][2]) \subseteq s.sstables
    BY <2>2 DEF ListsApart, Listed
  <2>4. \A q : Policy!Ids(q) = IdsOf(q)
    BY DEF Policy!Ids, IdsOf
  <2>5. Policy!LeveledApplies(s, t.task)
    BY <2>1, <2>4 DEF Policy!LeveledApplies, Policy!LeveledUpper, Policy!Files, UpperIds
  <2> QED BY <1>2, <2>3, <2>5 DEF Applies
<1>3. CASE TieredFits(s, t)
  <2>1. s.l0_sstables = <<>> /\ t.kind = "tiered"
    BY <1>3 DEF TieredFits, LevelsShape
  <2>2. IdsOf(t.task.tiers) \subseteq IdsOf(s.levels)
    BY <1>3 DEF TieredFits
  <2> QED BY <2>1, <2>2 DEF Applies, Policy!TieredApplies, Policy!Ids, IdsOf
<1> QED BY <1>1, <1>2, <1>3 DEF TaskFits, FullFits, LevelFits

(* What a compaction made, at hand for the state it makes of it.           *)
LEMMA OutputFits ==
    ASSUME CompInv, NEW c \in Compactors, HasTask(c), Produced(c)
    PROVE  /\ output[c] \in Seq(Nat) /\ (~ FlushToL0 => output[c] # <<>>)
           /\ IdsOf(output[c]) \cap state.sstables = {}
<1>1. TypeOK /\ LocalTypes /\ FlightsApart
  BY DEF CompInv, IInv
<1>2. output[c] \in Seq(Ids)
  BY <1>1 DEF LocalTypes
<1>3. PICK out : out = output[c]
  OBVIOUS
<1>4. out \in Seq(Nat)
  BY <1>1, <1>2, <1>3, IdsAreNumbers
<1>5. IdsOf(output[c]) \cap state.sstables = {}
  BY <1>1 DEF FlightsApart, InFlight
<1> QED BY <1>3, <1>4, <1>5 DEF Produced

LEMMA RemovedType ==
    ASSUME NEW S, NEW f \in [Compactors -> Seq(S)], NEW c \in Compactors, NEW q \in Seq(S)
    PROVE  [f EXCEPT ![c] = q] \in [Compactors -> Seq(S)]
<1>1. PICK V : V = Seq(S)
  OBVIOUS
<1>2. [f EXCEPT ![c] = q] \in [Compactors -> V]
  BY <1>1
<1> QED BY <1>1, <1>2

LEMMA CopyInv ==
    ASSUME CompInv, NEW c \in Compactors, CompactionCopy(c)
    PROVE  CompInv'
<1>0. /\ IInv /\ LocalTypes /\ TaskOK(c) /\ cpc[c] = "copy" /\ HasTask(c)
      /\ state \in States /\ LevelsShape(state) /\ ListsApart(state)
  BY DEF CompInv, IInv, TypeOK, InOrder, TasksOK, CompactionCopy, HasTask
<1>1. /\ TaskFits(state, task[c]) /\ task[c].kind # "full" /\ Produced(c)
      /\ c = CompactionThread
  BY <1>0 DEF TaskOK
<1>2. Applies(state, task[c])
  <2>1. PICK t : t = task[c]
    OBVIOUS
  <2> QED BY <1>0, <1>1, <2>1, TaskApplies
<1>3. /\ UNCHANGED <<vars, policy, files>> /\ output' = output /\ task' = task
      /\ replacement' = [replacement EXCEPT ![c] = Compacted(state, task[c], output[c])]
      /\ removed_ssts' = [removed_ssts EXCEPT ![c] = Inputs(task[c])]
      /\ cpc' = [cpc EXCEPT ![c] = "install"]
  BY <1>2 DEF CompactionCopy, CGoto
<1>4. /\ state' = state /\ pc' = pc /\ reading' = reading /\ freeze' = freeze /\ mvcc' = mvcc
      /\ flush_id' = flush_id /\ manifest' = manifest
      /\ next_sst_id' = next_sst_id /\ memtables' = memtables /\ approx_size' = approx_size
      /\ sst_tables' = sst_tables /\ faults' = faults /\ Ids' = Ids
  BY <1>3 DEF vars, engine, Ids
<1>5. EngineKept
  BY <1>0, <1>4, UnchangedKept
<1>6. /\ cpc'[c] = "install" /\ removed_ssts'[c] = Inputs(task[c])
      /\ \A d \in Compactors : d # c =>
            cpc'[d] = cpc[d] /\ removed_ssts'[d] = removed_ssts[d]
  BY <1>0, <1>3 DEF LocalTypes
<1>7. OnlyOf(c)
  BY <1>3, <1>6 DEF OnlyOf
<1>8. Compacted(state, task[c], output[c]) \in States
  <2>1. PICK out, t : out = output[c] /\ t = task[c]
    OBVIOUS
  <2>2. /\ out \in Seq(Nat) /\ (~ FlushToL0 => out # <<>>) /\ IdsOf(out) \cap state.sstables = {}
    BY <1>0, <1>1, <2>1, OutputFits
  <2>3. Replaces(state, Compacted(state, t, out), t, out)
    BY <1>0, <1>1, <2>1, <2>2, CompactedReplaces
  <2> QED BY <2>1, <2>3 DEF Replaces
<1>9. LocalTypes'
  <2>1. Inputs(task[c]) \in Seq(Ids)
    <3>1. PICK t : t = task[c]
      OBVIOUS
    <3>2. Inputs(t) \in Seq(Ids)
      BY <1>1, <3>1, InputsThere
    <3> QED BY <3>1, <3>2
  <2>2. removed_ssts' \in [Compactors -> Seq(Ids)]
    BY <1>0, <1>3, <2>1, RemovedType DEF LocalTypes
  <2>3. replacement' \in [Compactors -> States \cup {Nil}]
    <3>1. PICK new : new = Compacted(state, task[c], output[c])
      OBVIOUS
    <3> QED BY <1>0, <1>3, <1>8, <3>1 DEF LocalTypes
  <2>4. /\ output' \in [Compactors -> Seq(Ids)] /\ DOMAIN task' = Compactors
        /\ policy' \in Policies
        /\ cpc' \in [Compactors -> {"idle", "merge", "copy", "install", "full_install",
                                    "remove", "panicked"}]
    BY <1>0, <1>3 DEF LocalTypes
  <2> QED BY <1>4, <2>2, <2>3, <2>4 DEF LocalTypes
<1>10. TaskOK(c)'
  <2>1. Produced(c)'
    BY <1>0, <1>1, <1>3, <1>5, ProducedStays
  <2>2. TaskFits(state', task'[c]) /\ task'[c].kind # "full"
    BY <1>1, <1>3, <1>4
  <2>3. Inputs(task[c])' = Inputs(task[c])
    BY <1>3 DEF Inputs
  <2> QED BY <1>1, <1>6, <2>1, <2>2, <2>3 DEF TaskOK
<1>11. InFlight(c)' = InFlight(c)
  <2>1. IdsOf(output[c])' = IdsOf(output[c])
    BY <1>3 DEF IdsOf
  <2> QED BY <1>0, <1>6, <2>1 DEF InFlight, HasTask
<1> QED BY <1>3, <1>7, <1>9, <1>10, <1>11, GoesOnInv

(* Either way a compaction puts its result in place, the SSTs it took      *)
(* leave the state and wait to be deleted.                                 *)
LEMMA InstalledInv ==
    ASSUME CompInv, NEW c \in Compactors, HasTask(c), TaskFits(state, task[c]), Produced(c),
           Replaces(state, state', task[c], output[c]),
           \A t \in Freezers : ~ Preparing(t),
           \A d \in Compactors : d # c => ~ HasTask(d),
           pc' = pc, reading' = reading, freeze' = freeze, mvcc' = mvcc,
           flush_id' = flush_id, manifest' = manifest,
           next_sst_id' = next_sst_id, memtables' = memtables, approx_size' = approx_size,
           sst_tables' = sst_tables, faults' = faults,
           policy' = policy, files' = files, task' = task, output' = output,
           replacement' = replacement,
           cpc' = [cpc EXCEPT ![c] = "remove"],
           removed_ssts' = [removed_ssts EXCEPT ![c] = Inputs(task[c])]
    PROVE  CompInv'
<1>0. /\ IInv /\ LocalTypes /\ FilesKept /\ FlightsApart /\ MemtablesOnce(state)
      /\ state \in States
  BY DEF CompInv, IInv, TypeOK, InOrder
<1>1. EngineKept
  BY <1>0, UnchangedKept
<1>2. /\ cpc'[c] = "remove" /\ removed_ssts'[c] = Inputs(task[c])
      /\ \A d \in Compactors : d # c =>
            cpc'[d] = cpc[d] /\ removed_ssts'[d] = removed_ssts[d]
  BY <1>0 DEF LocalTypes
<1>3. OnlyOf(c) /\ Takes(c)
  BY <1>2 DEF OnlyOf, Takes
<1>4. Ids' = Ids
  BY DEF Ids
<1>5. PICK ins, out : ins = IdsOf(Inputs(task[c])) /\ out = IdsOf(output[c])
  OBVIOUS
<1>6. /\ state'.sstables = (state.sstables \ ins) \cup out
      /\ state'.memtable = state.memtable /\ state'.imm_memtables = state.imm_memtables
      /\ out \cap state.sstables = {} /\ InFlight(c) = out
      /\ out \cap IdsOf(state.imm_memtables) = {}
  BY <1>0, <1>5 DEF Replaces, FlightsApart, InFlight
<1>7. /\ Inputs(task[c]) \in Seq(Ids) /\ ins \subseteq state.sstables
      /\ state.sstables \subseteq files /\ out \subseteq files
  <2>1. PICK t : t = task[c]
    OBVIOUS
  <2>2. Inputs(t) \in Seq(Ids) /\ IdsOf(Inputs(t)) \subseteq state.sstables
    BY <2>1, InputsThere
  <2>3. state.sstables \subseteq files /\ out \subseteq files
    BY <1>0, <1>6 DEF FilesKept
  <2> QED BY <1>5, <2>1, <2>2, <2>3
<1>8. LocalTypes'
  <2>1. removed_ssts' \in [Compactors -> Seq(Ids)]
    BY <1>0, <1>7, RemovedType DEF LocalTypes
  <2>2. /\ output' \in [Compactors -> Seq(Ids)] /\ DOMAIN task' = Compactors
        /\ policy' \in Policies /\ replacement' \in [Compactors -> States \cup {Nil}]
        /\ cpc' \in [Compactors -> {"idle", "merge", "copy", "install", "full_install",
                                    "remove", "panicked"}]
    BY <1>0 DEF LocalTypes
  <2> QED BY <1>4, <2>1, <2>2 DEF LocalTypes
<1>9. TaskOK(c)'
  BY <1>2 DEF TaskOK, HasTask
<1>10. InFlight(c)' = ins
  <2>1. IdsOf(removed_ssts[c])' = IdsOf(Inputs(task[c]))
    BY <1>2 DEF IdsOf
  <2> QED BY <1>2, <1>5, <2>1 DEF InFlight, HasTask
<1>11. InFlight(c)' \cap (state'.sstables \cup IdsOf(state'.imm_memtables)) = {}
  <2>1. IdsOf(state'.imm_memtables) = IdsOf(state.imm_memtables)
    BY <1>6
  <2>2. IdsOf(state.imm_memtables) \cap state.sstables = {}
    BY <1>0 DEF MemtablesOnce
  <2> QED BY <1>6, <1>7, <1>10, <2>1, <2>2
<1>12. \A id \in InFlight(c)' : Settled(id)'
  BY <1>0, <1>1, <1>6, <1>7, <1>10, SstsSettled, KeptSettled
<1>13. \A d \in Compactors : d # c => InFlight(c)' \cap InFlight(d) = {}
  BY <1>0, <1>7, <1>10 DEF FlightsApart
<1>14. files' \subseteq Ids' /\ state'.sstables \cup InFlight(c)' \subseteq files'
  BY <1>0, <1>4, <1>6, <1>7, <1>10 DEF FilesKept
<1>15. files \ files' \subseteq InFlight(c)
  OBVIOUS
<1>16. faults' = 0 => \A id \in files' :
            \/ id \in state'.sstables \cup InFlight(c)'
            \/ id \in files /\ id \notin state.sstables \cup InFlight(c)
  BY <1>6, <1>10
<1> QED BY <1>1, <1>3, <1>8, <1>9, <1>11, <1>12, <1>13, <1>14, <1>15, <1>16, CompactorInv

(* An installation that overtakes no other one.                            *)
LEMMA NotOvertaking ==
    ASSUME CompInv, NEW c \in Compactors, HasTask(c), cpc'[c] = "remove", ~ Races
    PROVE  /\ \A t \in Freezers : ~ Preparing(t)
           /\ \A d \in Compactors : d # c => ~ HasTask(d)
           /\ cpc[c] = "install" => replacement[c] = Compacted(state, task[c], output[c])
           /\ cpc[c] = "full_install" =>
                    state.levels[1][2] = task[c].task.lower_level_sst_ids
BY DEF Races, Preparing

LEMMA InstallReplaces ==
    ASSUME CompInv, NEW c \in Compactors, CompactionInstall(c), ~ Races
    PROVE  Replaces(state, state', task[c], output[c])
<1>1. /\ cpc[c] = "install" /\ HasTask(c) /\ TaskOK(c) /\ LocalTypes
      /\ state \in States /\ LevelsShape(state) /\ ListsApart(state)
  BY DEF CompactionInstall, CompInv, TasksOK, IInv, TypeOK, InOrder, HasTask
<1>2. TaskFits(state, task[c]) /\ Produced(c) /\ task[c].kind # "full"
  BY <1>1 DEF TaskOK
<1>3. state' = replacement[c] /\ cpc'[c] = "remove"
  BY <1>1 DEF CompactionInstall, CGoto, LocalTypes
<1>4. state' = Compacted(state, task[c], output[c])
  BY <1>1, <1>3, NotOvertaking
<1>5. PICK out, t : out = output[c] /\ t = task[c]
  OBVIOUS
<1>6. /\ out \in Seq(Nat) /\ (~ FlushToL0 => out # <<>>) /\ IdsOf(out) \cap state.sstables = {}
  BY <1>1, <1>2, <1>5, OutputFits
<1>7. Replaces(state, Compacted(state, t, out), t, out)
  BY <1>1, <1>2, <1>5, <1>6, CompactedReplaces
<1> QED BY <1>4, <1>5, <1>7

LEMMA FullInstallReplaces ==
    ASSUME CompInv, NEW c \in Compactors, FullInstall(c), ~ Races
    PROVE  Replaces(state, state', task[c], output[c])
<1>1. /\ cpc[c] = "full_install" /\ HasTask(c) /\ TaskOK(c) /\ LocalTypes
      /\ state \in States /\ LevelsShape(state) /\ ListsApart(state)
  BY DEF FullInstall, CompInv, TasksOK, IInv, TypeOK, InOrder, HasTask
<1>2. FullFits(state, task[c]) /\ Produced(c)
  BY <1>1 DEF TaskOK, TaskFits, LevelFits, TieredFits
<1>3. state' = FullInstalled(state, task[c], output[c]) /\ cpc'[c] = "remove"
  BY <1>1 DEF FullInstall, CGoto, FullInstalled, LocalTypes
<1>4. state.levels[1][2] = task[c].task.lower_level_sst_ids
  BY <1>1, <1>3, NotOvertaking
<1>5. PICK out, t : out = output[c] /\ t = task[c]
  OBVIOUS
<1>6. /\ out \in Seq(Nat) /\ (~ FlushToL0 => out # <<>>) /\ IdsOf(out) \cap state.sstables = {}
  BY <1>1, <1>2, <1>5, OutputFits
<1>7. Replaces(state, FullInstalled(state, t, out), t, out)
  BY <1>1, <1>2, <1>4, <1>5, <1>6, FullReplaces
<1> QED BY <1>3, <1>5, <1>7

LEMMA InstallInv ==
    ASSUME CompInv, NEW c \in Compactors, CompactionInstall(c), ~ Races
    PROVE  CompInv'
<1>1. cpc[c] = "install" /\ HasTask(c) /\ TaskOK(c) /\ LocalTypes
  BY DEF CompactionInstall, CompInv, TasksOK, HasTask
<1>2. TaskFits(state, task[c]) /\ Produced(c) /\ removed_ssts[c] = Inputs(task[c])
  BY <1>1 DEF TaskOK
<1>3. /\ pc' = pc /\ reading' = reading /\ freeze' = freeze /\ mvcc' = mvcc
      /\ flush_id' = flush_id /\ manifest' = manifest
      /\ next_sst_id' = next_sst_id /\ memtables' = memtables /\ approx_size' = approx_size
      /\ sst_tables' = sst_tables /\ faults' = faults
      /\ policy' = policy /\ files' = files /\ task' = task /\ output' = output
      /\ replacement' = replacement
      /\ cpc' = [cpc EXCEPT ![c] = "remove"]
      /\ removed_ssts' = removed_ssts
  BY DEF CompactionInstall, CGoto
<1>4. removed_ssts' = [removed_ssts EXCEPT ![c] = Inputs(task[c])] /\ cpc'[c] = "remove"
  BY <1>1, <1>2, <1>3 DEF LocalTypes
<1>5. /\ \A t \in Freezers : ~ Preparing(t)
      /\ \A d \in Compactors : d # c => ~ HasTask(d)
      /\ Replaces(state, state', task[c], output[c])
  BY <1>1, <1>4, NotOvertaking, InstallReplaces
<1> QED BY <1>1, <1>2, <1>3, <1>4, <1>5, InstalledInv

LEMMA FullInstallInv ==
    ASSUME CompInv, NEW c \in Compactors, FullInstall(c), ~ Races
    PROVE  CompInv'
<1>1. cpc[c] = "full_install" /\ HasTask(c) /\ TaskOK(c) /\ LocalTypes
  BY DEF FullInstall, CompInv, TasksOK, HasTask
<1>2. TaskFits(state, task[c]) /\ Produced(c)
  BY <1>1 DEF TaskOK
<1>3. /\ pc' = pc /\ reading' = reading /\ freeze' = freeze /\ mvcc' = mvcc
      /\ flush_id' = flush_id /\ manifest' = manifest
      /\ next_sst_id' = next_sst_id /\ memtables' = memtables /\ approx_size' = approx_size
      /\ sst_tables' = sst_tables /\ faults' = faults
      /\ policy' = policy /\ files' = files /\ task' = task /\ output' = output
      /\ replacement' = replacement
      /\ cpc' = [cpc EXCEPT ![c] = "remove"]
      /\ removed_ssts' = [removed_ssts EXCEPT ![c] = Inputs(task[c])]
  BY DEF FullInstall, CGoto
<1>4. cpc'[c] = "remove"
  BY <1>1, <1>3 DEF LocalTypes
<1>5. /\ \A t \in Freezers : ~ Preparing(t)
      /\ \A d \in Compactors : d # c => ~ HasTask(d)
      /\ Replaces(state, state', task[c], output[c])
  BY <1>1, <1>4, NotOvertaking, FullInstallReplaces
<1> QED BY <1>1, <1>2, <1>3, <1>5, InstalledInv

(* The files go last, and only those of SSTs no longer in the state.       *)
LEMMA RemoveFilesInv ==
    ASSUME CompInv, NEW c \in Compactors, RemoveFiles(c)
    PROVE  CompInv'
<1>1. /\ cpc[c] = "remove" /\ IInv /\ LocalTypes /\ FilesKept /\ FlightsApart
      /\ removed_ssts[c] \in Seq(Ids)
  BY DEF RemoveFiles, CompInv, LocalTypes
<1>2. PICK gone : gone = IdsOf(removed_ssts[c])
  OBVIOUS
<1>3. /\ InFlight(c) = gone /\ gone \cap state.sstables = {} /\ gone \subseteq files
      /\ state.sstables \subseteq files /\ files \subseteq Ids
  <2>1. InFlight(c) = gone
    BY <1>1, <1>2 DEF InFlight, HasTask
  <2> QED BY <1>1, <2>1 DEF FilesKept, FlightsApart
<1>4. /\ state' = state /\ pc' = pc /\ reading' = reading /\ freeze' = freeze /\ mvcc' = mvcc
      /\ flush_id' = flush_id /\ manifest' = manifest
      /\ next_sst_id' = next_sst_id /\ memtables' = memtables /\ approx_size' = approx_size
      /\ sst_tables' = sst_tables
      /\ policy' = policy /\ CompactionReturns(c, "idle")
  BY DEF RemoveFiles, engine
<1>5. /\ \/ faults' = faults \/ Fault
      /\ files' \subseteq files /\ files \ files' \subseteq gone
      /\ faults' = 0 => files' = files \ gone
  <2>1. CASE files' = files \ gone /\ faults' = faults
    BY <2>1
  <2>2. ASSUME NEW n \in DOMAIN removed_ssts[c],
               files' = files \ IdsOf(SubSeq(removed_ssts[c], 1, n - 1)),
               (removed_ssts[c][n] \notin files /\ faults' = faults) \/ Fault
        PROVE  /\ \/ faults' = faults \/ Fault
               /\ files' \subseteq files /\ files \ files' \subseteq gone
               /\ faults' = 0 => files' = files \ gone
    <3>1. PICK S, seq, m : S = Ids /\ seq = removed_ssts[c] /\ m = n - 1
      OBVIOUS
    <3>2. seq \in Seq(S) /\ m \in 0 .. Len(seq)
      BY <1>1, <3>1
    <3>3. IdsOf(SubSeq(seq, 1, m)) \subseteq IdsOf(seq)
      BY <3>2, SubSeqElements
    <3>4. removed_ssts[c][n] \in files
      BY <1>2, <1>3 DEF IdsOf
    <3>5. Fault /\ faults' # 0
      <4>1. Fault
        BY <2>2, <3>4
      <4>2. faults' = faults + 1 /\ faults \in Nat
        BY <1>1, <4>1 DEF Fault, IInv, TypeOK
      <4> QED BY <4>1, <4>2
    <3>6. IdsOf(SubSeq(removed_ssts[c], 1, n - 1)) \subseteq gone
      BY <1>2, <3>1, <3>3
    <3> QED BY <2>2, <3>5, <3>6
  <2>3. PICK ids : ids = removed_ssts[c]
    OBVIOUS
  <2>4. \/ files' = files \ IdsOf(ids) /\ faults' = faults
        \/ \E n \in DOMAIN ids :
              /\ files' = files \ IdsOf(SubSeq(ids, 1, n - 1))
              /\ (ids[n] \notin files /\ faults' = faults) \/ Fault
    BY <2>3 DEF RemoveFiles
  <2> QED BY <1>2, <2>1, <2>2, <2>3, <2>4
<1>6. EngineKept /\ Takes(c)
  BY <1>1, <1>4, <1>5, UnchangedKept DEF Takes
<1>7. OnlyOf(c) /\ TaskOK(c)' /\ LocalTypes' /\ InFlight(c)' = {}
  BY <1>4, <1>6, ReturnsOK
<1>8. files' \subseteq Ids' /\ state'.sstables \cup InFlight(c)' \subseteq files'
  BY <1>3, <1>4, <1>5, <1>6, <1>7 DEF EngineKept
<1>9. files \ files' \subseteq InFlight(c)
  BY <1>3, <1>5
<1>10. ASSUME faults' = 0, NEW id \in files'
       PROVE  \/ id \in state'.sstables \cup InFlight(c)'
              \/ id \in files /\ id \notin state.sstables \cup InFlight(c)
  BY <1>3, <1>4, <1>5, <1>10
<1> QED BY <1>6, <1>7, <1>8, <1>9, <1>10, CompactorInv

(* What compact makes of inputs it can read.                               *)
GeneratedFits(ssts, t) ==
    /\ ssts \in Seq(Tables)
    /\ ~ FlushToL0 => ssts # <<>>
    /\ \A c \in Cells :
        /\ \A i \in DOMAIN ssts : ssts[i][c] # NoEntry =>
                \E id \in IdsOf(Inputs(t)) : sst_tables[id][c] = ssts[i][c]
        /\ (\E id \in IdsOf(Inputs(t)) : sst_tables[id][c] # NoEntry) =>
                \/ \E i \in DOMAIN ssts : ssts[i][c] # NoEntry
                \/ \E id \in IdsOf(Inputs(t)) : sst_tables[id][c] = Tombstone

(* A task on tiers takes some SST.                                         *)
LEMMA SomeInput ==
    ASSUME NEW s \in States, ListsApart(s), LevelsShape(s), NEW t, TaskFits(s, t), ~ FlushToL0
    PROVE  \E x : x \in IdsOf(Inputs(t))
<1>1. \A q \in Seq(Nat) : q # <<>> => \E x : x \in IdsOf(q)
  <2>1. ASSUME NEW q \in Seq(Nat), q # <<>>
        PROVE  \E x : x \in IdsOf(q)
    <3>1. 1 \in DOMAIN q
      BY <2>1
    <3> QED BY <3>1 DEF IdsOf
  <2> QED BY <2>1
<1>2. CASE FullFits(s, t)
  <2>1. t.task.lower_level_sst_ids \in Seq(Nat) /\ t.task.lower_level_sst_ids # <<>>
    BY <1>2 DEF FullFits
  <2>2. t.kind # "tiered"
    BY <1>2 DEF FullFits
  <2>3. IdsOf(Inputs(t)) = IdsOf(t.task.upper_level_sst_ids) \cup IdsOf(t.task.lower_level_sst_ids)
    BY <2>2, TaskInputs
  <2>4. PICK x : x \in IdsOf(t.task.lower_level_sst_ids)
    BY <1>1, <2>1
  <2> QED BY <2>3, <2>4
<1>3. CASE TieredFits(s, t)
  <2>1. /\ t.task.tiers \in Seq(Nat \X Seq(Nat)) /\ t.task.tiers # <<>>
        /\ IdsOf(t.task.tiers) \subseteq IdsOf(s.levels)
        /\ \A x : x \in IdsOf(Inputs(t)) <=> \E y \in IdsOf(t.task.tiers) : x \in IdsOf(y[2])
    <3>1. t.kind = "tiered"
      BY <1>3 DEF TieredFits
    <3> QED BY <3>1, TaskInputs
  <2>2. PICK y : y \in IdsOf(t.task.tiers)
    <3>1. PICK tiers, T : tiers = t.task.tiers /\ T = Nat \X Seq(Nat)
      OBVIOUS
    <3>2. tiers \in Seq(T) /\ tiers # <<>>
      BY <2>1, <3>1
    <3>3. tiers[1] \in IdsOf(tiers)
      BY <3>2 DEF IdsOf
    <3> QED BY <3>1, <3>3
  <2>3. y \in IdsOf(s.levels)
    BY <2>1, <2>2
  <2>4. y[2] # <<>> /\ y[2] \in Seq(Nat)
    <3>1. y[2] # <<>>
      BY <2>3 DEF LevelsShape
    <3>2. PICK levels, T : levels = s.levels /\ T = Nat \X Seq(Nat)
      OBVIOUS
    <3>3. levels \in Seq(T)
      BY <3>2 DEF States
    <3>4. y \in T
      BY <2>3, <3>2, <3>3 DEF IdsOf
    <3> QED BY <3>1, <3>2, <3>4
  <2>5. PICK x : x \in IdsOf(y[2])
    BY <1>1, <2>4
  <2> QED BY <2>1, <2>2, <2>5
<1> QED BY <1>2, <1>3 DEF TaskFits, LevelFits

LEMMA MergeGenerates ==
    ASSUME CompInv, NEW t, TaskFits(state, t), CanRead(state, Inputs(t))
    PROVE  GeneratedFits(GenerateSst(Merged(t), CompactToBottomLevel(t)), t)
<1>0. /\ state \in States /\ LevelsShape(state) /\ Listed(state) \subseteq Ids
      /\ sst_tables \in [Ids -> Tables] /\ ListsApart(state)
  <2>1. Listed(state) = state.sstables /\ LevelsShape(state) /\ IInv /\ ListsApart(state)
    BY DEF CompInv, InOrder, ListsApart
  <2> QED BY <2>1 DEF IInv, TypeOK, IdsInState, IdsNamed
<1>1. PICK table, b : table = Merged(t) /\ b = CompactToBottomLevel(t)
  OBVIOUS
<1>2. table \in Tables
  BY <1>0, <1>1, MergedType
<1>3. PICK ssts : ssts = GenerateSst(table, b)
  OBVIOUS
<1>4. /\ ssts \in Seq(Tables) /\ (CellsOf(table) # {} => ssts # <<>>)
      /\ \A i \in DOMAIN ssts : \A c \in Cells : ssts[i][c] \in {NoEntry, table[c]}
      /\ \A c \in CellsOf(table) :
            table[c] = Tombstone \/ \E i \in DOMAIN ssts : ssts[i][c] = table[c]
  BY <1>2, <1>3, GeneratedSsts
<1>5. ASSUME NEW c \in Cells
      PROVE  /\ table[c] # NoEntry => \E id \in IdsOf(Inputs(t)) : sst_tables[id][c] = table[c]
             /\ (\E id \in IdsOf(Inputs(t)) : sst_tables[id][c] # NoEntry) =>
                    table[c] # NoEntry
  BY <1>0, <1>1, MergedCells
<1>6. ~ FlushToL0 => ssts # <<>>
  <2>1. SUFFICES ASSUME ~ FlushToL0 PROVE CellsOf(table) # {}
    BY <1>4
  <2>2. PICK x : x \in IdsOf(Inputs(t))
    BY <1>0, <2>1, SomeInput
  <2>3. PICK c \in Cells : sst_tables[x][c] # NoEntry
    BY <2>2 DEF CanRead, CellsOf
  <2> QED BY <1>5, <2>2, <2>3 DEF CellsOf
<1>7. ASSUME NEW c \in Cells
      PROVE  /\ \A i \in DOMAIN ssts : ssts[i][c] # NoEntry =>
                    \E id \in IdsOf(Inputs(t)) : sst_tables[id][c] = ssts[i][c]
             /\ (\E id \in IdsOf(Inputs(t)) : sst_tables[id][c] # NoEntry) =>
                    \/ \E i \in DOMAIN ssts : ssts[i][c] # NoEntry
                    \/ \E id \in IdsOf(Inputs(t)) : sst_tables[id][c] = Tombstone
  <2>1. ASSUME NEW i \in DOMAIN ssts, ssts[i][c] # NoEntry
        PROVE  \E id \in IdsOf(Inputs(t)) : sst_tables[id][c] = ssts[i][c]
    <3>1. ssts[i][c] = table[c] /\ table[c] # NoEntry
      BY <1>4, <2>1
    <3> QED BY <1>5, <3>1
  <2>2. ASSUME NEW z \in IdsOf(Inputs(t)), sst_tables[z][c] # NoEntry
        PROVE  \/ \E i \in DOMAIN ssts : ssts[i][c] # NoEntry
               \/ \E id \in IdsOf(Inputs(t)) : sst_tables[id][c] = Tombstone
    <3>1. table[c] # NoEntry /\ c \in CellsOf(table)
      BY <1>5, <2>2 DEF CellsOf
    <3>2. CASE table[c] = Tombstone
      BY <1>5, <3>1, <3>2
    <3>3. CASE \E i \in DOMAIN ssts : ssts[i][c] = table[c]
      BY <3>1, <3>3
    <3> QED BY <1>4, <3>1, <3>2, <3>3
  <2> QED BY <2>1, <2>2
<1> QED BY <1>1, <1>3, <1>4, <1>6, <1>7 DEF GeneratedFits

(* The SSTs a compaction builds are new, settled, and hold what is left of *)
(* its inputs.                                                             *)
LEMMA BuiltOutput ==
    ASSUME CompInv, NEW c \in Compactors, EngineKept, TaskFits(state, task[c]),
           CanRead(state, Inputs(task[c])),
           NEW ssts, GeneratedFits(ssts, task[c]), BuildSsts(ssts),
           state' = state, task' = task,
           DOMAIN output'[c] = DOMAIN ssts,
           \A i \in DOMAIN ssts : output'[c][i] = next_sst_id + i - 1
    PROVE  /\ Produced(c)' /\ IdsOf(output'[c]) \cap Ids = {} /\ IdsOf(output'[c]) \subseteq Ids'
           /\ \A id \in IdsOf(output'[c]) : Settled(id)'
<1>0. TypeOK /\ IInv
  BY DEF CompInv, IInv
<1>1. /\ ssts \in Seq(Tables)
      /\ ~ FlushToL0 => ssts # <<>>
  BY DEF GeneratedFits
<1>2. \A i \in DOMAIN ssts :
        /\ next_sst_id + i - 1 \in Ids' \ Ids
        /\ memtables'[next_sst_id + i - 1] = ssts[i]
        /\ sst_tables'[next_sst_id + i - 1] = ssts[i]
  BY <1>0, <1>1, BuiltSsts
<1>3. PICK ins, outs, out : ins = IdsOf(Inputs(task[c])) /\ outs = IdsOf(out) /\ out = output'[c]
  OBVIOUS
<1>4. ASSUME NEW o
      PROVE  o \in outs <=> \E i \in DOMAIN ssts : o = next_sst_id + i - 1
  BY <1>3 DEF IdsOf
<1>5. \A o \in outs : /\ o \in Ids' \ Ids
                      /\ memtables'[o] = sst_tables'[o]
                      /\ \E i \in DOMAIN ssts : memtables'[o] = ssts[i]
  BY <1>2, <1>4
<1>6. /\ ins \subseteq state.sstables /\ state.sstables \subseteq Ids
      /\ IdsOf(state.imm_memtables) \subseteq Ids /\ state.memtable \in Ids
  <2>1. ins \subseteq state.sstables /\ state.sstables \subseteq Ids
    BY <1>3, InputsThere
  <2>2. IdsNamed(state, Ids)
    BY <1>0 DEF IInv, IdsInState
  <2> QED BY <2>1, <2>2 DEF IdsNamed, IdsOf
<1>7. \A id \in ins : /\ memtables'[id] = memtables[id] /\ sst_tables'[id] = sst_tables[id]
                      /\ sst_tables[id] = memtables[id]
  <2>1. \A id \in ins : Settled(id)
    BY <1>0, <1>6, SstsSettled
  <2> QED BY <1>6, <2>1 DEF EngineKept, Settled
<1>8. \A o \in outs : Settled(o)'
  <2>1. \A t \in Freezers : Preparing(t)' => new_state'[t].memtable \in Ids
    <3>1. ASSUME NEW t \in Freezers, Preparing(t)'
          PROVE  new_state'[t].memtable \in Ids
      <4>1. Preparing(t) /\ new_state' = new_state
        BY <3>1 DEF EngineKept, Preparing, freeze
      <4>2. PICK id \in Ids : new_state[t] = Frozen(state, id)
        BY <1>0, <4>1 DEF IInv, CopyIsCurrent
      <4>3. state \in States /\ id \in Nat
        BY <1>0, <4>2 DEF TypeOK, Ids
      <4>4. new_state[t].memtable = id
        BY <4>2, <4>3, FrozenType
      <4> QED BY <4>1, <4>4
    <3> QED BY <3>1
  <2>2. \A o \in outs : o # state'.memtable
    BY <1>5, <1>6
  <2> QED BY <1>5, <2>1, <2>2 DEF Settled
<1>9. ~ FlushToL0 => out # <<>>
  <2>1. SUFFICES ASSUME ~ FlushToL0 PROVE out # <<>>
    OBVIOUS
  <2>2. PICK S : S = Tables
    OBVIOUS
  <2>3. 1 \in DOMAIN ssts
    <3>1. ssts \in Seq(S) /\ ssts # <<>>
      BY <1>1, <2>1, <2>2
    <3> QED BY <3>1
  <2>4. DOMAIN out # {}
    BY <1>3, <2>3
  <2> QED BY <2>4
<1>10. \A id \in ins : CellsOf(sst_tables[id])' # {}
  BY <1>3, <1>7 DEF CanRead, CellsOf
<1>11. SameCells(ins, outs)'
  <2> SUFFICES ASSUME NEW x \in Cells
               PROVE  /\ \A o \in outs : memtables'[o][x] # NoEntry =>
                            \E i \in ins : memtables'[i][x] = memtables'[o][x]
                      /\ (\E i \in ins : memtables'[i][x] # NoEntry) =>
                            \/ \E o \in outs : memtables'[o][x] # NoEntry
                            \/ \E i \in ins : memtables'[i][x] = Tombstone
    BY DEF SameCells
  <2>1. /\ \A i \in DOMAIN ssts : ssts[i][x] # NoEntry =>
                \E id \in ins : sst_tables[id][x] = ssts[i][x]
        /\ (\E id \in ins : sst_tables[id][x] # NoEntry) =>
                \/ \E i \in DOMAIN ssts : ssts[i][x] # NoEntry
                \/ \E id \in ins : sst_tables[id][x] = Tombstone
    BY <1>3 DEF GeneratedFits
  <2>2. ASSUME NEW o \in outs, memtables'[o][x] # NoEntry
        PROVE  \E i \in ins : memtables'[i][x] = memtables'[o][x]
    BY <1>5, <1>7, <2>1, <2>2
  <2>3. ASSUME NEW j \in ins, memtables'[j][x] # NoEntry
        PROVE  \/ \E o \in outs : memtables'[o][x] # NoEntry
               \/ \E i \in ins : memtables'[i][x] = Tombstone
    <3>1. sst_tables[j][x] # NoEntry
      BY <1>7, <2>3
    <3>2. CASE \E i \in DOMAIN ssts : ssts[i][x] # NoEntry
      <4>1. PICK i \in DOMAIN ssts : ssts[i][x] # NoEntry
        BY <3>2
      <4>2. next_sst_id + i - 1 \in outs /\ memtables'[next_sst_id + i - 1] = ssts[i]
        BY <1>2, <1>4, <4>1
      <4> QED BY <4>1, <4>2
    <3>3. CASE \E id \in ins : sst_tables[id][x] = Tombstone
      BY <1>7, <3>3
    <3> QED BY <2>1, <3>1, <3>2, <3>3
  <2> QED BY <2>2, <2>3
<1>12. Produced(c)'
  <2>1. output'[c] = out /\ IdsOf(output[c])' = outs /\ IdsOf(Inputs(task[c]))' = ins
    BY <1>3 DEF IdsOf, Inputs, Policy!TieredFilesToRemove
  <2> QED BY <1>9, <1>10, <1>11, <2>1 DEF Produced
<1> QED BY <1>3, <1>5, <1>8, <1>12

(* Building SSTs leaves the engine as it was.                              *)
LEMMA BuildKeeps ==
    ASSUME CompInv, NEW ssts \in Seq(Tables), BuildSsts(ssts),
           pc' = pc, reading' = reading, freeze' = freeze, mvcc' = mvcc,
           flush_id' = flush_id, manifest' = manifest, faults' = faults \/ Fault
    PROVE  EngineKept
<1>1. TypeOK /\ IInv
  BY DEF CompInv, IInv
<1>2. /\ next_sst_id' \in Nat /\ Ids \subseteq Ids'
      /\ memtables' \in [Ids' -> Tables]
      /\ approx_size' \in [Ids' -> Nat]
      /\ sst_tables' \in [Ids' -> Tables]
      /\ \A id \in Ids : memtables'[id] = memtables[id] /\ sst_tables'[id] = sst_tables[id]
  BY <1>1, BuiltSsts
<1>3. faults' \in 0 .. MaxFaults /\ (faults' = 0 => faults = 0)
  <2>1. faults \in 0 .. MaxFaults
    BY <1>1 DEF TypeOK
  <2>2. CASE faults' = faults
    BY <2>1, <2>2
  <2>3. CASE Fault
    <3>1. faults' \in 0 .. MaxFaults
      BY <1>1, <2>3, FaultType
    <3>2. faults' = faults + 1
      BY <2>3 DEF Fault
    <3> QED BY <2>1, <3>1, <3>2
  <2> QED BY <2>2, <2>3
<1> QED BY <1>2, <1>3 DEF EngineKept

(* The merge of a compaction that could read its inputs: it goes on to put *)
(* its result in place.                                                    *)
LEMMA MergedInv ==
    ASSUME CompInv, NEW c \in Compactors, cpc[c] = "merge", CanRead(state, Inputs(task[c])),
           NEW ssts, ssts = GenerateSst(Merged(task[c]), CompactToBottomLevel(task[c])),
           NEW ids, ids = [i \in 1 .. Len(ssts) |-> next_sst_id + i - 1],
           NEW after, after = (IF c = CompactionThread THEN "copy" ELSE "full_install"),
           BuildSsts(ssts),
           output' = [output EXCEPT ![c] = ids],
           files' = files \cup IdsOf(ids),
           cpc' = [cpc EXCEPT ![c] = after],
           task' = task, replacement' = replacement, removed_ssts' = removed_ssts,
           faults' = faults, policy' = policy, state' = state, manifest' = manifest,
           mvcc' = mvcc, freeze' = freeze, flush_id' = flush_id, reading' = reading, pc' = pc
    PROVE  CompInv'
<1>1. /\ HasTask(c) /\ TaskOK(c) /\ IInv /\ LocalTypes /\ FilesKept /\ TypeOK /\ FlightsApart
  BY DEF CompInv, TasksOK, IInv, HasTask
<1>2. /\ TaskFits(state, task[c]) /\ output[c] = <<>>
      /\ task[c].kind = "full" <=> c # CompactionThread
  BY <1>1 DEF TaskOK
<1>3. GeneratedFits(ssts, task[c])
  BY <1>2, MergeGenerates
<1>4. ssts \in Seq(Tables)
  BY <1>3 DEF GeneratedFits
<1>5. EngineKept
  BY <1>4, BuildKeeps
<1>6. /\ OnlyOf(c) /\ cpc'[c] = after /\ output'[c] = ids
  BY <1>1, <1>2 DEF OnlyOf, LocalTypes
<1>7. DOMAIN ids = DOMAIN ssts /\ \A i \in DOMAIN ssts : ids[i] = next_sst_id + i - 1
  <2>1. PICK S : S = Tables
    OBVIOUS
  <2>2. ssts \in Seq(S)
    BY <1>4, <2>1
  <2>3. DOMAIN ssts = 1 .. Len(ssts)
    BY <2>2
  <2> QED BY <2>3
<1>8. /\ Produced(c)' /\ IdsOf(ids) \cap Ids = {} /\ IdsOf(ids) \subseteq Ids'
      /\ \A id \in IdsOf(ids) : Settled(id)'
  BY <1>1, <1>2, <1>3, <1>5, <1>6, <1>7, BuiltOutput
<1>9. LocalTypes'
  <2>1. ids \in Seq(Ids')
    <3>1. PICK B, n : B = Ids' /\ n = Len(ssts)
      OBVIOUS
    <3>2. n \in Nat
      <4>1. PICK S : S = Tables
        OBVIOUS
      <4>2. ssts \in Seq(S)
        BY <1>4, <4>1
      <4> QED BY <3>1, <4>2
    <3>3. ids = [i \in 1 .. n |-> ids[i]] /\ \A i \in 1 .. n : ids[i] \in B
      <4>1. ids = [i \in 1 .. n |-> ids[i]] /\ DOMAIN ids = 1 .. n
        BY <3>1
      <4>2. \A i \in DOMAIN ids : ids[i] \in IdsOf(ids)
        BY DEF IdsOf
      <4> QED BY <1>8, <3>1, <4>1, <4>2
    <3>4. ids \in [1 .. n -> B]
      BY ONLY <3>3
    <3>5. ids \in Seq(B)
      BY ONLY <3>2, <3>4
    <3> QED BY <3>1, <3>5
  <2>2. /\ output' \in [Compactors -> Seq(Ids')] /\ removed_ssts' \in [Compactors -> Seq(Ids')]
    <3> DEFINE V == Seq(Ids)
               W == Seq(Ids')
    <3>1. V \subseteq W /\ ids \in W
          /\ output \in [Compactors -> V] /\ removed_ssts \in [Compactors -> V]
      BY <1>1, <1>5, <2>1, SeqKept DEF LocalTypes
    <3> HIDE DEF V, W
    <3>2. /\ output' \in [Compactors -> W] /\ removed_ssts' \in [Compactors -> W]
      BY <3>1
    <3> QED BY <3>2 DEF W
  <2>3. /\ cpc' \in [Compactors -> {"idle", "merge", "copy", "install", "full_install",
                                    "remove", "panicked"}]
        /\ DOMAIN task' = Compactors /\ policy' \in Policies
        /\ replacement' \in [Compactors -> States \cup {Nil}]
    BY <1>1 DEF LocalTypes
  <2> QED BY <2>2, <2>3 DEF LocalTypes
<1>10. InFlight(c) = {} /\ InFlight(c)' = IdsOf(ids)
  <2>1. IdsOf(output[c]) = {} /\ IdsOf(output[c])' = IdsOf(ids)
    BY <1>2, <1>6 DEF IdsOf
  <2>2. HasTask(c)'
    BY <1>6 DEF HasTask
  <2> QED BY <1>1, <2>1, <2>2 DEF InFlight
<1>11. TaskOK(c)'
  <2>1. TaskFits(state', task'[c]) /\ (task'[c].kind = "full" <=> c # CompactionThread)
    BY <1>2
  <2>2. CASE c = CompactionThread
    BY <1>6, <1>8, <2>1, <2>2 DEF TaskOK
  <2>3. CASE c # CompactionThread
    BY <1>6, <1>8, <2>1, <2>3 DEF TaskOK
  <2> QED BY <2>2, <2>3
<1>12. /\ state.sstables \subseteq Ids /\ IdsOf(state.imm_memtables) \subseteq Ids
       /\ state.sstables \subseteq files /\ files \subseteq Ids
  BY <1>1 DEF IInv, IdsInState, IdsNamed, IdsOf, FilesKept
<1>13. InFlight(c)' \cap (state'.sstables \cup IdsOf(state'.imm_memtables)) = {}
  <2>1. IdsOf(state'.imm_memtables) = IdsOf(state.imm_memtables)
    OBVIOUS
  <2> QED BY <1>8, <1>10, <1>12, <2>1
<1>14. \A d \in Compactors : d # c => InFlight(c)' \cap InFlight(d) = {}
  <2>1. \A d \in Compactors : InFlight(d) \subseteq Ids
    BY <1>1 DEF FlightsApart, Settled
  <2> QED BY <1>8, <1>10, <2>1
<1>15. files' \subseteq Ids' /\ state'.sstables \cup InFlight(c)' \subseteq files'
  BY <1>5, <1>8, <1>10, <1>12 DEF EngineKept
<1>16. files \ files' \subseteq InFlight(c)
  OBVIOUS
<1>17. faults' = 0 => \A id \in files' :
            \/ id \in state'.sstables \cup InFlight(c)'
            \/ id \in files /\ id \notin state.sstables \cup InFlight(c)
  BY <1>10
<1>18. Takes(c)
  BY DEF Takes
<1>19. \A id \in InFlight(c)' : Settled(id)'
  BY <1>8, <1>10
<1> QED BY <1>5, <1>6, <1>9, <1>11, <1>13, <1>14, <1>15, <1>16, <1>17, <1>18, <1>19, CompactorInv

(* A merge that ends in an error or a panic leaves at most some SSTs on    *)
(* disk.                                                                   *)
LEMMA AbandonedInv ==
    ASSUME CompInv, NEW c \in Compactors, cpc[c] = "merge", NEW label \in {"idle", "panicked"},
           CompactionReturns(c, label), EngineKept, state' = state, policy' = policy,
           files \subseteq files', files' \subseteq Ids', faults' = 0 => files' = files
    PROVE  CompInv'
<1>1. FilesKept /\ TaskOK(c) /\ HasTask(c) /\ IdsOf(output[c]) = {}
  BY DEF CompInv, TasksOK, TaskOK, HasTask, IdsOf
<1>2. InFlight(c) = {}
  BY <1>1 DEF InFlight
<1>3. OnlyOf(c) /\ TaskOK(c)' /\ LocalTypes' /\ InFlight(c)' = {}
  BY ReturnsOK
<1>4. Takes(c)
  BY DEF Takes
<1>5. state'.sstables \cup InFlight(c)' \subseteq files'
  BY <1>1, <1>3 DEF FilesKept
<1>6. faults' = 0 => \A id \in files' :
            \/ id \in state'.sstables \cup InFlight(c)'
            \/ id \in files /\ id \notin state.sstables \cup InFlight(c)
  BY <1>2, <1>3
<1> QED BY <1>2, <1>3, <1>4, <1>5, <1>6, CompactorInv

(* All three ways compact can end.                                         *)
LEMMA MergeInv ==
    ASSUME CompInv, NEW c \in Compactors, Merge(c)
    PROVE  CompInv'
<1> DEFINE ssts == GenerateSst(Merged(task[c]), CompactToBottomLevel(task[c]))
           ids(n) == [i \in 1 .. n |-> next_sst_id + i - 1]
           after == IF c = CompactionThread THEN "copy" ELSE "full_install"
<1>1. /\ cpc[c] = "merge" /\ IInv /\ FilesKept /\ TypeOK
      /\ policy' = policy /\ state' = state /\ manifest' = manifest
      /\ mvcc' = mvcc /\ freeze' = freeze /\ flush_id' = flush_id /\ reading' = reading
      /\ pc' = pc
  BY DEF Merge, CompInv, IInv
<1>2. \/ /\ CompactionReturns(c, "panicked")
         /\ memtables' = memtables /\ approx_size' = approx_size /\ sst_tables' = sst_tables
         /\ next_sst_id' = next_sst_id /\ files' = files /\ faults' = faults
      \/ /\ CanRead(state, Inputs(task[c]))
         /\ BuildSsts(ssts)
         /\ output' = [output EXCEPT ![c] = ids(Len(ssts))]
         /\ files' = files \cup IdsOf(ids(Len(ssts)))
         /\ cpc' = [cpc EXCEPT ![c] = after]
         /\ task' = task /\ replacement' = replacement /\ removed_ssts' = removed_ssts
         /\ faults' = faults
      \/ /\ CanRead(state, Inputs(task[c]))
         /\ Fault
         /\ \E n \in DOMAIN ssts : /\ BuildSsts(SubSeq(ssts, 1, n))
                                   /\ files' = files \cup IdsOf(ids(n - 1))
         /\ CompactionReturns(c, "idle")
  BY DEF Merge, CGoto
<1> HIDE DEF ssts, after
<1>3. CASE /\ CompactionReturns(c, "panicked")
           /\ memtables' = memtables /\ approx_size' = approx_size /\ sst_tables' = sst_tables
           /\ next_sst_id' = next_sst_id /\ files' = files /\ faults' = faults
  <2>1. EngineKept
    BY <1>1, <1>3, UnchangedKept
  <2>2. files' \subseteq Ids'
    BY <1>1, <1>3, <2>1 DEF FilesKept, EngineKept
  <2> QED BY <1>1, <1>3, <2>1, <2>2, AbandonedInv
<1>4. CASE /\ CanRead(state, Inputs(task[c]))
           /\ BuildSsts(ssts)
           /\ output' = [output EXCEPT ![c] = ids(Len(ssts))]
           /\ files' = files \cup IdsOf(ids(Len(ssts)))
           /\ cpc' = [cpc EXCEPT ![c] = after]
           /\ task' = task /\ replacement' = replacement /\ removed_ssts' = removed_ssts
           /\ faults' = faults
  <2>1. PICK q, new, l : /\ q = ssts /\ new = ids(Len(ssts)) /\ l = after
    OBVIOUS
  <2>2. /\ q = GenerateSst(Merged(task[c]), CompactToBottomLevel(task[c]))
        /\ new = [i \in 1 .. Len(q) |-> next_sst_id + i - 1]
        /\ l = (IF c = CompactionThread THEN "copy" ELSE "full_install")
    BY <2>1 DEF ssts, after
  <2> QED BY <1>1, <1>4, <2>1, <2>2, MergedInv
<1>5. ASSUME CanRead(state, Inputs(task[c])), Fault, CompactionReturns(c, "idle"),
             NEW n \in DOMAIN ssts, BuildSsts(SubSeq(ssts, 1, n)),
             files' = files \cup IdsOf(ids(n - 1))
      PROVE  CompInv'
  <2>1. PICK q, part : q = ssts /\ part = SubSeq(ssts, 1, n)
    OBVIOUS
  <2>2. q \in Seq(Tables)
    <3>1. TaskFits(state, task[c])
      BY <1>1 DEF CompInv, TasksOK, TaskOK, HasTask
    <3> QED BY <1>5, <2>1, <3>1, MergeGenerates DEF GeneratedFits, ssts
  <2>3. PICK S : S = Tables
    OBVIOUS
  <2>4. n \in 1 .. Len(q) /\ q \in Seq(S)
    <3>1. q \in Seq(S)
      BY <2>2, <2>3
    <3> QED BY <1>5, <2>1, <3>1
  <2>5. part \in Seq(S) /\ Len(part) = n /\ DOMAIN part = 1 .. n
    <3>1. part \in Seq(S) /\ Len(part) = n
      BY <2>1, <2>4, SubSeqProperties
    <3> QED BY <3>1
  <2>6. EngineKept
    BY <1>1, <1>5, <2>1, <2>3, <2>5, BuildKeeps
  <2>7. \A i \in 1 .. n : next_sst_id + i - 1 \in Ids'
    BY <1>1, <1>5, <2>1, <2>3, <2>5, BuiltSsts
  <2>8. IdsOf(ids(n - 1)) \subseteq Ids'
    <3>1. ASSUME NEW x \in IdsOf(ids(n - 1))
          PROVE  x \in Ids'
      <4>1. PICK i \in 1 .. n - 1 : x = next_sst_id + i - 1
        BY <3>1 DEF IdsOf
      <4>2. i \in 1 .. n
        BY <2>4, <4>1
      <4> QED BY <2>7, <4>1, <4>2
    <3> QED BY <3>1
  <2>9. files' \subseteq Ids' /\ files \subseteq files'
    BY <1>1, <1>5, <2>6, <2>8 DEF FilesKept, EngineKept
  <2>10. faults' # 0
    <3>1. faults' = faults + 1 /\ faults \in Nat
      BY <1>1, <1>5 DEF Fault, TypeOK
    <3> QED BY <3>1
  <2> QED BY <1>1, <1>5, <2>6, <2>9, <2>10, AbandonedInv
<1> QED BY <1>2, <1>3, <1>4, <1>5

LEMMA CompactorSteps ==
    ASSUME CompInv, NEW c \in Compactors, CompactionStep(c), ~ Races
    PROVE  CompInv'
<1>1. CASE TriggerCompaction(c)
  BY <1>1, TriggerInv
<1>2. CASE ForceFullCompaction(c)
  BY <1>2, ForceFullInv
<1>3. CASE Merge(c)
  BY <1>3, MergeInv
<1>4. CASE CompactionCopy(c)
  BY <1>4, CopyInv
<1>5. CASE CompactionInstall(c)
  BY <1>5, InstallInv
<1>6. CASE FullInstall(c)
  BY <1>6, FullInstallInv
<1>7. CASE RemoveFiles(c)
  BY <1>7, RemoveFilesInv
<1> QED BY <1>1, <1>2, <1>3, <1>4, <1>5, <1>6, <1>7 DEF CompactionStep

(* Steps of no one, of the engine and of any compactor keep the invariant. *)
LEMMA CompactionStutterInv ==
    ASSUME CompInv, UNCHANGED compactionVars
    PROVE  CompInv'
<1>1. /\ vars' = vars /\ policy' = policy /\ files' = files /\ cpc' = cpc /\ task' = task
      /\ output' = output /\ replacement' = replacement /\ removed_ssts' = removed_ssts
  BY DEF compactionVars, compaction
<1>2. /\ state' = state /\ pc' = pc /\ flush_id' = flush_id /\ faults' = faults
      /\ read_ts' = read_ts /\ snapshot' = snapshot /\ commit_ts' = commit_ts
      /\ memtables' = memtables /\ sst_tables' = sst_tables /\ next_sst_id' = next_sst_id
      /\ new_state' = new_state
  BY <1>1 DEF vars, engine, freeze, mvcc, reading
<1>3. IInv'
  BY <1>1, StutterInv DEF CompInv
<1>4. Ids' = Ids
  BY <1>2 DEF Ids
<1>5. LocalTypes'
  BY <1>1, <1>4 DEF CompInv, LocalTypes
<1>6. InOrder(state)'
  BY <1>2 DEF CompInv
<1>7. \A id : Settled(id) => Settled(id)'
  BY <1>2, <1>4 DEF Settled, Preparing
<1>8. \A c \in Compactors : (HasTask(c)' <=> HasTask(c)) /\ InFlight(c)' = InFlight(c)
  BY <1>1 DEF HasTask, InFlight
<1>9. TasksOK'
  <2>1. ASSUME NEW c \in Compactors
        PROVE  TaskOK(c)'
    <3>1. TaskOK(c)
      BY DEF CompInv, TasksOK
    <3>2. Produced(c) => Produced(c)'
      BY <1>1, <1>2 DEF Produced, SameCells, CellsOf
    <3>3. Inputs(task[c])' = Inputs(task[c])
      BY <1>1
    <3> QED BY <1>1, <1>2, <1>8, <3>1, <3>2, <3>3 DEF TaskOK
  <2> QED BY <2>1 DEF TasksOK
<1>10. FlightsApart'
  BY <1>2, <1>7, <1>8 DEF CompInv, FlightsApart
<1>11. FilesKept'
  <2>1. \A t \in Flushers : FlushBuilt(t)' <=> FlushBuilt(t)
    BY <1>2 DEF FlushBuilt
  <2> QED BY <1>1, <1>2, <1>4, <1>8, <2>1 DEF CompInv, FilesKept
<1>12. SnapshotsSettled'
  <2>1. ASSUME NEW r \in Readers
        PROVE  SnapshotSettled(r)'
    BY <1>2, <1>4, <1>7 DEF CompInv, SnapshotsSettled, SnapshotSettled
  <2> QED BY <2>1 DEF SnapshotsSettled
<1> QED BY <1>3, <1>5, <1>6, <1>9, <1>10, <1>11, <1>12 DEF CompInv

(* Until an installation overtakes another one.                            *)
LEMMA CompactionStepInv ==
    ASSUME raced \/ CompInv, [CompactionNext]_compactionVars
    PROVE  raced' \/ CompInv'
<1>1. CASE raced
  BY <1>1 DEF CompactionNext, compactionVars
<1>2. CASE CompInv /\ CompactionNext /\ ~ Races
  <2>1. CASE EngineStep
    BY <1>2, <2>1, EngineInv
  <2>2. CASE \E c \in Compactors : CompactionStep(c)
    BY <1>2, <2>2, CompactorSteps
  <2> QED BY <1>2, <2>1, <2>2 DEF CompactionNext
<1>3. CASE CompactionNext /\ Races
  BY <1>3 DEF CompactionNext
<1>4. CASE CompInv /\ UNCHANGED compactionVars
  BY <1>4, CompactionStutterInv
<1> QED BY <1>1, <1>2, <1>3, <1>4

(* An empty directory satisfies the invariant.                             *)
LEMMA CompactionInitInv ==
    ASSUME CompactionInit
    PROVE  CompInv
<1>1. /\ Init /\ policy \in Policies /\ files = {}
      /\ cpc = [c \in Compactors |-> "idle"] /\ task = [c \in Compactors |-> Nil]
      /\ output = [c \in Compactors |-> <<>>] /\ replacement = [c \in Compactors |-> Nil]
      /\ removed_ssts = [c \in Compactors |-> <<>>]
  BY DEF CompactionInit
<1>2. IInv
  BY <1>1, InitInv
<1>3. /\ state = InitState /\ faults = 0 /\ commit_ts = 0
      /\ pc = [t \in Threads |-> "idle"] /\ read_ts = [r \in Readers |-> 0]
  BY <1>1 DEF Init
<1>4. /\ Flushers \subseteq Threads /\ Writers \subseteq Threads /\ Readers \subseteq Threads
  BY DEF Threads, Flushers
<1>5. \A t \in Threads : pc[t] = "idle"
  BY <1>3
<1>6. LocalTypes
  <2>1. <<>> \in Seq(Ids)
    OBVIOUS
  <2>2. PICK V : V = Seq(Ids)
    OBVIOUS
  <2>3. output \in [Compactors -> V] /\ removed_ssts \in [Compactors -> V]
    BY <1>1, <2>1, <2>2
  <2> QED BY <1>1, <2>2, <2>3 DEF LocalTypes
<1>7. InOrder(state)
  <2>1. /\ state.imm_memtables = <<>> /\ state.l0_sstables = <<>> /\ state.sstables = {}
        /\ state.levels = IF FlushToL0 THEN [i \in 1 .. MaxLevels |-> <<i, <<>>>>] ELSE <<>>
    BY <1>3 DEF InitState
  <2>2. \A y \in IdsOf(state.levels) : FlushToL0 /\ y[2] = <<>>
    <3>1. CASE FlushToL0
      BY <2>1, <3>1 DEF IdsOf
    <3>2. CASE ~ FlushToL0
      BY <2>1, <3>2 DEF IdsOf
    <3> QED BY <3>1, <3>2
  <2>3. IdsOf(<<>>) = {}
    BY DEF IdsOf
  <2>4. Listed(state) = state.sstables
    <3>1. \A x : x \in Listed(state) <=> \/ x \in IdsOf(state.l0_sstables)
                                         \/ \E y \in IdsOf(state.levels) : x \in IdsOf(y[2])
      BY ListedIs
    <3> QED BY <2>1, <2>2, <2>3, <3>1
  <2>5. ListsApart(state)
    BY <2>1, <2>2, <2>3, <2>4 DEF ListsApart
  <2>6. LevelsShape(state)
    <3>1. ASSUME FlushToL0
          PROVE  Len(state.levels) = MaxLevels
                 /\ \A i \in DOMAIN state.levels : state.levels[i][1] = i
      <4>1. MaxLevels \in Nat
        BY StorageAssumption
      <4>2. PICK levels, v : /\ levels = state.levels
                             /\ v = [i \in 1 .. MaxLevels |-> <<i, <<>>>>]
        OBVIOUS
      <4>3. levels = v /\ DOMAIN v = 1 .. MaxLevels
        BY <2>1, <3>1, <4>2
      <4>4. Len(levels) = MaxLevels
        BY <4>1, <4>3
      <4>5. \A i \in DOMAIN levels : levels[i][1] = i
        BY <4>2, <4>3
      <4> QED BY <4>2, <4>4, <4>5
    <3>2. ASSUME ~ FlushToL0
          PROVE  state.l0_sstables = <<>> /\ \A x \in IdsOf(state.levels) : x[2] # <<>>
      BY <2>1, <2>2, <3>2
    <3>3. Once(state.levels)
      <4>1. \A i, j \in DOMAIN state.levels : state.levels[i] = state.levels[j] => i = j
        <5>1. CASE FlushToL0
          BY <2>1, <3>1, <5>1
        <5>2. CASE ~ FlushToL0
          BY <2>1, <5>2
        <5> QED BY <5>1, <5>2
      <4> QED BY <4>1 DEF Once
    <3> QED BY <3>1, <3>2, <3>3 DEF LevelsShape
  <2>7. MemtablesOnce(state)
    BY <2>1, <2>3 DEF MemtablesOnce, Once
  <2> QED BY <2>5, <2>6, <2>7 DEF InOrder
<1>8. \A c \in Compactors : ~ HasTask(c) /\ InFlight(c) = {}
  BY <1>1 DEF HasTask, InFlight, IdsOf
<1>9. TasksOK
  BY <1>1 DEF TasksOK, TaskOK, HasTask
<1>10. FlightsApart
  BY <1>8 DEF FlightsApart
<1>11. FilesKept
  <2>1. state.sstables = {}
    BY <1>3 DEF InitState
  <2>3. \A t \in Flushers : ~ FlushBuilt(t)
    BY <1>4, <1>5 DEF FlushBuilt
  <2> QED BY <1>1, <1>8, <2>1, <2>3 DEF FilesKept
<1>12. SnapshotsSettled
  BY <1>3, <1>4, <1>5 DEF SnapshotsSettled, SnapshotSettled
<1> QED BY <1>2, <1>6, <1>7, <1>8, <1>9, <1>10, <1>11, <1>12 DEF CompInv

-------------------------------------------------------------------------------
-------------------------------------------------------------------------------
(* The theorems                                                            *)

(* CompInv holds of every reachable state until an installation overtakes  *)
(* another one: the steps of the engine keep it, and those of              *)
(* trigger_compaction and force_full_compaction, in any interleaving.      *)
THEOREM CompactionInvariant == CompactionSpec => [](raced \/ CompInv)
<1>1. CompactionInit => raced \/ CompInv
  BY CompactionInitInv
<1>2. (raced \/ CompInv) /\ [CompactionNext]_compactionVars => (raced \/ CompInv)'
  BY CompactionStepInv
<1> QED BY <1>1, <1>2, PTL DEF CompactionSpec

(* generate_*_task, apply_compaction_result and remove_file together keep  *)
(* the lists of the state, its sstables map and the directory in step,     *)
(* whatever is flushed meanwhile and wherever an I/O call fails.           *)
THEOREM FilesFollowState == CompactionSpec => []FilesMatchState
<1>1. raced \/ CompInv => FilesMatchState
  <2> SUFFICES ASSUME CompInv PROVE FilesMatchState
    BY DEF FilesMatchState
  <2>1. Listed(state) = state.sstables /\ state.sstables \subseteq files
    BY DEF CompInv, InOrder, ListsApart, FilesKept
  <2>2. ASSUME faults = 0,
               \A t \in Flushers : pc[t] \notin {"flush_lock", "flush_install", "panicked"},
               \A c \in Compactors : cpc[c] = "idle", NEW id \in files
        PROVE  id \in state.sstables
    <3>1. \A t \in Flushers : ~ FlushBuilt(t) /\ pc[t] # "panicked"
      BY <2>2 DEF FlushBuilt
    <3>2. \A c \in Compactors : InFlight(c) = {}
      <4>1. ASSUME NEW c \in Compactors
            PROVE  InFlight(c) = {}
        <5>1. cpc[c] = "idle" /\ TaskOK(c)
          BY <2>2 DEF CompInv, TasksOK
        <5>2. removed_ssts[c] = <<>> /\ ~ HasTask(c)
          BY <5>1 DEF TaskOK, HasTask
        <5> QED BY <5>2 DEF InFlight, IdsOf
      <4> QED BY <4>1
    <3> QED BY <2>2, <3>1, <3>2 DEF CompInv, FilesKept
  <2> QED BY <2>1, <2>2 DEF FilesMatchState
<1> QED BY <1>1, CompactionInvariant, PTL

(* A merge leaves the SSTs there are alone.                                *)
LEMMA MergeKeepsSsts ==
    ASSUME CompInv, NEW c \in Compactors, Merge(c), NEW id \in Ids
    PROVE  state' = state /\ sst_tables'[id] = sst_tables[id] /\ memtables'[id] = memtables[id]
<1> DEFINE ssts == GenerateSst(Merged(task[c]), CompactToBottomLevel(task[c]))
<1>1. state' = state /\ cpc[c] = "merge" /\ TypeOK
  BY DEF Merge, CompInv, IInv
<1>2. \/ sst_tables' = sst_tables /\ memtables' = memtables
      \/ CanRead(state, Inputs(task[c])) /\ BuildSsts(ssts)
      \/ CanRead(state, Inputs(task[c])) /\ \E n \in DOMAIN ssts : BuildSsts(SubSeq(ssts, 1, n))
  BY DEF Merge
<1>3. CanRead(state, Inputs(task[c])) => ssts \in Seq(Tables)
  <2>1. TaskFits(state, task[c])
    BY <1>1 DEF CompInv, TasksOK, TaskOK, HasTask
  <2> QED BY <2>1, MergeGenerates DEF GeneratedFits
<1> HIDE DEF ssts
<1>4. ASSUME ssts \in Seq(Tables), NEW n \in DOMAIN ssts
      PROVE  SubSeq(ssts, 1, n) \in Seq(Tables)
  <2>1. PICK S : S = Tables
    OBVIOUS
  <2>2. ssts \in Seq(S) /\ n \in 0 .. Len(ssts)
    BY <1>4, <2>1
  <2>3. SubSeq(ssts, 1, n) \in Seq(S)
    BY <2>2, SubSeqElements
  <2> QED BY <2>1, <2>3
<1> QED BY <1>1, <1>2, <1>3, <1>4, BuiltSsts

(* An installation that overtakes no other one puts its result in place of *)
(* what it was made of.                                                    *)
LEMMA Installs ==
    ASSUME CompInv, NEW c \in Compactors, CompactionInstall(c) \/ FullInstall(c), ~ Races
    PROVE  /\ HasTask(c) /\ TaskFits(state, task[c]) /\ Produced(c)
           /\ Replaces(state, state', task[c], output[c])
           /\ memtables' = memtables /\ sst_tables' = sst_tables /\ mvcc' = mvcc /\ pc' = pc
           /\ reading' = reading
<1>1. CASE CompactionInstall(c)
  <2>1. cpc[c] = "install" /\ HasTask(c) /\ TaskOK(c)
    BY <1>1 DEF CompactionInstall, CompInv, TasksOK, HasTask
  <2>2. TaskFits(state, task[c]) /\ Produced(c)
    BY <2>1 DEF TaskOK
  <2> QED BY <1>1, <2>1, <2>2, InstallReplaces DEF CompactionInstall
<1>2. CASE FullInstall(c)
  <2>1. cpc[c] = "full_install" /\ HasTask(c) /\ TaskOK(c)
    BY <1>2 DEF FullInstall, CompInv, TasksOK, HasTask
  <2>2. TaskFits(state, task[c]) /\ Produced(c)
    BY <2>1 DEF TaskOK
  <2> QED BY <1>2, <2>1, <2>2, FullInstallReplaces DEF FullInstall
<1> QED BY <1>1, <1>2

(* An SST without entries stays in the state.                              *)
SomeEmpty == \E id \in state.sstables : CellsOf(sst_tables[id]) = {}

(* Nothing takes it away: a compaction that would read it panics.          *)
LEMMA EmptyKept ==
    ASSUME CompInv, CompInv', [CompactionNext]_compactionVars, ~ Races, SomeEmpty
    PROVE  SomeEmpty'
<1>0. PICK id \in state.sstables : CellsOf(sst_tables[id]) = {}
  BY DEF SomeEmpty
<1>a. IInv /\ IInv' /\ id \in Ids
  BY DEF CompInv, IInv, IdsInState, IdsNamed
<1>b. sst_tables'[id] = sst_tables[id] /\ id \in state'.sstables => SomeEmpty'
  BY <1>0 DEF SomeEmpty, CellsOf
<1>1. CASE EngineStep \/ UNCHANGED compactionVars
  <2>1. [Next]_vars
    BY <1>1 DEF EngineStep, compactionVars
  <2>2. id \in state'.sstables /\ sst_tables'[id] = sst_tables[id]
    BY <1>0, <1>a, <2>1, CommittedContentStays
  <2> QED BY <1>b, <2>2
<1>2. ASSUME NEW c \in Compactors, CompactionStep(c)
      PROVE  SomeEmpty'
  <2>1. CASE TriggerCompaction(c) \/ ForceFullCompaction(c) \/ CompactionCopy(c)
             \/ RemoveFiles(c)
    <3>1. state' = state /\ sst_tables' = sst_tables
      BY <2>1 DEF TriggerCompaction, ForceFullCompaction, CompactionCopy, RemoveFiles,
                  vars, engine
    <3> QED BY <1>0, <1>b, <3>1
  <2>2. CASE Merge(c)
    <3>1. state' = state /\ sst_tables'[id] = sst_tables[id]
      BY <1>a, <2>2, MergeKeepsSsts
    <3> QED BY <1>0, <1>b, <3>1
  <2>3. CASE CompactionInstall(c) \/ FullInstall(c)
    <3>1. /\ Produced(c) /\ sst_tables' = sst_tables
          /\ state'.sstables = (state.sstables \ IdsOf(Inputs(task[c]))) \cup IdsOf(output[c])
      BY <2>3, Installs DEF Replaces
    <3>2. id \notin IdsOf(Inputs(task[c]))
      BY <1>0, <3>1 DEF Produced
    <3> QED BY <1>0, <1>b, <3>1, <3>2
  <2> QED BY <1>2, <2>1, <2>2, <2>3 DEF CompactionStep
<1> QED BY <1>1, <1>2 DEF CompactionNext

(* A compactor's panic is over such an SST.                                *)
LEMMA PanicStep ==
    ASSUME FullCompactors = {} \/ FlushToL0, CompInv, [CompactionNext]_compactionVars,
           NEW c \in Compactors, cpc'[c] = "panicked", cpc[c] # "panicked"
    PROVE  SomeEmpty
<1>0. LocalTypes /\ InOrder(state) /\ IInv /\ state \in States
  BY DEF CompInv, IInv, TypeOK
<1>1. CASE EngineStep \/ UNCHANGED compactionVars
  BY <1>1 DEF EngineStep, compactionVars, compaction
<1>2. ASSUME NEW d \in Compactors, CompactionStep(d)
      PROVE  SomeEmpty
  <2>0. TaskOK(d)
    BY DEF CompInv, TasksOK
  <2>1. CASE TriggerCompaction(d)
    <3>1. CanPlan(state)
      BY <1>0 DEF CanPlan, InOrder, ListsApart
    <3> QED BY <1>0, <2>1, <3>1 DEF TriggerCompaction, CGoto, LocalTypes
  <2>2. CASE ForceFullCompaction(d)
    <3>1. FlushToL0 /\ Len(state.levels) = MaxLevels /\ MaxLevels \in Nat \ {0}
      BY <1>0, <2>2, StorageAssumption DEF ForceFullCompaction, InOrder, LevelsShape
    <3>2. state.levels # <<>>
      <4>1. state.levels \in Seq(Nat \X Seq(Nat)) /\ Len(state.levels) # 0
        BY <1>0, <3>1 DEF States
      <4> QED BY <4>1
    <3>3. cpc' = [cpc EXCEPT ![d] = "merge"]
      BY <2>2, <3>2 DEF ForceFullCompaction, CGoto
    <3> QED BY <1>0, <3>3 DEF LocalTypes
  <2>3. CASE Merge(d)
    <3>1. ~ CanRead(state, Inputs(task[d])) \/ cpc'[c] # "panicked"
      BY <1>0, <2>3 DEF Merge, CompactionReturns, CGoto, LocalTypes
    <3>2. TaskFits(state, task[d])
      BY <2>0, <2>3 DEF Merge, TaskOK, HasTask
    <3>3. IdsOf(Inputs(task[d])) \subseteq state.sstables
      BY <3>2, InputsThere
    <3> QED BY <3>1, <3>3 DEF CanRead, SomeEmpty
  <2>4. CASE CompactionCopy(d)
    <3>1. TaskFits(state, task[d]) /\ task[d].kind # "full"
      BY <2>0, <2>4 DEF CompactionCopy, TaskOK, HasTask
    <3>2. Applies(state, task[d])
      <4>1. PICK t : t = task[d]
        OBVIOUS
      <4> QED BY <1>0, <3>1, <4>1, TaskApplies DEF InOrder
    <3>3. cpc' = [cpc EXCEPT ![d] = "install"]
      BY <2>4, <3>2 DEF CompactionCopy, CGoto
    <3> QED BY <1>0, <3>3 DEF LocalTypes
  <2>5. CASE CompactionInstall(d) \/ FullInstall(d)
    BY <1>0, <2>5 DEF CompactionInstall, FullInstall, CGoto, LocalTypes
  <2>6. CASE RemoveFiles(d)
    BY <1>0, <2>6 DEF RemoveFiles, CompactionReturns, CGoto, LocalTypes
  <2> QED BY <1>2, <2>1, <2>2, <2>3, <2>4, <2>5, <2>6 DEF CompactionStep
<1> QED BY <1>1, <1>2 DEF CompactionNext

(* What a step that ends without a race knows of both its states.          *)
LEMMA BothStates ==
    ASSUME raced \/ CompInv, [CompactionNext]_compactionVars, ~ raced'
    PROVE  ~ raced /\ CompInv /\ CompInv' /\ (CompactionNext => ~ Races)
<1>1. CASE CompactionNext
  <2>1. ~ raced /\ ~ Races
    BY <1>1 DEF CompactionNext
  <2> QED BY <2>1, CompactionStepInv
<1>2. CASE UNCHANGED compactionVars
  <2>1. ~ raced /\ CompInv
    BY <1>2 DEF compactionVars
  <2>2. CompactionNext => ~ Races
    BY DEF CompactionNext
  <2> QED BY <2>1, <2>2, CompactionStepInv
<1> QED BY <1>1, <1>2

(* The unwraps and the assertions of compact, of trigger_compaction and of *)
(* apply_compaction_result only fail over an SST without an entry, which   *)
(* compact_generate_sst_from_iter builds when only delete markers are left.*)
(* (force_full_compaction reads the first level, which an engine of tiers  *)
(* does not have before its first flush.)                                  *)
THEOREM PanicsOnEmptySstOnly ==
    ASSUME FullCompactors = {} \/ FlushToL0
    PROVE  CompactionSpec => []PanicsOnlyOnEmptySst
<1>1. CompactionInit => PanicsOnlyOnEmptySst
  BY DEF CompactionInit, PanicsOnlyOnEmptySst
<1>2. (raced \/ CompInv) /\ PanicsOnlyOnEmptySst /\ [CompactionNext]_compactionVars
        => PanicsOnlyOnEmptySst'
  <2> SUFFICES ASSUME raced \/ CompInv, PanicsOnlyOnEmptySst, [CompactionNext]_compactionVars,
                      ~ raced', NEW c \in Compactors, cpc'[c] = "panicked"
               PROVE  SomeEmpty'
    BY DEF PanicsOnlyOnEmptySst, SomeEmpty
  <2>1. ~ raced /\ CompInv /\ CompInv' /\ (CompactionNext => ~ Races)
    BY BothStates
  <2>2. SomeEmpty
    BY <2>1, PanicStep DEF PanicsOnlyOnEmptySst, SomeEmpty
  <2>3. CASE CompactionNext
    BY <2>1, <2>2, <2>3, EmptyKept
  <2>4. CASE UNCHANGED compactionVars
    BY <2>2, <2>4 DEF SomeEmpty, compactionVars, vars, engine, CellsOf
  <2> QED BY <2>3, <2>4
<1> QED BY <1>1, <1>2, CompactionInvariant, PTL DEF CompactionSpec

(* What a reader holds in the middle of reading stays as it is.            *)
LEMMA HeldKept ==
    ASSUME CompInv, CompInv', [CompactionNext]_compactionVars, NEW r \in Readers,
           pc[r] = "reading", pc'[r] = "reading"
    PROVE  /\ snapshot'[r] = snapshot[r] /\ read_ts'[r] = read_ts[r]
           /\ \A id \in Ids, x \in Cells : x[2] <= commit_ts =>
                /\ memtables'[id][x] = memtables[id][x]
                /\ Settled(id) => sst_tables'[id][x] = sst_tables[id][x]
<1>0. IInv /\ IInv'
  BY DEF CompInv
<1>1. CASE EngineStep \/ UNCHANGED compactionVars
  <2>1. [Next]_vars
    BY <1>1 DEF EngineStep, compactionVars
  <2>2. ~ ReaderStep(r)
    BY <1>0 DEF ReaderStep, NewTxn, ReadSnapshot, ReadEnd, Goto, IInv, TypeOK, Threads
  <2>3. snapshot'[r] = snapshot[r] /\ read_ts'[r] = read_ts[r]
    BY <1>0, <2>1, <2>2, ReaderFrame
  <2>4. \A id \in Ids, x \in Cells : x[2] <= commit_ts => memtables'[id][x] = memtables[id][x]
    BY <1>0, <2>1, CommittedContentStays
  <2>5. ASSUME NEW id \in Ids, Settled(id), NEW x \in Cells, x[2] <= commit_ts
        PROVE  sst_tables'[id][x] = sst_tables[id][x]
    <3>1. Settled(id)'
      BY <1>0, <2>1, <2>5, SettledStays
    <3>2. sst_tables'[id] = memtables'[id] /\ sst_tables[id] = memtables[id]
      BY <2>5, <3>1 DEF Settled
    <3> QED BY <2>4, <2>5, <3>2
  <2> QED BY <2>3, <2>4, <2>5
<1>2. ASSUME NEW c \in Compactors, CompactionStep(c)
      PROVE  /\ reading' = reading
             /\ \A id \in Ids : memtables'[id] = memtables[id] /\ sst_tables'[id] = sst_tables[id]
  <2>1. CASE Merge(c)
    <3>1. reading' = reading
      BY <2>1 DEF Merge
    <3> QED BY <2>1, <3>1, MergeKeepsSsts
  <2>2. CASE ~ Merge(c)
    <3>1. reading' = reading /\ memtables' = memtables /\ sst_tables' = sst_tables
      BY <1>2, <2>2 DEF CompactionStep, TriggerCompaction, ForceFullCompaction, CompactionCopy,
                        CompactionInstall, FullInstall, RemoveFiles, vars, engine
    <3> QED BY <3>1
  <2> QED BY <2>1, <2>2
<1> QED BY <1>1, <1>2 DEF CompactionNext, reading

(* A reader's Arc of the state keeps giving it what it gave, although its  *)
(* SSTs are replaced while it reads: no flush and no compaction writes to  *)
(* an SST there is, or builds one under an id that was used.               *)
THEOREM SnapshotsStable == CompactionSpec => SnapshotIsStable
<1> DEFINE Stable == \A r \in Readers :
                        ~ raced' /\ pc[r] = "reading" /\ pc'[r] = "reading" =>
                            \A k \in Keys :
                                ValueAt(View(snapshot[r])', k, read_ts[r])
                                    = ValueAt(View(snapshot[r]), k, read_ts[r])
<1>1. (raced \/ CompInv) /\ [CompactionNext]_compactionVars => Stable
  <2> SUFFICES ASSUME raced \/ CompInv, [CompactionNext]_compactionVars, ~ raced',
                      NEW r \in Readers, pc[r] = "reading", pc'[r] = "reading", NEW k \in Keys
               PROVE  ValueAt(View(snapshot[r])', k, read_ts[r])
                        = ValueAt(View(snapshot[r]), k, read_ts[r])
    OBVIOUS
  <2>0. CompInv /\ CompInv'
    BY BothStates
  <2>1. /\ snapshot'[r] = snapshot[r]
        /\ \A id \in Ids, x \in Cells : x[2] <= commit_ts =>
              /\ memtables'[id][x] = memtables[id][x]
              /\ Settled(id) => sst_tables'[id][x] = sst_tables[id][x]
    BY <2>0, HeldKept
  <2>2. /\ read_ts[r] <= commit_ts /\ snapshot[r] \in States /\ IdsNamed(snapshot[r], Ids)
        /\ \A id \in snapshot[r].sstables : Settled(id)
    BY <2>0 DEF CompInv, SnapshotsSettled, SnapshotSettled
  <2>3. /\ commit_ts \in Nat /\ read_ts[r] \in Nat
    <3>1. commit_ts \in 0 .. MaxTs /\ read_ts[r] \in 0 .. MaxTs
      BY <2>0 DEF CompInv, IInv, TypeOK
    <3> QED BY <3>1
  <2>4. PICK s, mems, ssts, mems2, ssts2 :
            /\ s = snapshot[r] /\ mems = memtables /\ ssts = sst_tables
            /\ mems2 = memtables' /\ ssts2 = sst_tables'
    OBVIOUS
  <2>5. View(snapshot[r])' = ViewIn(s, mems2, ssts2) /\ View(snapshot[r]) = ViewIn(s, mems, ssts)
    <3>1. View(snapshot[r]) = ViewIn(snapshot[r], memtables, sst_tables)
      BY DEF View, ViewIn, MemtableLayers, L0Layers, LevelLayers, SstConcatIterator
    <3>2. View(snapshot[r])' = ViewIn(snapshot'[r], memtables', sst_tables')
      BY DEF View, ViewIn, MemtableLayers, L0Layers, LevelLayers, SstConcatIterator
    <3> QED BY <2>1, <2>4, <3>1, <3>2
  <2>6. ASSUME NEW x \in Cells, x[2] <= commit_ts
        PROVE  ViewIn(s, mems, ssts)[x] = ViewIn(s, mems2, ssts2)[x]
    <3>1. \A id \in Ids : mems[id][x] = mems2[id][x]
      BY <2>1, <2>4, <2>6
    <3>2. \A id \in s.sstables : id \in Ids /\ Settled(id)
      BY <2>2, <2>4 DEF Settled
    <3>3. \A id \in s.sstables : ssts[id][x] = ssts2[id][x]
      BY <2>1, <2>4, <2>6, <3>2
    <3> QED BY <2>2, <2>4, <3>1, <3>3, ViewInCell
  <2>7. PICK a, b, ts : /\ a = ViewIn(s, mems2, ssts2) /\ b = ViewIn(s, mems, ssts)
                        /\ ts = read_ts[r]
    OBVIOUS
  <2>8. ASSUME NEW t \in 1 .. MaxTs, t <= ts
        PROVE  a[<<k, t>>] = b[<<k, t>>]
    <3>1. <<k, t>> \in Cells /\ <<k, t>>[2] <= commit_ts
      BY <2>2, <2>3, <2>7, <2>8, TablesAssumption DEF Cells
    <3> QED BY <2>6, <2>7, <3>1
  <2>9. ValueAt(a, k, ts) = ValueAt(b, k, ts)
    BY <2>8, ValueAtAgrees
  <2> QED BY <2>5, <2>7, <2>9
<1> QED BY <1>1, CompactionInvariant, PTL DEF CompactionSpec, SnapshotIsStable

-------------------------------------------------------------------------------
(* What a reader of the current state finds                                *)

(* The cell and the value of the record a writer puts next.                *)
CellPut(w) == <<batch[w][inserted[w] + 1].key, write_ts[w]>>
ValuePut(w) == batch[w][inserted[w] + 1].value

(* A put changes one cell of the active memtable, which no other layer has *)
(* yet: nothing else is written at that timestamp.                         *)
LEMMA PutChanges ==
    ASSUME IInv, CellsPublished, NEW w \in Writers, PutRecord(w)
    PROVE  /\ state' = state /\ state.memtable \in Ids
           /\ \A id \in Ids, x \in Cells :
                ~ (id = state.memtable /\ x = CellPut(w)) =>
                    memtables'[id][x] = memtables[id][x]
           /\ CellPut(w)[2] = commit_ts + 1 /\ commit_ts \in Nat /\ commit_ts' = commit_ts
           /\ \A id \in LayerIds \ {state.memtable} : \A x \in Cells :
                x = CellPut(w) => memtables[id][x] = NoEntry
<1>0. /\ memtables \in [Ids -> Tables] /\ state.memtable \in Ids /\ TypeOK
  BY DEF IInv, TypeOK, IdsInState, IdsNamed
<1>1. /\ pc[w] = "put" /\ state' = state /\ commit_ts' = commit_ts
      /\ memtables' = [memtables EXCEPT ![state.memtable][CellPut(w)] = ValuePut(w)]
  BY DEF PutRecord, CellPut, ValuePut, mvcc
<1>2. commit_ts \in Nat /\ InWrite(w) /\ write_ts[w] = commit_ts + 1
  <2>1. commit_ts \in 0 .. MaxTs
    BY <1>0 DEF TypeOK
  <2>2. InWrite(w)
    BY <1>1 DEF InWrite
  <2> QED BY <2>1, <2>2 DEF IInv, WriteInProgress
<1>3. CellPut(w)[2] = commit_ts + 1
  BY <1>2 DEF CellPut
<1>4. ASSUME NEW id \in Ids, NEW x \in Cells, ~ (id = state.memtable /\ x = CellPut(w))
      PROVE  memtables'[id][x] = memtables[id][x]
  <2> DEFINE old == memtables[state.memtable]
             new == [old EXCEPT ![CellPut(w)] = ValuePut(w)]
  <2>1. memtables' = [memtables EXCEPT ![state.memtable] = new]
    BY <1>1
  <2>2. DOMAIN old = Cells
    BY <1>0 DEF Tables
  <2> HIDE DEF old
  <2>3. x # CellPut(w) => new[x] = old[x]
    BY <1>4, <2>2
  <2> HIDE DEF new
  <2>4. CASE id = state.memtable
    <3>1. memtables'[id] = new /\ memtables[id] = old
      BY <1>0, <2>1, <2>4 DEF old
    <3> QED BY <1>4, <2>3, <2>4, <3>1
  <2>5. CASE id # state.memtable
    BY <1>0, <1>4, <2>1, <2>5
  <2> QED BY <2>4, <2>5
<1>5. ~ Publishing
  <2>1. \A u \in Writers : pc[u] = "commit" => u = w
    BY <1>2, OneWrite DEF InWrite
  <2> QED BY <1>1, <2>1 DEF Publishing
<1>6. ASSUME NEW id \in LayerIds \ {state.memtable}, NEW x \in Cells, x = CellPut(w)
      PROVE  memtables[id][x] = NoEntry
  <2>1. ~ (x[2] <= commit_ts)
    BY <1>2, <1>3, <1>6
  <2> QED BY <1>5, <1>6, <2>1 DEF CellsPublished
<1> QED BY <1>0, <1>1, <1>2, <1>3, <1>4, <1>6

(* Nothing but a put changes a memtable that exists.                       *)
LEMMA OnlyPutsChange ==
    ASSUME IInv, [Next]_vars, \A w \in Writers : ~ PutRecord(w)
    PROVE  \A id \in Ids : memtables'[id] = memtables[id]
<1> DEFINE Goal == \A id \in Ids : memtables'[id] = memtables[id]
<1>0. next_sst_id \in Nat
  BY DEF IInv, TypeOK
<1> USE DEF engine
<1>1. ASSUME NEW w \in Writers, WriterStep(w)
      PROVE  Goal
  BY <1>1 DEF WriterStep, Commit, WriteBegin, TryFreeze
<1>2. ASSUME NEW t \in Freezers, FreezeStep(t)
      PROVE  Goal
  <2>1. FreezeLock(t) \/ FreezeRecord(t) \/ FreezeFails(t) \/ FreezeSwap(t) => Goal
    BY DEF FreezeLock, FreezeRecord, FreezeFails, FreezeSwap
  <2>2. FreezeCopy(t) => Goal
    BY <1>0 DEF FreezeCopy, AllocateId, Ids
  <2> HIDE DEF Goal
  <2> QED BY <1>2, <2>1, <2>2 DEF FreezeStep
<1>3. ASSUME NEW f \in Forcers, ForceFlush(f) \/ ForceFlushCheck(f)
      PROVE  Goal
  BY <1>3 DEF ForceFlush, ForceFlushCheck
<1>4. ASSUME TriggerFlush
      PROVE  Goal
  BY <1>4 DEF TriggerFlush
<1>5. ASSUME NEW t \in Flushers, FlushStep(t)
      PROVE  Goal
  BY <1>5 DEF FlushStep, FlushPick, FlushBuild, FlushFails, FlushLock, FlushInstall,
              FlushPanics
<1>6. ASSUME NEW r \in Readers, ReaderStep(r)
      PROVE  Goal
  BY <1>6 DEF ReaderStep, NewTxn, ReadSnapshot, ReadEnd
<1>7. ASSUME UNCHANGED vars
      PROVE  Goal
  BY <1>7 DEF vars
<1> HIDE DEF Goal
<1>8. Goal
  BY <1>1, <1>2, <1>3, <1>4, <1>5, <1>6, <1>7 DEF Next
<1> QED BY <1>8 DEF Goal

(* The engine adds no layer but the empty memtable a freeze puts on top,   *)
(* and takes none away.                                                    *)
LEMMA LayersStep ==
    ASSUME IInv, [Next]_vars
    PROVE  /\ LayerIds \subseteq Ids
           /\ \A id \in LayerIds' \ LayerIds : memtables'[id] = EmptyTable
           /\ \/ state'.memtable = state.memtable /\ LayerIds' \subseteq LayerIds
              \/ \E t \in Freezers : FreezeSwap(t)
<1>0. LayerIds \subseteq Ids /\ state \in States
  BY DEF LayerIds, IInv, TypeOK, IdsInState, IdsNamed, IdsOf
<1>1. ASSUME state' = state
      PROVE  LayerIds' = LayerIds /\ state'.memtable = state.memtable
  BY <1>1 DEF LayerIds
<1>2. ASSUME NEW t \in Freezers, FreezeSwap(t)
      PROVE  \A id \in LayerIds' \ LayerIds : memtables'[id] = EmptyTable
  <2>1. PICK new : state' = Frozen(state, new) /\ memtables[new] = EmptyTable
                   /\ new \in Ids
    BY <1>2 DEF IInv, CopyIsCurrent, Preparing, FreezeSwap
  <2>2. new \in Nat /\ memtables' = memtables
    BY <1>2, <2>1 DEF Ids, FreezeSwap
  <2>3. /\ state'.memtable = new /\ state'.sstables = state.sstables
        /\ state'.imm_memtables = InsertFirst(state.memtable, state.imm_memtables)
    BY <1>0, <2>1, <2>2, FrozenType
  <2>4. IdsOf(state'.imm_memtables) = IdsOf(state.imm_memtables) \cup {state.memtable}
    <3>1. PICK imm, N : imm = state.imm_memtables /\ N = Nat
      OBVIOUS
    <3>2. imm \in Seq(N) /\ state.memtable \in N
      BY <1>0, <3>1 DEF States
    <3> QED BY <2>3, <3>1, <3>2, InsertFirstIds
  <2> QED BY <2>1, <2>2, <2>3, <2>4 DEF LayerIds
<1>3. ASSUME NEW t \in Flushers, FlushInstall(t)
      PROVE  LayerIds' \subseteq LayerIds /\ state'.memtable = state.memtable
  <2>1. /\ flush_id[t] \in Nat /\ state.imm_memtables # <<>>
        /\ Last(state.imm_memtables) = flush_id[t]
        /\ state' = Flushed(state, flush_id[t])
    <3>1. /\ pc[t] = "flush_install" /\ state' = Flushed(state, flush_id[t])
          /\ state.imm_memtables # <<>> /\ Last(state.imm_memtables) = flush_id[t]
      BY <1>3 DEF FlushInstall, FlushIsOldest
    <3>2. flush_id[t] \in Ids /\ next_sst_id \in Nat
      BY <3>1 DEF IInv, FlushingIsFrozen, TypeOK
    <3> QED BY <3>1, <3>2 DEF Ids
  <2>2. /\ state'.memtable = state.memtable
        /\ state'.imm_memtables = Front(state.imm_memtables)
        /\ state'.sstables = state.sstables \cup {flush_id[t]}
    BY <1>0, <2>1, FlushedType
  <2>3. PICK imm : imm = state.imm_memtables
    OBVIOUS
  <2>4. imm \in Seq(Nat) /\ imm # <<>>
    BY <1>0, <2>1, <2>3 DEF States
  <2>5. IdsOf(Front(imm)) \subseteq IdsOf(imm) /\ Last(imm) \in IdsOf(imm)
    <3>1. IdsOf(Front(imm)) \subseteq IdsOf(imm)
      BY <2>4, FrontElements DEF IdsOf
    <3>2. Last(imm) = imm[Len(imm)] /\ Len(imm) \in DOMAIN imm
      BY <2>4 DEF Last
    <3> QED BY <3>1, <3>2 DEF IdsOf
  <2> QED BY <2>1, <2>2, <2>3, <2>5 DEF LayerIds
<1> QED BY <1>0, <1>1, <1>2, <1>3, StateStep

(* An entry found after a step of the engine was there before it, or was   *)
(* just put.                                                               *)
LEMMA EntriesFound ==
    ASSUME IInv, CellsPublished, [Next]_vars, NEW id \in LayerIds', NEW x \in Cells,
           memtables'[id][x] # NoEntry
    PROVE  /\ id \in LayerIds
           /\ \/ memtables'[id][x] = memtables[id][x]
              \/ id = state.memtable /\ \E w \in Writers : PutRecord(w) /\ x = CellPut(w)
<1>1. id \in LayerIds /\ id \in Ids
  <2>1. EmptyTable[x] = NoEntry
    BY DEF EmptyTable
  <2> QED BY <2>1, LayersStep
<1>2. ASSUME NEW w \in Writers, PutRecord(w)
      PROVE  memtables'[id][x] = memtables[id][x] \/ (id = state.memtable /\ x = CellPut(w))
  BY <1>1, <1>2, PutChanges
<1>3. CASE \A w \in Writers : ~ PutRecord(w)
  BY <1>1, <1>3, OnlyPutsChange
<1> QED BY <1>1, <1>2, <1>3

(* So no two layers come to disagree...                                    *)
LEMMA HoldersAgreeStep ==
    ASSUME IInv, CellsPublished, HoldersAgree, [Next]_vars
    PROVE  HoldersAgree'
<1> SUFFICES ASSUME NEW x \in Cells, NEW i \in LayerIds', NEW j \in LayerIds',
                    memtables'[i][x] # NoEntry, memtables'[j][x] # NoEntry
             PROVE  memtables'[i][x] = memtables'[j][x]
  BY DEF HoldersAgree
<1>1. /\ i \in LayerIds /\ j \in LayerIds
      /\ \/ memtables'[i][x] = memtables[i][x]
         \/ i = state.memtable /\ \E w \in Writers : PutRecord(w) /\ x = CellPut(w)
      /\ \/ memtables'[j][x] = memtables[j][x]
         \/ j = state.memtable /\ \E w \in Writers : PutRecord(w) /\ x = CellPut(w)
  BY EntriesFound
<1>2. CASE memtables'[i][x] = memtables[i][x] /\ memtables'[j][x] = memtables[j][x]
  BY <1>1, <1>2 DEF HoldersAgree
<1>3. ASSUME NEW w \in Writers, PutRecord(w), x = CellPut(w)
      PROVE  i = state.memtable /\ j = state.memtable
  BY <1>1, <1>3, PutChanges, LayersStep
<1> QED BY <1>1, <1>2, <1>3

(* A step that moves no timestamp leaves a write about to be published one.*)
LEMMA PublishStep ==
    ASSUME IInv, [Next]_vars
    PROVE  /\ commit_ts \in Nat
           /\ \/ commit_ts' = commit_ts /\ (Publishing => Publishing')
              \/ commit_ts' = commit_ts + 1
           /\ \A t \in Freezers : FreezeSwap(t) => commit_ts' = commit_ts
<1> DEFINE Calm == commit_ts' = commit_ts
           Goal == (Calm /\ (Publishing => Publishing')) \/ commit_ts' = commit_ts + 1
<1>0. /\ pc \in [Threads -> PcLabels] /\ commit_ts \in Nat
      /\ Writers \cap Flushers = {} /\ Writers \cap Readers = {} /\ Writers \cap Forcers = {}
      /\ Writers \subseteq Threads
  <2>1. commit_ts \in 0 .. MaxTs /\ pc \in [Threads -> PcLabels]
    BY DEF IInv, TypeOK
  <2> QED BY <2>1, StorageAssumption DEF Threads, Flushers
<1>1. (\A w \in Writers : pc[w] = "commit" => pc'[w] = "commit") => (Publishing => Publishing')
  BY DEF Publishing
<1> USE DEF mvcc, Goto
<1>2. ASSUME NEW w \in Writers, WriteBegin(w) \/ PutRecord(w) \/ TryFreeze(w)
      PROVE  Goal
  <2>1. /\ commit_ts' = commit_ts
        /\ \A u \in Writers : pc[u] = "commit" => pc'[u] = "commit"
    BY <1>0, <1>2 DEF WriteBegin, PutRecord, TryFreeze
  <2> QED BY <1>1, <2>1
<1>3. ASSUME NEW w \in Writers, Commit(w)
      PROVE  Goal
  <2>1. commit_ts' = write_ts[w] /\ pc[w] = "commit"
    BY <1>3 DEF Commit
  <2>2. write_ts[w] = commit_ts + 1
    BY <2>1 DEF IInv, WriteInProgress, InWrite
  <2> QED BY <2>1, <2>2
<1>4. ASSUME NEW t \in Freezers, FreezeStep(t)
      PROVE  Goal
  <2>1. /\ commit_ts' = commit_ts
        /\ \A u \in Writers : pc[u] = "commit" => pc'[u] = "commit"
    BY <1>0, <1>4 DEF FreezeStep, FreezeLock, FreezeCopy, FreezeRecord, FreezeFails, FreezeSwap
  <2> QED BY <1>1, <2>1
<1>5. ASSUME NEW f \in Forcers, ForceFlush(f) \/ ForceFlushCheck(f)
      PROVE  Goal
  <2>1. /\ commit_ts' = commit_ts
        /\ \A u \in Writers : pc[u] = "commit" => pc'[u] = "commit"
    BY <1>0, <1>5 DEF ForceFlush, ForceFlushCheck
  <2> QED BY <1>1, <2>1
<1>6. ASSUME TriggerFlush
      PROVE  Goal
  <2>1. /\ commit_ts' = commit_ts
        /\ \A u \in Writers : pc[u] = "commit" => pc'[u] = "commit"
    BY <1>0, <1>6 DEF TriggerFlush, Flushers
  <2> QED BY <1>1, <2>1
<1>7. ASSUME NEW t \in Flushers, FlushStep(t)
      PROVE  Goal
  <2>1. /\ commit_ts' = commit_ts
        /\ \A u \in Writers : pc[u] = "commit" => pc'[u] = "commit"
    BY <1>0, <1>7 DEF FlushStep, FlushPick, FlushBuild, FlushFails, FlushLock, FlushInstall,
                      FlushPanics
  <2> QED BY <1>1, <2>1
<1>8. ASSUME NEW r \in Readers, ReaderStep(r)
      PROVE  Goal
  <2>1. /\ commit_ts' = commit_ts
        /\ \A u \in Writers : pc[u] = "commit" => pc'[u] = "commit"
    BY <1>0, <1>8 DEF ReaderStep, NewTxn, ReadSnapshot, ReadEnd
  <2> QED BY <1>1, <2>1
<1>9. UNCHANGED vars => Goal
  BY <1>1 DEF vars
<1> HIDE DEF Goal
<1>10. Goal
  BY <1>2, <1>3, <1>4, <1>5, <1>6, <1>7, <1>8, <1>9 DEF Next, WriterStep
<1>11. \A t \in Freezers : FreezeSwap(t) => Calm
  BY DEF FreezeSwap
<1> QED BY <1>0, <1>10, <1>11 DEF Goal

(* ...and what is beyond the commit timestamp stays on top.                *)
LEMMA CellsPublishedEngine ==
    ASSUME IInv, CellsPublished, Forcers = {}, [Next]_vars
    PROVE  CellsPublished'
<1>0. pc \in [Threads -> PcLabels] /\ Freezers = Writers /\ Writers \subseteq Threads
  BY DEF IInv, TypeOK, Freezers, Threads
<1> SUFFICES ASSUME NEW id \in LayerIds', NEW x \in Cells, memtables'[id][x] # NoEntry
             PROVE  \/ x[2] <= commit_ts'
                    \/ (id = state'.memtable \/ Publishing') /\ x[2] = commit_ts' + 1
  BY DEF CellsPublished
<1>1. /\ commit_ts \in Nat /\ x[2] \in Nat
      /\ \/ commit_ts' = commit_ts /\ (Publishing => Publishing')
         \/ commit_ts' = commit_ts + 1
  BY PublishStep, TablesAssumption DEF Cells
<1>2. /\ id \in LayerIds
      /\ \/ memtables'[id][x] = memtables[id][x]
         \/ id = state.memtable /\ \E w \in Writers : PutRecord(w) /\ x = CellPut(w)
  BY EntriesFound
<1>3. \/ x[2] <= commit_ts
      \/ (id = state.memtable \/ Publishing) /\ x[2] = commit_ts + 1
  <2>1. CASE memtables'[id][x] = memtables[id][x]
    BY <1>2, <2>1 DEF CellsPublished
  <2>2. ASSUME NEW w \in Writers, PutRecord(w), x = CellPut(w), id = state.memtable
        PROVE  x[2] = commit_ts + 1
    BY <2>2, PutChanges
  <2> QED BY <1>2, <2>1, <2>2
<1>4. CASE commit_ts' = commit_ts + 1
  BY <1>1, <1>3, <1>4
<1>5. ASSUME commit_ts' = commit_ts, NEW t \in Freezers, FreezeSwap(t)
      PROVE  x[2] <= commit_ts' \/ (Publishing' /\ x[2] = commit_ts' + 1)
  <2>1. pc'[t] = "commit" /\ t \in Writers
    BY <1>0, <1>5 DEF FreezeSwap, Goto
  <2> QED BY <1>3, <1>5, <2>1 DEF Publishing
<1>6. CASE commit_ts' = commit_ts /\ (Publishing => Publishing')
           /\ state'.memtable = state.memtable
  BY <1>3, <1>6
<1> QED BY <1>1, <1>4, <1>5, <1>6, LayersStep

(* What a compactor's step leaves in the layers: nothing new, and of what  *)
(* was there all but delete markers.                                       *)
OnlyTombstonesLost ==
    \A x \in Cells :
        /\ \A j \in LayerIds' : memtables'[j][x] # NoEntry =>
                \E i \in LayerIds : /\ memtables[i][x] = memtables'[j][x]
                                    /\ i = state.memtable => j = state'.memtable
        /\ (\E i \in LayerIds : memtables[i][x] # NoEntry) =>
                \/ \E j \in LayerIds' : memtables'[j][x] # NoEntry
                \/ \E i \in LayerIds : memtables[i][x] = Tombstone

(* Every step of a compactor is of that kind; only an installation moves   *)
(* layers.                                                                 *)
LEMMA CompactorLoses ==
    ASSUME CompInv, NEW c \in Compactors, CompactionStep(c), ~ Races
    PROVE  /\ OnlyTombstonesLost
           /\ commit_ts' = commit_ts /\ pc' = pc
<1>0. /\ IInv /\ TypeOK /\ InOrder(state) /\ state \in States
      /\ state.memtable \notin state.sstables /\ LayerIds \subseteq Ids
  <2>1. IInv /\ TypeOK /\ InOrder(state) /\ state \in States
    BY DEF CompInv, IInv, TypeOK
  <2>2. IdsNamed(state, Ids)
    BY <2>1 DEF IInv, IdsInState
  <2> QED BY <2>1, <2>2 DEF IdsNamed, LayerIds, IdsOf
<1>1. ASSUME state' = state, \A id \in Ids : memtables'[id] = memtables[id]
      PROVE  OnlyTombstonesLost
  <2>1. LayerIds' = LayerIds
    BY <1>1 DEF LayerIds
  <2>2. \A id \in LayerIds : memtables'[id] = memtables[id]
    BY <1>0, <1>1
  <2> QED BY <1>1, <2>1, <2>2 DEF OnlyTombstonesLost
<1>2. CASE TriggerCompaction(c) \/ ForceFullCompaction(c) \/ CompactionCopy(c)
           \/ RemoveFiles(c)
  <2>1. state' = state /\ memtables' = memtables /\ commit_ts' = commit_ts /\ pc' = pc
    BY <1>2 DEF TriggerCompaction, ForceFullCompaction, CompactionCopy, RemoveFiles,
                vars, engine, mvcc
  <2> QED BY <1>1, <2>1
<1>3. CASE Merge(c)
  <2>1. state' = state /\ \A id \in Ids : memtables'[id] = memtables[id]
    <3>1. state' = state
      BY <1>3 DEF Merge
    <3> QED BY <1>3, <3>1, MergeKeepsSsts
  <2>2. commit_ts' = commit_ts /\ pc' = pc
    BY <1>3 DEF Merge, mvcc
  <2> QED BY <1>1, <2>1, <2>2
<1>4. CASE CompactionInstall(c) \/ FullInstall(c)
  <2>1. /\ TaskFits(state, task[c]) /\ Produced(c)
        /\ state'.sstables = (state.sstables \ IdsOf(Inputs(task[c]))) \cup IdsOf(output[c])
        /\ state'.memtable = state.memtable /\ state'.imm_memtables = state.imm_memtables
    BY <1>4, Installs DEF Replaces
  <2>2. memtables' = memtables /\ commit_ts' = commit_ts /\ pc' = pc
    BY <1>4 DEF CompactionInstall, FullInstall, mvcc
  <2>3. PICK ins, outs : ins = IdsOf(Inputs(task[c])) /\ outs = IdsOf(output[c])
    OBVIOUS
  <2>4. SameCells(ins, outs) /\ ins \subseteq state.sstables
    <3>1. ins \subseteq state.sstables
      BY <2>1, <2>3, InputsThere
    <3> QED BY <2>1, <2>3, <3>1 DEF Produced
  <2>6. outs \subseteq LayerIds' /\ LayerIds' \subseteq LayerIds \cup outs
        /\ LayerIds \ ins \subseteq LayerIds' /\ ins \subseteq LayerIds
    BY <2>1, <2>3, <2>4 DEF LayerIds
  <2>7. ASSUME NEW x \in Cells, NEW j \in LayerIds', memtables'[j][x] # NoEntry
        PROVE  \E i \in LayerIds : /\ memtables[i][x] = memtables'[j][x]
                                   /\ i = state.memtable => j = state'.memtable
    <3>1. CASE j \in LayerIds
      BY <2>1, <2>2, <3>1
    <3>2. CASE j \in outs
      <4>1. PICK i \in ins : memtables[i][x] = memtables[j][x]
        BY <2>2, <2>4, <2>7, <3>2 DEF SameCells
      <4>2. i \in LayerIds /\ i # state.memtable
        BY <1>0, <2>4, <2>6
      <4> QED BY <2>2, <4>1, <4>2
    <3> QED BY <2>6, <2>7, <3>1, <3>2
  <2>8. ASSUME NEW x \in Cells, NEW k \in LayerIds, memtables[k][x] # NoEntry
        PROVE  \/ \E j \in LayerIds' : memtables'[j][x] # NoEntry
               \/ \E i \in LayerIds : memtables[i][x] = Tombstone
    <3>1. CASE k \notin ins
      BY <2>2, <2>6, <2>8, <3>1
    <3>2. CASE k \in ins
      <4>1. \/ \E o \in outs : memtables[o][x] # NoEntry
            \/ \E i \in ins : memtables[i][x] = Tombstone
        BY <2>4, <2>8, <3>2 DEF SameCells
      <4> QED BY <2>2, <2>6, <4>1
    <3> QED BY <3>1, <3>2
  <2> QED BY <2>2, <2>7, <2>8 DEF OnlyTombstonesLost
<1> QED BY <1>2, <1>3, <1>4 DEF CompactionStep

(* The layers hold what was published, and agree on it.                    *)
ContentInv == CompInv /\ CellsPublished /\ HoldersAgree

LEMMA ContentStep ==
    ASSUME Forcers = {}, ContentInv, CompInv', [CompactionNext]_compactionVars,
           CompactionNext => ~ Races
    PROVE  ContentInv'
<1>0. CompInv /\ IInv /\ CellsPublished /\ HoldersAgree /\ CompInv'
  BY DEF ContentInv, CompInv
<1>1. CASE EngineStep \/ UNCHANGED compactionVars
  <2>1. [Next]_vars
    BY <1>1 DEF EngineStep, compactionVars
  <2> QED BY <1>0, <2>1, CellsPublishedEngine, HoldersAgreeStep DEF ContentInv
<1>2. ASSUME NEW c \in Compactors, CompactionStep(c), ~ Races
      PROVE  CellsPublished' /\ HoldersAgree'
  <2>1. OnlyTombstonesLost /\ commit_ts' = commit_ts /\ pc' = pc
    BY <1>0, <1>2, CompactorLoses
  <2>2. Publishing => Publishing'
    BY <2>1 DEF Publishing
  <2>3. CellsPublished'
    <3> SUFFICES ASSUME NEW j \in LayerIds', NEW x \in Cells, memtables'[j][x] # NoEntry
                 PROVE  \/ x[2] <= commit_ts'
                        \/ (j = state'.memtable \/ Publishing') /\ x[2] = commit_ts' + 1
      BY DEF CellsPublished
    <3>1. PICK i \in LayerIds : /\ memtables[i][x] = memtables'[j][x]
                                /\ i = state.memtable => j = state'.memtable
      BY <2>1 DEF OnlyTombstonesLost
    <3> QED BY <1>0, <2>1, <2>2, <3>1 DEF CellsPublished
  <2>4. HoldersAgree'
    <3> SUFFICES ASSUME NEW x \in Cells, NEW i \in LayerIds', NEW j \in LayerIds',
                        memtables'[i][x] # NoEntry, memtables'[j][x] # NoEntry
                 PROVE  memtables'[i][x] = memtables'[j][x]
      BY DEF HoldersAgree
    <3>1. /\ \E a \in LayerIds : memtables[a][x] = memtables'[i][x]
          /\ \E b \in LayerIds : memtables[b][x] = memtables'[j][x]
      BY <2>1 DEF OnlyTombstonesLost
    <3> QED BY <1>0, <3>1 DEF HoldersAgree
  <2> QED BY <2>3, <2>4
<1> QED BY <1>0, <1>1, <1>2 DEF CompactionNext, ContentInv

(* Every SST of the map is in a list, where a reader looks for it.         *)
LEMMA ListedApart ==
    CompInv => SstsListed
<1> SUFFICES ASSUME CompInv, NEW id \in state.sstables
             PROVE  \/ id \in IdsOf(state.l0_sstables)
                    \/ \E i \in DOMAIN state.levels : id \in IdsOf(state.levels[i][2])
  BY DEF SstsListed
<1>1. id \in Listed(state)
  BY DEF CompInv, InOrder, ListsApart
<1> QED BY <1>1 DEF Listed

(* No step of a compaction loses, changes or brings back a version of a    *)
(* key that a reader of the current state would find, but for the delete   *)
(* markers dropped at the bottom.  It asks for no force_flush, which can   *)
(* freeze a memtable in the middle of a batch.                             *)
THEOREM OnlyTombstonesDropped ==
    ASSUME Forcers = {}
    PROVE  CompactionSpec => OnlyDropsTombstones
<1> DEFINE Kept == \A c \in Cells :
                      cpc' # cpc /\ ~ raced' =>
                          \/ View(state)'[c] = View(state)[c]
                          \/ View(state)[c] = Tombstone /\ View(state)'[c] = NoEntry
<1>1. CompactionInit => raced \/ ContentInv
  <2> SUFFICES ASSUME CompactionInit PROVE ContentInv
    OBVIOUS
  <2>1. CompInv
    BY CompactionInitInv
  <2>2. /\ state = InitState /\ memtables = [id \in {0} |-> EmptyTable]
    BY DEF CompactionInit, Init
  <2>3. LayerIds = {0}
    BY <2>2 DEF LayerIds, InitState, IdsOf
  <2>4. \A id \in LayerIds, x \in Cells : memtables[id][x] = NoEntry
    BY <2>2, <2>3 DEF EmptyTable
  <2> QED BY <2>1, <2>4 DEF ContentInv, CellsPublished, HoldersAgree
<1>2. (raced \/ ContentInv) /\ [CompactionNext]_compactionVars => (raced \/ ContentInv)'
  <2> SUFFICES ASSUME raced \/ ContentInv, [CompactionNext]_compactionVars, ~ raced'
               PROVE  ContentInv'
    OBVIOUS
  <2>1. ~ raced /\ CompInv /\ CompInv' /\ (CompactionNext => ~ Races)
    BY BothStates DEF ContentInv
  <2> QED BY <2>1, ContentStep
<1>3. (CompInv => SstsListed)'
  BY ListedApart, PTL
<1>4. (raced \/ ContentInv) /\ (raced \/ ContentInv)' /\ [CompactionNext]_compactionVars => Kept
  <2> SUFFICES ASSUME raced \/ ContentInv, ContentInv', [CompactionNext]_compactionVars,
                      cpc' # cpc, ~ raced', NEW x \in Cells
               PROVE  \/ View(state)'[x] = View(state)[x]
                      \/ View(state)[x] = Tombstone /\ View(state)'[x] = NoEntry
    OBVIOUS
  <2>0. ContentInv /\ CompInv /\ (CompactionNext => ~ Races)
    BY BothStates DEF ContentInv
  <2>1. PICK c \in Compactors : CompactionStep(c) /\ ~ Races
    BY <2>0 DEF CompactionNext, EngineStep, compactionVars, compaction
  <2>2. OnlyTombstonesLost /\ HoldersAgree
    BY <2>0, <2>1, CompactorLoses DEF ContentInv
  <2>3. /\ View(state)[x] # NoEntry => \E id \in LayerIds : memtables[id][x] = View(state)[x]
        /\ \A id \in LayerIds : memtables[id][x] # NoEntry => View(state)[x] # NoEntry
    BY <2>0, ListedApart, ViewHolder DEF CompInv
  <2>4. /\ View(state)'[x] # NoEntry => \E id \in LayerIds' : memtables'[id][x] = View(state)'[x]
        /\ \A id \in LayerIds' : memtables'[id][x] # NoEntry => View(state)'[x] # NoEntry
    <3>1. IInv' /\ SstsListed'
      BY <1>3 DEF ContentInv, CompInv
    <3> QED BY <3>1, ViewHolderNext
  <2>5. CASE View(state)'[x] # NoEntry
    <3>1. PICK j \in LayerIds' : memtables'[j][x] = View(state)'[x]
      BY <2>4, <2>5
    <3>2. PICK i \in LayerIds : memtables[i][x] = memtables'[j][x]
      BY <2>2, <2>5, <3>1 DEF OnlyTombstonesLost
    <3>3. PICK k \in LayerIds : memtables[k][x] = View(state)[x] /\ View(state)[x] # NoEntry
      BY <2>3, <2>5, <3>1, <3>2
    <3> QED BY <2>2, <2>5, <3>1, <3>2, <3>3 DEF HoldersAgree
  <2>6. CASE View(state)'[x] = NoEntry /\ View(state)[x] # NoEntry
    <3>1. PICK k \in LayerIds : memtables[k][x] = View(state)[x]
      BY <2>3, <2>6
    <3>2. ~ \E j \in LayerIds' : memtables'[j][x] # NoEntry
      BY <2>4, <2>6
    <3>3. PICK i \in LayerIds : memtables[i][x] = Tombstone
      BY <2>2, <2>6, <3>1, <3>2 DEF OnlyTombstonesLost
    <3>4. View(state)[x] = Tombstone
      BY <2>2, <2>6, <3>1, <3>3, TablesAssumption DEF HoldersAgree
    <3> QED BY <2>6, <3>4
  <2> QED BY <2>5, <2>6
<1> QED BY <1>1, <1>2, <1>4, PTL DEF CompactionSpec, OnlyDropsTombstones
===============================================================================
