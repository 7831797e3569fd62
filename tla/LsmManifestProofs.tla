---------------------------- MODULE LsmManifestProofs ----------------------------
(***************************************************************************)
(* The manifest always says what the state is: replaying it lists the SSTs *)
(* of L0 and the memtables in the order of the live state.                 *)
(***************************************************************************)
EXTENDS LsmStorageProofs

-------------------------------------------------------------------------------
(* Sets of positions and the lists they stand for                          *)

(* p runs through the positions in at, the last first.                     *)
Enumerates(p, n, at) ==
    /\ p \in [1 .. n -> at]
    /\ \A i, j \in 1 .. n : i < j => p[i] > p[j]
    /\ \A m \in at : \E i \in 1 .. n : p[i] = m

(* s holds the ids at those positions, the id of the last position first.  *)
Lists(s, at, id) ==
    \E p : Enumerates(p, Len(s), at) /\ \A i \in 1 .. Len(s) : s[i] = id[p[i]]

(* There is one such enumeration: let i be the first place where two of    *)
(* them differ; the larger of the two positions is nowhere in the other.   *)
LEMMA EnumerationUnique ==
    ASSUME NEW at \in SUBSET Nat, NEW n \in Nat, NEW p, NEW q,
           Enumerates(p, n, at), Enumerates(q, n, at)
    PROVE  p = q
<1> DEFINE differ == {i \in 1 .. n : p[i] # q[i]}
<1>0. /\ p \in [1 .. n -> at] /\ q \in [1 .. n -> at]
      /\ \A i, j \in 1 .. n : i < j => p[i] > p[j] /\ q[i] > q[j]
      /\ \A m \in at : \E i \in 1 .. n : p[i] = m
      /\ \A m \in at : \E i \in 1 .. n : q[i] = m
  BY DEF Enumerates
<1>1. ASSUME differ # {}
      PROVE  FALSE
  <2>1. PICK i \in differ : \A j \in differ : i <= j
    <3>1. differ \in SUBSET Nat
      OBVIOUS
    <3> HIDE DEF differ
    <3> QED BY <1>1, <3>1, NatLeast
  <2>2. i \in 1 .. n /\ p[i] \in Nat /\ q[i] \in Nat /\ p[i] # q[i]
    BY <1>0
  <2>3. \A j \in 1 .. n : j < i => p[j] = q[j]
    BY <2>1, <2>2
  <2>4. PICK j \in 1 .. n : p[j] = q[i]
    BY <1>0, <2>2
  <2>5. PICK k \in 1 .. n : q[k] = p[i]
    BY <1>0, <2>2
  <2>6. j > i
    <3>1. j # i
      BY <2>2, <2>4
    <3>2. ~ (j < i)
      <4> SUFFICES ASSUME j < i PROVE FALSE
        OBVIOUS
      <4>1. q[j] = q[i] /\ q[j] > q[i]
        BY <1>0, <2>2, <2>3, <2>4
      <4> QED BY <2>2, <4>1
    <3> QED BY <2>2, <3>1, <3>2
  <2>7. k > i
    <3>1. k # i
      BY <2>2, <2>5
    <3>2. ~ (k < i)
      <4> SUFFICES ASSUME k < i PROVE FALSE
        OBVIOUS
      <4>1. p[k] = p[i] /\ p[k] > p[i]
        BY <1>0, <2>2, <2>3, <2>5
      <4> QED BY <2>2, <4>1
    <3> QED BY <2>2, <3>1, <3>2
  <2>8. p[i] > p[j] /\ q[i] > q[k]
    BY <1>0, <2>2, <2>6, <2>7
  <2> QED BY <2>2, <2>4, <2>5, <2>8
<1>2. \A i \in 1 .. n : p[i] = q[i]
  BY <1>1
<1> QED BY <1>0, <1>2

(* So Descending finds it.                                                 *)
LEMMA DescendingIs ==
    ASSUME NEW at \in SUBSET Nat, NEW n \in Nat, NEW p, Enumerates(p, n, at)
    PROVE  Cardinality(at) = n /\ IsFiniteSet(at) /\ Descending(at) = p
<1>0. /\ p \in [1 .. n -> at]
      /\ \A i, j \in 1 .. n : i < j => p[i] > p[j]
      /\ \A m \in at : \E i \in 1 .. n : p[i] = m
  BY DEF Enumerates
<1>1. ASSUME NEW q \in [1 .. n -> at], \A i, j \in 1 .. n : i < j => q[i] > q[j]
      PROVE  q \in Injection(1 .. n, at)
  <2>1. ASSUME NEW i \in 1 .. n, NEW j \in 1 .. n, i # j
        PROVE  q[i] # q[j]
    <3>1. q[i] \in Nat /\ q[j] \in Nat
      OBVIOUS
    <3>2. CASE i < j
      BY <1>1, <3>1, <3>2
    <3>3. CASE j < i
      BY <1>1, <3>1, <3>3
    <3> QED BY <2>1, <3>2, <3>3
  <2> QED BY <2>1 DEF Injection, IsInjective
<1>2. p \in Injection(1 .. n, at) /\ p \in Surjection(1 .. n, at)
  BY <1>0, <1>1 DEF Surjection
<1>3. ExistsBijection(1 .. n, at)
  BY <1>2 DEF ExistsBijection, Bijection
<1>4. IsFiniteSet(1 .. n) /\ Cardinality(1 .. n) = n
  BY FS_Interval
<1>5. IsFiniteSet(at) /\ Cardinality(at) = n
  BY <1>3, <1>4, FS_Bijection
<1> DEFINE Down(q) == \A i, j \in 1 .. n : i < j => q[i] > q[j]
<1>6. ASSUME NEW q \in [1 .. n -> at], Down(q)
      PROVE  q = p
  <2>1. q \in Injection(1 .. n, at)
    BY <1>1, <1>6
  <2>2. q \in Surjection(1 .. n, at)
    BY <1>4, <1>5, <2>1, FS_Injection
  <2>3. Enumerates(q, n, at)
    BY <1>6, <2>2 DEF Enumerates, Surjection
  <2> QED BY <2>3, EnumerationUnique
<1>7. Down(p)
  BY <1>0
<1>8. Descending(at) = CHOOSE q \in [1 .. n -> at] : Down(q)
  BY <1>5 DEF Descending
<1> HIDE DEF Down
<1> QED BY <1>0, <1>5, <1>6, <1>7, <1>8

(* A record after all others puts its id in front.                         *)
LEMMA ListsNewer ==
    ASSUME NEW s \in Seq(Nat), NEW at \in SUBSET Nat, NEW id, Lists(s, at, id),
           NEW n \in Nat, \A m \in at : m < n,
           NEW id2, \A m \in at : id2[m] = id[m], id2[n] \in Nat
    PROVE  Lists(InsertFirst(id2[n], s), at \cup {n}, id2)
<1> DEFINE k == Len(s)
           new == InsertFirst(id2[n], s)
<1>1. PICK p : Enumerates(p, k, at) /\ \A i \in 1 .. k : s[i] = id[p[i]]
  BY DEF Lists
<1>2. /\ p \in [1 .. k -> at]
      /\ \A i, j \in 1 .. k : i < j => p[i] > p[j]
      /\ \A m \in at : \E i \in 1 .. k : p[i] = m
  BY <1>1 DEF Enumerates
<1>3. k \in Nat /\ Len(new) = k + 1 /\ new[1] = id2[n]
      /\ \A i \in 2 .. k + 1 : new[i] = s[i - 1]
  <2> DEFINE x == id2[n]
  <2>1. Len(s) \in Nat
    OBVIOUS
  <2>1a. x \in Nat /\ s \in Seq(Nat)
    OBVIOUS
  <2> HIDE DEF x
  <2>2. Len(InsertFirst(x, s)) = Len(s) + 1 /\ InsertFirst(x, s)[1] = x
    BY <2>1a, InsertFirstProperties
  <2>3. \A i \in 2 .. Len(s) + 1 : InsertFirst(x, s)[i] = s[i - 1]
    BY <2>1, <2>1a DEF InsertFirst
  <2> QED BY <2>1, <2>2, <2>3 DEF x
<1> DEFINE q == [i \in 1 .. k + 1 |-> IF i = 1 THEN n ELSE p[i - 1]]
<1> HIDE DEF k, new
<1>4. \A i \in 2 .. k + 1 : i - 1 \in 1 .. k /\ q[i] = p[i - 1] /\ q[i] \in at
  BY <1>2, <1>3
<1>5. q[1] = n /\ 1 \in 1 .. k + 1
  BY <1>3
<1>6. q \in [1 .. k + 1 -> at \cup {n}]
  BY <1>2, <1>3
<1> HIDE DEF q
<1>7. ASSUME NEW i \in 1 .. k + 1, NEW j \in 1 .. k + 1, i < j
      PROVE  q[i] > q[j]
  <2>1. j \in 2 .. k + 1
    BY <1>3, <1>7
  <2>2. CASE i = 1
    <3>1. q[i] = n /\ q[j] \in at
      BY <1>4, <1>5, <2>1, <2>2
    <3>2. q[j] < n /\ q[j] \in Nat
      BY <3>1
    <3> QED BY <3>1, <3>2
  <2>3. CASE i # 1
    <3>1. i \in 2 .. k + 1 /\ i - 1 < j - 1
      BY <1>3, <1>7, <2>3
    <3> QED BY <1>2, <1>4, <2>1, <3>1
  <2> QED BY <2>2, <2>3
<1>8. ASSUME NEW m \in at \cup {n}
      PROVE  \E i \in 1 .. k + 1 : q[i] = m
  <2>1. CASE m = n
    BY <1>5, <2>1
  <2>2. CASE m \in at
    <3>1. PICK i \in 1 .. k : p[i] = m
      BY <1>2, <2>2
    <3>2. i + 1 \in 2 .. k + 1 /\ (i + 1) - 1 = i /\ i + 1 \in 1 .. k + 1
      BY <1>3
    <3> QED BY <1>4, <3>1, <3>2
  <2> QED BY <2>1, <2>2
<1>9. ASSUME NEW i \in 1 .. k + 1
      PROVE  new[i] = id2[q[i]]
  <2>1. CASE i = 1
    BY <1>3, <1>5, <2>1
  <2>2. CASE i # 1
    <3>1. i \in 2 .. k + 1
      BY <1>3, <2>2
    <3>2. new[i] = id[p[i - 1]] /\ p[i - 1] \in at /\ q[i] = p[i - 1]
      BY <1>1, <1>2, <1>3, <1>4, <3>1
    <3> QED BY <3>2
  <2> QED BY <2>1, <2>2
<1>10. Enumerates(q, k + 1, at \cup {n})
  BY <1>6, <1>7, <1>8 DEF Enumerates
<1> QED BY <1>3, <1>9, <1>10 DEF Lists, new

(* Without the positions of the last id, which only one has, the list ends *)
(* before it.                                                              *)
LEMMA ListsFront ==
    ASSUME NEW s \in Seq(Nat), s # <<>>, NEW at \in SUBSET Nat, NEW id, Lists(s, at, id),
           \A m, n \in at : id[m] = id[n] => m = n
    PROVE  Lists(Front(s), {m \in at : id[m] # Last(s)}, id)
<1> DEFINE k == Len(s)
           rest == {m \in at : id[m] # Last(s)}
<1>1. PICK p : Enumerates(p, k, at) /\ \A i \in 1 .. k : s[i] = id[p[i]]
  BY DEF Lists
<1>2. /\ p \in [1 .. k -> at]
      /\ \A i, j \in 1 .. k : i < j => p[i] > p[j]
      /\ \A m \in at : \E i \in 1 .. k : p[i] = m
  BY <1>1 DEF Enumerates
<1>3. /\ k \in Nat \ {0} /\ Len(Front(s)) = k - 1 /\ k \in 1 .. k
      /\ \A i \in 1 .. k - 1 : Front(s)[i] = s[i] /\ i \in 1 .. k /\ i < k
      /\ Last(s) = s[k]
  <2>1. Len(s) \in Nat \ {0}
    BY FrontLastProperties
  <2> QED BY <2>1, FrontLastProperties
<1> HIDE DEF k
<1>4. \A i \in 1 .. k - 1 : p[i] \in rest
  <2> SUFFICES ASSUME NEW i \in 1 .. k - 1
               PROVE  p[i] \in rest
    OBVIOUS
  <2>1. p[i] > p[k] /\ p[i] \in at /\ p[k] \in at
    BY <1>2, <1>3
  <2>2. p[i] # p[k]
    <3>1. p[i] \in Nat /\ p[k] \in Nat
      BY <2>1
    <3> QED BY <2>1, <3>1
  <2>3. id[p[k]] = Last(s)
    BY <1>1, <1>3
  <2> QED BY <2>1, <2>2, <2>3
<1>5. ASSUME NEW m \in rest
      PROVE  \E i \in 1 .. k - 1 : p[i] = m
  <2>1. PICK i \in 1 .. k : p[i] = m
    BY <1>2
  <2>2. i # k
    BY <1>1, <1>3, <2>1
  <2> QED BY <1>3, <2>1, <2>2
<1> DEFINE q == [i \in 1 .. k - 1 |-> p[i]]
<1>6. Enumerates(q, k - 1, rest)
  <2>1. q \in [1 .. k - 1 -> rest]
    BY <1>4
  <2>2. \A i, j \in 1 .. k - 1 : i < j => q[i] > q[j]
    BY <1>2, <1>3
  <2>3. \A m \in rest : \E i \in 1 .. k - 1 : q[i] = m
    BY <1>5
  <2> HIDE DEF q, rest
  <2> QED BY <2>1, <2>2, <2>3 DEF Enumerates
<1>7. \A i \in 1 .. k - 1 : Front(s)[i] = id[q[i]]
  BY <1>1, <1>3
<1> HIDE DEF q, rest
<1>8. Lists(Front(s), rest, id)
  BY SMTT(20), <1>3, <1>6, <1>7 DEF Lists
<1> QED BY <1>8 DEF rest

(* Only the ids at the positions count.                                    *)
LEMMA ListsSame ==
    ASSUME NEW s, NEW at, NEW id, Lists(s, at, id), NEW id2, \A m \in at : id2[m] = id[m]
    PROVE  Lists(s, at, id2)
BY DEF Lists, Enumerates

(* What open computes is the list, when there is one.                      *)
LEMMA NewestFirstIs ==
    ASSUME NEW s \in Seq(Nat), NEW at \in SUBSET (0 .. Len(manifest)),
           Lists(s, at, [n \in 0 .. Len(manifest) |-> Record(n).id]),
           manifest \in Seq(ManifestRecords)
    PROVE  NewestFirst(at) = s
<1> DEFINE id == [n \in 0 .. Len(manifest) |-> Record(n).id]
           k == Len(s)
<1>1. PICK p : Enumerates(p, k, at) /\ \A i \in 1 .. k : s[i] = id[p[i]]
  BY DEF Lists
<1>2. at \in SUBSET Nat /\ k \in Nat
  OBVIOUS
<1>3. Cardinality(at) = k /\ Descending(at) = p
  <2> HIDE DEF k
  <2> QED BY <1>1, <1>2, DescendingIs
<1>4. \A i \in 1 .. k : id[p[i]] = Record(p[i]).id
  BY <1>1 DEF Enumerates
<1>5. NewestFirst(at) = [i \in 1 .. k |-> Record(p[i]).id]
  BY <1>3 DEF NewestFirst
<1>6. s = [i \in 1 .. k |-> s[i]]
  OBVIOUS
<1> HIDE DEF id, k
<1> QED BY <1>1, <1>4, <1>5, <1>6

-------------------------------------------------------------------------------
(* The invariant                                                           *)

RecordIds == [n \in 0 .. Len(manifest) |-> Record(n).id]

(* Only ids that were allocated are on record, each memtable once, and the *)
(* memtable of a freeze only when it was recorded.                         *)
RecordsNamed ==
    /\ \A n \in 0 .. Len(manifest) : Record(n).id \in Ids
    /\ \A m, n \in RecordsOf("NewMemtable") : Record(m).id = Record(n).id => m = n
    /\ \A t \in Freezers : pc[t] = "freeze_record" =>
        \A n \in 0 .. Len(manifest) : Record(n).id # new_state[t].memtable

(* Unless a Flush record was lost: the memtables on record and not flushed *)
(* are those of the state, or of the state a freeze is about to install.   *)
Live(s) == InsertFirst(s.memtable, s.imm_memtables)

ManifestInv ==
    /\ RecordsNamed
    /\ faults = 0 =>
        /\ FlushToL0 => Lists(state.l0_sstables, FlushRecords, RecordIds)
        /\ (\A t \in Freezers : pc[t] # "freeze_swap") =>
                Lists(Live(state), LiveRecords, RecordIds)
        /\ \A t \in Freezers : pc[t] = "freeze_swap" =>
                Lists(Live(new_state[t]), LiveRecords, RecordIds)

LEMMA InsertFirstParts ==
    ASSUME NEW s \in Seq(Nat), NEW x \in Nat
    PROVE  /\ InsertFirst(x, s) \in Seq(Nat) /\ InsertFirst(x, s) # <<>>
           /\ Tail(InsertFirst(x, s)) = s
           /\ Len(s) \in Nat /\ Len(InsertFirst(x, s)) = Len(s) + 1
           /\ InsertFirst(x, s)[1] = x
           /\ \A i \in 1 .. Len(s) + 1 : i # 1 => InsertFirst(x, s)[i] = s[i - 1]
BY DEF InsertFirst

LEMMA FrontParts ==
    ASSUME NEW s \in Seq(Nat), s # <<>>
    PROVE  /\ Front(s) \in Seq(Nat) /\ Len(s) \in Nat \ {0}
           /\ Len(Front(s)) = Len(s) - 1
           /\ \A i \in 1 .. Len(s) - 1 : Front(s)[i] = s[i]
BY FrontLastProperties

LEMMA FrontOfInsertFirst ==
    ASSUME NEW s \in Seq(Nat), NEW x \in Nat, s # <<>>
    PROVE  Front(InsertFirst(x, s)) = InsertFirst(x, Front(s))
<1> DEFINE big == InsertFirst(x, s)
           f == Front(s)
           n == Len(s)
<1>1. /\ big \in Seq(Nat) /\ big # <<>> /\ Len(big) = n + 1 /\ big[1] = x
      /\ \A i \in 1 .. n + 1 : i # 1 => big[i] = s[i - 1]
  BY InsertFirstParts
<1>2. /\ f \in Seq(Nat) /\ n \in Nat \ {0} /\ Len(f) = n - 1
      /\ \A i \in 1 .. n - 1 : f[i] = s[i]
  BY FrontParts
<1> HIDE DEF big, f, n
<1>3. /\ Front(big) \in Seq(Nat) /\ Len(Front(big)) = Len(big) - 1
      /\ \A i \in 1 .. Len(big) - 1 : Front(big)[i] = big[i]
  BY <1>1, FrontParts
<1>4. /\ InsertFirst(x, f) \in Seq(Nat) /\ Len(InsertFirst(x, f)) = Len(f) + 1
      /\ InsertFirst(x, f)[1] = x
      /\ \A i \in 1 .. Len(f) + 1 : i # 1 => InsertFirst(x, f)[i] = f[i - 1]
  BY <1>2, InsertFirstParts
<1>5. ASSUME NEW i \in 1 .. n
      PROVE  Front(big)[i] = InsertFirst(x, f)[i]
  <2>1. i \in 1 .. Len(big) - 1 /\ i \in 1 .. n + 1 /\ i \in 1 .. Len(f) + 1
    BY <1>1, <1>2
  <2>2. Front(big)[i] = big[i]
    BY <1>3, <2>1
  <2>3. CASE i = 1
    BY <1>1, <1>4, <2>2, <2>3
  <2>4. CASE i # 1
    <3>1. i - 1 \in 1 .. n - 1
      BY <1>2, <2>4
    <3>2. big[i] = s[i - 1] /\ InsertFirst(x, f)[i] = f[i - 1] /\ f[i - 1] = s[i - 1]
      BY <1>1, <1>2, <1>4, <2>1, <2>4, <3>1
    <3> QED BY <2>2, <3>2
  <2> QED BY <2>3, <2>4
<1>6. Len(Front(big)) = n /\ Len(InsertFirst(x, f)) = n
  BY <1>1, <1>2, <1>3, <1>4
<1>7. Front(big) = InsertFirst(x, f)
  <2> DEFINE left == Front(big)
             right == InsertFirst(x, f)
  <2>1. /\ left \in Seq(Nat) /\ right \in Seq(Nat) /\ Len(left) = n /\ Len(right) = n
        /\ \A i \in 1 .. n : left[i] = right[i]
    BY <1>3, <1>4, <1>5, <1>6
  <2> HIDE DEF left, right
  <2>2. left = right
    BY <2>1
  <2> QED BY <2>2 DEF left, right
<1> QED BY <1>7 DEF big, f

LEMMA LiveProperties ==
    ASSUME NEW s \in States, NEW id \in Nat
    PROVE  /\ Live(s) \in Seq(Nat) /\ Live(s) # <<>>
           /\ Live(Frozen(s, id)) = InsertFirst(id, Live(s))
           /\ Tail(Live(Frozen(s, id))) = Live(s)
           /\ Live(Frozen(s, id)) # <<>>
           /\ s.imm_memtables # <<>> =>
                /\ Last(Live(s)) = Last(s.imm_memtables)
                /\ Front(Live(s)) = InsertFirst(s.memtable, Front(s.imm_memtables))
<1>1. s.memtable \in Nat /\ s.imm_memtables \in Seq(Nat)
  BY DEF States
<1>2. Live(s) \in Seq(Nat) /\ Live(s) # <<>>
  BY <1>1, InsertFirstParts DEF Live
<1>3. Live(Frozen(s, id)) = InsertFirst(id, Live(s))
  BY FrozenType DEF Live
<1>4. Tail(InsertFirst(id, Live(s))) = Live(s) /\ InsertFirst(id, Live(s)) # <<>>
  BY <1>2, InsertFirstParts
<1>5. s.imm_memtables # <<>> =>
        /\ Last(Live(s)) = Last(s.imm_memtables)
        /\ Front(Live(s)) = InsertFirst(s.memtable, Front(s.imm_memtables))
  BY <1>1, LastOfInsertFirst, FrontOfInsertFirst DEF Live
<1> QED BY <1>2, <1>3, <1>4, <1>5

(* The steps that touch the manifest, the state or the copy of a freeze.   *)
LEMMA ManifestFrame ==
    ASSUME IInv, [Next]_vars,
           ~ \E t \in Freezers : FreezeCopy(t) \/ FreezeRecord(t) \/ FreezeFails(t)
                                 \/ FreezeSwap(t),
           ~ \E t \in Flushers : FlushInstall(t)
    PROVE  /\ manifest' = manifest /\ state' = state /\ new_state' = new_state
           /\ next_sst_id' = next_sst_id
           /\ \A t \in Freezers : /\ pc'[t] = "freeze_record" <=> pc[t] = "freeze_record"
                                  /\ pc'[t] = "freeze_swap" <=> pc[t] = "freeze_swap"
<1> DEFINE Kept == manifest' = manifest /\ state' = state /\ new_state' = new_state
                   /\ next_sst_id' = next_sst_id
           Same == \A t \in Freezers : /\ pc'[t] = "freeze_record" <=> pc[t] = "freeze_record"
                                       /\ pc'[t] = "freeze_swap" <=> pc[t] = "freeze_swap"
<1>0. pc \in [Threads -> PcLabels] /\ Freezers \subseteq Threads
  BY DEF IInv, TypeOK, Freezers, Threads, Flushers
<1> USE DEF engine, freeze, Goto
<1>1. ASSUME NEW w \in Writers, WriterStep(w)
      PROVE  Kept /\ Same
  BY <1>0, <1>1 DEF WriterStep, WriteBegin, PutRecord, TryFreeze, Commit
<1>2. ASSUME NEW t \in Freezers, FreezeLock(t)
      PROVE  Kept /\ Same
  BY <1>0, <1>2 DEF FreezeLock
<1>3. ASSUME NEW f \in Forcers, ForceFlush(f) \/ ForceFlushCheck(f)
      PROVE  Kept /\ Same
  BY <1>0, <1>3 DEF ForceFlush, ForceFlushCheck
<1>4. ASSUME TriggerFlush
      PROVE  Kept /\ Same
  BY <1>0, <1>4 DEF TriggerFlush
<1>5. ASSUME NEW t \in Flushers, FlushStep(t), ~ FlushInstall(t)
      PROVE  Kept /\ Same
  BY <1>0, <1>5 DEF FlushStep, FlushPick, FlushBuild, FlushFails, FlushLock, FlushPanics
<1>6. ASSUME NEW r \in Readers, ReaderStep(r)
      PROVE  Kept /\ Same
  BY <1>0, <1>6 DEF ReaderStep, NewTxn, ReadSnapshot, ReadEnd
<1>7. ASSUME UNCHANGED vars
      PROVE  Kept /\ Same
  BY <1>7 DEF vars
<1> HIDE DEF Kept, Same
<1>8. Kept /\ Same
  BY <1>1, <1>2, <1>3, <1>4, <1>5, <1>6, <1>7 DEF Next, FreezeStep
<1> QED BY <1>8 DEF Kept, Same

-------------------------------------------------------------------------------
(* Each step keeps it                                                      *)

(* What a record appended to the manifest changes.                         *)
LEMMA AppendedRecord ==
    ASSUME manifest \in Seq(ManifestRecords), NEW r \in ManifestRecords,
           manifest' = Append(manifest, r), NEW n, n = Len(manifest) + 1
    PROVE  /\ n \in Nat \ {0} /\ Len(manifest') = n /\ Len(manifest) = n - 1
           /\ \A m \in 0 .. Len(manifest) : m < n /\ Record(m)' = Record(m)
           /\ Record(n)' = r
           /\ \A m \in 0 .. Len(manifest) : RecordIds'[m] = RecordIds[m]
           /\ RecordIds'[n] = r.id
           /\ \A kind : RecordsOf(kind)' = RecordsOf(kind)
                                \cup (IF r.kind = kind THEN {n} ELSE {})
<1>1. /\ n \in Nat \ {0} /\ Len(manifest) = n - 1 /\ Len(manifest') = n
      /\ \A m \in 1 .. n - 1 : manifest'[m] = manifest[m]
      /\ manifest'[n] = r
  OBVIOUS
<1>2. \A m \in 0 .. n - 1 : m < n /\ m \in 0 .. n /\ Record(m)' = Record(m)
  BY <1>1 DEF Record
<1>3. Record(n)' = r
  BY <1>1 DEF Record
<1>4. /\ \A m \in 0 .. n : m \in 0 .. n - 1 \/ m = n
      /\ n \in 0 .. n
  BY <1>1
<1>5. /\ RecordIds' = [m \in 0 .. n |-> Record(m)'.id]
      /\ RecordIds = [m \in 0 .. n - 1 |-> Record(m).id]
  BY <1>1 DEF RecordIds
<1>6. /\ \A m \in 0 .. n - 1 : RecordIds'[m] = RecordIds[m]
      /\ RecordIds'[n] = r.id
  BY <1>2, <1>3, <1>4, <1>5
<1>7. ASSUME NEW kind
      PROVE  RecordsOf(kind)' = RecordsOf(kind) \cup (IF r.kind = kind THEN {n} ELSE {})
  <2>1. /\ RecordsOf(kind)' = {m \in 0 .. n : Record(m)'.kind = kind}
        /\ RecordsOf(kind) = {m \in 0 .. n - 1 : Record(m).kind = kind}
    BY <1>1 DEF RecordsOf
  <2> QED BY <1>2, <1>3, <1>4, <2>1
<1> QED BY <1>1, <1>2, <1>3, <1>6, <1>7

(* A step that leaves the manifest alone.                                  *)
LEMMA SameRecords ==
    ASSUME manifest' = manifest
    PROVE  /\ \A n : Record(n)' = Record(n)
           /\ RecordIds' = RecordIds
           /\ \A kind : RecordsOf(kind)' = RecordsOf(kind)
           /\ FlushRecords' = FlushRecords /\ LiveRecords' = LiveRecords
BY DEF Record, RecordIds, RecordsOf, FlushRecords, LiveRecords

LEMMA ManifestQuietStep ==
    ASSUME ManifestInv, manifest' = manifest, state' = state, new_state' = new_state,
           next_sst_id' = next_sst_id, faults' = 0 => faults = 0,
           \A t \in Freezers : /\ pc'[t] = "freeze_record" <=> pc[t] = "freeze_record"
                               /\ pc'[t] = "freeze_swap" <=> pc[t] = "freeze_swap"
    PROVE  ManifestInv'
<1>1. /\ \A n : Record(n)' = Record(n)
      /\ RecordIds' = RecordIds
      /\ \A kind : RecordsOf(kind)' = RecordsOf(kind)
      /\ FlushRecords' = FlushRecords /\ LiveRecords' = LiveRecords
  BY SameRecords
<1>2. RecordsNamed'
  BY <1>1 DEF ManifestInv, RecordsNamed, Ids
<1>3. Live(state)' = Live(state) /\ \A t : Live(new_state[t])' = Live(new_state[t])
  BY DEF Live
<1> QED BY <1>1, <1>2, <1>3 DEF ManifestInv

LEMMA FreezeCopyManifest ==
    ASSUME IInv, ManifestInv, NEW t \in Freezers, FreezeCopy(t)
    PROVE  ManifestInv'
<1>0. /\ pc \in [Threads -> PcLabels] /\ t \in Threads /\ Freezers \subseteq Threads
      /\ new_state \in [Freezers -> States \cup {Nil}] /\ state \in States
      /\ next_sst_id \in Nat
  BY DEF IInv, TypeOK, Freezers, Threads, Flushers
<1>1. /\ manifest' = manifest /\ state' = state /\ next_sst_id' = next_sst_id + 1
      /\ new_state' = [new_state EXCEPT ![t] = Frozen(state, next_sst_id)]
      /\ pc' = [pc EXCEPT ![t] = "freeze_record"] /\ faults' = faults
  BY DEF FreezeCopy, AllocateId, Goto
<1>2. /\ \A n : Record(n)' = Record(n)
      /\ RecordIds' = RecordIds
      /\ \A kind : RecordsOf(kind)' = RecordsOf(kind)
      /\ FlushRecords' = FlushRecords /\ LiveRecords' = LiveRecords
  BY <1>1, SameRecords
<1>3. RecordsNamed'
  <2>1. \A n \in 0 .. Len(manifest) : Record(n).id \in Ids'
    BY <1>0, <1>1 DEF ManifestInv, RecordsNamed, Ids
  <2>2. new_state'[t].memtable = next_sst_id
    BY <1>0, <1>1, FrozenType
  <2>3. \A n \in 0 .. Len(manifest) : Record(n).id # next_sst_id
    BY <1>0 DEF ManifestInv, RecordsNamed, Ids
  <2>4. ASSUME NEW u \in Freezers, pc'[u] = "freeze_record", NEW n \in 0 .. Len(manifest)
        PROVE  Record(n).id # new_state'[u].memtable
    <3>1. CASE u = t
      BY <2>2, <2>3, <3>1
    <3>2. CASE u # t
      BY <1>0, <1>1, <2>4, <3>2 DEF ManifestInv, RecordsNamed
    <3> QED BY <3>1, <3>2
  <2> QED BY <1>1, <1>2, <2>1, <2>4 DEF ManifestInv, RecordsNamed
<1>4. /\ \A u \in Freezers : pc'[u] = "freeze_swap" =>
            pc[u] = "freeze_swap" /\ new_state'[u] = new_state[u]
      /\ (\A u \in Freezers : pc'[u] # "freeze_swap") =>
            \A u \in Freezers : pc[u] # "freeze_swap"
  BY <1>0, <1>1 DEF FreezeCopy
<1>5. Live(state)' = Live(state) /\ \A u : Live(new_state[u])' = Live(new_state'[u])
  BY <1>1 DEF Live
<1> QED BY <1>1, <1>2, <1>3, <1>4, <1>5 DEF ManifestInv

LEMMA FreezeRecordManifest ==
    ASSUME IInv, ManifestInv, NEW t \in Freezers, FreezeRecord(t)
    PROVE  ManifestInv'
<1>0. /\ TypeOK /\ LocksHeld /\ CopyIsCurrent
      /\ pc \in [Threads -> PcLabels] /\ t \in Threads /\ Freezers \subseteq Threads
      /\ state \in States /\ manifest \in Seq(ManifestRecords)
  BY DEF IInv, TypeOK, Freezers, Threads, Flushers
<1>1. PICK id \in Ids : new_state[t] = Frozen(state, id)
  BY <1>0 DEF CopyIsCurrent, Preparing, FreezeRecord
<1>2. id \in Nat /\ new_state[t].memtable = id
  <2>1. id \in Nat
    BY DEF Ids
  <2> QED BY <1>0, <1>1, <2>1, FrozenType
<1> DEFINE r == [kind |-> "NewMemtable", id |-> id]
<1>3. /\ manifest' = Append(manifest, r) /\ state' = state /\ new_state' = new_state
      /\ next_sst_id' = next_sst_id /\ faults' = faults
      /\ pc[t] = "freeze_record" /\ pc' = [pc EXCEPT ![t] = "freeze_swap"]
  BY <1>2 DEF FreezeRecord, Goto, freeze
<1>4. PICK n : n = Len(manifest) + 1
  OBVIOUS
<1>5. r \in ManifestRecords /\ r.kind = "NewMemtable" /\ r.id = id
  BY <1>2 DEF ManifestRecords
<1> HIDE DEF r
<1>6. /\ n \in Nat \ {0} /\ Len(manifest') = n /\ Len(manifest) = n - 1
      /\ \A m \in 0 .. Len(manifest) : m < n /\ Record(m)' = Record(m)
      /\ Record(n)' = r
      /\ \A m \in 0 .. Len(manifest) : RecordIds'[m] = RecordIds[m]
      /\ RecordIds'[n] = r.id
      /\ \A kind : RecordsOf(kind)' = RecordsOf(kind)
                        \cup (IF r.kind = kind THEN {n} ELSE {})
  BY <1>0, <1>3, <1>4, <1>5, AppendedRecord
<1>7. /\ RecordsOf("NewMemtable")' = RecordsOf("NewMemtable") \cup {n}
      /\ FlushRecords' = FlushRecords
  BY <1>5, <1>6 DEF FlushRecords
<1>8. \A m \in 0 .. Len(manifest) : Record(m).id # id
  BY <1>2, <1>3 DEF ManifestInv, RecordsNamed
<1>9. /\ RecordsOf("NewMemtable") \subseteq 0 .. Len(manifest)
      /\ FlushRecords \subseteq 0 .. Len(manifest)
      /\ LiveRecords \subseteq 0 .. Len(manifest)
  BY DEF RecordsOf, FlushRecords, LiveRecords
<1>10. LiveRecords' = LiveRecords \cup {n}
  <2>1. LiveRecords' = {m \in RecordsOf("NewMemtable") \cup {n} :
                            \A f \in FlushRecords : Record(f)'.id # Record(m)'.id}
    BY <1>7 DEF LiveRecords
  <2>2. \A f \in FlushRecords : Record(f)' = Record(f) /\ Record(f).id # id
    BY <1>6, <1>8, <1>9
  <2>3. \A m \in RecordsOf("NewMemtable") : Record(m)' = Record(m)
    BY <1>6, <1>9
  <2> QED BY <1>5, <1>6, <2>1, <2>2, <2>3 DEF LiveRecords
<1>11. \A u \in Freezers : u # t => ~ InStateLock(u)
  BY <1>0, <1>3 DEF LocksHeld, InStateLock
<1>12. RecordsNamed'
  <2>1. \A m \in 0 .. n : m \in 0 .. Len(manifest) \/ m = n
    BY <1>6
  <2>2. \A m \in 0 .. n : Record(m)'.id \in Ids
    BY <1>5, <1>6, <2>1 DEF ManifestInv, RecordsNamed
  <2>3. ASSUME NEW l \in RecordsOf("NewMemtable") \cup {n},
               NEW m \in RecordsOf("NewMemtable") \cup {n}, Record(l)'.id = Record(m)'.id
        PROVE  l = m
    <3>1. \A k \in RecordsOf("NewMemtable") : Record(k)' = Record(k) /\ Record(k).id # id
      BY <1>6, <1>8, <1>9
    <3>2. Record(n)'.id = id
      BY <1>5, <1>6
    <3> QED BY <2>3, <3>1, <3>2 DEF ManifestInv, RecordsNamed
  <2>4. \A u \in Freezers : pc'[u] # "freeze_record"
    BY <1>0, <1>3, <1>11 DEF InStateLock
  <2>5. Ids' = Ids
    BY <1>3 DEF Ids
  <2> QED BY <1>6, <1>7, <2>2, <2>3, <2>4, <2>5 DEF RecordsNamed
<1>13. ASSUME faults = 0
       PROVE  /\ FlushToL0 => Lists(state.l0_sstables, FlushRecords, RecordIds')
              /\ Lists(Live(new_state[t]), LiveRecords', RecordIds')
  <2>1. \A m \in FlushRecords : RecordIds'[m] = RecordIds[m]
    BY <1>6, <1>9
  <2>2. FlushToL0 => Lists(state.l0_sstables, FlushRecords, RecordIds')
    BY <1>13, <2>1, ListsSame DEF ManifestInv
  <2>3. Lists(Live(state), LiveRecords, RecordIds)
    BY <1>3, <1>11, <1>13 DEF ManifestInv, InStateLock
  <2>4. Live(state) \in Seq(Nat) /\ Live(new_state[t]) = InsertFirst(id, Live(state))
    BY <1>0, <1>1, <1>2, LiveProperties
  <2>5. /\ LiveRecords \in SUBSET Nat /\ n \in Nat
        /\ \A m \in LiveRecords : m < n /\ RecordIds'[m] = RecordIds[m]
    <3>1. 0 .. Len(manifest) \subseteq Nat /\ n \in Nat
      BY <1>6
    <3>2. \A m \in LiveRecords : m < n /\ RecordIds'[m] = RecordIds[m]
      BY <1>6, <1>9
    <3> QED BY <1>9, <3>1, <3>2
  <2>6. RecordIds'[n] = id
    BY <1>5, <1>6
  <2> DEFINE ids == RecordIds
             next == RecordIds'
             live == LiveRecords
             s == Live(state)
  <2>7. /\ s \in Seq(Nat) /\ live \in SUBSET Nat /\ Lists(s, live, ids)
        /\ \A m \in live : m < n /\ next[m] = ids[m]
        /\ next[n] \in Nat
    BY <1>2, <2>3, <2>4, <2>5, <2>6
  <2> HIDE DEF ids, next, live, s
  <2>8. Lists(InsertFirst(next[n], s), live \cup {n}, next)
    BY <1>6, <2>7, ListsNewer
  <2> QED BY <1>10, <2>2, <2>4, <2>6, <2>8 DEF next, live, s
<1>14. /\ Live(state)' = Live(state) /\ Live(new_state[t])' = Live(new_state[t])
       /\ state'.l0_sstables = state.l0_sstables
  BY <1>3 DEF Live
<1>15. /\ pc'[t] = "freeze_swap"
       /\ \A u \in Freezers : pc'[u] = "freeze_swap" => u = t
  BY <1>0, <1>3, <1>11 DEF InStateLock
<1> QED BY <1>3, <1>7, <1>12, <1>13, <1>14, <1>15 DEF ManifestInv

LEMMA FreezeFailsManifest ==
    ASSUME IInv, ManifestInv, NEW t \in Freezers, FreezeFails(t)
    PROVE  ManifestInv'
<1>0. /\ pc \in [Threads -> PcLabels] /\ t \in Threads /\ Freezers \subseteq Threads
      /\ new_state \in [Freezers -> States \cup {Nil}] /\ faults \in Nat
  <2>1. faults \in 0 .. MaxFaults /\ MaxFaults \in Nat
    BY StorageAssumption DEF IInv, TypeOK
  <2> QED BY <2>1 DEF IInv, TypeOK, Freezers, Threads, Flushers
<1>1. /\ manifest' = manifest /\ next_sst_id' = next_sst_id /\ faults' # 0
      /\ new_state' = [new_state EXCEPT ![t] = Nil]
      /\ pc' = [pc EXCEPT ![t] = "idle"]
  BY <1>0 DEF FreezeFails, Fault, Goto, engine
<1>2. /\ \A n : Record(n)' = Record(n)
      /\ \A kind : RecordsOf(kind)' = RecordsOf(kind)
  BY <1>1, SameRecords
<1>3. \A u \in Freezers : pc'[u] = "freeze_record" =>
        pc[u] = "freeze_record" /\ new_state'[u] = new_state[u]
  BY <1>0, <1>1
<1>4. RecordsNamed'
  BY <1>1, <1>2, <1>3 DEF ManifestInv, RecordsNamed, Ids
<1> QED BY <1>1, <1>4 DEF ManifestInv

LEMMA FreezeSwapManifest ==
    ASSUME IInv, ManifestInv, NEW t \in Freezers, FreezeSwap(t)
    PROVE  ManifestInv'
<1>0. /\ TypeOK /\ LocksHeld /\ CopyIsCurrent
      /\ pc \in [Threads -> PcLabels] /\ t \in Threads /\ Freezers \subseteq Threads
      /\ new_state \in [Freezers -> States \cup {Nil}] /\ state \in States
  BY DEF IInv, TypeOK, Freezers, Threads, Flushers
<1>1. /\ manifest' = manifest /\ next_sst_id' = next_sst_id /\ faults' = faults
      /\ state' = new_state[t] /\ new_state' = [new_state EXCEPT ![t] = Nil]
      /\ pc[t] = "freeze_swap"
      /\ pc' = [pc EXCEPT ![t] = IF t \in Writers THEN "commit" ELSE "flush_check"]
  BY DEF FreezeSwap, Goto
<1>2. /\ \A n : Record(n)' = Record(n)
      /\ RecordIds' = RecordIds
      /\ \A kind : RecordsOf(kind)' = RecordsOf(kind)
      /\ FlushRecords' = FlushRecords /\ LiveRecords' = LiveRecords
  BY <1>1, SameRecords
<1>3. \A u \in Freezers : pc'[u] # "freeze_record" /\ pc'[u] # "freeze_swap"
  BY <1>0, <1>1 DEF LocksHeld, InStateLock
<1>4. RecordsNamed'
  BY <1>1, <1>2, <1>3 DEF ManifestInv, RecordsNamed, Ids
<1>5. state'.l0_sstables = state.l0_sstables
  <2>1. PICK id \in Ids : state' = Frozen(state, id)
    BY <1>0, <1>1 DEF CopyIsCurrent, Preparing
  <2>2. id \in Nat
    BY <1>0 DEF Ids
  <2> QED BY <1>0, <2>1, <2>2, FrozenType
<1>6. Live(state)' = Live(new_state[t])
  BY <1>1 DEF Live
<1> QED BY <1>1, <1>2, <1>3, <1>4, <1>5, <1>6 DEF ManifestInv

LEMMA FlushInstallManifest ==
    ASSUME IInv, ManifestInv, NEW t \in Flushers, FlushInstall(t)
    PROVE  ManifestInv'
<1>0. /\ TypeOK /\ LocksHeld /\ FlushingIsFrozen
      /\ pc \in [Threads -> PcLabels] /\ t \in Threads /\ Freezers \subseteq Threads
      /\ state \in States /\ manifest \in Seq(ManifestRecords) /\ faults \in Nat
  <2>1. faults \in 0 .. MaxFaults /\ MaxFaults \in Nat
    BY StorageAssumption DEF IInv, TypeOK
  <2> QED BY <2>1 DEF IInv, TypeOK, Freezers, Threads, Flushers
<1>1. PICK id : id = flush_id[t]
  OBVIOUS
<1>2. /\ id \in Ids /\ id \in Nat /\ state.imm_memtables # <<>>
      /\ Last(state.imm_memtables) = id /\ state' = Flushed(state, id)
      /\ next_sst_id' = next_sst_id /\ new_state' = new_state /\ pc[t] = "flush_install"
      /\ pc' = [pc EXCEPT ![t] = "idle"]
  BY <1>0, <1>1 DEF FlushInstall, FlushIsOldest, FlushingIsFrozen, Goto, Ids
<1>3. \A u \in Freezers : ~ Preparing(u) /\ ~ Preparing(u)'
  BY <1>0, <1>2 DEF LocksHeld, InStateLock, Preparing
<1>4. CASE faults' # 0 /\ manifest' = manifest
  <2>1. /\ \A n : Record(n)' = Record(n)
        /\ \A kind : RecordsOf(kind)' = RecordsOf(kind)
    BY <1>4, SameRecords
  <2>2. RecordsNamed'
    BY <1>2, <1>3, <1>4, <2>1 DEF ManifestInv, RecordsNamed, Ids, Preparing
  <2> QED BY <1>4, <2>2 DEF ManifestInv
<1> DEFINE r == [kind |-> "Flush", id |-> id]
<1>5. CASE manifest' = Append(manifest, r) /\ faults' = faults
  <2>1. PICK n : n = Len(manifest) + 1
    OBVIOUS
  <2>2. r \in ManifestRecords /\ r.kind = "Flush" /\ r.id = id
    BY <1>2 DEF ManifestRecords
  <2> HIDE DEF r
  <2>3. /\ n \in Nat \ {0} /\ Len(manifest') = n /\ Len(manifest) = n - 1
        /\ \A m \in 0 .. Len(manifest) : m < n /\ Record(m)' = Record(m)
        /\ Record(n)' = r
        /\ \A m \in 0 .. Len(manifest) : RecordIds'[m] = RecordIds[m]
        /\ RecordIds'[n] = r.id
        /\ \A kind : RecordsOf(kind)' = RecordsOf(kind)
                          \cup (IF r.kind = kind THEN {n} ELSE {})
    BY <1>0, <1>5, <2>1, <2>2, AppendedRecord
  <2>4. /\ RecordsOf("NewMemtable")' = RecordsOf("NewMemtable")
        /\ FlushRecords' = FlushRecords \cup {n}
    BY <2>2, <2>3 DEF FlushRecords
  <2>5. /\ RecordsOf("NewMemtable") \subseteq 0 .. Len(manifest)
        /\ FlushRecords \subseteq 0 .. Len(manifest)
        /\ LiveRecords \subseteq 0 .. Len(manifest)
        /\ LiveRecords \subseteq RecordsOf("NewMemtable")
    BY DEF RecordsOf, FlushRecords, LiveRecords
  <2>6. \A m \in LiveRecords : RecordIds[m] = Record(m).id
    BY <2>5 DEF RecordIds
  <2>7. LiveRecords' = {m \in LiveRecords : RecordIds[m] # id}
    <3>1. LiveRecords' = {m \in RecordsOf("NewMemtable") :
                              \A f \in FlushRecords \cup {n} : Record(f)'.id # Record(m)'.id}
      BY <2>4 DEF LiveRecords
    <3>2. /\ \A f \in FlushRecords : Record(f)' = Record(f)
          /\ \A m \in RecordsOf("NewMemtable") : Record(m)' = Record(m)
          /\ Record(n)'.id = id
      BY <2>2, <2>3, <2>5
    <3> QED BY <2>6, <3>1, <3>2 DEF LiveRecords
  <2>8. RecordsNamed'
    <3>1. \A m \in 0 .. n : m \in 0 .. Len(manifest) \/ m = n
      BY <2>3
    <3>2. \A m \in 0 .. n : Record(m)'.id \in Ids
      BY <1>2, <2>2, <2>3, <3>1 DEF ManifestInv, RecordsNamed
    <3>3. \A m \in RecordsOf("NewMemtable") : Record(m)' = Record(m)
      BY <2>3, <2>5
    <3>4. Ids' = Ids
      BY <1>2 DEF Ids
    <3> QED BY <1>3, <2>3, <2>4, <3>2, <3>3, <3>4 DEF ManifestInv, RecordsNamed, Preparing
  <2>9. ASSUME faults = 0, FlushToL0
        PROVE  Lists(state'.l0_sstables, FlushRecords', RecordIds')
    <3> DEFINE ids == RecordIds
               next == RecordIds'
               flushes == FlushRecords
               s == state.l0_sstables
    <3>1. /\ s \in Seq(Nat) /\ flushes \in SUBSET Nat /\ Lists(s, flushes, ids)
          /\ \A m \in flushes : m < n /\ next[m] = ids[m]
          /\ next[n] = id
      BY <1>0, <2>2, <2>3, <2>5, <2>9 DEF ManifestInv, States
    <3>2. state'.l0_sstables = InsertFirst(id, s)
      BY <1>0, <1>2, <2>9, FlushedType
    <3> HIDE DEF ids, next, flushes, s
    <3>3. n \in Nat /\ next[n] \in Nat
      BY <1>2, <2>3, <3>1
    <3>4. Lists(InsertFirst(next[n], s), flushes \cup {n}, next)
      BY <3>1, <3>3, ListsNewer
    <3> QED BY <2>4, <3>1, <3>2, <3>4 DEF next, flushes
  <2>10. ASSUME faults = 0
         PROVE  Lists(Live(state)', LiveRecords', RecordIds')
    <3> DEFINE ids == RecordIds
               live == LiveRecords
               s == Live(state)
    <3>1. Lists(s, live, ids)
      BY <1>3, <2>10 DEF ManifestInv, Preparing
    <3>2. /\ s \in Seq(Nat) /\ s # <<>> /\ Last(s) = id
          /\ Front(s) = InsertFirst(state.memtable, Front(state.imm_memtables))
      BY <1>0, <1>2, LiveProperties
    <3>3. Live(state)' = Front(s)
      <4>1. /\ state'.memtable = state.memtable
            /\ state'.imm_memtables = Front(state.imm_memtables)
        BY <1>0, <1>2, FlushedType
      <4> QED BY <3>2, <4>1 DEF Live
    <3>4. live \in SUBSET Nat /\ \A l, m \in live : ids[l] = ids[m] => l = m
      BY <2>3, <2>5, <2>6 DEF ManifestInv, RecordsNamed
    <3>5. \A m \in live : RecordIds'[m] = ids[m]
      BY <2>3, <2>5
    <3> HIDE DEF ids, live, s
    <3>6. Lists(Front(s), {m \in live : ids[m] # Last(s)}, ids)
      BY <3>1, <3>2, <3>4, ListsFront
    <3>7. LiveRecords' = {m \in live : ids[m] # Last(s)}
      BY <2>7, <3>2 DEF ids, live
    <3>8. Lists(Front(s), LiveRecords', ids) /\ \A m \in LiveRecords' : RecordIds'[m] = ids[m]
      BY <3>5, <3>6, <3>7
    <3> QED BY <3>3, <3>8, ListsSame
  <2>11. \A u \in Freezers : pc'[u] # "freeze_swap"
    BY <1>3 DEF Preparing
  <2> QED BY <1>5, <2>8, <2>9, <2>10, <2>11 DEF ManifestInv
<1>6. \/ faults' # 0 /\ manifest' = manifest
      \/ manifest' = Append(manifest, r) /\ faults' = faults
  BY <1>0, <1>1 DEF FlushInstall, Fault
<1> QED BY <1>4, <1>5, <1>6

LEMMA ManifestStep ==
    ASSUME IInv, ManifestInv, [Next]_vars
    PROVE  ManifestInv'
<1>1. CASE \E t \in Freezers : FreezeCopy(t) \/ FreezeRecord(t) \/ FreezeFails(t)
                               \/ FreezeSwap(t)
  BY <1>1, FreezeCopyManifest, FreezeRecordManifest, FreezeFailsManifest, FreezeSwapManifest
<1>2. CASE \E t \in Flushers : FlushInstall(t)
  BY <1>2, FlushInstallManifest
<1>3. CASE /\ ~ \E t \in Freezers : FreezeCopy(t) \/ FreezeRecord(t) \/ FreezeFails(t)
                                    \/ FreezeSwap(t)
           /\ ~ \E t \in Flushers : FlushInstall(t)
  <2>1. faults' = 0 => faults = 0
    <3>1. faults \in 0 .. MaxFaults
      BY DEF IInv, TypeOK
    <3> QED BY <3>1, FaultsStep
  <2> QED BY <1>3, <2>1, ManifestFrame, ManifestQuietStep
<1> QED BY <1>1, <1>2, <1>3

LEMMA ManifestInit ==
    ASSUME Init
    PROVE  ManifestInv
<1>1. /\ manifest = <<>> /\ Len(manifest) = 0 /\ Ids = {0}
      /\ Live(state) = <<0>> /\ state.l0_sstables = <<>>
      /\ \A t \in Freezers : pc[t] = "idle"
  BY DEF Init, InitState, Ids, Live, InsertFirst, Threads, Freezers, Flushers
<1>2. 0 .. Len(manifest) = {0} /\ Record(0) = [kind |-> "NewMemtable", id |-> 0]
  BY <1>1 DEF Record
<1>3. FlushRecords = {} /\ RecordsOf("NewMemtable") = {0} /\ LiveRecords = {0}
  BY <1>2 DEF RecordsOf, FlushRecords, LiveRecords
<1>4. RecordsNamed
  BY <1>1, <1>2, <1>3 DEF RecordsNamed
<1>5. Lists(<<>>, {}, RecordIds)
  <2> DEFINE p == [i \in 1 .. 0 |-> 0]
  <2>1. Enumerates(p, 0, {})
    BY DEF Enumerates
  <2> QED BY <2>1 DEF Lists
<1>6. Lists(<<0>>, {0}, RecordIds)
  <2> DEFINE p == [i \in 1 .. 1 |-> 0]
  <2>1. Enumerates(p, 1, {0})
    BY DEF Enumerates
  <2>2. RecordIds[0] = 0
    BY <1>2 DEF RecordIds
  <2>3. Len(<<0>>) = 1 /\ \A i \in 1 .. 1 : <<0>>[i] = RecordIds[p[i]]
    BY <2>2
  <2> HIDE DEF p
  <2> QED BY <2>1, <2>3 DEF Lists
<1> QED BY <1>1, <1>3, <1>4, <1>5, <1>6 DEF ManifestInv

THEOREM ManifestInvHolds == Spec => []ManifestInv
<1>1. Init => ManifestInv
  BY ManifestInit
<1>2. IInv /\ ManifestInv /\ [Next]_vars => ManifestInv'
  BY ManifestStep
<1> QED BY <1>1, <1>2, InvariantHolds, PTL DEF Spec

LEMMA RecordsListState ==
    ASSUME IInv, ManifestInv
    PROVE  ManifestRecoversState
<1> SUFFICES ASSUME faults = 0
             PROVE  /\ FlushToL0 => NewestFirst(FlushRecords) = state.l0_sstables
                    /\ \/ NewestFirst(LiveRecords) = Live(state)
                       \/ /\ NewestFirst(LiveRecords) # <<>>
                          /\ Tail(NewestFirst(LiveRecords)) = Live(state)
  BY DEF ManifestRecoversState, Live
<1>1. /\ state \in States /\ manifest \in Seq(ManifestRecords)
      /\ state.l0_sstables \in Seq(Nat) /\ CopyIsCurrent
      /\ FlushRecords \subseteq 0 .. Len(manifest) /\ LiveRecords \subseteq 0 .. Len(manifest)
  BY DEF IInv, TypeOK, States, FlushRecords, LiveRecords, RecordsOf
<1>2. \A s \in Seq(Nat), at \in SUBSET (0 .. Len(manifest)) :
          Lists(s, at, RecordIds) => NewestFirst(at) = s
  BY <1>1, NewestFirstIs DEF RecordIds
<1>3. FlushToL0 => NewestFirst(FlushRecords) = state.l0_sstables
  BY <1>1, <1>2 DEF ManifestInv
<1>4. CASE \A t \in Freezers : pc[t] # "freeze_swap"
  <2>1. Live(state) \in Seq(Nat)
    BY <1>1, InsertFirstParts DEF Live, States
  <2> QED BY <1>1, <1>2, <1>3, <1>4, <2>1 DEF ManifestInv
<1>5. ASSUME NEW t \in Freezers, pc[t] = "freeze_swap"
      PROVE  NewestFirst(LiveRecords) # <<>> /\ Tail(NewestFirst(LiveRecords)) = Live(state)
  <2>1. PICK id \in Ids : new_state[t] = Frozen(state, id)
    BY <1>1, <1>5 DEF CopyIsCurrent, Preparing
  <2>2. id \in Nat
    BY DEF Ids
  <2>3. new_state[t] \in States
    BY <1>1, <2>1, <2>2, FrozenType
  <2>4. Live(new_state[t]) \in Seq(Nat)
    BY <2>3, InsertFirstParts DEF Live, States
  <2>5. NewestFirst(LiveRecords) = Live(new_state[t])
    BY <1>1, <1>2, <1>5, <2>4 DEF ManifestInv
  <2> QED BY <1>1, <2>1, <2>2, <2>5, LiveProperties
<1> QED BY <1>3, <1>4, <1>5

(* A crash can come between any two steps of a freeze or a flush: as long  *)
(* as no record of a flush was lost, the manifest gives back the L0 list   *)
(* and the memtables of the live state, in their order.                    *)
THEOREM ManifestRecovers == Spec => []ManifestRecoversState
<1>1. IInv /\ ManifestInv => ManifestRecoversState
  BY RecordsListState
<1> QED BY <1>1, InvariantHolds, ManifestInvHolds, PTL
================================================================================
