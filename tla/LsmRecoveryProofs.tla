---------------------------- MODULE LsmRecoveryProofs ----------------------------
(***************************************************************************)
(* Theorems about the engine with a WAL, for any number of crashes and     *)
(* restarts at any step.                                                   *)
(***************************************************************************)
EXTENDS LsmRecovery, LsmManifestProofs, LsmReadProofs

-------------------------------------------------------------------------------
(* Lists of records                                                        *)

LEMMA RecordType ==
    ASSUME manifest \in Seq(ManifestRecords), NEW n \in 0 .. Len(manifest)
    PROVE  Record(n) \in ManifestRecords /\ Record(n).id \in Nat
<1>1. CASE n = 0
  BY <1>1 DEF Record, ManifestRecords
<1>2. CASE n # 0
  <2>1. n \in 1 .. Len(manifest) /\ manifest[n] \in ManifestRecords
    BY <1>2
  <2> QED BY <1>2, <2>1 DEF Record, ManifestRecords
<1> QED BY <1>1, <1>2

(* Every set of positions has a list: let k be the least bound of a set    *)
(* that has none; its greatest position is k - 1, and the rest has one.    *)
LEMMA ListExists ==
    ASSUME NEW n \in Nat, NEW id, \A m \in 0 .. n : id[m] \in Nat,
           NEW at \in SUBSET (0 .. n)
    PROVE  \E s \in Seq(Nat) : Lists(s, at, id)
<1> DEFINE Below(k) == {m \in 0 .. n : m < k}
           Listed(set) == \E s \in Seq(Nat) : Lists(s, set, id)
           Bad == {k \in Nat : \E set \in SUBSET Below(k) : ~ Listed(set)}
<1>1. Listed({})
  <2> DEFINE p == [i \in 1 .. 0 |-> 0]
             s == <<>>
  <2>1. s \in Seq(Nat) /\ Len(s) = 0
    OBVIOUS
  <2>2. Enumerates(p, 0, {})
    BY DEF Enumerates
  <2>3. \A i \in 1 .. Len(s) : s[i] = id[p[i]]
    <3>1. 1 .. Len(s) = {}
      BY <2>1
    <3> QED BY <3>1
  <2> HIDE DEF p, s, Listed
  <2>4. Lists(s, {}, id)
    BY <2>1, <2>2, <2>3 DEF Lists
  <2> QED BY <2>1, <2>4 DEF Listed
<1>2. ASSUME Bad # {}
      PROVE  FALSE
  <2>1. PICK k \in Bad : \A j \in Bad : k <= j
    <3>1. Bad \in SUBSET Nat
      OBVIOUS
    <3> HIDE DEF Bad
    <3> QED BY <1>2, <3>1, NatLeast
  <2>2. PICK set \in SUBSET Below(k) : ~ Listed(set)
    BY <2>1
  <2>3. k \in Nat /\ k # 0
    <3>1. k = 0 => Below(k) = {}
      OBVIOUS
    <3> HIDE DEF Listed
    <3> QED BY <1>1, <2>1, <2>2, <3>1
  <2>4. k - 1 \in Nat /\ k - 1 \notin Bad
    <3>1. k - 1 \in Nat /\ ~ (k <= k - 1)
      BY <2>3
    <3> HIDE DEF Bad
    <3> QED BY <2>1, <3>1
  <2>5. \A sub \in SUBSET Below(k - 1) : Listed(sub)
    <3> HIDE DEF Listed
    <3> QED BY <2>4
  <2>6. k - 1 \in set
    <3>1. k - 1 \notin set => set \in SUBSET Below(k - 1)
      BY <2>2, <2>3
    <3> HIDE DEF Listed
    <3> QED BY <2>2, <2>5, <3>1
  <2> DEFINE rest == set \ {k - 1}
  <2>7. rest \in SUBSET Below(k - 1) /\ rest \in SUBSET Nat
    BY <2>2, <2>3
  <2>8. PICK s \in Seq(Nat) : Lists(s, rest, id)
    BY <2>5, <2>7
  <2>9. \A m \in rest : m < k - 1
    BY <2>7
  <2>10. id[k - 1] \in Nat
    BY <2>2, <2>6
  <2>11. rest \cup {k - 1} = set
    BY <2>6
  <2>12. PICK last : last = k - 1
    OBVIOUS
  <2> HIDE DEF rest
  <2>13. Lists(InsertFirst(id[last], s), rest \cup {last}, id)
    BY <2>4, <2>7, <2>8, <2>9, <2>10, <2>12, ListsNewer
  <2>14. InsertFirst(id[last], s) \in Seq(Nat)
    BY <2>10, <2>12, InsertFirstProperties
  <2> QED BY <2>2, <2>11, <2>12, <2>13, <2>14
<1>3. at \in SUBSET Below(n + 1) /\ n + 1 \in Nat
  OBVIOUS
<1>4. Listed(at)
  <2> HIDE DEF Listed, Below
  <2> QED BY <1>2, <1>3
<1> QED BY <1>4

(* What the list of some records holds, and which comes first.             *)
LEMMA NewestFirstList ==
    ASSUME manifest \in Seq(ManifestRecords), NEW at \in SUBSET (0 .. Len(manifest))
    PROVE  /\ NewestFirst(at) \in Seq(Nat)
           /\ Lists(NewestFirst(at), at, RecordIds)
           /\ IdsOf(NewestFirst(at)) = {Record(n).id : n \in at}
           /\ NewestFirst(at) = <<>> <=> at = {}
           /\ at # {} => \E n \in at :
                /\ \A m \in at : m <= n
                /\ Head(NewestFirst(at)) = Record(n).id
                /\ Tail(NewestFirst(at)) \in Seq(Nat)
                /\ IdsOf(Tail(NewestFirst(at))) = {Record(m).id : m \in at \ {n}}
<1>1. Len(manifest) \in Nat /\ \A m \in 0 .. Len(manifest) :
        RecordIds[m] = Record(m).id /\ RecordIds[m] \in Nat
  BY RecordType DEF RecordIds
<1>2. PICK s \in Seq(Nat) : Lists(s, at, RecordIds)
  BY <1>1, ListExists
<1>3. NewestFirst(at) = s
  BY <1>2, NewestFirstIs DEF RecordIds
<1>4. PICK p : Enumerates(p, Len(s), at) /\ \A i \in 1 .. Len(s) : s[i] = RecordIds[p[i]]
  BY <1>2 DEF Lists
<1> DEFINE k == Len(s)
<1>5. /\ p \in [1 .. k -> at]
      /\ \A i, j \in 1 .. k : i < j => p[i] > p[j]
      /\ \A m \in at : \E i \in 1 .. k : p[i] = m
      /\ k \in Nat /\ DOMAIN s = 1 .. k
      /\ \A i \in 1 .. k : p[i] \in at /\ s[i] = Record(p[i]).id
      /\ \A m \in at : m \in Nat
  <2>1. k \in Nat /\ DOMAIN s = 1 .. k
    OBVIOUS
  <2>2. /\ p \in [1 .. k -> at]
        /\ \A i, j \in 1 .. k : i < j => p[i] > p[j]
        /\ \A m \in at : \E i \in 1 .. k : p[i] = m
        /\ \A i \in 1 .. k : s[i] = RecordIds[p[i]]
    BY <1>4 DEF Enumerates
  <2>3. \A i \in 1 .. k : p[i] \in at /\ s[i] = Record(p[i]).id
    BY <1>1, <2>2
  <2>4. \A m \in at : m \in Nat
    BY <1>1
  <2> HIDE DEF k
  <2> QED BY <2>1, <2>2, <2>3, <2>4
<1>6. IdsOf(s) = {Record(n).id : n \in at}
  <2>1. IdsOf(s) = {s[i] : i \in 1 .. k}
    BY <1>5 DEF IdsOf
  <2> HIDE DEF k
  <2>2. \A i \in 1 .. k : s[i] \in {Record(n).id : n \in at}
    BY <1>5
  <2>3. \A n \in at : \E i \in 1 .. k : s[i] = Record(n).id
    BY <1>5
  <2> QED BY <2>1, <2>2, <2>3
<1>7. s = <<>> <=> at = {}
  <2>1. s = <<>> <=> k = 0
    OBVIOUS
  <2>2. k = 0 => at = {}
    BY <1>5
  <2>3. k # 0 => 1 \in 1 .. k
    BY <1>5
  <2> HIDE DEF k
  <2> QED BY <1>5, <2>1, <2>2, <2>3
<1>8. ASSUME at # {}
      PROVE  \E n \in at :
                /\ \A m \in at : m <= n
                /\ Head(s) = Record(n).id
                /\ Tail(s) \in Seq(Nat)
                /\ IdsOf(Tail(s)) = {Record(m).id : m \in at \ {n}}
  <2>1. s # <<>>
    BY <1>7, <1>8
  <2>2. /\ k \in Nat \ {0} /\ Head(s) = s[1] /\ Tail(s) \in Seq(Nat)
        /\ DOMAIN Tail(s) = 1 .. k - 1 /\ \A i \in 1 .. k - 1 : Tail(s)[i] = s[i + 1]
    BY <2>1
  <2> HIDE DEF k
  <2>3. 1 \in 1 .. k /\ p[1] \in at /\ s[1] = Record(p[1]).id
    BY <1>5, <2>2
  <2>4. \A m \in at : m <= p[1]
    <3> SUFFICES ASSUME NEW m \in at PROVE m <= p[1]
      OBVIOUS
    <3>1. PICK i \in 1 .. k : p[i] = m
      BY <1>5
    <3>2. m \in Nat /\ p[1] \in Nat
      BY <2>3
    <3>3. i = 1 \/ 1 < i
      BY <1>5
    <3> QED BY <1>5, <2>3, <3>1, <3>2, <3>3
  <2>5. IdsOf(Tail(s)) \subseteq {Record(m).id : m \in at \ {p[1]}}
    <3> SUFFICES ASSUME NEW i \in 1 .. k - 1
                 PROVE  Tail(s)[i] \in {Record(m).id : m \in at \ {p[1]}}
      BY <2>2 DEF IdsOf
    <3>1. i + 1 \in 1 .. k /\ 1 < i + 1
      BY <1>5
    <3>2. p[1] > p[i + 1] /\ p[i + 1] \in at
      BY <1>5, <2>3, <3>1
    <3>3. p[i + 1] # p[1]
      <4>1. p[1] \in Nat /\ p[i + 1] \in Nat
        BY <1>5, <2>3, <3>2
      <4> QED BY <3>2, <4>1
    <3>4. Tail(s)[i] = Record(p[i + 1]).id /\ p[i + 1] \in at \ {p[1]}
      BY <1>5, <2>2, <3>1, <3>2, <3>3
    <3> QED BY <3>4
  <2>6. {Record(m).id : m \in at \ {p[1]}} \subseteq IdsOf(Tail(s))
    <3> SUFFICES ASSUME NEW m \in at, m # p[1]
                 PROVE  Record(m).id \in IdsOf(Tail(s))
      OBVIOUS
    <3>1. PICK i \in 1 .. k : p[i] = m
      BY <1>5
    <3>2. i - 1 \in 1 .. k - 1 /\ (i - 1) + 1 = i
      BY <1>5, <3>1
    <3>3. Tail(s)[i - 1] = Record(m).id
      BY <1>5, <2>2, <3>1, <3>2
    <3> QED BY <2>2, <3>2, <3>3 DEF IdsOf
  <2> QED BY <2>2, <2>3, <2>4, <2>5, <2>6
<1> QED BY <1>2, <1>3, <1>6, <1>7, <1>8

-------------------------------------------------------------------------------
(* What a WAL and an SST file give back                                    *)

LogEntries == Cells \X Values

LEMMA LogEntryParts ==
    ASSUME NEW log \in Seq(LogEntries), NEW i \in DOMAIN log
    PROVE  log[i][1] \in Cells /\ log[i][2] \in Values /\ log[i][2] # NoEntry
<1>1. log[i] \in LogEntries
  OBVIOUS
<1> QED BY <1>1, TablesAssumption DEF LogEntries

(* A cell comes back with the value its last record gave it.               *)
LEMMA WalRecoverCell ==
    ASSUME NEW log \in Seq(LogEntries), NEW c \in Cells
    PROVE  /\ (\A i \in DOMAIN log : log[i][1] # c) => WalRecover(log)[c] = NoEntry
           /\ (\E i \in DOMAIN log : log[i][1] = c) => WalRecover(log)[c] \in Values
           /\ \A i \in DOMAIN log :
                /\ log[i][1] = c
                /\ \A j \in DOMAIN log : log[j][1] = c => j <= i
                => WalRecover(log)[c] = log[i][2]
<1> DEFINE at == {i \in DOMAIN log : log[i][1] = c}
           last == CHOOSE i \in at : \A j \in at : j <= i
<1>1. WalRecover(log)[c] = IF at = {} THEN NoEntry ELSE log[last][2]
  BY DEF WalRecover
<1>2. Len(log) \in Nat /\ at \in SUBSET (0 .. Len(log))
  OBVIOUS
<1>3. ASSUME at # {}
      PROVE  last \in at /\ \A j \in at : j <= last
  <2>1. \E i \in at : \A j \in at : j <= i
    <3> HIDE DEF at
    <3> QED BY <1>2, <1>3, NatGreatest
  <2> HIDE DEF at
  <2> QED BY <2>1
<1>4. ASSUME NEW i \in at, \A j \in at : j <= i
      PROVE  last = i
  <2>1. last \in at /\ i <= last /\ last <= i
    <3> HIDE DEF at, last
    <3> QED BY <1>3, <1>4
  <2> QED BY <1>2, <2>1
<1>5. at # {} => WalRecover(log)[c] \in Values
  BY <1>1, <1>3, LogEntryParts
<1>6. \A i \in at : (\A j \in at : j <= i) => WalRecover(log)[c] = log[i][2]
  <2> HIDE DEF last
  <2> QED BY <1>1, <1>4
<1> HIDE DEF last
<1> QED BY <1>1, <1>5, <1>6

LEMMA WalRecoverType ==
    ASSUME NEW log \in Seq(LogEntries)
    PROVE  WalRecover(log) \in Tables
<1>1. \A c \in Cells : WalRecover(log)[c] \in Values \cup {NoEntry}
  BY WalRecoverCell
<1>2. WalRecover(log) = [c \in Cells |-> WalRecover(log)[c]]
  BY DEF WalRecover
<1> QED BY <1>1, <1>2 DEF Tables

LEMMA CellsFinite ==
    /\ IsFiniteSet(Cells)
    /\ \A table : IsFiniteSet(CellsOf(table)) /\ Cardinality(CellsOf(table)) \in Nat
<1>1. IsFiniteSet(Keys) /\ IsFiniteSet(1 .. MaxTs)
  BY SsTablesAssumption, TablesAssumption, FS_Interval
<1>2. IsFiniteSet(Cells)
  BY <1>1, FS_Product DEF Cells
<1> QED BY <1>2, FS_Subset, FS_CardinalityType DEF CellsOf

(* No more cells come back than there were records.                        *)
LEMMA WalRecoverSize ==
    ASSUME NEW log \in Seq(LogEntries)
    PROVE  Cardinality(CellsOf(WalRecover(log))) <= Len(log)
<1> DEFINE n == Len(log)
           logged == {log[i][1] : i \in 1 .. n}
           f == [i \in 1 .. n |-> log[i][1]]
<1>1. n \in Nat /\ DOMAIN log = 1 .. n
  OBVIOUS
<1>2. f \in Surjection(1 .. n, logged)
  BY DEF Surjection
<1>3. IsFiniteSet(1 .. n) /\ Cardinality(1 .. n) = n
  <2> HIDE DEF n
  <2> QED BY <1>1, FS_Interval
<1>4. CellsOf(WalRecover(log)) \subseteq logged
  <2> SUFFICES ASSUME NEW c \in Cells, c \notin logged
               PROVE  WalRecover(log)[c] = NoEntry
    BY DEF CellsOf
  <2>1. \A i \in DOMAIN log : log[i][1] # c
    BY <1>1
  <2> QED BY <2>1, WalRecoverCell
<1> HIDE DEF n, logged, f
<1>5. IsFiniteSet(logged) /\ Cardinality(logged) <= n
  BY <1>2, <1>3, FS_Surjection
<1>6. Cardinality(CellsOf(WalRecover(log))) <= Cardinality(logged)
  BY <1>4, <1>5, FS_Subset
<1>7. Cardinality(logged) \in Nat /\ Cardinality(CellsOf(WalRecover(log))) \in Nat
  BY <1>5, CellsFinite, FS_CardinalityType
<1> QED BY <1>1, <1>5, <1>6, <1>7 DEF n

(* The newest of some cells, or 0.                                         *)
LEMMA NewestInType ==
    ASSUME NEW cells, \A c \in cells : c[2] \in 0 .. MaxTs
    PROVE  /\ NewestIn(cells) \in 0 .. MaxTs
           /\ \A c \in cells : c[2] <= NewestIn(cells)
<1>1. CASE cells = {}
  BY <1>1, TablesAssumption DEF NewestIn
<1>2. CASE cells # {}
  <2> DEFINE ts == {c[2] : c \in cells}
  <2>1. ts \in SUBSET (0 .. MaxTs) /\ ts # {} /\ MaxTs \in Nat
    BY <1>2, TablesAssumption
  <2>2. PICK x \in ts : \A y \in ts : y <= x
    <3> HIDE DEF ts
    <3> QED BY <2>1, NatGreatest
  <2>3. \E c \in cells : \A d \in cells : d[2] <= c[2]
    BY <2>2
  <2> DEFINE newest == CHOOSE c \in cells : \A d \in cells : d[2] <= c[2]
  <2>4. newest \in cells /\ \A d \in cells : d[2] <= newest[2]
    BY <2>3
  <2>5. NewestIn(cells) = newest[2]
    BY <1>2 DEF NewestIn
  <2> HIDE DEF newest
  <2> QED BY <2>4, <2>5
<1> QED BY <1>1, <1>2

(* A block is not empty.                                                   *)
LEMMA BlockBounds ==
    ASSUME NEW n \in Nat, NEW size \in Nat \ {0},
           NEW b \in 1 .. (n + size - 1) \div size
    PROVE  /\ (b - 1) * size \in Nat /\ b * size \in Nat
           /\ b * size = (b - 1) * size + size
           /\ (b - 1) * size < n
<1> DEFINE q == (n + size - 1) \div size
<1>1. q \in Nat /\ q * size <= n + size - 1
  BY SMTT(30)
<1> HIDE DEF q
<1>2. b \in Nat \ {0} /\ b <= q
  BY <1>1 DEF q
<1>3. b * size <= q * size
  BY <1>1, <1>2, SMTT(30)
<1>4. b * size = (b - 1) * size + size /\ (b - 1) * size \in Nat
  BY <1>2, SMTT(30)
<1> QED BY <1>1, <1>3, <1>4

(* The keys the block meta names are entries of the file.                  *)
LEMMA BlockKeys ==
    ASSUME NEW table, NEW b \in DOMAIN BlockMeta(table)
    PROVE  LET n == Cardinality(CellsOf(table))
               first == (b - 1) * BlockEntries + 1
               last == IF b * BlockEntries < n THEN b * BlockEntries ELSE n
           IN /\ first \in 1 .. n /\ last \in 1 .. n
              /\ BlockMeta(table)[b].first_key = Entries(table)[first]
              /\ BlockMeta(table)[b].last_key = Entries(table)[last]
<1> DEFINE n == Cardinality(CellsOf(table))
           entries == Entries(table)
           first == (b - 1) * BlockEntries + 1
           last == IF b * BlockEntries < n THEN b * BlockEntries ELSE n
<1>1. n \in Nat /\ entries \in Seq(CellsOf(table)) /\ Len(entries) = n
  BY EntriesAreCells, SsTablesAssumption
<1>2. BlockEntries \in Nat \ {0}
  BY SsTablesAssumption
<1>3. b \in 1 .. (n + BlockEntries - 1) \div BlockEntries
  BY <1>1 DEF BlockMeta, Blocks
<1> HIDE DEF n, entries
<1>4. first \in 1 .. n /\ last \in 1 .. n /\ first <= last
  BY <1>1, <1>2, <1>3, BlockBounds
<1>5. Blocks(table)[b] = SubSeq(entries, first, last)
  BY <1>1, <1>3 DEF Blocks, entries, n
<1> HIDE DEF first, last
<1>6. /\ Len(SubSeq(entries, first, last)) = last - first + 1
      /\ SubSeq(entries, first, last)[1] = entries[first]
      /\ SubSeq(entries, first, last)[last - first + 1] = entries[last]
  BY <1>1, <1>4
<1>7. /\ BlockMeta(table)[b].first_key = entries[first]
      /\ BlockMeta(table)[b].last_key = entries[last]
  BY <1>5, <1>6 DEF BlockMeta
<1> QED BY <1>4, <1>7 DEF n, entries, first, last

(* What SsTable::open takes for the newest timestamp of the file is one.   *)
LEMMA MaxTsOpenedType ==
    ASSUME NEW table
    PROVE  MaxTsOpened(table) \in 0 .. MaxTs
<1> DEFINE meta == BlockMeta(table)
           keys == {meta[b].first_key : b \in DOMAIN meta}
                   \cup {meta[b].last_key : b \in DOMAIN meta}
<1>1. \A b \in DOMAIN meta : meta[b].first_key \in Cells /\ meta[b].last_key \in Cells
  <2> SUFFICES ASSUME NEW b \in DOMAIN meta
               PROVE  meta[b].first_key \in Cells /\ meta[b].last_key \in Cells
    OBVIOUS
  <2>1. \A i \in 1 .. Cardinality(CellsOf(table)) : Entries(table)[i] \in Cells
    BY EntriesAreCells, SsTablesAssumption DEF CellsOf
  <2> QED BY <2>1, BlockKeys
<1>2. \A c \in Cells : c[2] \in 0 .. MaxTs
  BY TablesAssumption DEF Cells
<1>3. \A c \in keys : c[2] \in 0 .. MaxTs
  BY <1>1, <1>2
<1>4. MaxTsOpened(table) = NewestIn(keys)
  BY DEF MaxTsOpened
<1> HIDE DEF keys
<1> QED BY <1>3, <1>4, NewestInType

(* A cell strictly inside a block of a file: the meta does not name it.     *)
InsideABlock(c, table) ==
    /\ c \in CellsOf(table)
    /\ \A b \in DOMAIN BlockMeta(table) :
        c # BlockMeta(table)[b].first_key /\ c # BlockMeta(table)[b].last_key

(* No other cell of a file is newer than what SsTable::open takes.         *)
LEMMA MaxTsOpenedCovers ==
    ASSUME NEW table, NEW c \in CellsOf(table), ~ InsideABlock(c, table)
    PROVE  c[2] <= MaxTsOpened(table)
<1> DEFINE meta == BlockMeta(table)
           keys == {meta[b].first_key : b \in DOMAIN meta}
                   \cup {meta[b].last_key : b \in DOMAIN meta}
<1>1. c \in keys
  BY DEF InsideABlock
<1>2. \A d \in keys : d[2] \in 0 .. MaxTs
  <2>1. \A d \in Cells : d[2] \in 0 .. MaxTs
    BY TablesAssumption DEF Cells
  <2>2. \A j \in 1 .. Cardinality(CellsOf(table)) : Entries(table)[j] \in Cells
    BY EntriesAreCells, SsTablesAssumption DEF CellsOf
  <2>3. \A b \in DOMAIN meta : meta[b].first_key \in Cells /\ meta[b].last_key \in Cells
    BY <2>2, BlockKeys
  <2> QED BY <2>1, <2>3
<1>3. MaxTsOpened(table) = NewestIn(keys)
  BY DEF MaxTsOpened
<1> HIDE DEF keys
<1> QED BY <1>1, <1>2, <1>3, NewestInType

-------------------------------------------------------------------------------
(* The inductive invariant of RecoverySpec, by concern                     *)

(* A WAL file holds records of cells; what is surely on file was appended. *)
WalTypeOK ==
    /\ DOMAIN wal \in SUBSET Nat
    /\ wal \in [DOMAIN wal -> [log : Seq(LogEntries), durable : Nat]]
    /\ \A id \in DOMAIN wal : wal[id].durable <= Len(wal[id].log)
    /\ crashes \in 0 .. MaxCrashes
    /\ acked \in Tables

(* A Flush record is of an SST of the state.  The last NewMemtable record  *)
(* is of the active memtable, all others are of memtables it froze.        *)
Covers(s) ==
    \E n \in RecordsOf("NewMemtable") :
        /\ Record(n).id = s.memtable
        /\ \A m \in RecordsOf("NewMemtable") \ {n} :
            m < n /\ Record(m).id \in IdsOf(s.imm_memtables) \cup s.sstables

RecordsCover ==
    /\ \A n \in FlushRecords : Record(n).id \in state.sstables
    /\ (\A t \in Freezers : pc[t] # "freeze_swap") => Covers(state)
    /\ \A t \in Freezers : pc[t] = "freeze_swap" => Covers(new_state[t])

(* The WAL of a memtable is created before any record names it.            *)
FilesFirst ==
    /\ state.memtable \in DOMAIN wal
    /\ \A n \in RecordsOf("NewMemtable") : Record(n).id \in DOMAIN wal
    /\ \A t \in Freezers : Preparing(t) =>
        /\ new_state[t].memtable \in DOMAIN wal
        /\ wal[new_state[t].memtable].log = <<>>

RecInv ==
    /\ IInv
    /\ ManifestInv
    /\ WalTypeOK
    /\ RecordsCover
    /\ FilesFirst

-------------------------------------------------------------------------------
(* The steps of RecoverySpec that are no steps of LsmStorage keep the      *)
(* invariant of the engine                                                 *)

LEMMA PutFailsInv ==
    ASSUME IInv, NEW w \in Writers, PutFails(w)
    PROVE  IInv'
<1> USE StorageAssumption
        DEF PutFails, Goto, engine, mvcc, freeze, reading, Threads, Flushers,
            Freezers
<1>0. TypeOK /\ PcByRole /\ LocksHeld /\ WriteInProgress /\ IdsInState /\
      CopyIsCurrent /\ FlushingIsFrozen /\ FlushedContentIsFinal
  BY DEF IInv
<1> DEFINE record == batch[w][inserted[w] + 1]
           cell == <<record.key, write_ts[w]>>
<1>a. record \in Records
  BY <1>0 DEF TypeOK, WriteInProgress
<1>b. cell \in Cells
  BY <1>0, <1>a, TablesAssumption
     DEF TypeOK, WriteInProgress, InWrite, Cells, Records
<1>c. state.memtable \in Ids /\ memtables[state.memtable] \in Tables
  BY <1>0 DEF TypeOK, IdsInState, IdsNamed
<1>d. [memtables[state.memtable] EXCEPT ![cell] = record.value] \in Tables
  BY <1>a, <1>b, <1>c DEF Tables, Records
<1>e. memtables' = [memtables EXCEPT ![state.memtable] =
                        [memtables[state.memtable] EXCEPT ![cell] = record.value]]
  BY <1>0 DEF TypeOK
<1>f. \A id \in Ids : id # state.memtable => memtables'[id] = memtables[id]
  BY <1>0, <1>e DEF TypeOK
<1> HIDE DEF record, cell
<1>1. TypeOK'
  <2>1. memtables' \in [Ids -> Tables]
    BY <1>0, <1>c, <1>d, <1>e DEF TypeOK
  <2>2. approx_size' \in [Ids -> Nat]
    <3>1. approx_size \in [Ids -> Nat] /\ state.memtable \in Ids
      BY <1>0, <1>c DEF TypeOK
    <3>2. approx_size' = [approx_size EXCEPT ![state.memtable] =
                              approx_size[state.memtable] + 1]
      OBVIOUS
    <3> HIDE DEF PutFails
    <3> QED BY <3>1, <3>2
  <2>3. faults' \in 0 .. MaxFaults
    BY <1>0, FaultType
  <2>4. <<>> \in Seq(Records) /\ 0 \in 0 .. MaxTs /\ 0 \in Nat
    BY TablesAssumption
  <2>5. WriteReturns(w)
    OBVIOUS
  <2>6. write_lock' \in Writers \cup {NoThread} /\ batch' \in [Writers -> Seq(Records)]
    BY <1>0, <2>4, <2>5 DEF WriteReturns, TypeOK
  <2>7. inserted' \in [Writers -> Nat] /\ write_ts' \in [Writers -> 0 .. MaxTs]
    BY <1>0, <2>4, <2>5 DEF WriteReturns, TypeOK
  <2>8. pc' \in [Threads -> PcLabels]
    BY <1>0 DEF TypeOK, PcLabels
  <2> QED BY <1>0, <2>1, <2>2, <2>3, <2>6, <2>7, <2>8 DEF TypeOK, Ids
<1>2. PcByRole'
  BY <1>0 DEF TypeOK, Ids, PcLabels, PcByRole, FreezeLabels, FlushLabels
<1>3. LocksHeld'
  BY <1>0 DEF WriteReturns, TypeOK, PcByRole, LocksHeld, InStateLock, InWrite,
              FreezeLabels
<1>4. WriteInProgress'
  <2>1. \A u \in Writers : u # w => ~ InWrite(u)
    BY <1>0 DEF TypeOK, LocksHeld, InWrite, FreezeLabels
  <2>2. \A u \in Writers : ~ InWrite(u)'
    BY <1>0, <2>1 DEF TypeOK, InWrite, FreezeLabels
  <2>3. \A u \in Writers : inserted'[u] = 0
    BY <1>0, <2>1 DEF WriteReturns, TypeOK, WriteInProgress
  <2> QED BY <2>2, <2>3 DEF WriteInProgress, InWrite
<1>5. IdsInState'
  BY <1>0 DEF TypeOK, Ids, PcLabels, IdsInState, IdsNamed
<1>6. CopyIsCurrent'
  <2>1. \A t \in Freezers : Preparing(t)' => Preparing(t)
    BY <1>0 DEF TypeOK, Preparing
  <2> QED BY <1>0, <1>f, <2>1 DEF CopyIsCurrent, Ids
<1>7. FlushingIsFrozen'
  <2>1. \A t \in Flushers : pc'[t] = pc[t]
    BY <1>0 DEF TypeOK
  <2> QED BY <1>0, <1>f, <2>1 DEF FlushingIsFrozen, Ids
<1>8. FlushedContentIsFinal'
  BY <1>0, <1>f DEF FlushedContentIsFinal, IdsInState, IdsNamed
<1> QED BY <1>1, <1>2, <1>3, <1>4, <1>5, <1>6, <1>7, <1>8 DEF IInv

LEMMA FreezeCreateFailsInv ==
    ASSUME IInv, NEW t \in Freezers, FreezeCreateFails(t)
    PROVE  IInv'
<1> USE StorageAssumption
        DEF FreezeCreateFails, Goto, engine, mvcc, freeze, reading, Threads,
            Flushers, Freezers
<1>0. TypeOK /\ PcByRole /\ LocksHeld /\ WriteInProgress /\ IdsInState /\
      CopyIsCurrent /\ FlushingIsFrozen /\ FlushedContentIsFinal
  BY DEF IInv
<1>a. /\ next_sst_id' = next_sst_id + 1 /\ next_sst_id \in Nat
      /\ Ids \subseteq Ids' /\ Ids' = 0 .. next_sst_id
  BY <1>0 DEF AllocateId, TypeOK, Ids
<1>b. /\ \A id \in Ids : memtables'[id] = memtables[id]
      /\ \A id \in Ids : sst_tables'[id] = sst_tables[id]
  BY <1>0, <1>a DEF AllocateId, TypeOK, Ids
<1>1. TypeOK'
  <2>1. memtables' \in [Ids' -> Tables] /\ sst_tables' \in [Ids' -> Tables]
    BY SMTT(20), <1>0, <1>a, EmptyTableType DEF AllocateId, TypeOK, Ids
  <2>2. approx_size' \in [Ids' -> Nat]
    BY SMTT(20), <1>0, <1>a DEF AllocateId, TypeOK, Ids
  <2>3. faults' \in 0 .. MaxFaults
    BY <1>0, FaultType DEF TypeOK
  <2>4. next_sst_id' \in Nat /\ pc' \in [Threads -> PcLabels]
    BY <1>0, <1>a DEF TypeOK, PcLabels
  <2>5. /\ write_lock' \in Writers \cup {NoThread}
        /\ batch' \in [Writers -> Seq(Records)]
        /\ inserted' \in [Writers -> Nat]
        /\ write_ts' \in [Writers -> 0 .. MaxTs]
    <3>1. CASE t \in Writers /\ WriteReturns(t)
      <4>1. <<>> \in Seq(Records) /\ 0 \in 0 .. MaxTs /\ 0 \in Nat
        BY TablesAssumption
      <4>2. write_lock' \in Writers \cup {NoThread} /\ batch' \in [Writers -> Seq(Records)]
        BY <1>0, <3>1, <4>1 DEF WriteReturns, TypeOK
      <4>3. inserted' \in [Writers -> Nat] /\ write_ts' \in [Writers -> 0 .. MaxTs]
        BY <1>0, <3>1, <4>1 DEF WriteReturns, TypeOK
      <4> QED BY <4>2, <4>3
    <3>2. CASE UNCHANGED <<write_lock, batch, inserted, write_ts>>
      BY <1>0, <3>2 DEF TypeOK
    <3> QED BY <3>1, <3>2
  <2>6. UNCHANGED <<state, manifest, commit_ts, new_state, flush_id, reading>>
    OBVIOUS
  <2>7. state_lock' \in Threads \cup {NoThread}
    OBVIOUS
  <2> HIDE DEF FreezeCreateFails
  <2> QED BY <1>0, <2>1, <2>2, <2>3, <2>4, <2>5, <2>6, <2>7 DEF TypeOK
<1>2. PcByRole'
  BY <1>0 DEF TypeOK, Ids, PcLabels, PcByRole, FreezeLabels, FlushLabels
<1>3. LocksHeld'
  BY <1>0 DEF WriteReturns, TypeOK, PcByRole, LocksHeld, InStateLock, InWrite,
              FreezeLabels
<1>4. WriteInProgress'
  <2>1. CASE t \in Writers
    <3>1. \A u \in Writers : u # t => ~ InWrite(u)
      BY <1>0, <2>1 DEF TypeOK, LocksHeld, InWrite, FreezeLabels
    <3>2. \A u \in Writers : ~ InWrite(u)'
      BY <1>0, <2>1, <3>1 DEF TypeOK, InWrite, FreezeLabels
    <3>3. \A u \in Writers : inserted'[u] = 0
      BY <1>0, <2>1, <3>1 DEF WriteReturns, TypeOK, WriteInProgress
    <3> QED BY <3>2, <3>3 DEF WriteInProgress, InWrite
  <2>2. CASE t \notin Writers
    BY <1>0, <2>2 DEF TypeOK, WriteInProgress, InWrite, FreezeLabels
  <2> QED BY <2>1, <2>2
<1>5. IdsInState'
  BY <1>0, <1>a DEF IdsInState, IdsNamed
<1>6. CopyIsCurrent'
  <2>1. \A u \in Freezers : Preparing(u)' => Preparing(u)
    BY <1>0 DEF TypeOK, Preparing
  <2>2. /\ new_state' = new_state /\ state' = state /\ flush_id' = flush_id
    OBVIOUS
  <2> HIDE DEF FreezeCreateFails
  <2> QED BY <1>0, <1>a, <1>b, <2>1, <2>2 DEF CopyIsCurrent
<1>7. FlushingIsFrozen'
  <2>1. \A u \in Flushers :
            \A label \in {"flush_build", "flush_lock", "flush_install"} :
                pc'[u] = label <=> pc[u] = label
    BY <1>0 DEF TypeOK
  <2>2. flush_id' = flush_id /\ state' = state
    OBVIOUS
  <2> HIDE DEF FreezeCreateFails
  <2> QED BY <1>0, <1>a, <1>b, <2>1, <2>2, ZenonT(40) DEF FlushingIsFrozen
<1>8. FlushedContentIsFinal'
  BY <1>0, <1>b DEF FlushedContentIsFinal, IdsInState, IdsNamed
<1> QED BY <1>1, <1>2, <1>3, <1>4, <1>5, <1>6, <1>7, <1>8 DEF IInv

(* What open finds in the manifest, whenever the process died.             *)
LEMMA ReplayFinds ==
    ASSUME RecInv
    PROVE  /\ FlushRecords \in SUBSET (0 .. Len(manifest))
           /\ LiveRecords \in SUBSET (0 .. Len(manifest)) /\ LiveRecords # {}
           /\ Flushes \in Seq(Nat)
           /\ Lists(Flushes, FlushRecords, RecordIds)
           /\ IdsOf(Flushes) = {Record(n).id : n \in FlushRecords}
           /\ IdsOf(Flushes) \subseteq state.sstables
           /\ Unflushed \in Seq(Nat) /\ Unflushed # <<>>
           /\ Lists(Unflushed, LiveRecords, RecordIds)
           /\ IdsOf(Unflushed) = {Record(n).id : n \in LiveRecords}
           /\ IdsOf(Unflushed) \subseteq DOMAIN wal
           /\ IdsOf(Flushes) \cap IdsOf(Unflushed) = {}
<1>0. manifest \in Seq(ManifestRecords) /\ IdsInState
  BY DEF RecInv, IInv, TypeOK
<1>1. /\ FlushRecords \in SUBSET (0 .. Len(manifest))
      /\ LiveRecords \in SUBSET (0 .. Len(manifest))
  BY DEF FlushRecords, LiveRecords, RecordsOf
<1>2. /\ Flushes \in Seq(Nat) /\ Lists(Flushes, FlushRecords, RecordIds)
      /\ IdsOf(Flushes) = {Record(n).id : n \in FlushRecords}
  BY <1>0, <1>1, NewestFirstList DEF Flushes
<1>3. /\ Unflushed \in Seq(Nat) /\ Lists(Unflushed, LiveRecords, RecordIds)
      /\ IdsOf(Unflushed) = {Record(n).id : n \in LiveRecords}
      /\ Unflushed = <<>> <=> LiveRecords = {}
  BY <1>0, <1>1, NewestFirstList DEF Unflushed
<1>4. IdsOf(Flushes) \subseteq state.sstables
  BY <1>2 DEF RecInv, RecordsCover
<1>5. IdsOf(Unflushed) \subseteq DOMAIN wal
  BY <1>3 DEF RecInv, FilesFirst, LiveRecords
<1>6. IdsOf(Flushes) \cap IdsOf(Unflushed) = {}
  BY <1>2, <1>3 DEF LiveRecords
<1>7. LiveRecords # {}
  <2>1. ASSUME NEW s, Covers(s), s.memtable \notin state.sstables
        PROVE  LiveRecords # {}
    <3>1. PICK n \in RecordsOf("NewMemtable") : Record(n).id = s.memtable
      BY <2>1 DEF Covers
    <3>2. \A m \in FlushRecords : Record(m).id # Record(n).id
      BY <2>1, <3>1 DEF RecInv, RecordsCover
    <3> QED BY <3>1, <3>2 DEF LiveRecords
  <2>2. CASE \A t \in Freezers : pc[t] # "freeze_swap"
    BY <1>0, <2>1, <2>2 DEF RecInv, RecordsCover, IdsInState, IdsNamed
  <2>3. ASSUME NEW t \in Freezers, pc[t] = "freeze_swap"
        PROVE  LiveRecords # {}
    <3>1. PICK id \in Ids : new_state[t] = Frozen(state, id) /\ id \notin state.sstables
      BY <2>3 DEF RecInv, IInv, CopyIsCurrent, Preparing
    <3>2. state \in States /\ id \in Nat
      BY DEF RecInv, IInv, TypeOK, Ids
    <3>3. new_state[t].memtable = id
      BY <3>1, <3>2, FrozenType
    <3> QED BY <2>1, <2>3, <3>1, <3>3 DEF RecInv, RecordsCover
  <2> QED BY <2>2, <2>3
<1> QED BY <1>1, <1>2, <1>3, <1>4, <1>5, <1>6, <1>7

(* The record the new engine writes its next batches after.                *)
LEMMA ReplayHead ==
    ASSUME RecInv
    PROVE  \E n \in LiveRecords :
              /\ \A m \in LiveRecords : m <= n
              /\ Head(Unflushed) = Record(n).id
              /\ Head(Unflushed) \in IdsOf(Unflushed)
              /\ Head(Unflushed) \notin IdsOf(Tail(Unflushed))
              /\ Tail(Unflushed) \in Seq(Nat)
              /\ IdsOf(Tail(Unflushed)) \subseteq IdsOf(Unflushed)
              /\ IdsOf(Tail(Unflushed)) = {Record(m).id : m \in LiveRecords \ {n}}
<1>1. manifest \in Seq(ManifestRecords) /\ RecordsNamed
  BY DEF RecInv, IInv, TypeOK, ManifestInv
<1>2. PICK n \in LiveRecords :
        /\ \A m \in LiveRecords : m <= n
        /\ Head(Unflushed) = Record(n).id
        /\ Tail(Unflushed) \in Seq(Nat)
        /\ IdsOf(Tail(Unflushed)) = {Record(m).id : m \in LiveRecords \ {n}}
  BY <1>1, ReplayFinds, NewestFirstList DEF Unflushed
<1>3. IdsOf(Unflushed) = {Record(m).id : m \in LiveRecords}
  BY ReplayFinds
<1>4. \A m \in LiveRecords \ {n} : Record(m).id # Record(n).id
  BY <1>1 DEF RecordsNamed, LiveRecords
<1> QED BY <1>2, <1>3, <1>4

LEMMA RecoveredIds ==
    ASSUME RecInv
    PROVE  /\ RecoveredNextId \in Nat /\ RecoveredNextId <= next_sst_id
           /\ next_sst_id \in Nat
           /\ \A n \in 0 .. Len(manifest) : Record(n).id \in 0 .. RecoveredNextId - 1
           /\ IdsOf(Flushes) \subseteq 0 .. RecoveredNextId - 1
           /\ IdsOf(Unflushed) \subseteq 0 .. RecoveredNextId - 1
<1> DEFINE used == {Record(n).id : n \in 0 .. Len(manifest)}
           last == CHOOSE id \in used : \A other \in used : other <= id
<1>1. /\ manifest \in Seq(ManifestRecords) /\ next_sst_id \in Nat
      /\ \A n \in 0 .. Len(manifest) : Record(n).id \in 0 .. next_sst_id - 1
  BY DEF RecInv, IInv, TypeOK, ManifestInv, RecordsNamed, Ids
<1>2. used \in SUBSET (0 .. next_sst_id) /\ used # {}
  <2>1. 0 \in 0 .. Len(manifest)
    BY <1>1
  <2>2. \A n \in 0 .. Len(manifest) : Record(n).id \in 0 .. next_sst_id
    BY <1>1
  <2> QED BY <2>1, <2>2
<1>3. \A id \in used : id \in Nat /\ id <= next_sst_id - 1
  BY <1>1
<1>4. last \in used /\ \A other \in used : other <= last
  <2>1. \E id \in used : \A other \in used : other <= id
    <3> HIDE DEF used
    <3> QED BY <1>1, <1>2, NatGreatest
  <2> HIDE DEF used
  <2> QED BY <2>1
<1>5. RecoveredNextId = 1 + last
  BY DEF RecoveredNextId
<1>6. \A n \in 0 .. Len(manifest) : Record(n).id \in used
  OBVIOUS
<1> HIDE DEF used, last
<1>7. RecoveredNextId \in Nat /\ RecoveredNextId <= next_sst_id
  BY <1>1, <1>3, <1>4, <1>5
<1>8. \A n \in 0 .. Len(manifest) : Record(n).id \in 0 .. RecoveredNextId - 1
  BY <1>3, <1>4, <1>5, <1>6
<1> QED BY <1>1, <1>7, <1>8, ReplayFinds

(* What comes back of a log whose end was lost.                            *)
LEMMA OnFileType ==
    ASSUME RecInv, NEW id \in DOMAIN wal, NEW lost \in Nat, lost <= InBuffer(id)
    PROVE  /\ OnFile(id, lost) \in Seq(LogEntries)
           /\ Len(wal[id].log) \in Nat /\ wal[id].durable \in Nat /\ BufferedRecords \in Nat
           /\ Len(OnFile(id, lost)) = Len(wal[id].log) - lost
           /\ wal[id].durable <= Len(OnFile(id, lost))
           /\ Len(wal[id].log) - BufferedRecords <= Len(OnFile(id, lost))
           /\ DOMAIN OnFile(id, lost) = 1 .. Len(wal[id].log) - lost
           /\ DOMAIN OnFile(id, lost) \subseteq DOMAIN wal[id].log
           /\ \A i \in DOMAIN OnFile(id, lost) : OnFile(id, lost)[i] = wal[id].log[i]
<1> DEFINE log == wal[id].log
           n == Len(log) - lost
<1>1. /\ log \in Seq(LogEntries) /\ wal[id].durable \in Nat
      /\ wal[id].durable <= Len(log) /\ BufferedRecords \in Nat
  <2>1. wal[id] \in [log : Seq(LogEntries), durable : Nat]
    BY DEF RecInv, WalTypeOK
  <2> QED BY <2>1, RecoveryAssumption DEF RecInv, WalTypeOK
<1>2. lost <= BufferedRecords /\ lost <= Len(log) - wal[id].durable
  <2> DEFINE unwritten == Len(log) - wal[id].durable
  <2>1. Len(log) \in Nat /\ unwritten \in Nat
    BY <1>1
  <2>2. \/ InBuffer(id) = 0
        \/ InBuffer(id) = IF unwritten < BufferedRecords THEN unwritten ELSE BufferedRecords
    BY DEF InBuffer
  <2> HIDE DEF unwritten
  <2>3. InBuffer(id) <= BufferedRecords /\ InBuffer(id) <= unwritten /\ InBuffer(id) \in Nat
    BY <1>1, <2>1, <2>2
  <2>4. lost <= BufferedRecords /\ lost <= unwritten
    BY <1>1, <2>1, <2>3
  <2> QED BY <2>4 DEF unwritten
<1> HIDE DEF log
<1>3. n \in 0 .. Len(log) /\ Len(log) \in Nat
  BY <1>1, <1>2
<1>4. OnFile(id, lost) = SubSeq(log, 1, n)
  BY DEF OnFile, log
<1>5. /\ SubSeq(log, 1, n) \in Seq(LogEntries)
      /\ Len(SubSeq(log, 1, n)) = n
      /\ DOMAIN SubSeq(log, 1, n) = 1 .. n
      /\ \A i \in 1 .. n : SubSeq(log, 1, n)[i] = log[i]
  <2> HIDE DEF n
  <2> QED BY <1>1, <1>3
<1>6. DOMAIN log = 1 .. Len(log)
  BY <1>1
<1>7. 1 .. n \subseteq DOMAIN log
  BY <1>3, <1>6
<1>8. wal[id].durable <= n /\ Len(log) - BufferedRecords <= n
  BY <1>1, <1>2, <1>3
<1> HIDE DEF n
<1>9. /\ OnFile(id, lost) \in Seq(LogEntries) /\ Len(OnFile(id, lost)) = n
      /\ DOMAIN OnFile(id, lost) = 1 .. n
      /\ \A i \in DOMAIN OnFile(id, lost) : OnFile(id, lost)[i] = log[i]
  BY <1>4, <1>5
<1> QED BY <1>1, <1>3, <1>7, <1>8, <1>9 DEF log, n

-------------------------------------------------------------------------------
(* A new process opens the directory                                       *)

LEMMA InitStateType ==
    /\ InitState.levels \in Seq(Nat \X Seq(Nat))
    /\ \A i \in DOMAIN InitState.levels : DOMAIN InitState.levels[i][2] = {}
<1> DEFINE NoIds == <<>>
           Level == Nat \X Seq(Nat)
           EmptyLevels == [i \in 1 .. MaxLevels |-> <<i, NoIds>>]
           NoLevels == <<>>
<1>1. MaxLevels \in Nat /\ NoIds \in Seq(Nat) /\ DOMAIN NoIds = {} /\ NoLevels \in Seq(Level)
  BY StorageAssumption
<1>2. InitState.levels = EmptyLevels \/ InitState.levels = NoLevels
  BY DEF InitState
<1>3. \A i \in DOMAIN NoLevels : DOMAIN NoLevels[i][2] = {}
  OBVIOUS
<1> HIDE DEF NoIds, NoLevels
<1>4. EmptyLevels \in [1 .. MaxLevels -> Level]
  <2>1. NoIds \in Seq(Nat) /\ MaxLevels \in Nat
    BY <1>1
  <2>2. \A i \in 1 .. MaxLevels : <<i, NoIds>> \in Nat \X Seq(Nat)
    BY <2>1
  <2> QED BY <2>2
<1>5. \A i \in DOMAIN EmptyLevels : EmptyLevels[i][2] = NoIds
  OBVIOUS
<1> HIDE DEF EmptyLevels, Level
<1>6. EmptyLevels \in Seq(Level)
  BY <1>1, <1>4
<1> QED BY <1>1, <1>2, <1>3, <1>5, <1>6 DEF Level

LEMMA RecoveredMaxTsType ==
    ASSUME NEW recovered
    PROVE  /\ RecoveredMaxTs(recovered) \in 0 .. MaxTs
           /\ \A id \in IdsOf(Unflushed) : \A c \in CellsOf(recovered[id]) :
                c[2] <= RecoveredMaxTs(recovered)
           /\ \A id \in IdsOf(Flushes) :
                MaxTsOpened(sst_tables[id]) <= RecoveredMaxTs(recovered)
<1> DEFINE flushed == {<<0, MaxTsOpened(sst_tables[id])>> : id \in IdsOf(Flushes)}
           unflushed == UNION {CellsOf(recovered[id]) : id \in IdsOf(Unflushed)}
<1>1. \A c \in flushed : c[2] \in 0 .. MaxTs
  BY MaxTsOpenedType
<1>2. \A c \in unflushed : c[2] \in 0 .. MaxTs
  <2>1. \A c \in Cells : c[2] \in 0 .. MaxTs
    BY TablesAssumption DEF Cells
  <2> QED BY <2>1 DEF CellsOf
<1>3. \A id \in IdsOf(Flushes) : <<0, MaxTsOpened(sst_tables[id])>> \in flushed
  OBVIOUS
<1>4. \A id \in IdsOf(Unflushed) : \A c \in CellsOf(recovered[id]) : c \in unflushed
  OBVIOUS
<1>5. RecoveredMaxTs(recovered) = NewestIn(flushed \cup unflushed)
  BY DEF RecoveredMaxTs
<1> HIDE DEF flushed, unflushed
<1>6. /\ NewestIn(flushed \cup unflushed) \in 0 .. MaxTs
      /\ \A c \in flushed \cup unflushed : c[2] <= NewestIn(flushed \cup unflushed)
  BY <1>1, <1>2, NewestInType
<1>7. \A id \in IdsOf(Flushes) :
        <<0, MaxTsOpened(sst_tables[id])>>[2] <= NewestIn(flushed \cup unflushed)
  BY <1>3, <1>6
<1> QED BY <1>4, <1>5, <1>6, <1>7

(* What Reopen does, object by object.                                     *)
Reopened(lost) ==
    /\ lost \in [IdsOf(Unflushed) -> 0 .. BufferedRecords]
    /\ \A id \in IdsOf(Unflushed) : lost[id] \in Nat /\ lost[id] <= InBuffer(id)
    /\ state'.memtable = Head(Unflushed)
    /\ state'.imm_memtables = Tail(Unflushed)
    /\ state'.l0_sstables = Flushes
    /\ state'.levels = InitState.levels
    /\ state'.sstables = IdsOf(Flushes)
    /\ Ids' = 0 .. RecoveredNextId - 1
    /\ Ids' \subseteq Ids
    /\ \A id \in IdsOf(Unflushed) :
        /\ memtables'[id] = WalRecover(OnFile(id, lost[id]))
        /\ approx_size'[id] = Cardinality(CellsOf(memtables'[id]))
        /\ wal'[id].log = OnFile(id, lost[id])
        /\ wal'[id].durable = Len(OnFile(id, lost[id]))
    /\ \A id \in Ids' \ IdsOf(Unflushed) : memtables'[id] = memtables[id]
    /\ \A id \in Ids' : sst_tables'[id] = sst_tables[id]
    /\ DOMAIN wal' = DOMAIN wal
    /\ \A id \in DOMAIN wal \ IdsOf(Unflushed) : wal'[id] = wal[id]
    /\ commit_ts' = RecoveredMaxTs(RecoveredTables(lost))
    /\ \A c \in Cells : acked'[c] = IF c \in CutCells(lost) THEN NoEntry ELSE acked[c]
    /\ manifest' = manifest /\ faults' = faults
    /\ pc' = [t \in Threads |-> "idle"]

LEMMA ReopenEffect ==
    ASSUME RecInv, Reopen
    PROVE  /\ \E lost : Reopened(lost)
           /\ TypeOK'
           /\ WalTypeOK'
<1> DEFINE ids == 0 .. RecoveredNextId - 1
<1>0. /\ TypeOK /\ WalTypeOK /\ BufferedRecords \in Nat /\ MaxCrashes \in Nat
      /\ MaxTs \in Nat
  BY RecoveryAssumption, TablesAssumption DEF RecInv, IInv
<1>1. PICK lost \in [IdsOf(Unflushed) -> 0 .. BufferedRecords] :
        /\ \A id \in IdsOf(Unflushed) : lost[id] <= InBuffer(id)
        /\ state' = [memtable |-> Head(Unflushed),
                     imm_memtables |-> Tail(Unflushed),
                     l0_sstables |-> Flushes,
                     levels |-> InitState.levels,
                     sstables |-> IdsOf(Flushes)]
        /\ next_sst_id' = RecoveredNextId
        /\ memtables' = RecoveredTables(lost)
        /\ approx_size' = [id \in ids |->
                                IF id \in IdsOf(Unflushed)
                                THEN Cardinality(CellsOf(RecoveredTables(lost)[id]))
                                ELSE approx_size[id]]
        /\ sst_tables' = [id \in ids |-> sst_tables[id]]
        /\ commit_ts' = RecoveredMaxTs(RecoveredTables(lost))
        /\ wal' = [id \in DOMAIN wal |->
                        IF id \in IdsOf(Unflushed)
                        THEN [log |-> OnFile(id, lost[id]),
                              durable |-> Len(OnFile(id, lost[id]))]
                        ELSE wal[id]]
        /\ acked' = [c \in Cells |-> IF c \in CutCells(lost) THEN NoEntry ELSE acked[c]]
  BY DEF Reopen
<1>2. /\ crashes < MaxCrashes
      /\ write_lock' = NoThread
      /\ state_lock' = NoThread
      /\ pc' = [t \in Threads |-> "idle"]
      /\ batch' = [w \in Writers |-> <<>>]
      /\ inserted' = [w \in Writers |-> 0]
      /\ write_ts' = [w \in Writers |-> 0]
      /\ new_state' = [t \in Freezers |-> Nil]
      /\ flush_id' = [t \in Flushers |-> Nil]
      /\ read_ts' = [r \in Readers |-> 0]
      /\ snapshot' = [r \in Readers |-> Nil]
      /\ crashes' = crashes + 1
      /\ manifest' = manifest /\ faults' = faults
  BY DEF Reopen
<1>3. /\ Flushes \in Seq(Nat) /\ Unflushed \in Seq(Nat) /\ Unflushed # <<>>
      /\ IdsOf(Unflushed) \subseteq DOMAIN wal
      /\ IdsOf(Unflushed) \subseteq ids /\ IdsOf(Flushes) \subseteq ids
      /\ RecoveredNextId \in Nat /\ ids \subseteq Ids /\ ids \subseteq Nat
  <2>1. /\ RecoveredNextId \in Nat /\ next_sst_id \in Nat /\ RecoveredNextId <= next_sst_id
        /\ IdsOf(Flushes) \subseteq 0 .. RecoveredNextId - 1
        /\ IdsOf(Unflushed) \subseteq 0 .. RecoveredNextId - 1
    BY RecoveredIds
  <2>2. ids \subseteq Ids /\ ids \subseteq Nat
    BY <2>1 DEF Ids
  <2> QED BY <2>1, <2>2, ReplayFinds
<1>4. Ids' = ids
  BY <1>1 DEF Ids
<1>5. \A id \in IdsOf(Unflushed) :
        /\ lost[id] \in Nat
        /\ OnFile(id, lost[id]) \in Seq(LogEntries)
        /\ Len(OnFile(id, lost[id])) \in Nat
        /\ WalRecover(OnFile(id, lost[id])) \in Tables
  <2> SUFFICES ASSUME NEW id \in IdsOf(Unflushed)
               PROVE  /\ lost[id] \in Nat
                      /\ OnFile(id, lost[id]) \in Seq(LogEntries)
                      /\ Len(OnFile(id, lost[id])) \in Nat
                      /\ WalRecover(OnFile(id, lost[id])) \in Tables
    OBVIOUS
  <2>1. lost[id] \in Nat /\ lost[id] <= InBuffer(id)
    BY <1>0, <1>1
  <2>2. OnFile(id, lost[id]) \in Seq(LogEntries)
    BY <1>3, <2>1, OnFileType
  <2>3. Len(OnFile(id, lost[id])) \in Nat
    BY <2>2
  <2> QED BY <2>1, <2>2, <2>3, WalRecoverType
<1>6. /\ \A id \in IdsOf(Unflushed) : RecoveredTables(lost)[id] = WalRecover(OnFile(id, lost[id]))
      /\ \A id \in ids \ IdsOf(Unflushed) : RecoveredTables(lost)[id] = memtables[id]
      /\ RecoveredTables(lost) = [id \in ids |-> RecoveredTables(lost)[id]]
  BY <1>3 DEF RecoveredTables
<1> HIDE DEF ids
<1>7. TypeOK'
  <2>1. state' \in States
    <3>1. Head(Unflushed) \in Nat /\ Tail(Unflushed) \in Seq(Nat)
      BY <1>3
    <3>2. IdsOf(Flushes) \in SUBSET Nat
      BY <1>3
    <3> QED BY <1>1, <1>3, <3>1, <3>2, InitStateType DEF States
  <2>2. RecoveredTables(lost) \in [ids -> Tables]
    <3>1. \A id \in ids : memtables[id] \in Tables
      BY <1>0, <1>3 DEF TypeOK
    <3>2. \A id \in ids : RecoveredTables(lost)[id] \in Tables
      BY <1>5, <1>6, <3>1
    <3> QED BY <1>6, <3>2
  <2>3. approx_size' \in [ids -> Nat]
    <3>1. \A id \in ids : approx_size[id] \in Nat
      BY <1>0, <1>3 DEF TypeOK
    <3> QED BY <1>1, <3>1, CellsFinite
  <2>4. sst_tables' \in [ids -> Tables]
    <3>1. \A id \in ids : sst_tables[id] \in Tables
      BY <1>0, <1>3 DEF TypeOK
    <3> QED BY <1>1, <3>1
  <2>5. commit_ts' \in 0 .. MaxTs
    BY <1>1, RecoveredMaxTsType
  <2>6. /\ next_sst_id' \in Nat /\ manifest' \in Seq(ManifestRecords)
        /\ faults' \in 0 .. MaxFaults
        /\ write_lock' \in Writers \cup {NoThread} /\ state_lock' \in Threads \cup {NoThread}
        /\ pc' \in [Threads -> PcLabels]
    BY <1>0, <1>1, <1>2, <1>3 DEF TypeOK, PcLabels
  <2>7. /\ batch' \in [Writers -> Seq(Records)] /\ inserted' \in [Writers -> Nat]
        /\ write_ts' \in [Writers -> 0 .. MaxTs] /\ read_ts' \in [Readers -> 0 .. MaxTs]
        /\ new_state' \in [Freezers -> States \cup {Nil}]
        /\ flush_id' \in [Flushers -> Nat \cup {Nil}]
        /\ snapshot' \in [Readers -> States \cup {Nil}]
    BY <1>0, <1>2
  <2>8. memtables' \in [Ids' -> Tables] /\ approx_size' \in [Ids' -> Nat]
        /\ sst_tables' \in [Ids' -> Tables]
    BY <1>1, <1>4, <2>2, <2>3, <2>4
  <2> QED BY <2>1, <2>5, <2>6, <2>7, <2>8 DEF TypeOK
<1>8. WalTypeOK'
  <2>1. /\ DOMAIN wal \in SUBSET Nat
        /\ \A id \in DOMAIN wal : wal[id] \in [log : Seq(LogEntries), durable : Nat]
        /\ \A id \in DOMAIN wal : wal[id].durable <= Len(wal[id].log)
        /\ crashes \in 0 .. MaxCrashes /\ acked \in Tables
    BY <1>0 DEF WalTypeOK
  <2>2. \A id \in DOMAIN wal :
            /\ wal'[id] \in [log : Seq(LogEntries), durable : Nat]
            /\ wal'[id].durable <= Len(wal'[id].log)
    BY <1>1, <1>5, <2>1
  <2>3. wal' = [id \in DOMAIN wal |-> wal'[id]] /\ DOMAIN wal' = DOMAIN wal
    BY <1>1
  <2>4. wal' \in [DOMAIN wal' -> [log : Seq(LogEntries), durable : Nat]]
    BY <2>2, <2>3
  <2>5. acked' \in Tables
    BY <1>1, <2>1 DEF Tables
  <2>6. crashes' \in 0 .. MaxCrashes
    BY <1>0, <1>2, <2>1
  <2> QED BY <2>1, <2>2, <2>3, <2>4, <2>5, <2>6 DEF WalTypeOK
<1>9. Reopened(lost)
  <2>1. \A id \in IdsOf(Unflushed) :
            /\ memtables'[id] = WalRecover(OnFile(id, lost[id]))
            /\ approx_size'[id] = Cardinality(CellsOf(memtables'[id]))
            /\ wal'[id].log = OnFile(id, lost[id])
            /\ wal'[id].durable = Len(OnFile(id, lost[id]))
    <3> SUFFICES ASSUME NEW id \in IdsOf(Unflushed)
                 PROVE  /\ memtables'[id] = WalRecover(OnFile(id, lost[id]))
                        /\ approx_size'[id] = Cardinality(CellsOf(memtables'[id]))
                        /\ wal'[id].log = OnFile(id, lost[id])
                        /\ wal'[id].durable = Len(OnFile(id, lost[id]))
      OBVIOUS
    <3>1. id \in ids /\ id \in DOMAIN wal
      BY <1>3
    <3>2. memtables'[id] = RecoveredTables(lost)[id]
          /\ approx_size'[id] = Cardinality(CellsOf(RecoveredTables(lost)[id]))
      BY <1>1, <3>1
    <3>3. wal'[id] = [log |-> OnFile(id, lost[id]), durable |-> Len(OnFile(id, lost[id]))]
      BY <1>1, <3>1
    <3>4. Cardinality(CellsOf(RecoveredTables(lost)[id])) = Cardinality(CellsOf(memtables'[id]))
      BY <1>1
    <3>5. RecoveredTables(lost)[id] = WalRecover(OnFile(id, lost[id]))
      BY <1>6
    <3>6. approx_size'[id] = Cardinality(CellsOf(memtables'[id]))
      BY <3>2, <3>4
    <3>7. memtables'[id] = WalRecover(OnFile(id, lost[id]))
      BY <3>2, <3>5
    <3>8. /\ wal'[id].log = OnFile(id, lost[id])
          /\ wal'[id].durable = Len(OnFile(id, lost[id]))
      BY <3>3
    <3> QED BY <3>6, <3>7, <3>8
  <2>2. \A id \in IdsOf(Unflushed) : lost[id] \in Nat /\ lost[id] <= InBuffer(id)
    BY <1>1, <1>5
  <2>3. /\ state'.memtable = Head(Unflushed)
        /\ state'.imm_memtables = Tail(Unflushed)
        /\ state'.l0_sstables = Flushes
        /\ state'.levels = InitState.levels
        /\ state'.sstables = IdsOf(Flushes)
    BY <1>1
  <2>4. /\ \A id \in Ids' \ IdsOf(Unflushed) : memtables'[id] = memtables[id]
        /\ \A id \in Ids' : sst_tables'[id] = sst_tables[id]
    BY <1>1, <1>4, <1>6
  <2>5. /\ DOMAIN wal' = DOMAIN wal
        /\ \A id \in DOMAIN wal \ IdsOf(Unflushed) : wal'[id] = wal[id]
        /\ \A c \in Cells : acked'[c] = IF c \in CutCells(lost) THEN NoEntry ELSE acked[c]
    BY <1>1
  <2> QED BY <1>1, <1>2, <1>3, <1>4, <2>1, <2>2, <2>3, <2>4, <2>5 DEF Reopened, ids
<1> QED BY <1>7, <1>8, <1>9

(* The last memtable on record is live, and it is the one the new engine   *)
(* writes to.  It was the active one, or the one a freeze had recorded and *)
(* not installed; every other on record was frozen, or was about to be.    *)
LEMMA LastRecord ==
    ASSUME RecInv
    PROVE  \E n \in LiveRecords :
              /\ \A m \in RecordsOf("NewMemtable") \ {n} : m < n
              /\ Head(Unflushed) = Record(n).id
              /\ IdsOf(Tail(Unflushed)) = {Record(m).id : m \in LiveRecords \ {n}}
              /\ \/ /\ Record(n).id = state.memtable
                    /\ \A m \in RecordsOf("NewMemtable") \ {n} :
                        Record(m).id \in IdsOf(state.imm_memtables) \cup state.sstables
                 \/ \E t \in Freezers :
                    /\ pc[t] = "freeze_swap"
                    /\ Record(n).id = new_state[t].memtable
                    /\ \A m \in RecordsOf("NewMemtable") \ {n} : Record(m).id \in LayerIds
<1>1. /\ state \in States /\ IdsInState /\ RecordsCover /\ CopyIsCurrent
      /\ Ids \subseteq Nat /\ Len(manifest) \in Nat
  BY DEF RecInv, IInv, TypeOK, Ids
<1>2. ASSUME NEW s, NEW n \in RecordsOf("NewMemtable"), Record(n).id = s.memtable,
             s.memtable \notin state.sstables,
             \A m \in RecordsOf("NewMemtable") \ {n} : m < n
      PROVE  /\ n \in LiveRecords
             /\ Head(Unflushed) = Record(n).id
             /\ IdsOf(Tail(Unflushed)) = {Record(m).id : m \in LiveRecords \ {n}}
  <2>1. n \in LiveRecords
    BY <1>1, <1>2 DEF RecordsCover, LiveRecords
  <2>2. PICK k \in LiveRecords :
            /\ \A m \in LiveRecords : m <= k
            /\ Head(Unflushed) = Record(k).id
            /\ IdsOf(Tail(Unflushed)) = {Record(m).id : m \in LiveRecords \ {k}}
    BY ReplayHead
  <2>3. k \in RecordsOf("NewMemtable") /\ k \in Nat /\ n \in Nat
    BY <1>1, <2>1 DEF LiveRecords, RecordsOf
  <2>4. k = n
    <3>1. n <= k
      BY <2>1, <2>2
    <3>2. k # n => k < n
      BY <1>2, <2>3
    <3> QED BY <2>3, <3>1, <3>2
  <2> QED BY <2>1, <2>2, <2>4
<1>3. CASE \A t \in Freezers : pc[t] # "freeze_swap"
  <2>1. PICK n \in RecordsOf("NewMemtable") :
            /\ Record(n).id = state.memtable
            /\ \A m \in RecordsOf("NewMemtable") \ {n} :
                m < n /\ Record(m).id \in IdsOf(state.imm_memtables) \cup state.sstables
    BY <1>1, <1>3 DEF RecordsCover, Covers
  <2>2. state.memtable \notin state.sstables
    BY <1>1 DEF IdsInState, IdsNamed
  <2> QED BY <1>2, <2>1, <2>2
<1>4. ASSUME NEW t \in Freezers, pc[t] = "freeze_swap"
      PROVE  \E n \in LiveRecords :
                /\ \A m \in RecordsOf("NewMemtable") \ {n} : m < n
                /\ Head(Unflushed) = Record(n).id
                /\ IdsOf(Tail(Unflushed)) = {Record(m).id : m \in LiveRecords \ {n}}
                /\ Record(n).id = new_state[t].memtable
                /\ \A m \in RecordsOf("NewMemtable") \ {n} : Record(m).id \in LayerIds
  <2>1. PICK n \in RecordsOf("NewMemtable") :
            /\ Record(n).id = new_state[t].memtable
            /\ \A m \in RecordsOf("NewMemtable") \ {n} :
                /\ m < n
                /\ Record(m).id \in IdsOf(new_state[t].imm_memtables) \cup new_state[t].sstables
    BY <1>1, <1>4 DEF RecordsCover, Covers
  <2>2. PICK id \in Ids : new_state[t] = Frozen(state, id) /\ id \notin state.sstables
    BY <1>1, <1>4 DEF CopyIsCurrent, Preparing
  <2>3. /\ new_state[t].memtable = id /\ new_state[t].sstables = state.sstables
        /\ new_state[t].imm_memtables = InsertFirst(state.memtable, state.imm_memtables)
    BY <1>1, <2>2, FrozenType
  <2>4. IdsOf(InsertFirst(state.memtable, state.imm_memtables))
        \subseteq {state.memtable} \cup IdsOf(state.imm_memtables)
    BY SMTT(20), <1>1, InsertFirstElements DEF IdsOf, States
  <2>5. \A m \in RecordsOf("NewMemtable") \ {n} : Record(m).id \in LayerIds
    BY <2>1, <2>3, <2>4 DEF LayerIds
  <2> QED BY <1>2, <2>1, <2>2, <2>3, <2>5
<1> QED BY <1>3, <1>4

LEMMA ReopenIInv ==
    ASSUME RecInv, Reopen
    PROVE  IInv'
<1>0. TypeOK' /\ pc' = [t \in Threads |-> "idle"]
  BY ReopenEffect DEF Reopened
<1>1. PICK lost : Reopened(lost)
  BY ReopenEffect
<1>2. /\ inserted' = [w \in Writers |-> 0] /\ flush_id' = [t \in Flushers |-> Nil]
  BY DEF Reopen
<1> USE DEF Threads, Freezers, Flushers
<1>3. PcByRole'
  BY <1>0 DEF PcByRole
<1>4. LocksHeld'
  BY <1>0 DEF LocksHeld, InStateLock, InWrite, FreezeLabels
<1>5. WriteInProgress'
  BY <1>0, <1>2 DEF WriteInProgress, InWrite, FreezeLabels
<1>6. CopyIsCurrent'
  BY <1>0 DEF CopyIsCurrent, Preparing
<1>7. FlushingIsFrozen'
  BY <1>0, <1>2 DEF FlushingIsFrozen
<1>8. /\ IdsOf(Flushes) \subseteq Ids' /\ IdsOf(Unflushed) \subseteq Ids'
      /\ IdsOf(Flushes) \subseteq state.sstables
      /\ IdsOf(Flushes) \cap IdsOf(Unflushed) = {}
      /\ Head(Unflushed) \in IdsOf(Unflushed)
      /\ Head(Unflushed) \notin IdsOf(Tail(Unflushed))
      /\ IdsOf(Tail(Unflushed)) \subseteq IdsOf(Unflushed)
  BY <1>1, RecoveredIds, ReplayFinds, ReplayHead DEF Reopened
<1>9. IdsInState'
  <2>1. /\ state'.memtable = Head(Unflushed)
        /\ state'.imm_memtables = Tail(Unflushed)
        /\ state'.l0_sstables = Flushes
        /\ state'.sstables = IdsOf(Flushes)
        /\ \A i \in DOMAIN state'.levels : DOMAIN state'.levels[i][2] = {}
    BY <1>1, InitStateType DEF Reopened
  <2>2. \A i \in DOMAIN Tail(Unflushed) : Tail(Unflushed)[i] \in Ids' \ {Head(Unflushed)}
    BY <1>8 DEF IdsOf
  <2>3. \A i \in DOMAIN Flushes : Flushes[i] \in IdsOf(Flushes)
    BY DEF IdsOf
  <2>4. IdsOf(Flushes) \subseteq Ids' \ {Head(Unflushed)}
    BY <1>8
  <2> QED BY <1>8, <2>1, <2>2, <2>3, <2>4 DEF IdsInState, IdsNamed
<1>10. FlushedContentIsFinal'
  <2> SUFFICES ASSUME NEW id \in IdsOf(Flushes)
               PROVE  sst_tables'[id] = memtables'[id]
    BY <1>1 DEF Reopened, FlushedContentIsFinal
  <2>1. sst_tables[id] = memtables[id]
    BY <1>8 DEF RecInv, IInv, FlushedContentIsFinal
  <2>2. id \in Ids' \ IdsOf(Unflushed)
    BY <1>8
  <2> QED BY <1>1, <2>1, <2>2 DEF Reopened
<1> QED BY <1>0, <1>3, <1>4, <1>5, <1>6, <1>7, <1>9, <1>10 DEF IInv

LEMMA ReopenInv ==
    ASSUME RecInv, Reopen
    PROVE  RecInv'
<1>1. PICK lost : Reopened(lost)
  BY ReopenEffect
<1>2. /\ \A n : Record(n)' = Record(n)
      /\ RecordIds' = RecordIds
      /\ \A kind : RecordsOf(kind)' = RecordsOf(kind)
      /\ FlushRecords' = FlushRecords /\ LiveRecords' = LiveRecords
      /\ manifest' = manifest
  BY <1>1, SameRecords DEF Reopened
<1>3. /\ \A t \in Freezers : pc'[t] = "idle"
      /\ state'.memtable = Head(Unflushed) /\ state'.imm_memtables = Tail(Unflushed)
      /\ state'.l0_sstables = Flushes /\ state'.sstables = IdsOf(Flushes)
      /\ DOMAIN wal' = DOMAIN wal
  BY <1>1 DEF Reopened, Threads, Freezers, Flushers
<1>4. /\ IdsOf(Flushes) = {Record(n).id : n \in FlushRecords}
      /\ IdsOf(Unflushed) \subseteq DOMAIN wal /\ Head(Unflushed) \in IdsOf(Unflushed)
      /\ Lists(Flushes, FlushRecords, RecordIds)
      /\ Lists(Unflushed, LiveRecords, RecordIds)
      /\ Unflushed \in Seq(Nat) /\ Unflushed # <<>>
  BY ReplayFinds, ReplayHead
<1>5. ManifestInv'
  <2>1. RecordsNamed'
    <3>1. \A n \in 0 .. Len(manifest) : Record(n).id \in Ids'
      BY <1>1, RecoveredIds DEF Reopened
    <3>2. \A m, n \in RecordsOf("NewMemtable") : Record(m).id = Record(n).id => m = n
      BY DEF RecInv, ManifestInv, RecordsNamed
    <3> QED BY <1>2, <1>3, <3>1, <3>2 DEF RecordsNamed
  <2>2. Live(state)' = Unflushed
    <3>1. InsertFirst(Head(Unflushed), Tail(Unflushed)) = Unflushed
      BY <1>4 DEF InsertFirst
    <3> QED BY <1>3, <3>1 DEF Live
  <2> QED BY <1>2, <1>3, <1>4, <2>1, <2>2 DEF ManifestInv
<1>6. RecordsCover'
  <2>1. PICK n \in LiveRecords :
            /\ \A m \in RecordsOf("NewMemtable") \ {n} : m < n
            /\ Head(Unflushed) = Record(n).id
            /\ IdsOf(Tail(Unflushed)) = {Record(m).id : m \in LiveRecords \ {n}}
    BY LastRecord
  <2>2. \A m \in RecordsOf("NewMemtable") \ {n} :
            Record(m).id \in IdsOf(Tail(Unflushed)) \cup IdsOf(Flushes)
    BY <1>4, <2>1 DEF LiveRecords
  <2>3. n \in RecordsOf("NewMemtable")
    BY DEF LiveRecords
  <2>4. Covers(state)'
    BY <1>2, <1>3, <2>1, <2>2, <2>3 DEF Covers
  <2>5. \A k \in FlushRecords : Record(k).id \in IdsOf(Flushes)
    BY <1>4
  <2> QED BY <1>2, <1>3, <2>4, <2>5 DEF RecordsCover
<1>7. FilesFirst'
  <2>1. \A n \in RecordsOf("NewMemtable") : Record(n).id \in DOMAIN wal
    BY DEF RecInv, FilesFirst
  <2> QED BY <1>2, <1>3, <1>4, <2>1 DEF FilesFirst, Preparing
<1> QED BY <1>5, <1>6, <1>7, ReopenIInv, ReopenEffect DEF RecInv

-------------------------------------------------------------------------------
(* The other steps                                                         *)

LEMMA RecoveryCases ==
    ASSUME [RecoveryNext]_recoveryVars
    PROVE  \/ [Next]_vars
           \/ \E w \in Writers : PutFails(w)
           \/ \E t \in Freezers : FreezeCreateFails(t)
           \/ Reopen
<1>1. ASSUME NEW w \in Writers, LoggedPut(w) \/ AckedCommit(w)
      PROVE  Next
  BY <1>1 DEF LoggedPut, AckedCommit, Next, WriterStep
<1>2. ASSUME NEW t \in Freezers, FreezeWithWal(t)
      PROVE  Next
  BY <1>2 DEF FreezeWithWal, Next, FreezeStep
<1>3. UnloggedStep => Next
  BY DEF UnloggedStep, Next, WriterStep, FreezeStep
<1>4. UNCHANGED recoveryVars => UNCHANGED vars
  BY DEF recoveryVars
<1> QED BY <1>1, <1>2, <1>3, <1>4 DEF RecoveryNext

(* Who touches the WAL, and who the acknowledgements.                      *)
LEMMA WalSteps ==
    ASSUME [RecoveryNext]_recoveryVars, ~ Reopen
    PROVE  /\ crashes' = crashes
           /\ \/ wal' = wal
              \/ \E w \in Writers : LoggedPut(w)
              \/ \E t \in Freezers : FreezeWithWal(t)
           /\ acked' = acked \/ \E w \in Writers : AckedCommit(w)
<1>1. UNCHANGED recoveryVars => UNCHANGED <<wal, crashes, acked>>
  BY DEF recoveryVars
<1> QED BY <1>1 DEF RecoveryNext, LoggedPut, PutFails, AckedCommit, FreezeWithWal,
                    FreezeCreateFails, UnloggedStep

(* The record a put inserts and logs.                                      *)
PutCell(w) == <<batch[w][inserted[w] + 1].key, write_ts[w]>>
PutValue(w) == batch[w][inserted[w] + 1].value

LEMMA PutRecordType ==
    ASSUME IInv, NEW w \in Writers, pc[w] = "put"
    PROVE  /\ PutCell(w) \in Cells /\ PutValue(w) \in Values
           /\ <<PutCell(w), PutValue(w)>> \in LogEntries
           /\ PutCell(w) = <<batch[w][inserted[w] + 1].key, commit_ts + 1>>
           /\ PutCell(w)[2] = commit_ts + 1
<1> DEFINE record == batch[w][inserted[w] + 1]
<1>1. /\ batch[w] \in Seq(Records) /\ inserted[w] \in Nat /\ inserted[w] < Len(batch[w])
      /\ write_ts[w] = commit_ts + 1 /\ commit_ts \in 0 .. MaxTs /\ commit_ts < MaxTs
      /\ MaxTs \in Nat
  BY TablesAssumption DEF IInv, TypeOK, WriteInProgress, InWrite
<1>2. record \in Records
  BY <1>1
<1>3. record.key \in Keys /\ record.value \in Values
  BY <1>2 DEF Records
<1>4. write_ts[w] \in 1 .. MaxTs
  BY <1>1
<1>5. PutCell(w) = <<record.key, write_ts[w]>> /\ PutValue(w) = record.value
  BY DEF PutCell, PutValue
<1> HIDE DEF record
<1> QED BY <1>1, <1>3, <1>4, <1>5 DEF Cells, LogEntries, record

LEMMA LoggedPutWal ==
    ASSUME RecInv, NEW w \in Writers, LoggedPut(w)
    PROVE  /\ pc[w] = "put" /\ PutRecord(w) /\ state' = state
           /\ state.memtable \in DOMAIN wal
           /\ wal[state.memtable].log \in Seq(LogEntries)
           /\ DOMAIN wal' = DOMAIN wal
           /\ wal'[state.memtable].log
                = Append(wal[state.memtable].log, <<PutCell(w), PutValue(w)>>)
           /\ wal'[state.memtable].durable = wal[state.memtable].durable
           /\ \A id \in DOMAIN wal : id # state.memtable => wal'[id] = wal[id]
           /\ wal' \in [DOMAIN wal -> [log : Seq(LogEntries), durable : Nat]]
<1> DEFINE id == state.memtable
           entry == <<PutCell(w), PutValue(w)>>
           File == [log : Seq(LogEntries), durable : Nat]
<1>1. /\ pc[w] = "put" /\ PutRecord(w) /\ state' = state
      /\ wal' = [wal EXCEPT ![id].log = Append(@, entry)]
  BY DEF LoggedPut, PutRecord, PutCell, PutValue
<1>2. wal \in [DOMAIN wal -> File] /\ id \in DOMAIN wal /\ entry \in LogEntries
  BY <1>1, PutRecordType DEF RecInv, WalTypeOK, FilesFirst
<1> HIDE DEF id, entry
<1>3. wal[id] \in File /\ wal[id].log \in Seq(LogEntries) /\ wal[id].durable \in Nat
  BY <1>2
<1>4. wal' = [wal EXCEPT ![id] = [wal[id] EXCEPT !.log = Append(wal[id].log, entry)]]
  BY <1>1
<1>5. [wal[id] EXCEPT !.log = Append(wal[id].log, entry)]
      = [log |-> Append(wal[id].log, entry), durable |-> wal[id].durable]
  <2>1. wal[id] = [log |-> wal[id].log, durable |-> wal[id].durable]
    BY <1>3
  <2> DEFINE file == wal[id]
             log == file.log
             durable == file.durable
             longer == Append(log, entry)
  <2>2. file = [log |-> log, durable |-> durable]
    BY <2>1
  <2> HIDE DEF file, log, durable, longer
  <2>3. [file EXCEPT !.log = longer] = [log |-> longer, durable |-> durable]
    BY <2>2
  <2> QED BY <2>3 DEF file, log, durable, longer
<1>6. Append(wal[id].log, entry) \in Seq(LogEntries)
  BY <1>2, <1>3
<1>7. [log |-> Append(wal[id].log, entry), durable |-> wal[id].durable] \in File
  BY <1>3, <1>6
<1>8. /\ DOMAIN wal' = DOMAIN wal
      /\ wal'[id] = [log |-> Append(wal[id].log, entry), durable |-> wal[id].durable]
      /\ \A other \in DOMAIN wal : other # id => wal'[other] = wal[other]
  BY <1>2, <1>4, <1>5
<1>9. wal' \in [DOMAIN wal -> File]
  <2> HIDE DEF File
  <2> QED BY <1>2, <1>4, <1>5, <1>7
<1> QED BY <1>1, <1>2, <1>3, <1>8, <1>9 DEF id, entry, File

LEMMA FreezeWithWalWal ==
    ASSUME RecInv, NEW t \in Freezers, FreezeWithWal(t)
    PROVE  /\ FreezeCopy(t)
           /\ next_sst_id \in Nat
           /\ DOMAIN wal' = DOMAIN wal \cup {next_sst_id}
           /\ next_sst_id \notin DOMAIN wal
           /\ wal'[next_sst_id].log = <<>> /\ wal'[next_sst_id].durable = 0
           /\ \A id \in DOMAIN wal : wal'[id] = wal[id]
BY DEF FreezeWithWal, NewWal, RecInv, IInv, TypeOK

(* What write_batch acknowledges is a value.                               *)
LEMMA LastValueIsLast ==
    ASSUME NEW b \in Seq(Records), NEW k
    PROVE  /\ LastValue(b, k) = LastAmong(b, Len(b), k)
           /\ LastValue(b, k) \in Values \cup {NoEntry}
<1> DEFINE at == {i \in DOMAIN b : b[i].key = k}
           last == CHOOSE i \in at : \A j \in at : j <= i
<1>1. Len(b) \in Nat /\ DOMAIN b = 1 .. Len(b) /\ at \in SUBSET (0 .. Len(b))
      /\ \A i \in DOMAIN b : b[i] \in Records
  OBVIOUS
<1>2. LastValue(b, k) = LastAmong(b, Len(b), k)
  BY <1>1 DEF LastValue, LastAmong
<1>3. ASSUME at # {}
      PROVE  last \in at
  <2>1. \E i \in at : \A j \in at : j <= i
    <3> HIDE DEF at
    <3> QED BY <1>1, <1>3, NatGreatest
  <2> HIDE DEF at
  <2> QED BY <2>1
<1>4. LastValue(b, k) = IF at = {} THEN NoEntry ELSE b[last].value
  BY DEF LastValue
<1>5. \A i \in at : b[i].value \in Values
  BY <1>1 DEF Records
<1> HIDE DEF at, last
<1> QED BY <1>2, <1>3, <1>4, <1>5

LEMMA WalTypeStep ==
    ASSUME RecInv, [RecoveryNext]_recoveryVars
    PROVE  WalTypeOK'
<1>0. WalTypeOK
  BY DEF RecInv
<1>1. CASE Reopen
  BY <1>1, ReopenEffect
<1>2. CASE ~ Reopen
  <2>1. crashes' \in 0 .. MaxCrashes
    BY <1>0, <1>2, WalSteps DEF WalTypeOK
  <2>2. acked' \in Tables
    <3>1. CASE acked' = acked
      BY <1>0, <3>1 DEF WalTypeOK
    <3>2. ASSUME NEW w \in Writers, AckedCommit(w)
          PROVE  acked' \in Tables
      <4>1. batch[w] \in Seq(Records)
        BY DEF RecInv, IInv, TypeOK
      <4>2. acked' = [c \in Cells |->
                        IF c[2] = write_ts[w] /\ LastValue(batch[w], c[1]) # NoEntry
                        THEN LastValue(batch[w], c[1]) ELSE acked[c]]
        BY <3>2 DEF AckedCommit
      <4>3. \A c \in Cells : LastValue(batch[w], c[1]) \in Values \cup {NoEntry}
        BY <4>1, LastValueIsLast
      <4>4. \A c \in Cells : acked[c] \in Values \cup {NoEntry}
        BY <1>0 DEF WalTypeOK, Tables
      <4> QED BY <4>2, <4>3, <4>4 DEF Tables
    <3> QED BY <1>2, <3>1, <3>2, WalSteps
  <2>3. /\ DOMAIN wal' \in SUBSET Nat
        /\ wal' \in [DOMAIN wal' -> [log : Seq(LogEntries), durable : Nat]]
        /\ \A id \in DOMAIN wal' : wal'[id].durable <= Len(wal'[id].log)
    <3>1. CASE wal' = wal
      BY <1>0, <3>1 DEF WalTypeOK
    <3>2. ASSUME NEW w \in Writers, LoggedPut(w)
          PROVE  /\ DOMAIN wal' \in SUBSET Nat
                 /\ wal' \in [DOMAIN wal' -> [log : Seq(LogEntries), durable : Nat]]
                 /\ \A id \in DOMAIN wal' : wal'[id].durable <= Len(wal'[id].log)
      <4>1. /\ DOMAIN wal' = DOMAIN wal
            /\ wal' \in [DOMAIN wal -> [log : Seq(LogEntries), durable : Nat]]
        BY <3>2, LoggedPutWal
      <4>2. /\ state.memtable \in DOMAIN wal /\ wal[state.memtable].log \in Seq(LogEntries)
            /\ wal'[state.memtable].log
                = Append(wal[state.memtable].log, <<PutCell(w), PutValue(w)>>)
            /\ wal'[state.memtable].durable = wal[state.memtable].durable
            /\ \A id \in DOMAIN wal : id # state.memtable => wal'[id] = wal[id]
        BY <3>2, LoggedPutWal
      <4>3. Len(wal'[state.memtable].log) = Len(wal[state.memtable].log) + 1
            /\ Len(wal[state.memtable].log) \in Nat
        BY <4>2
      <4>4. /\ wal[state.memtable].durable \in Nat
            /\ wal[state.memtable].durable <= Len(wal[state.memtable].log)
        BY <1>0, <4>2 DEF WalTypeOK
      <4>5. wal'[state.memtable].durable <= Len(wal'[state.memtable].log)
        BY <4>2, <4>3, <4>4
      <4> QED BY <1>0, <4>1, <4>2, <4>5 DEF WalTypeOK
    <3>3. ASSUME NEW t \in Freezers, FreezeWithWal(t)
          PROVE  /\ DOMAIN wal' \in SUBSET Nat
                 /\ wal' \in [DOMAIN wal' -> [log : Seq(LogEntries), durable : Nat]]
                 /\ \A id \in DOMAIN wal' : wal'[id].durable <= Len(wal'[id].log)
      <4>1. /\ next_sst_id \in Nat
            /\ wal' = [id \in DOMAIN wal \cup {next_sst_id} |->
                            IF id = next_sst_id THEN NewWal ELSE wal[id]]
        BY <3>3 DEF FreezeWithWal, RecInv, IInv, TypeOK
      <4>2. NewWal \in [log : Seq(LogEntries), durable : Nat] /\ NewWal.durable <= Len(NewWal.log)
        BY DEF NewWal
      <4> QED BY <1>0, <4>1, <4>2 DEF WalTypeOK
    <3> QED BY <1>2, <3>1, <3>2, <3>3, WalSteps
  <2> QED BY <2>1, <2>2, <2>3 DEF WalTypeOK
<1> QED BY <1>1, <1>2

(* Only FreezeWithWal prepares a state.                                    *)
LEMMA PreparingFrame ==
    ASSUME IInv, [RecoveryNext]_recoveryVars, ~ Reopen,
           \A t \in Freezers : ~ FreezeWithWal(t)
    PROVE  \A t \in Freezers : Preparing(t)' => Preparing(t) /\ new_state'[t] = new_state[t]
<1> DEFINE Goal == \A t \in Freezers : Preparing(t)' =>
                        Preparing(t) /\ new_state'[t] = new_state[t]
<1>0. /\ pc \in [Threads -> PcLabels] /\ Freezers \subseteq Threads
      /\ new_state \in [Freezers -> States \cup {Nil}]
  BY DEF IInv, TypeOK, Freezers, Threads, Flushers
<1> USE DEF Goto, freeze, Preparing
<1>1. ASSUME NEW w \in Writers, PutRecord(w) \/ PutFails(w) \/ Commit(w) \/ WriteBegin(w)
                                \/ TryFreeze(w)
      PROVE  Goal
  BY <1>0, <1>1 DEF PutRecord, PutFails, Commit, WriteBegin, TryFreeze
<1>2. ASSUME NEW t \in Freezers, FreezeLock(t) \/ FreezeRecord(t) \/ FreezeFails(t)
                                 \/ FreezeSwap(t) \/ FreezeCreateFails(t)
      PROVE  Goal
  BY <1>0, <1>2 DEF FreezeLock, FreezeRecord, FreezeFails, FreezeSwap, FreezeCreateFails
<1>3. ASSUME NEW f \in Forcers, ForceFlush(f) \/ ForceFlushCheck(f)
      PROVE  Goal
  BY <1>0, <1>3 DEF ForceFlush, ForceFlushCheck
<1>4. ASSUME TriggerFlush
      PROVE  Goal
  BY <1>0, <1>4 DEF TriggerFlush
<1>5. ASSUME NEW t \in Flushers, FlushStep(t)
      PROVE  Goal
  BY <1>0, <1>5 DEF FlushStep, FlushPick, FlushBuild, FlushFails, FlushLock, FlushInstall,
                    FlushPanics
<1>6. ASSUME NEW r \in Readers, ReaderStep(r)
      PROVE  Goal
  BY <1>0, <1>6 DEF ReaderStep, NewTxn, ReadSnapshot, ReadEnd
<1>7. ASSUME UNCHANGED recoveryVars
      PROVE  Goal
  BY <1>7 DEF recoveryVars, vars
<1> HIDE DEF Goal
<1>8. Goal
  BY <1>1, <1>2, <1>3, <1>4, <1>5, <1>6, <1>7
     DEF RecoveryNext, UnloggedStep, LoggedPut, AckedCommit
<1> QED BY <1>8 DEF Goal

(* No WAL is taken away, and only that of the active memtable is written.  *)
LEMMA WalGrows ==
    ASSUME RecInv, [RecoveryNext]_recoveryVars, ~ Reopen
    PROVE  /\ DOMAIN wal \subseteq DOMAIN wal'
           /\ \A id \in DOMAIN wal : id # state.memtable => wal'[id] = wal[id]
<1>1. ASSUME NEW w \in Writers, LoggedPut(w)
      PROVE  /\ DOMAIN wal \subseteq DOMAIN wal'
             /\ \A id \in DOMAIN wal : id # state.memtable => wal'[id] = wal[id]
  BY <1>1, LoggedPutWal
<1>2. ASSUME NEW t \in Freezers, FreezeWithWal(t)
      PROVE  /\ DOMAIN wal \subseteq DOMAIN wal'
             /\ \A id \in DOMAIN wal : id # state.memtable => wal'[id] = wal[id]
  BY <1>2, FreezeWithWalWal
<1> QED BY <1>1, <1>2, WalSteps

(* Who replaces the state, and who appends to the manifest.                *)
LEMMA RecoveryStateStep ==
    ASSUME [RecoveryNext]_recoveryVars, ~ Reopen
    PROVE  \/ state' = state
           \/ \E t \in Freezers : FreezeSwap(t)
           \/ \E t \in Flushers : FlushInstall(t)
<1>1. \A w \in Writers : PutFails(w) => state' = state
  BY DEF PutFails
<1>2. \A t \in Freezers : FreezeCreateFails(t) => state' = state
  BY DEF FreezeCreateFails
<1> QED BY <1>1, <1>2, RecoveryCases, StateStep

LEMMA RecoveryManifestStep ==
    ASSUME [RecoveryNext]_recoveryVars
    PROVE  \/ manifest' = manifest
           \/ \E t \in Freezers : FreezeRecord(t)
           \/ \E t \in Flushers : FlushInstall(t)
<1> USE DEF engine
<1>1. ASSUME NEW w \in Writers, WriterStep(w) \/ PutFails(w)
      PROVE  manifest' = manifest
  BY <1>1 DEF WriterStep, WriteBegin, PutRecord, TryFreeze, Commit, PutFails
<1>2. ASSUME NEW t \in Freezers, FreezeStep(t) \/ FreezeCreateFails(t)
      PROVE  manifest' = manifest \/ FreezeRecord(t)
  BY <1>2 DEF FreezeStep, FreezeLock, FreezeCopy, FreezeFails, FreezeSwap, FreezeCreateFails
<1>3. ASSUME NEW f \in Forcers, ForceFlush(f) \/ ForceFlushCheck(f)
      PROVE  manifest' = manifest
  BY <1>3 DEF ForceFlush, ForceFlushCheck
<1>4. TriggerFlush => manifest' = manifest
  BY DEF TriggerFlush
<1>5. ASSUME NEW t \in Flushers, FlushStep(t)
      PROVE  manifest' = manifest \/ FlushInstall(t)
  BY <1>5 DEF FlushStep, FlushPick, FlushBuild, FlushFails, FlushLock, FlushPanics
<1>6. ASSUME NEW r \in Readers, ReaderStep(r)
      PROVE  manifest' = manifest
  BY <1>6 DEF ReaderStep, NewTxn, ReadSnapshot, ReadEnd
<1>7. UNCHANGED vars => manifest' = manifest
  BY DEF vars
<1>8. Reopen => manifest' = manifest
  BY DEF Reopen
<1> QED BY <1>1, <1>2, <1>3, <1>4, <1>5, <1>6, <1>7, <1>8, RecoveryCases DEF Next

LEMMA FilesFirstStep ==
    ASSUME RecInv, [RecoveryNext]_recoveryVars, ~ Reopen
    PROVE  FilesFirst'
<1>0. /\ FilesFirst /\ CopyIsCurrent /\ IdsInState /\ state \in States
      /\ manifest \in Seq(ManifestRecords) /\ Ids \subseteq Nat
      /\ state_lock \in Threads \cup {NoThread} /\ LocksHeld
      /\ pc \in [Threads -> PcLabels] /\ Freezers \subseteq Threads /\ Flushers \subseteq Threads
      /\ new_state \in [Freezers -> States \cup {Nil}] /\ next_sst_id \in Nat
  BY DEF RecInv, IInv, TypeOK, Ids, Threads, Freezers, Flushers
<1>1. /\ DOMAIN wal \subseteq DOMAIN wal'
      /\ \A id \in DOMAIN wal : id # state.memtable => wal'[id] = wal[id]
  BY WalGrows
<1>2. ASSUME NEW t \in Freezers, Preparing(t)
      PROVE  /\ new_state[t].memtable \in DOMAIN wal
             /\ new_state[t].memtable \in Nat
             /\ new_state[t].memtable # state.memtable
             /\ wal[new_state[t].memtable].log = <<>>
             /\ wal'[new_state[t].memtable].log = <<>>
  <2>1. PICK id \in Ids : new_state[t] = Frozen(state, id) /\ id # state.memtable
    BY <1>0, <1>2 DEF CopyIsCurrent
  <2>2. id \in Nat
    BY <1>0
  <2>3. new_state[t].memtable = id
    BY <1>0, <2>1, <2>2, FrozenType
  <2> QED BY <1>0, <1>1, <1>2, <2>1, <2>2, <2>3 DEF FilesFirst
<1>3. state'.memtable \in DOMAIN wal
  <2>1. CASE state' = state
    BY <1>0, <2>1 DEF FilesFirst
  <2>2. ASSUME NEW t \in Freezers, FreezeSwap(t)
        PROVE  state'.memtable \in DOMAIN wal
    BY <1>2, <2>2 DEF FreezeSwap, Preparing
  <2>3. ASSUME NEW t \in Flushers, FlushInstall(t)
        PROVE  state'.memtable \in DOMAIN wal
    <3>1. state' = Flushed(state, flush_id[t])
      BY <2>3 DEF FlushInstall
    <3>2. Flushed(state, flush_id[t]).memtable = state.memtable
      BY <1>0 DEF Flushed, States
    <3> QED BY <1>0, <3>1, <3>2 DEF FilesFirst
  <2> QED BY <2>1, <2>2, <2>3, RecoveryStateStep
<1>4. \A n \in RecordsOf("NewMemtable")' : Record(n)'.id \in DOMAIN wal
  <2>1. CASE manifest' = manifest
    BY <1>0, <2>1, SameRecords DEF FilesFirst
  <2>2. ASSUME NEW r \in ManifestRecords, manifest' = Append(manifest, r),
               r.kind = "NewMemtable" => r.id \in DOMAIN wal
        PROVE  \A n \in RecordsOf("NewMemtable")' : Record(n)'.id \in DOMAIN wal
    <3>1. PICK n : n = Len(manifest) + 1
      OBVIOUS
    <3>2. /\ \A m \in 0 .. Len(manifest) : Record(m)' = Record(m)
          /\ Record(n)' = r
          /\ RecordsOf("NewMemtable")' = RecordsOf("NewMemtable")
                                \cup (IF r.kind = "NewMemtable" THEN {n} ELSE {})
      BY <1>0, <2>2, <3>1, AppendedRecord
    <3>3. \A m \in RecordsOf("NewMemtable") : m \in 0 .. Len(manifest)
      BY DEF RecordsOf
    <3>4. \A m \in RecordsOf("NewMemtable") : Record(m)'.id \in DOMAIN wal
      BY <1>0, <3>2, <3>3 DEF FilesFirst
    <3> QED BY <2>2, <3>2, <3>4
  <2>3. ASSUME NEW t \in Freezers, FreezeRecord(t)
        PROVE  \A n \in RecordsOf("NewMemtable")' : Record(n)'.id \in DOMAIN wal
    <3> DEFINE r == [kind |-> "NewMemtable", id |-> new_state[t].memtable]
    <3>1. /\ manifest' = Append(manifest, r)
          /\ new_state[t].memtable \in DOMAIN wal /\ new_state[t].memtable \in Nat
      BY <1>2, <2>3 DEF FreezeRecord, Preparing
    <3>2. r \in ManifestRecords /\ r.id \in DOMAIN wal
      BY <3>1 DEF ManifestRecords
    <3> HIDE DEF r
    <3> QED BY <2>2, <3>1, <3>2
  <2>4. ASSUME NEW t \in Flushers, FlushInstall(t), manifest' # manifest
        PROVE  \A n \in RecordsOf("NewMemtable")' : Record(n)'.id \in DOMAIN wal
    <3> DEFINE r == [kind |-> "Flush", id |-> flush_id[t]]
    <3>1. manifest' = Append(manifest, r) /\ flush_id[t] \in Nat
      BY <1>0, <2>4 DEF FlushInstall, RecInv, IInv, FlushingIsFrozen
    <3>2. r \in ManifestRecords /\ r.kind # "NewMemtable"
      BY <3>1 DEF ManifestRecords
    <3> HIDE DEF r
    <3> QED BY <2>2, <3>1, <3>2
  <2> QED BY <2>1, <2>3, <2>4, RecoveryManifestStep
<1>5. \A t \in Freezers : Preparing(t)' =>
            /\ new_state'[t].memtable \in DOMAIN wal'
            /\ wal'[new_state'[t].memtable].log = <<>>
  <2>1. CASE \A t \in Freezers : ~ FreezeWithWal(t)
    <3>1. \A t \in Freezers : Preparing(t)' => Preparing(t) /\ new_state'[t] = new_state[t]
      BY <2>1, PreparingFrame DEF RecInv
    <3> QED BY <1>1, <1>2, <3>1
  <2>2. ASSUME NEW u \in Freezers, FreezeWithWal(u), NEW t \in Freezers, Preparing(t)'
        PROVE  /\ new_state'[t].memtable \in DOMAIN wal'
               /\ wal'[new_state'[t].memtable].log = <<>>
    <3>1. /\ FreezeCopy(u) /\ next_sst_id \in DOMAIN wal'
          /\ wal'[next_sst_id].log = <<>>
      BY <2>2, FreezeWithWalWal
    <3>2. /\ new_state' = [new_state EXCEPT ![u] = Frozen(state, next_sst_id)]
          /\ pc' = [pc EXCEPT ![u] = "freeze_record"]
      BY <3>1 DEF FreezeCopy, Goto
    <3>3. CASE t = u
      BY <1>0, <3>1, <3>2, <3>3, FrozenType
    <3>4. CASE t # u
      <4>1. new_state'[t] = new_state[t] /\ Preparing(t)
        BY <1>0, <2>2, <3>2, <3>4 DEF Preparing
      <4> QED BY <1>1, <1>2, <4>1
    <3> QED BY <3>3, <3>4
  <2> QED BY <2>1, <2>2
<1> QED BY <1>1, <1>3, <1>4, <1>5 DEF FilesFirst

(* A freeze holds state_lock from its copy to its swap: there is one, and  *)
(* no flush replaces the state meanwhile.                                  *)
LEMMA OneSwap ==
    ASSUME IInv, NEW t \in Threads, InStateLock(t)
    PROVE  \A u \in Threads : InStateLock(u) => u = t
BY DEF IInv, LocksHeld

(* What a step does to the labels of freezes about to swap.                *)
LEMMA SwapFrame ==
    ASSUME IInv, [RecoveryNext]_recoveryVars, ~ Reopen,
           \A t \in Freezers : ~ FreezeRecord(t) /\ ~ FreezeSwap(t)
    PROVE  \A t \in Freezers :
              /\ pc'[t] = "freeze_swap" <=> pc[t] = "freeze_swap"
              /\ pc[t] = "freeze_swap" => new_state'[t] = new_state[t]
<1> DEFINE Goal == \A t \in Freezers :
                      /\ pc'[t] = "freeze_swap" <=> pc[t] = "freeze_swap"
                      /\ pc[t] = "freeze_swap" => new_state'[t] = new_state[t]
<1>0. /\ pc \in [Threads -> PcLabels] /\ Freezers \subseteq Threads
      /\ new_state \in [Freezers -> States \cup {Nil}]
  BY DEF IInv, TypeOK, Freezers, Threads, Flushers
<1> USE DEF Goto, freeze
<1>1. ASSUME NEW w \in Writers, WriterStep(w) \/ PutFails(w)
      PROVE  Goal
  BY <1>0, <1>1 DEF WriterStep, PutRecord, PutFails, Commit, WriteBegin, TryFreeze
<1>2. ASSUME NEW t \in Freezers, FreezeLock(t) \/ FreezeCopy(t) \/ FreezeFails(t)
                                 \/ FreezeCreateFails(t)
      PROVE  Goal
  BY <1>0, <1>2 DEF FreezeLock, FreezeCopy, FreezeFails, FreezeCreateFails
<1>3. ASSUME NEW f \in Forcers, ForceFlush(f) \/ ForceFlushCheck(f)
      PROVE  Goal
  BY <1>0, <1>3 DEF ForceFlush, ForceFlushCheck
<1>4. ASSUME TriggerFlush
      PROVE  Goal
  BY <1>0, <1>4 DEF TriggerFlush
<1>5. ASSUME NEW t \in Flushers, FlushStep(t)
      PROVE  Goal
  BY <1>0, <1>5 DEF FlushStep, FlushPick, FlushBuild, FlushFails, FlushLock, FlushInstall,
                    FlushPanics
<1>6. ASSUME NEW r \in Readers, ReaderStep(r)
      PROVE  Goal
  BY <1>0, <1>6 DEF ReaderStep, NewTxn, ReadSnapshot, ReadEnd
<1>7. ASSUME UNCHANGED vars
      PROVE  Goal
  BY <1>7 DEF vars
<1> HIDE DEF Goal
<1>8. Goal
  BY <1>1, <1>2, <1>3, <1>4, <1>5, <1>6, <1>7, RecoveryCases DEF Next, FreezeStep
<1> QED BY <1>8 DEF Goal

(* Freezing and flushing keep the memtables there were, as SSTs or not.    *)
LEMMA FrozenList ==
    ASSUME NEW imm \in Seq(Nat), NEW id \in Nat
    PROVE  IdsOf(InsertFirst(id, imm)) = {id} \cup IdsOf(imm)
<1> DEFINE longer == InsertFirst(id, imm)
<1>1. /\ DOMAIN longer = 1 .. Len(imm) + 1 /\ longer[1] = id
      /\ \A i \in 1 .. Len(imm) : longer[i + 1] = imm[i]
      /\ Len(imm) \in Nat /\ DOMAIN imm = 1 .. Len(imm)
  <2>1. /\ longer \in Seq(Nat) /\ Len(longer) = Len(imm) + 1
        /\ longer[1] = id /\ \A i \in 1 .. Len(imm) + 1 : i # 1 => longer[i] = imm[i - 1]
    BY InsertFirstParts
  <2> HIDE DEF longer
  <2>2. Len(imm) \in Nat /\ DOMAIN imm = 1 .. Len(imm)
    OBVIOUS
  <2>3. DOMAIN longer = 1 .. Len(imm) + 1
    BY <2>1
  <2>4. ASSUME NEW i \in 1 .. Len(imm)
        PROVE  longer[i + 1] = imm[i]
    <3>1. i + 1 \in 1 .. Len(imm) + 1 /\ i + 1 # 1 /\ (i + 1) - 1 = i
      BY <2>2
    <3> QED BY <2>1, <3>1
  <2> QED BY <2>1, <2>2, <2>3, <2>4
<1> HIDE DEF longer
<1>2. 1 \in DOMAIN longer /\ \A i \in DOMAIN imm : i + 1 \in DOMAIN longer
  BY <1>1
<1>3. \A i \in DOMAIN imm : imm[i] = longer[i + 1]
  BY <1>1
<1>4. {id} \cup IdsOf(imm) \subseteq IdsOf(longer)
  BY <1>1, <1>2, <1>3 DEF IdsOf
<1>5. \A i \in DOMAIN longer : i = 1 \/ (i - 1 \in DOMAIN imm /\ (i - 1) + 1 = i)
  BY <1>1
<1>6. ASSUME NEW i \in DOMAIN longer
      PROVE  longer[i] \in {id} \cup IdsOf(imm)
  <2>1. CASE i = 1
    BY <1>1, <2>1
  <2>2. CASE i # 1
    <3>1. PICK j \in DOMAIN imm : j + 1 = i
      BY <1>5, <2>2
    <3>2. longer[i] = imm[j]
      BY <1>3, <3>1
    <3> QED BY <3>2 DEF IdsOf
  <2> QED BY <2>1, <2>2
<1>7. IdsOf(longer) \subseteq {id} \cup IdsOf(imm)
  BY <1>6 DEF IdsOf
<1> QED BY <1>4, <1>7 DEF longer

LEMMA FlushedList ==
    ASSUME NEW imm \in Seq(Nat), imm # <<>>
    PROVE  IdsOf(imm) = IdsOf(Front(imm)) \cup {Last(imm)}
<1>1. /\ Front(imm) \in Seq(Nat) /\ Len(Front(imm)) = Len(imm) - 1
      /\ \A i \in 1 .. Len(imm) - 1 : Front(imm)[i] = imm[i]
      /\ Last(imm) = imm[Len(imm)]
  BY FrontLastProperties
<1>2. Len(imm) \in Nat \ {0} /\ DOMAIN imm = 1 .. Len(imm)
  OBVIOUS
<1>3. DOMAIN Front(imm) = 1 .. Len(imm) - 1
  BY <1>1
<1>4. \A i \in DOMAIN imm : i \in DOMAIN Front(imm) \/ i = Len(imm)
  BY <1>2, <1>3
<1>5. \A i \in DOMAIN imm : imm[i] = Last(imm) \/ imm[i] \in IdsOf(Front(imm))
  BY <1>1, <1>3, <1>4 DEF IdsOf
<1>6. Len(imm) \in DOMAIN imm /\ \A i \in DOMAIN Front(imm) : i \in DOMAIN imm
  BY <1>2, <1>3
<1>7. IdsOf(imm) \subseteq IdsOf(Front(imm)) \cup {Last(imm)}
  BY <1>5 DEF IdsOf
<1>8. IdsOf(Front(imm)) \cup {Last(imm)} \subseteq IdsOf(imm)
  BY <1>1, <1>3, <1>6 DEF IdsOf
<1> QED BY <1>7, <1>8

LEMMA RecordsCoverFreezeRecord ==
    ASSUME RecInv, NEW t \in Freezers, FreezeRecord(t)
    PROVE  RecordsCover'
<1> DEFINE r == [kind |-> "NewMemtable", id |-> new_state[t].memtable]
<1>0. /\ manifest \in Seq(ManifestRecords) /\ state \in States /\ CopyIsCurrent
      /\ pc \in [Threads -> PcLabels] /\ Freezers \subseteq Threads /\ Ids \subseteq Nat
      /\ RecordsCover /\ IInv
  BY SMTT(20) DEF RecInv, IInv, TypeOK, Ids, Threads, Freezers, Flushers
<1>1. /\ manifest' = Append(manifest, r) /\ pc[t] = "freeze_record"
      /\ pc' = [pc EXCEPT ![t] = "freeze_swap"]
      /\ state' = state /\ new_state' = new_state
  BY DEF FreezeRecord, Goto, freeze
<1>2. \A u \in Freezers : pc[u] # "freeze_swap"
  BY <1>0, <1>1, OneSwap DEF InStateLock
<1>3. PICK id \in Ids : new_state[t] = Frozen(state, id)
  BY <1>0, <1>1 DEF CopyIsCurrent, Preparing
<1>4. /\ id \in Nat /\ new_state[t].memtable = id
      /\ new_state[t].imm_memtables = InsertFirst(state.memtable, state.imm_memtables)
      /\ new_state[t].sstables = state.sstables
  BY <1>0, <1>3, FrozenType
<1>5. {state.memtable} \cup IdsOf(state.imm_memtables)
      \subseteq IdsOf(InsertFirst(state.memtable, state.imm_memtables))
  BY <1>0, FrozenList DEF States
<1>6. r \in ManifestRecords /\ r.kind = "NewMemtable" /\ r.id = id
  BY <1>4 DEF ManifestRecords
<1> HIDE DEF r
<1>7. PICK n : n = Len(manifest) + 1
  OBVIOUS
<1>8. /\ n \in Nat /\ \A m \in 0 .. Len(manifest) : m < n /\ Record(m)' = Record(m)
      /\ Record(n)' = r
      /\ RecordsOf("NewMemtable")' = RecordsOf("NewMemtable") \cup {n}
      /\ RecordsOf("Flush")' = RecordsOf("Flush")
  <2>1. /\ n \in Nat /\ \A m \in 0 .. Len(manifest) : m < n /\ Record(m)' = Record(m)
        /\ Record(n)' = r
        /\ \A kind : RecordsOf(kind)'
                        = RecordsOf(kind) \cup (IF r.kind = kind THEN {n} ELSE {})
    BY <1>0, <1>1, <1>6, <1>7, AppendedRecord
  <2> QED BY <1>6, <2>1
<1>9. /\ \A m \in RecordsOf("NewMemtable") : m \in 0 .. Len(manifest)
      /\ \A m \in RecordsOf("Flush") : m \in 0 .. Len(manifest)
  BY DEF RecordsOf
<1>10. \A m \in RecordsOf("NewMemtable") :
         Record(m).id \in {state.memtable} \cup IdsOf(state.imm_memtables) \cup state.sstables
  BY <1>0, <1>2 DEF RecordsCover, Covers
<1>11. \A m \in RecordsOf("NewMemtable")' \ {n} :
         /\ m < n
         /\ Record(m)'.id \in IdsOf(new_state[t].imm_memtables) \cup new_state[t].sstables
  BY <1>4, <1>5, <1>8, <1>9, <1>10
<1>12. Covers(new_state[t])'
  BY <1>1, <1>4, <1>6, <1>8, <1>11 DEF Covers
<1>13. \A m \in FlushRecords' : Record(m)'.id \in state'.sstables
  BY <1>0, <1>1, <1>8, <1>9 DEF RecordsCover, FlushRecords
<1>14. \A u \in Freezers : pc'[u] = "freeze_swap" <=> u = t
  BY <1>0, <1>1, <1>2
<1> QED BY <1>12, <1>13, <1>14 DEF RecordsCover

LEMMA RecordsCoverFreezeSwap ==
    ASSUME RecInv, NEW t \in Freezers, FreezeSwap(t)
    PROVE  RecordsCover'
<1>0. /\ state \in States /\ CopyIsCurrent /\ Ids \subseteq Nat
      /\ pc \in [Threads -> PcLabels] /\ Freezers \subseteq Threads
      /\ RecordsCover /\ IInv
  BY DEF RecInv, IInv, TypeOK, Ids, Threads, Freezers, Flushers
<1>1. /\ manifest' = manifest /\ pc[t] = "freeze_swap" /\ state' = new_state[t]
      /\ pc' = [pc EXCEPT ![t] = IF t \in Writers THEN "commit" ELSE "flush_check"]
  BY DEF FreezeSwap, Goto
<1>2. \A u \in Freezers : pc'[u] # "freeze_swap"
  BY <1>0, <1>1, OneSwap DEF InStateLock
<1>3. state'.sstables = state.sstables
  <2>1. PICK id \in Ids : new_state[t] = Frozen(state, id)
    BY <1>0, <1>1 DEF CopyIsCurrent, Preparing
  <2> QED BY <1>0, <1>1, <2>1, FrozenType
<1>4. /\ \A n : Record(n)' = Record(n)
      /\ \A kind : RecordsOf(kind)' = RecordsOf(kind)
      /\ FlushRecords' = FlushRecords
  BY <1>1, SameRecords
<1>5. Covers(new_state[t])
  BY <1>0, <1>1 DEF RecordsCover
<1>6. Covers(state)'
  BY <1>1, <1>4, <1>5 DEF Covers
<1> QED BY <1>0, <1>2, <1>3, <1>4, <1>6 DEF RecordsCover

LEMMA RecordsCoverFlushInstall ==
    ASSUME RecInv, NEW t \in Flushers, FlushInstall(t)
    PROVE  RecordsCover'
<1> DEFINE r == [kind |-> "Flush", id |-> flush_id[t]]
<1>0. /\ manifest \in Seq(ManifestRecords) /\ state \in States /\ FlushingIsFrozen
      /\ pc \in [Threads -> PcLabels] /\ Freezers \subseteq Threads /\ Flushers \subseteq Threads
      /\ Ids \subseteq Nat /\ RecordsCover /\ IInv
  BY DEF RecInv, IInv, TypeOK, Ids, Threads, Freezers, Flushers
<1>1. /\ pc[t] = "flush_install" /\ FlushIsOldest(t)
      /\ state' = Flushed(state, flush_id[t])
      /\ manifest' = manifest \/ manifest' = Append(manifest, r)
      /\ pc' = [pc EXCEPT ![t] = "idle"]
  BY DEF FlushInstall, Goto
<1>2. flush_id[t] \in Nat /\ state.imm_memtables # <<>> /\ Last(state.imm_memtables) = flush_id[t]
  BY <1>0, <1>1 DEF FlushIsOldest, FlushingIsFrozen
<1>3. /\ state'.memtable = state.memtable
      /\ state'.imm_memtables = Front(state.imm_memtables)
      /\ state'.sstables = state.sstables \cup {flush_id[t]}
  BY <1>0, <1>1, <1>2, FlushedType
<1>4. IdsOf(state.imm_memtables) \subseteq IdsOf(state'.imm_memtables) \cup {flush_id[t]}
  BY <1>0, <1>2, <1>3, FlushedList DEF States
<1>5. r \in ManifestRecords /\ r.kind = "Flush" /\ r.id = flush_id[t]
  BY <1>2 DEF ManifestRecords
<1>6. \A u \in Freezers : pc[u] # "freeze_swap" /\ pc'[u] # "freeze_swap"
  <2>1. \A u \in Freezers : pc[u] # "freeze_swap"
    BY <1>0, <1>1, OneSwap DEF InStateLock
  <2> QED BY <1>0, <1>1, <2>1
<1> HIDE DEF r
<1>7. /\ \A m \in 0 .. Len(manifest) : Record(m)' = Record(m)
      /\ RecordsOf("NewMemtable")' = RecordsOf("NewMemtable")
      /\ \A m \in FlushRecords' :
            m \in FlushRecords \/ Record(m)'.id = flush_id[t]
  <2>1. CASE manifest' = manifest
    BY <2>1, SameRecords
  <2>2. CASE manifest' = Append(manifest, r)
    <3>1. PICK n : n = Len(manifest) + 1
      OBVIOUS
    <3>2. /\ \A m \in 0 .. Len(manifest) : Record(m)' = Record(m)
          /\ Record(n)' = r
          /\ RecordsOf("NewMemtable")' = RecordsOf("NewMemtable")
          /\ RecordsOf("Flush")' = RecordsOf("Flush") \cup {n}
      <4>1. /\ \A m \in 0 .. Len(manifest) : Record(m)' = Record(m)
            /\ Record(n)' = r
            /\ \A kind : RecordsOf(kind)'
                            = RecordsOf(kind) \cup (IF r.kind = kind THEN {n} ELSE {})
        BY <1>0, <1>5, <2>2, <3>1, AppendedRecord
      <4> QED BY <1>5, <4>1
    <3> QED BY <1>5, <3>2 DEF FlushRecords
  <2> QED BY <1>1, <2>1, <2>2
<1>8. \A kind : \A m \in RecordsOf(kind) : m \in 0 .. Len(manifest)
  BY DEF RecordsOf
<1>9. Covers(state)
  BY <1>0, <1>6 DEF RecordsCover
<1>10. Covers(state)'
  <2>1. PICK n \in RecordsOf("NewMemtable") :
            /\ Record(n).id = state.memtable
            /\ \A m \in RecordsOf("NewMemtable") \ {n} :
                m < n /\ Record(m).id \in IdsOf(state.imm_memtables) \cup state.sstables
    BY <1>9 DEF Covers
  <2>2. \A m \in RecordsOf("NewMemtable") \ {n} :
            m < n /\ Record(m)'.id \in IdsOf(state'.imm_memtables) \cup state'.sstables
    BY <1>3, <1>4, <1>7, <1>8, <2>1
  <2>3. Record(n)'.id = state'.memtable
    BY <1>3, <1>7, <1>8, <2>1
  <2> QED BY <1>7, <2>2, <2>3 DEF Covers
<1>11. \A m \in FlushRecords' : Record(m)'.id \in state'.sstables
  BY <1>0, <1>3, <1>7, <1>8 DEF RecordsCover, FlushRecords
<1> QED BY <1>6, <1>10, <1>11 DEF RecordsCover

LEMMA RecordsCoverStep ==
    ASSUME RecInv, [RecoveryNext]_recoveryVars, ~ Reopen
    PROVE  RecordsCover'
<1>1. CASE \E t \in Freezers : FreezeRecord(t)
  BY <1>1, RecordsCoverFreezeRecord
<1>2. CASE \E t \in Freezers : FreezeSwap(t)
  BY <1>2, RecordsCoverFreezeSwap
<1>3. CASE \E t \in Flushers : FlushInstall(t)
  BY <1>3, RecordsCoverFlushInstall
<1>4. CASE /\ \A t \in Freezers : ~ FreezeRecord(t) /\ ~ FreezeSwap(t)
           /\ \A t \in Flushers : ~ FlushInstall(t)
  <2>1. manifest' = manifest /\ state' = state
    BY <1>4, RecoveryManifestStep, RecoveryStateStep
  <2>2. /\ \A n : Record(n)' = Record(n)
        /\ \A kind : RecordsOf(kind)' = RecordsOf(kind)
        /\ FlushRecords' = FlushRecords
    BY <2>1, SameRecords
  <2>3. \A t \in Freezers :
            /\ pc'[t] = "freeze_swap" <=> pc[t] = "freeze_swap"
            /\ pc[t] = "freeze_swap" => new_state'[t] = new_state[t]
    BY <1>4, SwapFrame DEF RecInv
  <2>4. Covers(state)' <=> Covers(state)
    BY <2>1, <2>2 DEF Covers
  <2>5. ASSUME NEW t \in Freezers, pc'[t] = "freeze_swap"
        PROVE  Covers(new_state[t])'
    <3>1. new_state'[t] = new_state[t] /\ Covers(new_state[t])
      BY <2>3, <2>5 DEF RecInv, RecordsCover
    <3> QED BY <2>2, <3>1 DEF Covers
  <2> QED BY <2>1, <2>2, <2>3, <2>4, <2>5 DEF RecInv, RecordsCover
<1> QED BY <1>1, <1>2, <1>3, <1>4

(* The two failures are no steps of LsmStorage; ManifestInv is kept there. *)
LEMMA PutFailsManifest ==
    ASSUME RecInv, NEW w \in Writers, PutFails(w)
    PROVE  ManifestInv'
<1>0. pc \in [Threads -> PcLabels] /\ Freezers \subseteq Threads /\ faults \in Nat
  BY DEF RecInv, IInv, TypeOK, Freezers, Threads, Flushers
<1>1. /\ manifest' = manifest /\ state' = state /\ new_state' = new_state
      /\ next_sst_id' = next_sst_id /\ faults' = faults + 1
      /\ pc[w] = "put" /\ pc' = [pc EXCEPT ![w] = "idle"]
  BY DEF PutFails, Fault, freeze, Goto
<1>2. \A t \in Freezers : /\ pc'[t] = "freeze_record" <=> pc[t] = "freeze_record"
                          /\ pc'[t] = "freeze_swap" <=> pc[t] = "freeze_swap"
  BY <1>0, <1>1
<1>3. faults' = 0 => faults = 0
  BY <1>0, <1>1
<1> QED BY <1>1, <1>2, <1>3, ManifestQuietStep DEF RecInv

LEMMA FreezeCreateFailsManifest ==
    ASSUME RecInv, NEW t \in Freezers, FreezeCreateFails(t)
    PROVE  ManifestInv'
<1>0. /\ pc \in [Threads -> PcLabels] /\ Freezers \subseteq Threads
      /\ faults \in Nat /\ next_sst_id \in Nat /\ ManifestInv
  BY DEF RecInv, IInv, TypeOK, Freezers, Threads, Flushers
<1>1. /\ manifest' = manifest /\ state' = state /\ new_state' = new_state
      /\ next_sst_id' = next_sst_id + 1 /\ (faults' = faults \/ faults' = faults + 1)
      /\ pc[t] = "freeze_copy" /\ pc' = [pc EXCEPT ![t] = "idle"]
  BY DEF FreezeCreateFails, AllocateId, Fault, Goto
<1>2. /\ \A n : Record(n)' = Record(n)
      /\ RecordIds' = RecordIds
      /\ \A kind : RecordsOf(kind)' = RecordsOf(kind)
      /\ FlushRecords' = FlushRecords /\ LiveRecords' = LiveRecords
  BY <1>1, SameRecords
<1>3. \A u \in Freezers : /\ pc'[u] = "freeze_record" <=> pc[u] = "freeze_record"
                          /\ pc'[u] = "freeze_swap" <=> pc[u] = "freeze_swap"
  BY <1>0, <1>1
<1>4. RecordsNamed'
  <2>1. \A n \in 0 .. Len(manifest) : Record(n).id \in Ids'
    BY <1>0, <1>1 DEF ManifestInv, RecordsNamed, Ids
  <2> QED BY <1>0, <1>1, <1>2, <1>3, <2>1 DEF ManifestInv, RecordsNamed
<1>5. faults' = 0 => faults = 0
  BY <1>0, <1>1
<1>6. Live(state)' = Live(state) /\ \A u : Live(new_state[u])' = Live(new_state[u])
  BY <1>1 DEF Live
<1> QED BY <1>0, <1>1, <1>2, <1>3, <1>4, <1>5, <1>6 DEF ManifestInv

LEMMA RecInvStep ==
    ASSUME RecInv, [RecoveryNext]_recoveryVars
    PROVE  RecInv'
<1>1. CASE Reopen
  BY <1>1, ReopenInv
<1>2. CASE ~ Reopen
  <2>1. WalTypeOK' /\ RecordsCover' /\ FilesFirst'
    BY <1>2, WalTypeStep, RecordsCoverStep, FilesFirstStep
  <2>2. IInv' /\ ManifestInv'
    <3>0. IInv /\ ManifestInv
      BY DEF RecInv
    <3>1. CASE [Next]_vars
      BY <3>0, <3>1, StepInv, ManifestStep
    <3>2. CASE \E w \in Writers : PutFails(w)
      BY <3>0, <3>2, PutFailsInv, PutFailsManifest
    <3>3. CASE \E t \in Freezers : FreezeCreateFails(t)
      BY <3>0, <3>3, FreezeCreateFailsInv, FreezeCreateFailsManifest
    <3> QED BY <1>2, <3>1, <3>2, <3>3, RecoveryCases
  <2> QED BY <2>1, <2>2 DEF RecInv
<1> QED BY <1>1, <1>2

LEMMA RecInvInit ==
    ASSUME RecoveryInit
    PROVE  RecInv
<1>0. /\ Init /\ wal = [id \in {0} |-> NewWal] /\ crashes = 0 /\ acked = EmptyTable
      /\ state.memtable = 0 /\ manifest = <<>> /\ state.sstables = {}
      /\ pc = [t \in Threads |-> "idle"] /\ Freezers \subseteq Threads
  BY DEF RecoveryInit, Init, InitState, Freezers, Threads, Flushers
<1>1. IInv /\ ManifestInv
  BY <1>0, InitInv, ManifestInit
<1>2. WalTypeOK
  <2>1. DOMAIN wal = {0} /\ wal[0] = NewWal
    BY <1>0
  <2>2. NewWal \in [log : Seq(LogEntries), durable : Nat]
        /\ NewWal.durable <= Len(NewWal.log)
    BY DEF NewWal
  <2>3. crashes \in 0 .. MaxCrashes
    BY <1>0, RecoveryAssumption
  <2> QED BY <1>0, <2>1, <2>2, <2>3, EmptyTableType DEF WalTypeOK
<1>3. \A kind : \A n \in RecordsOf(kind) : n = 0
  BY <1>0 DEF RecordsOf
<1>4. /\ Record(0) = [kind |-> "NewMemtable", id |-> 0]
      /\ 0 \in RecordsOf("NewMemtable") /\ FlushRecords = {}
  <2>1. Record(0) = [kind |-> "NewMemtable", id |-> 0]
    BY DEF Record
  <2>2. 0 \in 0 .. Len(manifest)
    BY <1>0
  <2>3. \A n \in 0 .. Len(manifest) : n = 0
    BY <1>0
  <2> QED BY <2>1, <2>2, <2>3 DEF RecordsOf, FlushRecords
<1>5. RecordsCover
  BY <1>0, <1>3, <1>4 DEF RecordsCover, Covers
<1>6. FilesFirst
  BY <1>0, <1>3, <1>4 DEF FilesFirst, Preparing
<1> QED BY <1>1, <1>2, <1>5, <1>6 DEF RecInv

(* RecInv holds whatever fails and however often the process dies.         *)
LEMMA RecInvHolds == RecoverySpec => []RecInv
<1>1. RecoveryInit => RecInv
  BY RecInvInit
<1>2. RecInv /\ [RecoveryNext]_recoveryVars => RecInv'
  BY RecInvStep
<1> QED BY <1>1, <1>2, PTL DEF RecoverySpec

-------------------------------------------------------------------------------
(* What holds of every reopened engine                                     *)

(***************************************************************************)
(* The type invariant: memtables recovered from their logs hold cells and  *)
(* values, the recovered commit timestamp is one, and no replay names an   *)
(* id that was not allocated.                                              *)
(***************************************************************************)
THEOREM RecoveryTypeCorrect == RecoverySpec => []RecoveryTypeOK
<1>1. RecInv => RecoveryTypeOK
  <2> SUFFICES ASSUME RecInv PROVE RecoveryTypeOK
    OBVIOUS
  <2>1. WalTypeOK /\ TypeOK
    BY DEF RecInv, IInv
  <2>2. ASSUME NEW id \in DOMAIN wal
        PROVE  /\ wal[id].log \in Seq(Cells \X Values)
               /\ wal[id].durable \in 0 .. Len(wal[id].log)
    <3>1. wal[id] \in [log : Seq(LogEntries), durable : Nat] /\ wal[id].durable <= Len(wal[id].log)
      BY <2>1 DEF WalTypeOK
    <3>2. wal[id].log \in Seq(LogEntries) /\ wal[id].durable \in Nat
          /\ Len(wal[id].log) \in Nat
      BY <3>1
    <3> QED BY <3>1, <3>2 DEF LogEntries
  <2> QED BY <2>1, <2>2 DEF RecoveryTypeOK, WalTypeOK
<1> QED BY <1>1, RecInvHolds, PTL

(***************************************************************************)
(* However often the process died and opened the directory again, what a   *)
(* flush installed is all its memtable held.                               *)
(***************************************************************************)
THEOREM FlushedContentFinalAfterCrash == RecoverySpec => []FlushedContentIsFinal
<1>1. RecInv => FlushedContentIsFinal
  BY DEF RecInv, IInv
<1> QED BY <1>1, RecInvHolds, PTL

(***************************************************************************)
(* Whenever the process dies, the replay of the manifest finds a memtable  *)
(* to make active and the WAL of each memtable it left: neither the        *)
(* unwrap of open nor the opening of a file fails.                         *)
(***************************************************************************)
ReplayFindsWals == Unflushed # <<>> /\ IdsOf(Unflushed) \subseteq DOMAIN wal

THEOREM ReplayFindsEveryWal == RecoverySpec => []ReplayFindsWals
<1>1. RecInv => ReplayFindsWals
  BY ReplayFinds DEF ReplayFindsWals
<1> QED BY <1>1, RecInvHolds, PTL

(***************************************************************************)
(* As long as no I/O call failed, a replay gives back the L0 list and the  *)
(* memtables of the live state in their order, also after a restart, when  *)
(* the state itself came from such a replay.                               *)
(***************************************************************************)
THEOREM ManifestRecoversAfterCrash == RecoverySpec => []ManifestRecoversState
<1>1. RecInv => ManifestRecoversState
  BY RecordsListState DEF RecInv
<1> QED BY <1>1, RecInvHolds, PTL

-------------------------------------------------------------------------------
(* What a step does to the memtables                                       *)

(* A put, logged or not, gives the active memtable one more value.         *)
LEMMA PutGrows ==
    ASSUME IInv, NEW w \in Writers, PutRecord(w) \/ PutFails(w)
    PROVE  /\ pc[w] = "put" /\ state' = state /\ next_sst_id' = next_sst_id
           /\ state.memtable \in Ids
           /\ approx_size'[state.memtable] = approx_size[state.memtable] + 1
           /\ PutCell(w) \in Cells /\ PutValue(w) \in Values
           /\ memtables'[state.memtable][PutCell(w)] = PutValue(w)
           /\ \A c \in Cells : c # PutCell(w) =>
                memtables'[state.memtable][c] = memtables[state.memtable][c]
           /\ CellsOf(memtables'[state.memtable]) # {}
           /\ \A id \in Ids : id # state.memtable =>
                memtables'[id] = memtables[id] /\ approx_size'[id] = approx_size[id]
<1>0. /\ memtables \in [Ids -> Tables] /\ approx_size \in [Ids -> Nat]
      /\ state.memtable \in Ids
  BY DEF IInv, TypeOK, IdsInState, IdsNamed
<1>1. /\ pc[w] = "put" /\ state' = state /\ next_sst_id' = next_sst_id
      /\ memtables' = [memtables EXCEPT ![state.memtable][PutCell(w)] = PutValue(w)]
      /\ approx_size' = [approx_size EXCEPT ![state.memtable] = @ + 1]
  BY DEF PutRecord, PutFails, PutCell, PutValue
<1>2. PutCell(w) \in Cells /\ PutValue(w) \in Values
  BY <1>1, PutRecordType
<1> DEFINE old == memtables[state.memtable]
           new == [old EXCEPT ![PutCell(w)] = PutValue(w)]
<1>3. old \in Tables
  BY <1>0
<1>4. memtables' = [memtables EXCEPT ![state.memtable] = new]
  BY <1>1
<1>5. DOMAIN old = Cells
  BY <1>3 DEF Tables
<1> HIDE DEF old
<1>6. new[PutCell(w)] = PutValue(w) /\ \A c \in Cells : c # PutCell(w) => new[c] = old[c]
  BY <1>2, <1>5
<1> HIDE DEF new
<1>7. /\ memtables'[state.memtable] = new
      /\ \A id \in Ids : id # state.memtable => memtables'[id] = memtables[id]
  BY <1>0, <1>4
<1>8. /\ approx_size'[state.memtable] = approx_size[state.memtable] + 1
      /\ \A id \in Ids : id # state.memtable => approx_size'[id] = approx_size[id]
  BY <1>0, <1>1
<1>9. PutValue(w) # NoEntry
  BY <1>2, TablesAssumption
<1>10. PutCell(w) \in CellsOf(memtables'[state.memtable])
  BY <1>2, <1>6, <1>7, <1>9 DEF CellsOf
<1> QED BY <1>0, <1>1, <1>2, <1>6, <1>7, <1>8, <1>10 DEF old

(* Nothing else changes a memtable that exists.                            *)
LEMMA TablesFrame ==
    ASSUME IInv, [RecoveryNext]_recoveryVars, ~ Reopen,
           \A w \in Writers : ~ LoggedPut(w) /\ ~ PutFails(w)
    PROVE  \A id \in Ids : memtables'[id] = memtables[id] /\ approx_size'[id] = approx_size[id]
<1> DEFINE Goal == \A id \in Ids :
                      memtables'[id] = memtables[id] /\ approx_size'[id] = approx_size[id]
<1>0. next_sst_id \in Nat
  BY DEF IInv, TypeOK
<1> USE DEF engine
<1>1. ASSUME NEW w \in Writers, Commit(w) \/ WriteBegin(w) \/ TryFreeze(w)
      PROVE  Goal
  BY <1>1 DEF Commit, WriteBegin, TryFreeze
<1>2. ASSUME NEW t \in Freezers, FreezeLock(t) \/ FreezeRecord(t) \/ FreezeFails(t)
                                 \/ FreezeSwap(t)
      PROVE  Goal
  BY <1>2 DEF FreezeLock, FreezeRecord, FreezeFails, FreezeSwap
<1>3. AllocateId => Goal
  BY <1>0 DEF AllocateId, Ids
<1>4. ASSUME NEW t \in Freezers, FreezeWithWal(t) \/ FreezeCreateFails(t)
      PROVE  Goal
  BY <1>3, <1>4 DEF FreezeWithWal, FreezeCopy, FreezeCreateFails
<1>5. ASSUME NEW f \in Forcers, ForceFlush(f) \/ ForceFlushCheck(f)
      PROVE  Goal
  BY <1>5 DEF ForceFlush, ForceFlushCheck
<1>6. ASSUME TriggerFlush
      PROVE  Goal
  BY <1>6 DEF TriggerFlush
<1>7. ASSUME NEW t \in Flushers, FlushStep(t)
      PROVE  Goal
  BY <1>7 DEF FlushStep, FlushPick, FlushBuild, FlushFails, FlushLock, FlushInstall,
              FlushPanics
<1>8. ASSUME NEW r \in Readers, ReaderStep(r)
      PROVE  Goal
  BY <1>8 DEF ReaderStep, NewTxn, ReadSnapshot, ReadEnd
<1>9. ASSUME UNCHANGED recoveryVars
      PROVE  Goal
  BY <1>9 DEF recoveryVars, vars
<1> HIDE DEF Goal
<1>10. Goal
  BY <1>1, <1>2, <1>4, <1>5, <1>6, <1>7, <1>8, <1>9
     DEF RecoveryNext, UnloggedStep, AckedCommit
<1> QED BY <1>10 DEF Goal

(* A failure is never undone.                                              *)
LEMMA FaultsGrow ==
    ASSUME IInv, [RecoveryNext]_recoveryVars, ~ Reopen
    PROVE  faults \in Nat /\ faults' \in Nat /\ faults <= faults'
<1>1. faults \in Nat
  BY StorageAssumption DEF IInv, TypeOK
<1>2. [Next]_vars => faults' \in {faults, faults + 1}
  BY <1>1, FaultsStep
<1>3. \A w \in Writers : PutFails(w) => faults' = faults + 1
  BY DEF PutFails, Fault
<1>4. \A t \in Freezers : FreezeCreateFails(t) => faults' \in {faults, faults + 1}
  BY DEF FreezeCreateFails, Fault
<1> QED BY <1>1, <1>2, <1>3, <1>4, RecoveryCases

(* The state after a swap is the one that was prepared; a flush moves one  *)
(* memtable from the immutable ones to the SSTs.                           *)
LEMMA SwapState ==
    ASSUME IInv, NEW t \in Freezers, FreezeSwap(t)
    PROVE  /\ Preparing(t) /\ t \in Threads /\ InStateLock(t)
           /\ state'.memtable = new_state[t].memtable
           /\ state'.memtable \in Ids \ ({state.memtable} \cup IdsOf(state.imm_memtables)
                                         \cup state.sstables)
           /\ memtables[state'.memtable] = EmptyTable
           /\ IdsOf(state'.imm_memtables) = {state.memtable} \cup IdsOf(state.imm_memtables)
           /\ state'.l0_sstables = state.l0_sstables /\ state'.levels = state.levels
           /\ state'.sstables = state.sstables
           /\ memtables' = memtables /\ approx_size' = approx_size
           /\ next_sst_id' = next_sst_id
<1>1. /\ pc[t] = "freeze_swap" /\ state' = new_state[t]
      /\ memtables' = memtables /\ approx_size' = approx_size /\ next_sst_id' = next_sst_id
  BY DEF FreezeSwap
<1>2. Preparing(t) /\ t \in Threads /\ InStateLock(t)
  BY <1>1 DEF Preparing, InStateLock, Freezers, Threads, Flushers
<1>3. PICK id \in Ids :
        /\ new_state[t] = Frozen(state, id) /\ id # state.memtable /\ id \notin state.sstables
        /\ \A i \in DOMAIN state.imm_memtables : state.imm_memtables[i] # id
        /\ memtables[id] = EmptyTable
  BY <1>2 DEF IInv, CopyIsCurrent
<1>4. id \in Nat /\ state \in States /\ state.imm_memtables \in Seq(Nat) /\ state.memtable \in Nat
  BY DEF IInv, TypeOK, States, Ids
<1>5. /\ state'.memtable = id
      /\ state'.imm_memtables = InsertFirst(state.memtable, state.imm_memtables)
      /\ state'.l0_sstables = state.l0_sstables /\ state'.levels = state.levels
      /\ state'.sstables = state.sstables
  <2>1. state' = Frozen(state, id)
    BY <1>1, <1>3
  <2> QED BY <1>4, <2>1, FrozenType
<1>6. IdsOf(state'.imm_memtables) = {state.memtable} \cup IdsOf(state.imm_memtables)
  BY <1>4, <1>5, FrozenList
<1>7. id \notin IdsOf(state.imm_memtables)
  BY <1>3 DEF IdsOf
<1> QED BY <1>1, <1>2, <1>3, <1>5, <1>6, <1>7

LEMMA InstallState ==
    ASSUME IInv, NEW t \in Flushers, FlushInstall(t)
    PROVE  /\ flush_id[t] \in Nat /\ InStateLock(t) /\ t \in Threads
           /\ state'.memtable = state.memtable
           /\ IdsOf(state.imm_memtables) = IdsOf(state'.imm_memtables) \cup {flush_id[t]}
           /\ state'.sstables = state.sstables \cup {flush_id[t]}
           /\ FlushToL0 =>
                /\ state'.l0_sstables = InsertFirst(flush_id[t], state.l0_sstables)
                /\ state'.levels = state.levels
           /\ ~ FlushToL0 =>
                /\ state'.l0_sstables = state.l0_sstables
                /\ state'.levels = InsertFirst(<<flush_id[t], <<flush_id[t]>>>>, state.levels)
           /\ memtables' = memtables /\ approx_size' = approx_size
           /\ next_sst_id' = next_sst_id
<1>0. /\ state \in States /\ state.imm_memtables \in Seq(Nat) /\ FlushingIsFrozen
      /\ Ids \subseteq Nat
  BY DEF IInv, TypeOK, States, Ids
<1>1. /\ pc[t] = "flush_install" /\ FlushIsOldest(t)
      /\ state' = Flushed(state, flush_id[t])
      /\ memtables' = memtables /\ approx_size' = approx_size /\ next_sst_id' = next_sst_id
  BY DEF FlushInstall
<1>2. /\ flush_id[t] \in Nat /\ state.imm_memtables # <<>>
      /\ Last(state.imm_memtables) = flush_id[t]
  BY <1>0, <1>1 DEF FlushIsOldest, FlushingIsFrozen
<1>3. /\ state'.memtable = state.memtable
      /\ state'.imm_memtables = Front(state.imm_memtables)
      /\ state'.sstables = state.sstables \cup {flush_id[t]}
      /\ FlushToL0 =>
            /\ state'.l0_sstables = InsertFirst(flush_id[t], state.l0_sstables)
            /\ state'.levels = state.levels
      /\ ~ FlushToL0 =>
            /\ state'.l0_sstables = state.l0_sstables
            /\ state'.levels = InsertFirst(<<flush_id[t], <<flush_id[t]>>>>, state.levels)
  BY <1>0, <1>1, <1>2, FlushedType
<1>4. IdsOf(state.imm_memtables) = IdsOf(state'.imm_memtables) \cup {flush_id[t]}
  BY <1>0, <1>2, <1>3, FlushedList
<1>5. InStateLock(t) /\ t \in Threads
  BY <1>1 DEF InStateLock, Threads, Flushers
<1> QED BY <1>1, <1>2, <1>3, <1>4, <1>5

(* A writer gets to freeze when the memtable is full.                      *)
LEMMA FreezeEntry ==
    ASSUME IInv, [RecoveryNext]_recoveryVars, ~ Reopen,
           NEW w \in Writers, pc'[w] \in FreezeLabels, pc[w] \notin FreezeLabels
    PROVE  TryFreeze(w) /\ approx_size[state.memtable] >= TargetSstSize
<1>0. /\ pc \in [Threads -> PcLabels] /\ Freezers \subseteq Threads /\ Writers \subseteq Threads
      /\ Writers \cap Readers = {} /\ Writers \cap Flushers = {} /\ Forcers \subseteq Flushers
      /\ FlushThread \in Flushers
  BY StorageAssumption DEF IInv, TypeOK, Freezers, Threads, Flushers
<1> USE DEF Goto, FreezeLabels
<1>1. ASSUME NEW u \in Writers, PutRecord(u) \/ PutFails(u) \/ Commit(u) \/ WriteBegin(u)
      PROVE  FALSE
  BY <1>0, <1>1 DEF PutRecord, PutFails, Commit, WriteBegin
<1>2. ASSUME NEW u \in Writers, TryFreeze(u)
      PROVE  TryFreeze(w) /\ approx_size[state.memtable] >= TargetSstSize
  <2>1. u = w
    BY <1>0, <1>2 DEF TryFreeze
  <2> QED BY <1>0, <1>2, <2>1 DEF TryFreeze
<1>3. ASSUME NEW t \in Freezers, FreezeStep(t) \/ FreezeCreateFails(t)
      PROVE  FALSE
  BY <1>0, <1>3 DEF FreezeStep, FreezeLock, FreezeCopy, FreezeRecord, FreezeFails,
                    FreezeSwap, FreezeCreateFails
<1>4. ASSUME NEW f \in Forcers, ForceFlush(f) \/ ForceFlushCheck(f)
      PROVE  FALSE
  <2>1. f # w
    BY <1>0
  <2> QED BY <1>0, <1>4, <2>1 DEF ForceFlush, ForceFlushCheck
<1>5. ASSUME TriggerFlush
      PROVE  FALSE
  <2>1. FlushThread # w
    BY <1>0
  <2> QED BY <1>0, <1>5, <2>1 DEF TriggerFlush
<1>6. ASSUME NEW t \in Flushers, FlushStep(t)
      PROVE  FALSE
  <2>1. t # w
    BY <1>0
  <2> QED BY <1>0, <1>6, <2>1 DEF FlushStep, FlushPick, FlushBuild, FlushFails, FlushLock,
                                  FlushInstall, FlushPanics
<1>7. ASSUME NEW r \in Readers, ReaderStep(r)
      PROVE  FALSE
  <2>1. r # w
    BY <1>0
  <2> QED BY <1>0, <1>7, <2>1 DEF ReaderStep, NewTxn, ReadSnapshot, ReadEnd
<1>8. UNCHANGED vars => FALSE
  BY DEF vars
<1> QED BY <1>1, <1>2, <1>3, <1>4, <1>5, <1>6, <1>7, <1>8, RecoveryCases DEF Next, WriterStep

-------------------------------------------------------------------------------
(* Why a crash cannot leave an empty memtable behind others                *)

(* Some record of this WAL is on file whatever the process dies of.        *)
Safe(id) == wal[id].durable > 0 \/ Len(wal[id].log) > BufferedRecords

(* Only a failed append makes the active memtable larger than its WAL; the *)
(* memtable a freeze prepared has not grown yet.                           *)
SizeLogged ==
    /\ approx_size[state.memtable] <= Len(wal[state.memtable].log) + faults
    /\ approx_size[state.memtable] > 0 => CellsOf(memtables[state.memtable]) # {}
    /\ \A t \in Freezers : Preparing(t) => approx_size[new_state[t].memtable] = 0

(* A writer freezes the memtable it found to be full.                      *)
FreezesFull ==
    \A w \in Writers : pc[w] \in FreezeLabels => approx_size[state.memtable] >= TargetSstSize

(* What was frozen is not empty, and will not be after a crash.            *)
FrozenSafe ==
    \A id \in IdsOf(state.imm_memtables) \cup state.sstables :
        id \in DOMAIN wal /\ Safe(id) /\ CellsOf(memtables[id]) # {}

OpenInv == SizeLogged /\ FreezesFull /\ FrozenSafe

(***************************************************************************)
(* Records are small and an SST is large: a full memtable has more records *)
(* than its BufWriter can hold back, those of failed appends not counted.  *)
(* A force_flush freezes the memtable at any size, so there is none.       *)
(***************************************************************************)
OnlyFullOnesFreeze == Forcers = {} /\ TargetSstSize > BufferedRecords + MaxFaults

LEMMA LogLength ==
    ASSUME RecInv, NEW id \in DOMAIN wal
    PROVE  Len(wal[id].log) \in Nat /\ wal[id].durable \in Nat /\ wal[id].log \in Seq(LogEntries)
<1>1. wal[id] \in [log : Seq(LogEntries), durable : Nat]
  BY DEF RecInv, WalTypeOK
<1>2. wal[id].log \in Seq(LogEntries) /\ wal[id].durable \in Nat
  BY <1>1
<1> QED BY <1>2

(* The active memtable during a freeze: its WAL outlives the crash.        *)
LEMMA FullIsSafe ==
    ASSUME RecInv, OpenInv, OnlyFullOnesFreeze, NEW t \in Freezers, pc[t] \in FreezeLabels
    PROVE  /\ state.memtable \in DOMAIN wal /\ Safe(state.memtable)
           /\ CellsOf(memtables[state.memtable]) # {}
<1>1. t \in Writers
  BY DEF OnlyFullOnesFreeze, Freezers
<1>2. /\ approx_size[state.memtable] >= TargetSstSize
      /\ approx_size[state.memtable] <= Len(wal[state.memtable].log) + faults
      /\ approx_size[state.memtable] > 0 => CellsOf(memtables[state.memtable]) # {}
  BY <1>1 DEF OpenInv, FreezesFull, SizeLogged
<1>3. state.memtable \in DOMAIN wal
  BY DEF RecInv, FilesFirst
<1>4. /\ approx_size[state.memtable] \in Nat /\ faults \in Nat /\ faults <= MaxFaults
      /\ MaxFaults \in Nat /\ BufferedRecords \in Nat /\ TargetSstSize \in Nat \ {0}
  <2>1. /\ approx_size \in [Ids -> Nat] /\ state.memtable \in Ids /\ faults \in 0 .. MaxFaults
    BY DEF RecInv, IInv, TypeOK, IdsInState, IdsNamed
  <2> QED BY <2>1, StorageAssumption, RecoveryAssumption
<1>5. Len(wal[state.memtable].log) \in Nat
  BY <1>3, LogLength
<1>6. Len(wal[state.memtable].log) > BufferedRecords
  BY <1>2, <1>4, <1>5 DEF OnlyFullOnesFreeze
<1>7. approx_size[state.memtable] > 0
  BY <1>2, <1>4
<1> QED BY <1>2, <1>3, <1>6, <1>7 DEF Safe

LEMMA SizeLoggedStep ==
    ASSUME RecInv, SizeLogged, [RecoveryNext]_recoveryVars, ~ Reopen
    PROVE  SizeLogged'
<1> DEFINE id == state.memtable
<1>0. /\ IInv /\ state.memtable \in Ids /\ state.memtable \in DOMAIN wal
      /\ approx_size \in [Ids -> Nat] /\ CopyIsCurrent /\ FilesFirst
      /\ state \in States /\ Ids \subseteq Nat
  BY SMTT(20) DEF RecInv, IInv, TypeOK, IdsInState, IdsNamed, FilesFirst, Ids
<1>1. faults \in Nat /\ faults' \in Nat /\ faults <= faults'
  BY <1>0, FaultsGrow
<1>2. /\ approx_size[id] \in Nat /\ Len(wal[id].log) \in Nat /\ wal[id].log \in Seq(LogEntries)
  BY <1>0, LogLength
<1>3. /\ approx_size[id] <= Len(wal[id].log) + faults
      /\ approx_size[id] > 0 => CellsOf(memtables[id]) # {}
  BY DEF SizeLogged
<1>4. ASSUME NEW t \in Freezers, Preparing(t)
      PROVE  /\ new_state[t].memtable \in Ids /\ new_state[t].memtable # id
             /\ memtables[new_state[t].memtable] = EmptyTable
             /\ approx_size[new_state[t].memtable] = 0
  <2>1. PICK new \in Ids : /\ new_state[t] = Frozen(state, new) /\ new # id
                           /\ memtables[new] = EmptyTable
    BY <1>0, <1>4 DEF CopyIsCurrent
  <2>2. new_state[t].memtable = new
    BY <1>0, <2>1, FrozenType
  <2> QED BY <1>4, <2>1, <2>2 DEF SizeLogged
<1> HIDE DEF id
<1>5. ASSUME NEW w \in Writers, LoggedPut(w)
      PROVE  SizeLogged'
  <2>1. /\ state' = state /\ approx_size'[id] = approx_size[id] + 1
        /\ CellsOf(memtables'[id]) # {}
        /\ \A other \in Ids : other # id => approx_size'[other] = approx_size[other]
    BY <1>0, <1>5, PutGrows, LoggedPutWal DEF id
  <2>2. wal'[id].log = Append(wal[id].log, <<PutCell(w), PutValue(w)>>)
    BY <1>5, LoggedPutWal DEF id
  <2>3. Len(wal'[id].log) = Len(wal[id].log) + 1
    BY <1>2, <2>2
  <2>4. approx_size'[id] <= Len(wal'[id].log) + faults'
    BY <1>1, <1>2, <1>3, <2>1, <2>3
  <2>5. \A t \in Freezers : Preparing(t)' => Preparing(t) /\ new_state'[t] = new_state[t]
    BY <1>0, <1>5 DEF LoggedPut, PutRecord, Goto, Preparing, freeze, IInv, TypeOK, Freezers,
                      Threads, Flushers
  <2>6. \A t \in Freezers : Preparing(t)' => approx_size'[new_state'[t].memtable] = 0
    BY <1>4, <2>1, <2>5
  <2> QED BY <2>1, <2>4, <2>6 DEF SizeLogged, id
<1>6. ASSUME NEW w \in Writers, PutFails(w)
      PROVE  SizeLogged'
  <2>1. /\ state' = state /\ approx_size'[id] = approx_size[id] + 1
        /\ CellsOf(memtables'[id]) # {}
        /\ \A other \in Ids : other # id => approx_size'[other] = approx_size[other]
    BY <1>0, <1>6, PutGrows DEF id
  <2>2. Len(wal'[id].log) = Len(wal[id].log) /\ faults' = faults + 1
    BY <1>6 DEF PutFails, Fault
  <2>3. approx_size'[id] <= Len(wal'[id].log) + faults'
    <3>1. PICK n \in Nat : n = Len(wal[id].log)
      BY <1>2
    <3>2. n = Len(wal'[id].log)
      BY <2>2, <3>1
    <3>3. approx_size[id] <= n + faults /\ approx_size[id] \in Nat
      BY <1>2, <1>3, <3>1
    <3>4. faults' = faults + 1 /\ faults \in Nat
      BY <1>1, <2>2
    <3>5. approx_size'[id] = approx_size[id] + 1
      BY <2>1
    <3>6. approx_size'[id] <= n + faults'
      BY <3>3, <3>4, <3>5
    <3> QED BY <3>2, <3>6
  <2>4. \A t \in Freezers : Preparing(t)' => Preparing(t) /\ new_state'[t] = new_state[t]
    BY <1>0, <1>6 DEF PutFails, Goto, Preparing, freeze, IInv, TypeOK, Freezers,
                      Threads, Flushers
  <2>5. \A t \in Freezers : Preparing(t)' => approx_size'[new_state'[t].memtable] = 0
    BY <1>4, <2>1, <2>4
  <2> QED BY <2>1, <2>3, <2>5 DEF SizeLogged, id
<1>7. CASE \A w \in Writers : ~ LoggedPut(w) /\ ~ PutFails(w)
  <2>1. \A other \in Ids :
            memtables'[other] = memtables[other] /\ approx_size'[other] = approx_size[other]
    BY <1>0, <1>7, TablesFrame
  <2>2. \A t \in Freezers : Preparing(t)' => approx_size'[new_state'[t].memtable] = 0
    <3>1. CASE \A t \in Freezers : ~ FreezeWithWal(t)
      <4>1. \A t \in Freezers : Preparing(t)' => Preparing(t) /\ new_state'[t] = new_state[t]
        BY <1>0, <3>1, PreparingFrame
      <4> QED BY <1>4, <2>1, <4>1
    <3>2. ASSUME NEW t \in Freezers, FreezeWithWal(t)
          PROVE  \A u \in Freezers : Preparing(u)' => approx_size'[new_state'[u].memtable] = 0
      <4>1. /\ pc[t] = "freeze_copy" /\ pc' = [pc EXCEPT ![t] = "freeze_record"]
            /\ AllocateId
            /\ new_state' = [new_state EXCEPT ![t] = Frozen(state, next_sst_id)]
        BY <3>2 DEF FreezeWithWal, FreezeCopy, Goto
      <4>2. /\ pc \in [Threads -> PcLabels] /\ Freezers \subseteq Threads /\ next_sst_id \in Nat
            /\ new_state \in [Freezers -> States \cup {Nil}]
        BY <1>0 DEF IInv, TypeOK, Freezers, Threads, Flushers
      <4>3. new_state'[t].memtable = next_sst_id
        BY <1>0, <4>1, <4>2, FrozenType
      <4>4. approx_size'[next_sst_id] = 0
        BY <4>1, <4>2 DEF AllocateId
      <4>5. \A u \in Freezers : u # t /\ Preparing(u)' => Preparing(u) /\ new_state'[u] = new_state[u]
        BY <4>1, <4>2 DEF Preparing
      <4> QED BY <1>4, <2>1, <4>3, <4>4, <4>5
    <3> QED BY <3>1, <3>2
  <2>3. wal'[id] = wal[id]
    <3>1. \A t \in Freezers : FreezeWithWal(t) => wal'[id] = wal[id]
      BY <1>0, FreezeWithWalWal DEF id
    <3> QED BY <1>7, <3>1, WalSteps
  <2>4. approx_size'[id] = approx_size[id] /\ memtables'[id] = memtables[id]
    BY <1>0, <2>1 DEF id
  <2>5. ASSUME state'.memtable = id
        PROVE  SizeLogged'
    <3>1. approx_size'[id] <= Len(wal'[id].log) + faults'
      BY <1>1, <1>2, <1>3, <2>3, <2>4
    <3> QED BY <1>3, <2>2, <2>4, <2>5, <3>1 DEF SizeLogged
  <2>6. ASSUME NEW t \in Freezers, FreezeSwap(t)
        PROVE  SizeLogged'
    <3>1. state'.memtable = new_state[t].memtable /\ Preparing(t)
      BY <1>0, <2>6, SwapState
    <3>2. approx_size'[state'.memtable] = 0
      BY <1>4, <2>1, <3>1
    <3>3. Len(wal'[state'.memtable].log) \in Nat
      <4>1. WalTypeOK' /\ FilesFirst'
        BY WalTypeStep, FilesFirstStep
      <4>2. state'.memtable \in DOMAIN wal'
        BY <4>1 DEF FilesFirst
      <4>3. wal'[state'.memtable] \in [log : Seq(LogEntries), durable : Nat]
        BY <4>1, <4>2 DEF WalTypeOK
      <4>4. wal'[state'.memtable].log \in Seq(LogEntries)
        BY <4>3
      <4> QED BY <4>4
    <3> QED BY <1>1, <2>2, <3>2, <3>3 DEF SizeLogged
  <2>7. state'.memtable = id \/ \E t \in Freezers : FreezeSwap(t)
    <3>1. \A t \in Flushers : FlushInstall(t) => state'.memtable = id
      BY <1>0, InstallState DEF id
    <3> QED BY <3>1, RecoveryStateStep DEF id
  <2> QED BY <2>5, <2>6, <2>7
<1> QED BY <1>5, <1>6, <1>7

LEMMA FreezesFullStep ==
    ASSUME RecInv, OpenInv, OnlyFullOnesFreeze, [RecoveryNext]_recoveryVars, ~ Reopen
    PROVE  FreezesFull'
<1>0. /\ IInv /\ LocksHeld /\ state.memtable \in Ids /\ Writers \subseteq Threads
      /\ approx_size \in [Ids -> Nat] /\ TargetSstSize \in Nat
      /\ pc \in [Threads -> PcLabels] /\ Freezers = Writers
  BY StorageAssumption
     DEF RecInv, IInv, TypeOK, IdsInState, IdsNamed, Threads, Freezers, OnlyFullOnesFreeze
<1> SUFFICES ASSUME NEW w \in Writers, pc'[w] \in FreezeLabels
             PROVE  approx_size'[state'.memtable] >= TargetSstSize
  BY DEF FreezesFull
<1>1. approx_size[state.memtable] >= TargetSstSize
  <2>1. CASE pc[w] \in FreezeLabels
    BY <2>1 DEF OpenInv, FreezesFull
  <2>2. CASE pc[w] \notin FreezeLabels
    BY <1>0, <2>2, FreezeEntry
  <2> QED BY <2>1, <2>2
<1>2. InWrite(w) /\ pc[w] # "put"
  <2>1. CASE pc[w] \in FreezeLabels
    BY <2>1 DEF InWrite, FreezeLabels
  <2>2. CASE pc[w] \notin FreezeLabels
    <3>1. pc[w] = "try_freeze"
      BY <1>0, <2>2, FreezeEntry DEF TryFreeze
    <3> QED BY <3>1 DEF InWrite
  <2> QED BY <2>1, <2>2
<1>3. \A u \in Writers : InWrite(u) => u = w
  BY <1>0, <1>2 DEF LocksHeld
<1>4. \A u \in Writers : ~ LoggedPut(u) /\ ~ PutFails(u)
  <2>1. \A u \in Writers : pc[u] # "put"
    BY <1>2, <1>3 DEF InWrite
  <2> QED BY <2>1 DEF LoggedPut, PutRecord, PutFails
<1>5. state'.memtable = state.memtable
  <2>1. ASSUME NEW t \in Freezers, FreezeSwap(t)
        PROVE  FALSE
    <3>1. pc[t] = "freeze_swap" /\ t \in Writers
      BY <1>0, <2>1 DEF FreezeSwap
    <3>2. t = w
      BY <1>3, <3>1 DEF InWrite, FreezeLabels
    <3>3. pc'[w] = "commit"
      BY <1>0, <2>1, <3>1, <3>2 DEF FreezeSwap, Goto
    <3> QED BY <3>3 DEF FreezeLabels
  <2>2. \A t \in Flushers : FlushInstall(t) => state'.memtable = state.memtable
    BY <1>0, InstallState
  <2> QED BY <2>1, <2>2, RecoveryStateStep
<1>6. approx_size'[state.memtable] = approx_size[state.memtable]
  BY <1>0, <1>4, TablesFrame
<1> QED BY <1>1, <1>5, <1>6

LEMMA FrozenSafeStep ==
    ASSUME RecInv, OpenInv, OnlyFullOnesFreeze, [RecoveryNext]_recoveryVars, ~ Reopen
    PROVE  FrozenSafe'
<1> DEFINE frozen == IdsOf(state.imm_memtables) \cup state.sstables
<1>0. /\ IInv /\ frozen \subseteq Ids \ {state.memtable} /\ state.memtable \in Ids
  BY DEF RecInv, IInv, IdsInState, IdsNamed, IdsOf
<1>1. /\ DOMAIN wal \subseteq DOMAIN wal'
      /\ \A id \in DOMAIN wal : id # state.memtable => wal'[id] = wal[id]
  BY WalGrows
<1>2. ASSUME NEW id \in frozen
      PROVE  id \in DOMAIN wal' /\ Safe(id)' /\ CellsOf(memtables'[id]) # {}
  <2>1. id \in DOMAIN wal /\ Safe(id) /\ CellsOf(memtables[id]) # {}
    BY DEF OpenInv, FrozenSafe
  <2>2. id \in Ids /\ id # state.memtable
    BY <1>0
  <2>3. memtables'[id] = memtables[id]
    <3>1. \A w \in Writers : LoggedPut(w) \/ PutFails(w) => memtables'[id] = memtables[id]
      BY <1>0, <2>2, PutGrows DEF LoggedPut
    <3>2. CASE \A w \in Writers : ~ LoggedPut(w) /\ ~ PutFails(w)
      BY <1>0, <2>2, <3>2, TablesFrame
    <3> QED BY <3>1, <3>2
  <2>4. wal'[id] = wal[id] /\ id \in DOMAIN wal'
    BY <1>1, <2>1, <2>2
  <2>5. Safe(id)'
    BY <2>1, <2>4 DEF Safe
  <2> QED BY <2>1, <2>3, <2>4, <2>5
<1> HIDE DEF frozen
<1>3. CASE state' = state
  BY <1>2, <1>3 DEF FrozenSafe, frozen
<1>4. ASSUME NEW t \in Freezers, FreezeSwap(t)
      PROVE  FrozenSafe'
  <2>1. /\ IdsOf(state'.imm_memtables) = {state.memtable} \cup IdsOf(state.imm_memtables)
        /\ state'.sstables = state.sstables /\ memtables' = memtables
    BY <1>0, <1>4, SwapState
  <2>2. /\ state.memtable \in DOMAIN wal /\ Safe(state.memtable)
        /\ CellsOf(memtables[state.memtable]) # {}
    BY <1>4, FullIsSafe DEF FreezeSwap, FreezeLabels
  <2>3. wal' = wal
    <3>1. \A w \in Writers : ~ LoggedPut(w)
      BY <1>4 DEF FreezeSwap, LoggedPut, PutRecord, ReadGuardHeld
    <3>2. \A u \in Freezers : ~ FreezeWithWal(u)
      <4>1. next_sst_id' = next_sst_id /\ next_sst_id \in Nat
        BY <1>4 DEF FreezeSwap, RecInv, IInv, TypeOK
      <4> QED BY <4>1 DEF FreezeWithWal, FreezeCopy, AllocateId
    <3> QED BY <3>1, <3>2, WalSteps
  <2>4. PICK active : active = state.memtable
    OBVIOUS
  <2>5. active \in DOMAIN wal' /\ Safe(active)' /\ CellsOf(memtables'[active]) # {}
    BY <2>1, <2>2, <2>3, <2>4 DEF Safe
  <2>6. \A id \in IdsOf(state'.imm_memtables) \cup state'.sstables : id = active \/ id \in frozen
    BY <2>1, <2>4 DEF frozen
  <2> QED BY <1>2, <2>5, <2>6 DEF FrozenSafe
<1>5. ASSUME NEW t \in Flushers, FlushInstall(t)
      PROVE  FrozenSafe'
  <2>1. /\ IdsOf(state.imm_memtables) = IdsOf(state'.imm_memtables) \cup {flush_id[t]}
        /\ state'.sstables = state.sstables \cup {flush_id[t]}
    BY <1>0, <1>5, InstallState
  <2>2. \A id \in IdsOf(state'.imm_memtables) \cup state'.sstables : id \in frozen
    BY <2>1 DEF frozen
  <2> QED BY <1>2, <2>2 DEF FrozenSafe
<1> QED BY <1>3, <1>4, <1>5, RecoveryStateStep

LEMMA OpenInvReopen ==
    ASSUME RecInv, OpenInv, OnlyFullOnesFreeze, Reopen
    PROVE  OpenInv'
<1>1. PICK lost : Reopened(lost)
  BY ReopenEffect
<1>2. /\ IdsOf(Unflushed) \subseteq DOMAIN wal
      /\ IdsOf(Flushes) \subseteq state.sstables
      /\ IdsOf(Flushes) \cap IdsOf(Unflushed) = {}
      /\ IdsOf(Flushes) \subseteq Ids' /\ IdsOf(Unflushed) \subseteq Ids'
      /\ Head(Unflushed) \in IdsOf(Unflushed)
      /\ IdsOf(Tail(Unflushed)) \subseteq IdsOf(Unflushed)
  BY <1>1, ReplayFinds, ReplayHead, RecoveredIds DEF Reopened
<1>3. \A t \in Freezers : pc'[t] = "idle"
  BY <1>1 DEF Reopened, Threads, Freezers, Flushers
<1>4. ASSUME NEW id \in IdsOf(Unflushed)
      PROVE  /\ memtables'[id] = WalRecover(wal'[id].log)
             /\ approx_size'[id] = Cardinality(CellsOf(memtables'[id]))
             /\ wal'[id].log \in Seq(LogEntries)
             /\ wal'[id].durable = Len(wal'[id].log)
             /\ wal[id].durable <= Len(wal'[id].log)
             /\ Len(wal[id].log) - BufferedRecords <= Len(wal'[id].log)
  BY SMTT(20), <1>1, <1>2, OnFileType DEF Reopened
<1>5. SizeLogged'
  <2>1. PICK id \in IdsOf(Unflushed) : state'.memtable = id
    BY <1>1, <1>2 DEF Reopened
  <2>2. approx_size'[id] <= Len(wal'[id].log)
    BY <1>4, WalRecoverSize
  <2>3. faults' \in Nat /\ approx_size'[id] \in Nat /\ Len(wal'[id].log) \in Nat
    <3>1. TypeOK' /\ MaxFaults \in Nat
      BY ReopenEffect, StorageAssumption
    <3>2. approx_size'[id] \in Nat
      BY <1>2, <3>1 DEF TypeOK
    <3>3. Len(wal'[id].log) \in Nat
      BY <1>4
    <3>4. faults' \in 0 .. MaxFaults
      BY <3>1 DEF TypeOK
    <3> QED BY <3>1, <3>2, <3>3, <3>4
  <2>4. approx_size'[id] <= Len(wal'[id].log) + faults'
    BY <2>2, <2>3
  <2>5. approx_size'[id] > 0 => CellsOf(memtables'[id]) # {}
    <3>1. Cardinality({}) = 0
      BY FS_EmptySet
    <3>2. approx_size'[id] = Cardinality(CellsOf(memtables'[id]))
      BY <1>4
    <3>3. CellsOf(memtables'[id]) = {} => approx_size'[id] = 0
      BY <3>1, <3>2
    <3> QED BY <3>3
  <2> QED BY <1>3, <2>1, <2>4, <2>5 DEF SizeLogged, Preparing
<1>6. FreezesFull'
  BY <1>3 DEF FreezesFull, FreezeLabels, Freezers
<1>7. ASSUME NEW id \in IdsOf(Flushes)
      PROVE  id \in DOMAIN wal' /\ Safe(id)' /\ CellsOf(memtables'[id]) # {}
  <2>1. id \in DOMAIN wal /\ Safe(id) /\ CellsOf(memtables[id]) # {}
    BY <1>2 DEF OpenInv, FrozenSafe
  <2>2. wal'[id] = wal[id] /\ id \in DOMAIN wal' /\ memtables'[id] = memtables[id]
    BY <1>1, <1>2, <2>1 DEF Reopened
  <2> QED BY <2>1, <2>2 DEF Safe
<1>8. ASSUME NEW id \in IdsOf(Tail(Unflushed))
      PROVE  id \in DOMAIN wal' /\ Safe(id)' /\ CellsOf(memtables'[id]) # {}
  <2>1. id \in IdsOf(Unflushed) /\ id \in DOMAIN wal
    BY <1>2
  <2>2. Safe(id)
    <3>1. PICK n \in LiveRecords :
            /\ IdsOf(Tail(Unflushed)) = {Record(m).id : m \in LiveRecords \ {n}}
            /\ \/ \A m \in RecordsOf("NewMemtable") \ {n} :
                    Record(m).id \in IdsOf(state.imm_memtables) \cup state.sstables
               \/ \E t \in Freezers :
                    /\ pc[t] = "freeze_swap"
                    /\ \A m \in RecordsOf("NewMemtable") \ {n} : Record(m).id \in LayerIds
      BY LastRecord
    <3>2. PICK m \in RecordsOf("NewMemtable") \ {n} : Record(m).id = id
      BY <3>1 DEF LiveRecords
    <3>3. CASE id \in IdsOf(state.imm_memtables) \cup state.sstables
      BY <3>3 DEF OpenInv, FrozenSafe
    <3>4. ASSUME NEW t \in Freezers, pc[t] = "freeze_swap", id = state.memtable
          PROVE  Safe(id)
      BY <3>4, FullIsSafe DEF FreezeLabels
    <3> QED BY <3>1, <3>2, <3>3, <3>4 DEF LayerIds
  <2>3. /\ Len(wal[id].log) \in Nat /\ wal[id].durable \in Nat /\ BufferedRecords \in Nat
        /\ Len(wal'[id].log) \in Nat
    BY <1>4, <2>1, LogLength, RecoveryAssumption
  <2>4. Len(wal'[id].log) > 0
    BY <1>4, <2>1, <2>2, <2>3 DEF Safe
  <2>5. Safe(id)' /\ id \in DOMAIN wal'
    BY <1>1, <1>4, <2>1, <2>4 DEF Safe, Reopened
  <2>6. CellsOf(memtables'[id]) # {}
    <3> DEFINE log == wal'[id].log
    <3>1. log \in Seq(LogEntries) /\ 1 \in DOMAIN log
      BY <1>4, <2>1, <2>3, <2>4
    <3> HIDE DEF log
    <3>2. log[1][1] \in Cells
      BY <3>1, LogEntryParts
    <3>3. WalRecover(log)[log[1][1]] \in Values
      BY <3>1, <3>2, WalRecoverCell
    <3>4. log[1][1] \in CellsOf(WalRecover(log))
      BY <3>2, <3>3, TablesAssumption DEF CellsOf
    <3>5. memtables'[id] = WalRecover(log)
      BY <1>4, <2>1 DEF log
    <3> QED BY <3>4, <3>5
  <2> QED BY <2>5, <2>6
<1>9. FrozenSafe'
  BY <1>1, <1>7, <1>8 DEF FrozenSafe, Reopened
<1> QED BY <1>5, <1>6, <1>9 DEF OpenInv

LEMMA OpenInvInit ==
    ASSUME RecoveryInit, OnlyFullOnesFreeze
    PROVE  OpenInv
<1>1. /\ state.memtable = 0 /\ state.imm_memtables = <<>> /\ state.sstables = {}
      /\ approx_size[0] = 0 /\ wal[0] = NewWal /\ faults = 0
      /\ \A t \in Freezers : pc[t] = "idle"
  BY DEF RecoveryInit, Init, InitState, Threads, Freezers, Flushers
<1>2. SizeLogged
  BY <1>1 DEF SizeLogged, NewWal, Preparing
<1>3. FreezesFull
  BY <1>1 DEF FreezesFull, FreezeLabels, Freezers
<1>4. FrozenSafe
  BY <1>1 DEF FrozenSafe, IdsOf
<1> QED BY <1>2, <1>3, <1>4 DEF OpenInv

LEMMA OpenInvOpens ==
    ASSUME RecInv, OpenInv
    PROVE  DirectoryCanBeOpened
<1>1. /\ Unflushed # <<>> /\ IdsOf(Unflushed) \subseteq DOMAIN wal
      /\ IdsOf(Flushes) \subseteq state.sstables
  BY ReplayFinds
<1>2. ASSUME NEW id \in IdsOf(Flushes)
      PROVE  CellsOf(sst_tables[id]) # {}
  <2>1. sst_tables[id] = memtables[id]
    BY <1>1 DEF RecInv, IInv, FlushedContentIsFinal
  <2>2. CellsOf(memtables[id]) # {}
    BY <1>1 DEF OpenInv, FrozenSafe
  <2> QED BY <2>1, <2>2
<1> QED BY <1>1, <1>2 DEF DirectoryCanBeOpened, CanOpen

(***************************************************************************)
(* Whenever the process dies, after any number of failures and restarts,   *)
(* open succeeds: every WAL the manifest names is there and every SST it   *)
(* names has a block.                                                      *)
(***************************************************************************)
THEOREM DirectoryAlwaysOpens ==
    ASSUME OnlyFullOnesFreeze
    PROVE  RecoverySpec => []DirectoryCanBeOpened
<1>1. RecoveryInit => OpenInv
  BY OpenInvInit
<1>2. RecInv /\ OpenInv /\ [RecoveryNext]_recoveryVars => OpenInv'
  BY SizeLoggedStep, FreezesFullStep, FrozenSafeStep, OpenInvReopen DEF OpenInv
<1>3. RecInv /\ OpenInv => DirectoryCanBeOpened
  BY OpenInvOpens
<1> QED BY <1>1, <1>2, <1>3, RecInvHolds, PTL DEF RecoverySpec

-------------------------------------------------------------------------------
(* The commit timestamp of the opened engine                               *)

(* A memtable contributes all its timestamps to it; an SST, those of the   *)
(* first and last keys of its blocks.                                      *)
LEMMA ReopenCoversData ==
    ASSUME RecInv, Reopen, NEW c \in Cells, View(state)'[c] # NoEntry
    PROVE  \/ c[2] <= commit_ts'
           \/ \E id \in state'.sstables : InsideABlock(c, sst_tables'[id])
<1>1. PICK lost : Reopened(lost)
  BY ReopenEffect
<1>2. IInv'
  BY ReopenInv DEF RecInv
<1>3. PICK id \in LayerIds' : memtables'[id][c] # NoEntry
  BY <1>2, ViewHolderNext
<1>4. /\ state'.memtable = Head(Unflushed) /\ state'.imm_memtables = Tail(Unflushed)
      /\ state'.sstables = IdsOf(Flushes)
      /\ commit_ts' = RecoveredMaxTs(RecoveredTables(lost))
  BY <1>1 DEF Reopened
<1>5. id \in IdsOf(Unflushed) \/ id \in IdsOf(Flushes)
  BY <1>3, <1>4, ReplayHead DEF LayerIds
<1>6. CASE id \in IdsOf(Unflushed)
  <2>1. memtables'[id] = WalRecover(OnFile(id, lost[id]))
    BY <1>1, <1>6 DEF Reopened
  <2>2. RecoveredTables(lost)[id] = WalRecover(OnFile(id, lost[id]))
    BY <1>6, RecoveredIds DEF RecoveredTables
  <2>3. c \in CellsOf(RecoveredTables(lost)[id])
    BY <1>3, <2>1, <2>2 DEF CellsOf
  <2> QED BY <1>4, <1>6, <2>3, RecoveredMaxTsType
<1>7. CASE id \in IdsOf(Flushes)
  <2>1. id \in Ids' \ IdsOf(Unflushed) /\ id \in state.sstables
    BY <1>1, <1>7, ReplayFinds, RecoveredIds DEF Reopened
  <2>2. memtables'[id] = sst_tables[id]
    BY <1>1, <2>1 DEF Reopened, RecInv, IInv, FlushedContentIsFinal
  <2>3. c \in CellsOf(sst_tables[id])
    BY <1>3, <2>2 DEF CellsOf
  <2>4. c[2] <= MaxTsOpened(sst_tables[id]) \/ InsideABlock(c, sst_tables[id])
    BY <2>3, MaxTsOpenedCovers
  <2>5. /\ MaxTsOpened(sst_tables[id]) <= commit_ts' /\ commit_ts' \in 0 .. MaxTs
        /\ MaxTsOpened(sst_tables[id]) \in 0 .. MaxTs
    BY <1>4, <1>7, RecoveredMaxTsType, MaxTsOpenedType
  <2>6. c[2] \in Nat
    BY TablesAssumption DEF Cells
  <2>7. sst_tables'[id] = sst_tables[id] /\ id \in state'.sstables
    BY <1>1, <1>4, <1>7, <2>1 DEF Reopened
  <2> QED BY <2>4, <2>5, <2>6, <2>7, TablesAssumption
<1> QED BY <1>5, <1>6, <1>7

(***************************************************************************)
(* Whatever the size of a block, open misses the timestamp of a cell in one*)
(* place only: strictly inside a block of an SST.  Every cell a WAL gave   *)
(* back, and the first and the last of every block, is covered by the      *)
(* commit timestamp of the opened engine.                                  *)
(***************************************************************************)
OnlyInsideBlocksMissed ==
    [][crashes' # crashes =>
        \A c \in Cells :
            View(state)'[c] # NoEntry /\ ~ c[2] <= commit_ts' =>
                \E id \in state'.sstables : InsideABlock(c, sst_tables'[id])]_recoveryVars

(* Newest timestamps recovered, of SsTable::open and of open.              *)
THEOREM RecoveredTsCovers == RecoverySpec => OnlyInsideBlocksMissed
<1>1. RecInv /\ [RecoveryNext]_recoveryVars =>
        [crashes' # crashes =>
            \A c \in Cells :
                View(state)'[c] # NoEntry /\ ~ c[2] <= commit_ts' =>
                    \E id \in state'.sstables : InsideABlock(c, sst_tables'[id])]_recoveryVars
  <2> SUFFICES ASSUME RecInv, [RecoveryNext]_recoveryVars, crashes' # crashes,
                      NEW c \in Cells, View(state)'[c] # NoEntry, ~ c[2] <= commit_ts'
               PROVE  \E id \in state'.sstables : InsideABlock(c, sst_tables'[id])
    OBVIOUS
  <2>1. Reopen
    BY WalSteps
  <2> QED BY <2>1, ReopenCoversData
<1> QED BY <1>1, RecInvHolds, PTL DEF RecoverySpec, OnlyInsideBlocksMissed

-------------------------------------------------------------------------------
(* What write_batch acknowledged                                           *)

(* The memtable of every layer has its record.                             *)
LayersOnRecord ==
    \A id \in LayerIds : \E n \in RecordsOf("NewMemtable") : Record(n).id = id

(* What is logged is in the memtable.                                      *)
LogsInTables ==
    \A id \in LayerIds :
        /\ id \in DOMAIN wal
        /\ \A i \in DOMAIN wal[id].log : memtables[id][wal[id].log[i][1]] # NoEntry

(* No two layers hold the same cell: in which order they are read does not *)
(* matter to it.                                                           *)
OneHolder ==
    \A c \in Cells : \A i, j \in LayerIds :
        memtables[i][c] # NoEntry /\ memtables[j][c] # NoEntry => i = j

(* Cells of the next timestamp are in the active memtable, which a batch   *)
(* may have left there when it failed; or in the one its writer froze.     *)
Publishing == \E w \in Writers : pc[w] = "commit"

CellsPublished ==
    \A id \in LayerIds : \A c \in Cells :
        memtables[id][c] # NoEntry =>
            \/ c[2] <= commit_ts
            \/ (id = state.memtable \/ Publishing) /\ c[2] = commit_ts + 1

(* Memtable id holds v in the cell, and so does what its WAL gives back.   *)
Holds(id, c, v) == memtables[id][c] = v /\ WalRecover(wal[id].log)[c] = v

BatchesHeld ==
    \A w \in Writers : InWrite(w) =>
        /\ inserted[w] \in 0 .. Len(batch[w])
        /\ pc[w] # "put" => inserted[w] = Len(batch[w])
        /\ \A k \in Keys :
            LastAmong(batch[w], inserted[w], k) # NoEntry =>
                \E id \in LayerIds :
                    /\ Holds(id, <<k, commit_ts + 1>>, LastAmong(batch[w], inserted[w], k))
                    /\ pc[w] # "commit" => id = state.memtable

AckedHeld ==
    \A c \in Cells : acked[c] # NoEntry =>
        /\ c[2] <= commit_ts
        /\ \E id \in LayerIds : Holds(id, c, acked[c])

HeldInv ==
    /\ SstsListed
    /\ LayersOnRecord
    /\ LogsInTables
    /\ OneHolder
    /\ CellsPublished
    /\ BatchesHeld
    /\ AckedHeld

(* What a log gives back for a cell depends on the records of that cell.   *)
LEMMA WalRecoverSame ==
    ASSUME NEW log \in Seq(LogEntries), NEW other, NEW c \in Cells,
           {i \in DOMAIN log : log[i][1] = c} = {i \in DOMAIN other : other[i][1] = c},
           \A i \in DOMAIN log : log[i][1] = c => other[i] = log[i]
    PROVE  WalRecover(log)[c] = WalRecover(other)[c]
<1> DEFINE at == {i \in DOMAIN log : log[i][1] = c}
           at2 == {i \in DOMAIN other : other[i][1] = c}
           last(s) == CHOOSE i \in s : \A j \in s : j <= i
<1>1. at2 = at
  OBVIOUS
<1>2. /\ WalRecover(log)[c] = IF at = {} THEN NoEntry ELSE log[last(at)][2]
      /\ WalRecover(other)[c] = IF at2 = {} THEN NoEntry ELSE other[last(at2)][2]
  BY DEF WalRecover
<1>3. \A i \in at : other[i] = log[i]
  OBVIOUS
<1>4. at # {} => last(at) \in at
  <2>1. Len(log) \in Nat /\ at \in SUBSET (0 .. Len(log))
    OBVIOUS
  <2> HIDE DEF at
  <2>2. at # {} => \E i \in at : \A j \in at : j <= i
    BY <2>1, NatGreatest
  <2> QED BY <2>2
<1> HIDE DEF at, at2, last
<1> QED BY <1>1, <1>2, <1>3, <1>4

(* One more record changes the cell it is of, and no other.                *)
LEMMA WalRecoverAppend ==
    ASSUME NEW log \in Seq(LogEntries), NEW entry \in LogEntries
    PROVE  /\ WalRecover(Append(log, entry))[entry[1]] = entry[2]
           /\ \A c \in Cells : c # entry[1] =>
                WalRecover(Append(log, entry))[c] = WalRecover(log)[c]
<1> DEFINE longer == Append(log, entry)
           n == Len(log)
<1>1. /\ n \in Nat /\ DOMAIN log = 1 .. n /\ longer \in Seq(LogEntries)
      /\ DOMAIN longer = 1 .. n + 1 /\ longer[n + 1] = entry
      /\ \A i \in 1 .. n : longer[i] = log[i]
  OBVIOUS
<1>2. entry[1] \in Cells
  BY DEF LogEntries
<1> HIDE DEF longer, n
<1>3. n + 1 \in DOMAIN longer /\ \A j \in DOMAIN longer : j <= n + 1
  BY <1>1
<1>4. WalRecover(longer)[entry[1]] = entry[2]
  BY <1>1, <1>2, <1>3, WalRecoverCell
<1>5. ASSUME NEW c \in Cells, c # entry[1]
      PROVE  WalRecover(longer)[c] = WalRecover(log)[c]
  <2>1. \A i \in DOMAIN longer : longer[i][1] = c => i \in DOMAIN log /\ longer[i] = log[i]
    BY <1>1, <1>5
  <2>2. \A i \in DOMAIN log : i \in DOMAIN longer /\ longer[i] = log[i]
    BY <1>1
  <2>3. {i \in DOMAIN log : log[i][1] = c} = {i \in DOMAIN longer : longer[i][1] = c}
    BY <2>1, <2>2
  <2> QED BY <2>2, <2>3, WalRecoverSame
<1> QED BY <1>4, <1>5 DEF longer

(* A log that lost its end gives back the cells of no record it lost.      *)
LEMMA WalRecoverPrefix ==
    ASSUME NEW log \in Seq(LogEntries), NEW other \in Seq(LogEntries), NEW c \in Cells,
           \A i \in DOMAIN other : i \in DOMAIN log /\ other[i] = log[i],
           \A i \in DOMAIN log \ DOMAIN other : log[i][1] # c
    PROVE  WalRecover(other)[c] = WalRecover(log)[c]
<1>1. {i \in DOMAIN other : other[i][1] = c} = {i \in DOMAIN log : log[i][1] = c}
  OBVIOUS
<1>2. \A i \in DOMAIN other : other[i][1] = c => log[i] = other[i]
  OBVIOUS
<1> QED BY <1>1, <1>2, WalRecoverSame

(* The layers before and after a step: no memtable is given up, and one    *)
(* that comes in is empty, as is its WAL.                                  *)
LEMMA LayersGrow ==
    ASSUME RecInv, [RecoveryNext]_recoveryVars, ~ Reopen
    PROVE  /\ LayerIds \subseteq Ids
           /\ LayerIds \subseteq LayerIds'
           /\ \A id \in LayerIds' \ LayerIds :
                /\ id = state'.memtable /\ id \in DOMAIN wal' /\ wal'[id].log = <<>>
                /\ memtables'[id] = EmptyTable
                /\ \E t \in Freezers : FreezeSwap(t) /\ id = new_state[t].memtable
           /\ (\A t \in Freezers : ~ FreezeSwap(t)) =>
                state'.memtable = state.memtable /\ LayerIds' = LayerIds
<1>0. LayerIds \subseteq Ids
  BY DEF LayerIds, RecInv, IInv, IdsInState, IdsNamed, IdsOf
<1> DEFINE Empty(id) ==
                /\ id = state'.memtable /\ id \in DOMAIN wal' /\ wal'[id].log = <<>>
                /\ memtables'[id] = EmptyTable
                /\ \E t \in Freezers : FreezeSwap(t) /\ id = new_state[t].memtable
<1>1. CASE state' = state
  <2>1. LayerIds' = LayerIds
    BY <1>1 DEF LayerIds
  <2> QED BY <1>0, <1>1, <2>1
<1>2. ASSUME NEW t \in Flushers, FlushInstall(t)
      PROVE  state'.memtable = state.memtable /\ LayerIds' = LayerIds
  <2>1. /\ IdsOf(state.imm_memtables) = IdsOf(state'.imm_memtables) \cup {flush_id[t]}
        /\ state'.sstables = state.sstables \cup {flush_id[t]}
        /\ state'.memtable = state.memtable
    BY <1>2, InstallState DEF RecInv
  <2> QED BY <2>1 DEF LayerIds
<1>3. ASSUME NEW t \in Freezers, FreezeSwap(t)
      PROVE  /\ LayerIds \subseteq LayerIds'
             /\ \A id \in LayerIds' \ LayerIds : Empty(id)
  <2>1. /\ Preparing(t) /\ state'.memtable = new_state[t].memtable
        /\ memtables[state'.memtable] = EmptyTable
        /\ IdsOf(state'.imm_memtables) = {state.memtable} \cup IdsOf(state.imm_memtables)
        /\ state'.sstables = state.sstables
        /\ memtables' = memtables /\ next_sst_id' = next_sst_id
    BY <1>3, SwapState DEF RecInv
  <2>2. wal' = wal
    <3>1. \A w \in Writers : ~ LoggedPut(w)
      BY <1>3 DEF FreezeSwap, LoggedPut, PutRecord, ReadGuardHeld
    <3>2. \A u \in Freezers : ~ FreezeWithWal(u)
      <4>1. next_sst_id' = next_sst_id /\ next_sst_id \in Nat
        BY <1>3 DEF FreezeSwap, RecInv, IInv, TypeOK
      <4> QED BY <4>1 DEF FreezeWithWal, FreezeCopy, AllocateId
    <3> QED BY <3>1, <3>2, WalSteps
  <2>3. new_state[t].memtable \in DOMAIN wal /\ wal[new_state[t].memtable].log = <<>>
    BY <2>1 DEF RecInv, FilesFirst
  <2>4. LayerIds \subseteq LayerIds'
    BY <2>1 DEF LayerIds
  <2>5. \A id \in LayerIds' \ LayerIds : id = state'.memtable
    BY <2>1 DEF LayerIds
  <2>6. PICK new : new = new_state[t].memtable
    OBVIOUS
  <2>7. /\ new = state'.memtable /\ new \in DOMAIN wal' /\ wal'[new].log = <<>>
        /\ memtables'[new] = EmptyTable
    BY <2>1, <2>2, <2>3, <2>6
  <2> QED BY <1>3, <2>4, <2>5, <2>6, <2>7
<1> HIDE DEF Empty
<1>4. /\ LayerIds \subseteq LayerIds'
      /\ \A id \in LayerIds' \ LayerIds : Empty(id)
  BY <1>1, <1>2, <1>3, RecoveryStateStep DEF LayerIds
<1>5. (\A t \in Freezers : ~ FreezeSwap(t)) =>
            state'.memtable = state.memtable /\ LayerIds' = LayerIds
  BY <1>1, <1>2, RecoveryStateStep DEF LayerIds
<1> QED BY <1>0, <1>4, <1>5 DEF Empty

(* A cell a step does not put keeps its value, in the memtable and in what *)
(* the WAL gives back.                                                     *)
LEMMA CellStays ==
    ASSUME RecInv, [RecoveryNext]_recoveryVars, ~ Reopen,
           NEW id \in LayerIds, id \in DOMAIN wal, NEW c \in Cells,
           \A w \in Writers : (LoggedPut(w) \/ PutFails(w)) /\ id = state.memtable => c # PutCell(w)
    PROVE  /\ memtables'[id][c] = memtables[id][c]
           /\ WalRecover(wal'[id].log)[c] = WalRecover(wal[id].log)[c]
           /\ \A v : Holds(id, c, v) => Holds(id, c, v)'
<1>0. IInv /\ id \in Ids
  BY LayersGrow DEF RecInv
<1>1. memtables'[id][c] = memtables[id][c]
  <2>1. ASSUME NEW w \in Writers, LoggedPut(w) \/ PutFails(w)
        PROVE  memtables'[id][c] = memtables[id][c]
    <3>1. CASE id = state.memtable
      BY <1>0, <2>1, <3>1, PutGrows DEF LoggedPut
    <3>2. CASE id # state.memtable
      BY <1>0, <2>1, <3>2, PutGrows DEF LoggedPut
    <3> QED BY <3>1, <3>2
  <2>2. CASE \A w \in Writers : ~ LoggedPut(w) /\ ~ PutFails(w)
    BY <1>0, <2>2, TablesFrame
  <2> QED BY <2>1, <2>2
<1>2. WalRecover(wal'[id].log)[c] = WalRecover(wal[id].log)[c]
  <2>1. CASE id # state.memtable
    BY <2>1, WalGrows
  <2>2. ASSUME NEW w \in Writers, LoggedPut(w), id = state.memtable
        PROVE  WalRecover(wal'[id].log)[c] = WalRecover(wal[id].log)[c]
    <3>1. /\ pc[w] = "put" /\ wal[id].log \in Seq(LogEntries)
          /\ wal'[id].log = Append(wal[id].log, <<PutCell(w), PutValue(w)>>)
      BY <2>2, LoggedPutWal
    <3>2. <<PutCell(w), PutValue(w)>> \in LogEntries /\ c # PutCell(w)
      BY <1>0, <2>2, <3>1, PutRecordType
    <3> QED BY <3>1, <3>2, WalRecoverAppend
  <2>3. ASSUME NEW t \in Freezers, FreezeWithWal(t)
        PROVE  WalRecover(wal'[id].log)[c] = WalRecover(wal[id].log)[c]
    BY <2>3, FreezeWithWalWal
  <2> QED BY <2>1, <2>2, <2>3, WalSteps
<1> QED BY <1>1, <1>2 DEF Holds

(* A put makes the active memtable and its WAL hold the record.            *)
LEMMA PutIsHeld ==
    ASSUME RecInv, NEW w \in Writers, LoggedPut(w)
    PROVE  /\ memtables'[state.memtable][PutCell(w)] = PutValue(w)
           /\ WalRecover(wal'[state.memtable].log)[PutCell(w)] = PutValue(w)
<1>1. /\ pc[w] = "put" /\ PutRecord(w) /\ state' = state
      /\ wal[state.memtable].log \in Seq(LogEntries)
      /\ wal'[state.memtable].log = Append(wal[state.memtable].log, <<PutCell(w), PutValue(w)>>)
  BY LoggedPutWal
<1>2. memtables'[state.memtable][PutCell(w)] = PutValue(w)
  BY <1>1, PutGrows DEF RecInv
<1>3. <<PutCell(w), PutValue(w)>> \in LogEntries
  BY <1>1, PutRecordType DEF RecInv
<1> QED BY <1>1, <1>2, <1>3, WalRecoverAppend

(* A cell that is there after a step was there before, or was just put.    *)
LEMMA CellsFound ==
    ASSUME RecInv, [RecoveryNext]_recoveryVars, ~ Reopen,
           NEW id \in LayerIds', NEW c \in Cells, memtables'[id][c] # NoEntry
    PROVE  /\ id \in LayerIds
           /\ \/ memtables[id][c] # NoEntry
              \/ id = state.memtable /\ \E w \in Writers :
                    (LoggedPut(w) \/ PutFails(w)) /\ c = PutCell(w)
<1>0. IInv
  BY DEF RecInv
<1>1. id \in LayerIds /\ id \in Ids
  <2>1. EmptyTable[c] = NoEntry
    BY DEF EmptyTable
  <2>2. id \notin LayerIds => memtables'[id] = EmptyTable
    BY LayersGrow
  <2> QED BY <2>1, <2>2, LayersGrow
<1>2. ASSUME NEW w \in Writers, LoggedPut(w) \/ PutFails(w)
      PROVE  memtables[id][c] # NoEntry \/ (id = state.memtable /\ c = PutCell(w))
  BY <1>0, <1>1, <1>2, PutGrows DEF LoggedPut
<1>3. CASE \A w \in Writers : ~ LoggedPut(w) /\ ~ PutFails(w)
  BY <1>0, <1>1, <1>3, TablesFrame
<1> QED BY <1>1, <1>2, <1>3

-------------------------------------------------------------------------------
(* The steps of HeldInv while the engine runs                              *)

LEMMA SstsListedStep ==
    ASSUME IInv, SstsListed, [RecoveryNext]_recoveryVars, ~ Reopen
    PROVE  SstsListed'
<1>1. CASE state' = state
  BY <1>1 DEF SstsListed
<1>2. ASSUME NEW t \in Freezers, FreezeSwap(t)
      PROVE  SstsListed'
  <2>1. /\ state'.l0_sstables = state.l0_sstables /\ state'.levels = state.levels
        /\ state'.sstables = state.sstables
    BY <1>2, SwapState
  <2> QED BY <2>1 DEF SstsListed
<1>3. ASSUME NEW t \in Flushers, FlushInstall(t)
      PROVE  SstsListed'
  <2> DEFINE new == flush_id[t]
             tier == <<new, <<new>>>>
  <2>1. /\ new \in Nat
        /\ state'.sstables = state.sstables \cup {new}
        /\ FlushToL0 =>
            /\ state'.l0_sstables = InsertFirst(new, state.l0_sstables)
            /\ state'.levels = state.levels
        /\ ~ FlushToL0 =>
            /\ state'.l0_sstables = state.l0_sstables
            /\ state'.levels = InsertFirst(tier, state.levels)
        /\ state.l0_sstables \in Seq(Nat) /\ state.levels \in Seq(Nat \X Seq(Nat))
    BY <1>3, InstallState DEF IInv, TypeOK, States
  <2> HIDE DEF new
  <2>2. CASE FlushToL0
    <3>1. IdsOf(state'.l0_sstables) = {new} \cup IdsOf(state.l0_sstables)
      BY <2>1, <2>2, FrozenList
    <3> QED BY <2>1, <2>2, <3>1 DEF SstsListed
  <2>3. CASE ~ FlushToL0
    <3>1. /\ DOMAIN state.levels = 1 .. Len(state.levels) /\ Len(state.levels) \in Nat
          /\ DOMAIN state'.levels = 1 .. Len(state.levels) + 1
          /\ state'.levels[1] = tier
          /\ \A i \in 1 .. Len(state.levels) : state'.levels[i + 1] = state.levels[i]
      <4> DEFINE levels == state.levels
      <4>0. PICK Tiers : Tiers = Nat \X Seq(Nat)
        OBVIOUS
      <4>1. tier \in Tiers
        <5>1. new \in Nat
          BY <2>1
        <5>2. <<new>> \in Seq(Nat)
          BY <5>1
        <5>3. PICK one : one = <<new>>
          OBVIOUS
        <5>4. <<new, one>> \in Nat \X Seq(Nat)
          BY <5>1, <5>2, <5>3
        <5> QED BY <4>0, <5>3, <5>4
      <4>2. levels \in Seq(Tiers) /\ state'.levels = InsertFirst(tier, levels)
        BY <2>1, <2>3, <4>0
      <4> HIDE DEF tier, levels
      <4>3. Len(levels) \in Nat /\ DOMAIN levels = 1 .. Len(levels)
        BY <4>2
      <4>4. /\ DOMAIN InsertFirst(tier, levels) = 1 .. Len(levels) + 1
            /\ InsertFirst(tier, levels)[1] = tier
            /\ \A i \in 1 .. Len(levels) : InsertFirst(tier, levels)[i + 1] = levels[i]
        BY <4>1, <4>2, InsertFirstProperties
      <4>5. /\ DOMAIN state'.levels = 1 .. Len(levels) + 1 /\ state'.levels[1] = tier
            /\ \A i \in 1 .. Len(levels) : state'.levels[i + 1] = levels[i]
        BY <4>2, <4>4
      <4> QED BY <4>3, <4>5 DEF levels
    <3>2. new \in IdsOf(tier[2])
      BY DEF IdsOf
    <3>3. 1 \in DOMAIN state'.levels /\ new \in IdsOf(state'.levels[1][2])
      BY <3>1, <3>2
    <3>4. \A i \in DOMAIN state.levels :
            i + 1 \in DOMAIN state'.levels /\ state'.levels[i + 1] = state.levels[i]
      BY <3>1
    <3> QED BY <2>1, <2>3, <3>3, <3>4 DEF SstsListed
  <2> QED BY <2>2, <2>3
<1> QED BY <1>1, <1>2, <1>3, RecoveryStateStep

(* The manifest only grows.                                                *)
LEMMA RecordsStay ==
    ASSUME RecInv, [RecoveryNext]_recoveryVars, ~ Reopen, NEW n \in RecordsOf("NewMemtable")
    PROVE  n \in RecordsOf("NewMemtable")' /\ Record(n)' = Record(n)
<1>1. manifest \in Seq(ManifestRecords)
  BY DEF RecInv, IInv, TypeOK
<1>2. ASSUME NEW r, manifest' = Append(manifest, r)
      PROVE  n \in RecordsOf("NewMemtable")' /\ Record(n)' = Record(n)
  <2>1. n \in 0 .. Len(manifest) /\ Len(manifest) \in Nat
    BY <1>1 DEF RecordsOf
  <2>2. Len(manifest') = Len(manifest) + 1 /\ \A i \in 1 .. Len(manifest) : manifest'[i] = manifest[i]
    BY <1>1, <1>2
  <2>3. n \in 0 .. Len(manifest') /\ (n # 0 => n \in 1 .. Len(manifest))
    BY <2>1, <2>2
  <2>4. Record(n)' = Record(n)
    BY <2>2, <2>3 DEF Record
  <2> QED BY <2>3, <2>4 DEF RecordsOf
<1>3. CASE manifest' = manifest
  BY <1>3 DEF RecordsOf, Record
<1> QED BY <1>2, <1>3, RecoveryManifestStep DEF FreezeRecord, FlushInstall

LEMMA LayersOnRecordStep ==
    ASSUME RecInv, LayersOnRecord, [RecoveryNext]_recoveryVars, ~ Reopen
    PROVE  LayersOnRecord'
<1> SUFFICES ASSUME NEW id \in LayerIds'
             PROVE  \E n \in RecordsOf("NewMemtable")' : Record(n)'.id = id
  BY DEF LayersOnRecord
<1>1. CASE id \in LayerIds
  BY <1>1, RecordsStay DEF LayersOnRecord
<1>2. CASE id \notin LayerIds
  <2>1. PICK t \in Freezers : FreezeSwap(t) /\ id = new_state[t].memtable
    BY <1>2, LayersGrow
  <2>2. \E n \in RecordsOf("NewMemtable") : Record(n).id = id
    BY <2>1 DEF RecInv, RecordsCover, Covers, FreezeSwap
  <2> QED BY <2>2, RecordsStay
<1> QED BY <1>1, <1>2

LEMMA LogsInTablesStep ==
    ASSUME RecInv, LogsInTables, [RecoveryNext]_recoveryVars, ~ Reopen
    PROVE  LogsInTables'
<1> SUFFICES ASSUME NEW id \in LayerIds'
             PROVE  /\ id \in DOMAIN wal'
                    /\ \A i \in DOMAIN wal'[id].log : memtables'[id][wal'[id].log[i][1]] # NoEntry
  BY DEF LogsInTables
<1>1. CASE id \notin LayerIds
  BY <1>1, LayersGrow
<1>2. ASSUME id \in LayerIds
      PROVE  /\ id \in DOMAIN wal /\ id \in DOMAIN wal' /\ id \in Ids
             /\ wal[id].log \in Seq(LogEntries)
             /\ \A i \in DOMAIN wal[id].log : memtables[id][wal[id].log[i][1]] # NoEntry
  BY <1>2, WalGrows, LayersGrow, LogLength DEF LogsInTables
<1>3. ASSUME id \in LayerIds, NEW i \in DOMAIN wal[id].log
      PROVE  memtables'[id][wal[id].log[i][1]] # NoEntry
  <2>1. PICK c \in Cells : c = wal[id].log[i][1]
    BY <1>2, <1>3, LogEntryParts
  <2>2. memtables[id][c] # NoEntry /\ id \in Ids /\ IInv
    BY <1>2, <1>3, <2>1 DEF RecInv
  <2>3. ASSUME NEW w \in Writers, LoggedPut(w) \/ PutFails(w)
        PROVE  memtables'[id][c] # NoEntry
    <3>1. /\ PutValue(w) # NoEntry
          /\ memtables'[state.memtable][PutCell(w)] = PutValue(w)
          /\ c # PutCell(w) => memtables'[state.memtable][c] = memtables[state.memtable][c]
          /\ id # state.memtable => memtables'[id] = memtables[id]
      BY <2>2, <2>3, PutGrows, TablesAssumption DEF LoggedPut
    <3> QED BY <2>2, <3>1
  <2>4. CASE \A w \in Writers : ~ LoggedPut(w) /\ ~ PutFails(w)
    <3>1. memtables'[id] = memtables[id]
      BY <2>2, <2>4, TablesFrame
    <3> QED BY <2>1, <2>2, <3>1
  <2> QED BY <2>1, <2>3, <2>4
<1>4. ASSUME id \in LayerIds, wal'[id] = wal[id]
      PROVE  \A i \in DOMAIN wal'[id].log : memtables'[id][wal'[id].log[i][1]] # NoEntry
  BY <1>3, <1>4
<1>5. ASSUME NEW w \in Writers, LoggedPut(w), id = state.memtable, id \in LayerIds
      PROVE  \A i \in DOMAIN wal'[id].log : memtables'[id][wal'[id].log[i][1]] # NoEntry
  <2> DEFINE log == wal[id].log
             entry == <<PutCell(w), PutValue(w)>>
  <2>1. /\ log \in Seq(LogEntries) /\ wal'[id].log = Append(log, entry)
        /\ pc[w] = "put" /\ PutRecord(w)
    BY <1>5, LoggedPutWal
  <2>2. /\ memtables'[id][entry[1]] = PutValue(w) /\ PutValue(w) # NoEntry
    BY <1>5, <2>1, PutGrows, TablesAssumption DEF RecInv
  <2>3. \A i \in DOMAIN log : memtables'[id][log[i][1]] # NoEntry
    BY <1>3, <1>5
  <2>4. \A i \in DOMAIN Append(log, entry) :
            Append(log, entry)[i] = entry \/ (i \in DOMAIN log /\ Append(log, entry)[i] = log[i])
    <3> HIDE DEF log, entry
    <3> QED BY <2>1
  <2> HIDE DEF log, entry
  <2> QED BY <2>1, <2>2, <2>3, <2>4
<1>6. ASSUME NEW t \in Freezers, FreezeWithWal(t), id \in LayerIds
      PROVE  wal'[id] = wal[id]
  BY <1>2, <1>6, FreezeWithWalWal
<1>7. ASSUME id \in LayerIds, id # state.memtable
      PROVE  wal'[id] = wal[id]
  BY <1>2, <1>7, WalGrows
<1> QED BY <1>1, <1>2, <1>4, <1>5, <1>6, <1>7, WalSteps

(* A put is alone in its write, and no other layer holds its cell.         *)
LEMMA PutIsAlone ==
    ASSUME RecInv, CellsPublished, NEW w \in Writers, LoggedPut(w) \/ PutFails(w)
    PROVE  /\ PutCell(w) \in Cells /\ PutCell(w)[2] = commit_ts + 1 /\ commit_ts \in Nat
           /\ \A u \in Writers : InWrite(u) => u = w
           /\ \A id \in LayerIds : id # state.memtable => memtables[id][PutCell(w)] = NoEntry
<1>1. pc[w] = "put"
  BY DEF LoggedPut, PutRecord, PutFails
<1>2. PutCell(w) \in Cells /\ PutCell(w)[2] = commit_ts + 1
  BY <1>1, PutRecordType DEF RecInv
<1>3. \A u \in Writers : InWrite(u) => u = w
  BY <1>1, OneWrite DEF InWrite, RecInv
<1>4. ~ Publishing
  BY <1>1, <1>3 DEF Publishing, InWrite
<1>5. commit_ts \in Nat
  <2>1. commit_ts \in 0 .. MaxTs
    BY DEF RecInv, IInv, TypeOK
  <2> QED BY <2>1
<1>6. ~ (PutCell(w)[2] <= commit_ts)
  BY <1>2, <1>5
<1> QED BY <1>2, <1>3, <1>4, <1>5, <1>6 DEF CellsPublished

LEMMA OneHolderStep ==
    ASSUME RecInv, OneHolder, CellsPublished, [RecoveryNext]_recoveryVars, ~ Reopen
    PROVE  OneHolder'
<1> SUFFICES ASSUME NEW c \in Cells, NEW i \in LayerIds', NEW j \in LayerIds',
                    memtables'[i][c] # NoEntry, memtables'[j][c] # NoEntry
             PROVE  i = j
  BY DEF OneHolder
<1>1. /\ i \in LayerIds /\ j \in LayerIds
      /\ \/ memtables[i][c] # NoEntry
         \/ i = state.memtable /\ \E w \in Writers :
                (LoggedPut(w) \/ PutFails(w)) /\ c = PutCell(w)
      /\ \/ memtables[j][c] # NoEntry
         \/ j = state.memtable /\ \E w \in Writers :
                (LoggedPut(w) \/ PutFails(w)) /\ c = PutCell(w)
  BY CellsFound
<1>2. CASE memtables[i][c] # NoEntry /\ memtables[j][c] # NoEntry
  BY <1>1, <1>2 DEF OneHolder
<1>3. ASSUME NEW w \in Writers, LoggedPut(w) \/ PutFails(w), c = PutCell(w)
      PROVE  i = state.memtable /\ j = state.memtable
  BY <1>1, <1>3, PutIsAlone
<1> QED BY <1>1, <1>2, <1>3

(* What a step does to the commit timestamp and to a write about to move   *)
(* it.                                                                     *)
LEMMA PublishFrame ==
    ASSUME IInv, [RecoveryNext]_recoveryVars, ~ Reopen
    PROVE  /\ commit_ts \in Nat /\ commit_ts' \in Nat
           /\ \/ commit_ts' = commit_ts /\ (Publishing => Publishing')
              \/ commit_ts' = commit_ts + 1
           /\ \A t \in Freezers : FreezeSwap(t) => commit_ts' = commit_ts
           /\ \A w \in Writers : LoggedPut(w) \/ PutFails(w) => commit_ts' = commit_ts
<1> DEFINE Calm == commit_ts' = commit_ts
           Goal == (Calm /\ (Publishing => Publishing')) \/ commit_ts' = commit_ts + 1
<1>0. /\ pc \in [Threads -> PcLabels] /\ commit_ts \in Nat
      /\ Writers \cap Flushers = {} /\ Writers \cap Readers = {} /\ Writers \cap Forcers = {}
      /\ Writers \subseteq Threads
  <2>1. commit_ts \in 0 .. MaxTs /\ pc \in [Threads -> PcLabels]
    BY DEF IInv, TypeOK
  <2> QED BY <2>1, StorageAssumption DEF Threads, Flushers
<1>1. (\A w \in Writers : pc[w] = "commit" => pc'[w] = "commit") => (Publishing => Publishing')
  BY DEF Publishing
<1> USE DEF mvcc, Goto
<1>2. ASSUME NEW w \in Writers, WriteBegin(w) \/ PutRecord(w) \/ PutFails(w) \/ TryFreeze(w)
      PROVE  Goal
  <2>1. /\ commit_ts' = commit_ts
        /\ \A u \in Writers : pc[u] = "commit" => pc'[u] = "commit"
    BY <1>0, <1>2 DEF WriteBegin, PutRecord, PutFails, TryFreeze
  <2> QED BY <1>1, <2>1
<1>3. ASSUME NEW w \in Writers, Commit(w)
      PROVE  Goal
  <2>1. commit_ts' = write_ts[w] /\ pc[w] = "commit"
    BY <1>3 DEF Commit
  <2>2. write_ts[w] = commit_ts + 1
    BY <2>1 DEF IInv, WriteInProgress, InWrite
  <2> QED BY <2>1, <2>2
<1>4. ASSUME NEW t \in Freezers, FreezeStep(t) \/ FreezeCreateFails(t)
      PROVE  Goal
  <2>1. /\ commit_ts' = commit_ts
        /\ \A u \in Writers : pc[u] = "commit" => pc'[u] = "commit"
    BY <1>0, <1>4 DEF FreezeStep, FreezeLock, FreezeCopy, FreezeRecord, FreezeFails, FreezeSwap,
                      FreezeCreateFails
  <2> QED BY <1>1, <2>1
<1>5. ASSUME NEW f \in Forcers, ForceFlush(f) \/ ForceFlushCheck(f)
      PROVE  Goal
  <2>1. /\ commit_ts' = commit_ts
        /\ \A u \in Writers : pc[u] = "commit" => pc'[u] = "commit"
    BY <1>0, <1>5 DEF ForceFlush, ForceFlushCheck
  <2> QED BY <1>1, <2>1
<1>6. ASSUME TriggerFlush
      PROVE  Goal
  <2>1. /\ commit_ts' = commit_ts
        /\ \A u \in Writers : pc[u] = "commit" => pc'[u] = "commit"
    BY <1>0, <1>6 DEF TriggerFlush, Flushers
  <2> QED BY <1>1, <2>1
<1>7. ASSUME NEW t \in Flushers, FlushStep(t)
      PROVE  Goal
  <2>1. /\ commit_ts' = commit_ts
        /\ \A u \in Writers : pc[u] = "commit" => pc'[u] = "commit"
    BY <1>0, <1>7 DEF FlushStep, FlushPick, FlushBuild, FlushFails, FlushLock, FlushInstall,
                      FlushPanics
  <2> QED BY <1>1, <2>1
<1>8. ASSUME NEW r \in Readers, ReaderStep(r)
      PROVE  Goal
  <2>1. /\ commit_ts' = commit_ts
        /\ \A u \in Writers : pc[u] = "commit" => pc'[u] = "commit"
    BY <1>0, <1>8 DEF ReaderStep, NewTxn, ReadSnapshot, ReadEnd
  <2> QED BY <1>1, <2>1
<1>9. UNCHANGED vars => Goal
  BY <1>1 DEF vars
<1> HIDE DEF Goal
<1>10. Goal
  BY <1>2, <1>3, <1>4, <1>5, <1>6, <1>7, <1>8, <1>9, RecoveryCases
     DEF Next, WriterStep
<1>11. /\ \A t \in Freezers : FreezeSwap(t) => Calm
       /\ \A w \in Writers : LoggedPut(w) \/ PutFails(w) => Calm
  BY DEF FreezeSwap, LoggedPut, PutRecord, PutFails
<1> QED BY <1>0, <1>10, <1>11 DEF Goal

LEMMA CellsPublishedStep ==
    ASSUME RecInv, CellsPublished, Forcers = {}, [RecoveryNext]_recoveryVars, ~ Reopen
    PROVE  CellsPublished'
<1>0. IInv /\ pc \in [Threads -> PcLabels] /\ Freezers = Writers /\ Writers \subseteq Threads
  BY DEF RecInv, IInv, TypeOK, Freezers, Threads
<1> SUFFICES ASSUME NEW id \in LayerIds', NEW c \in Cells, memtables'[id][c] # NoEntry
             PROVE  \/ c[2] <= commit_ts'
                    \/ (id = state'.memtable \/ Publishing') /\ c[2] = commit_ts' + 1
  BY DEF CellsPublished
<1>1. /\ commit_ts \in Nat /\ commit_ts' \in Nat /\ c[2] \in Nat
      /\ \/ commit_ts' = commit_ts /\ (Publishing => Publishing')
         \/ commit_ts' = commit_ts + 1
  BY <1>0, PublishFrame, TablesAssumption DEF Cells
<1>2. /\ id \in LayerIds
      /\ \/ memtables[id][c] # NoEntry
         \/ id = state.memtable /\ \E w \in Writers :
                (LoggedPut(w) \/ PutFails(w)) /\ c = PutCell(w)
  BY CellsFound
<1>3. \/ c[2] <= commit_ts
      \/ (id = state.memtable \/ Publishing) /\ c[2] = commit_ts + 1
  <2>1. CASE memtables[id][c] # NoEntry
    BY <1>2, <2>1 DEF CellsPublished
  <2>2. ASSUME NEW w \in Writers, LoggedPut(w) \/ PutFails(w), c = PutCell(w), id = state.memtable
        PROVE  c[2] = commit_ts + 1
    BY <2>2, PutIsAlone
  <2> QED BY <1>2, <2>1, <2>2
<1>4. CASE commit_ts' = commit_ts + 1
  BY <1>1, <1>3, <1>4
<1>5. ASSUME commit_ts' = commit_ts, Publishing => Publishing',
             NEW t \in Freezers, FreezeSwap(t)
      PROVE  c[2] <= commit_ts' \/ (Publishing' /\ c[2] = commit_ts' + 1)
  <2>1. pc'[t] = "commit" /\ t \in Writers
    BY <1>0, <1>5 DEF FreezeSwap, Goto
  <2> QED BY <1>3, <1>5, <2>1 DEF Publishing
<1>6. CASE commit_ts' = commit_ts /\ (Publishing => Publishing')
           /\ \A t \in Freezers : ~ FreezeSwap(t)
  BY <1>3, <1>6, LayersGrow
<1> QED BY <1>1, <1>4, <1>5, <1>6

(* A write in progress, when it neither begins nor puts a record: it is    *)
(* the only one, so no other step moves what it writes.                    *)
LEMMA WriteFrame ==
    ASSUME IInv, Forcers = {}, [RecoveryNext]_recoveryVars, ~ Reopen,
           NEW w \in Writers, InWrite(w)', ~ WriteBegin(w), ~ LoggedPut(w)
    PROVE  /\ InWrite(w) /\ commit_ts' = commit_ts
           /\ batch'[w] = batch[w] /\ inserted'[w] = inserted[w]
           /\ pc'[w] # "put" => pc[w] # "put"
           /\ pc[w] = "commit" => pc'[w] = "commit"
           /\ \A u \in Writers : ~ LoggedPut(u) /\ ~ PutFails(u)
           /\ \A t \in Freezers : FreezeSwap(t) => pc'[w] = "commit"
<1> DEFINE Goal ==
              /\ InWrite(w) /\ commit_ts' = commit_ts
              /\ batch'[w] = batch[w] /\ inserted'[w] = inserted[w]
              /\ pc'[w] # "put" => pc[w] # "put"
              /\ pc[w] = "commit" => pc'[w] = "commit"
<1>0. /\ pc \in [Threads -> PcLabels] /\ Freezers = Writers
      /\ Writers \cap Flushers = {} /\ Writers \cap Readers = {}
      /\ Writers \subseteq Threads /\ FlushThread \notin Writers
  <2>1. pc \in [Threads -> PcLabels]
    BY DEF IInv, TypeOK
  <2> QED BY <2>1, StorageAssumption DEF Threads, Flushers, Freezers
<1>1. pc'[w] = pc[w] => InWrite(w)
  BY DEF InWrite
<1>2. ASSUME NEW u \in Writers, u # w, pc'[w] = pc[w], InWrite(u) \/ WriteBegin(u)
      PROVE  FALSE
  BY <1>1, <1>2, OneWrite
<1>3. pc'[w] # "idle"
  BY DEF InWrite, FreezeLabels
<1> USE DEF mvcc, Goto
<1>4. ASSUME NEW u \in Writers, WriteBegin(u) \/ PutRecord(u) \/ PutFails(u) \/ TryFreeze(u)
                                \/ Commit(u) \/ FreezeStep(u) \/ FreezeCreateFails(u),
             u # w
      PROVE  FALSE
  <2>1. pc'[w] = pc[w]
    BY <1>0, <1>4 DEF WriteBegin, PutRecord, PutFails, TryFreeze, Commit, FreezeStep, FreezeLock,
                      FreezeCopy, FreezeRecord, FreezeFails, FreezeSwap, FreezeCreateFails
  <2>2. InWrite(u) \/ WriteBegin(u)
    BY <1>4 DEF PutRecord, PutFails, TryFreeze, Commit, FreezeStep, FreezeLock, InWrite,
                FreezeCopy, FreezeRecord, FreezeFails, FreezeSwap, FreezeCreateFails, FreezeLabels
  <2> QED BY <1>2, <1>4, <2>1, <2>2
<1>5. ~ PutFails(w) /\ ~ Commit(w) /\ ~ FreezeCreateFails(w) /\ ~ FreezeFails(w)
  BY <1>0, <1>3 DEF PutFails, Commit, FreezeCreateFails, FreezeFails
<1>6. ASSUME TryFreeze(w) \/ FreezeLock(w) \/ FreezeCopy(w) \/ FreezeRecord(w) \/ FreezeSwap(w)
      PROVE  Goal
  BY <1>0, <1>6 DEF TryFreeze, FreezeLock, FreezeCopy, FreezeRecord, FreezeSwap, InWrite,
                    FreezeLabels
<1>7. ASSUME NEW f \in Flushers, FlushStep(f)
      PROVE  Goal
  <2>1. pc'[w] = pc[w]
    BY <1>0, <1>7 DEF FlushStep, FlushPick, FlushBuild, FlushFails, FlushLock, FlushInstall,
                      FlushPanics
  <2>2. batch' = batch /\ inserted' = inserted /\ commit_ts' = commit_ts
    BY <1>7 DEF FlushStep, FlushPick, FlushBuild, FlushFails, FlushLock, FlushInstall, FlushPanics
  <2> QED BY <1>1, <2>1, <2>2
<1>8. ASSUME TriggerFlush
      PROVE  Goal
  <2>1. pc'[w] = pc[w] /\ batch' = batch /\ inserted' = inserted /\ commit_ts' = commit_ts
    BY <1>0, <1>8 DEF TriggerFlush
  <2> QED BY <1>1, <2>1
<1>9. ASSUME NEW r \in Readers, ReaderStep(r)
      PROVE  Goal
  <2>1. pc'[w] = pc[w] /\ batch' = batch /\ inserted' = inserted /\ commit_ts' = commit_ts
    BY <1>0, <1>9 DEF ReaderStep, NewTxn, ReadSnapshot, ReadEnd
  <2> QED BY <1>1, <2>1
<1>10. ASSUME UNCHANGED recoveryVars
       PROVE  Goal
  <2>1. pc' = pc /\ batch' = batch /\ inserted' = inserted /\ commit_ts' = commit_ts
    BY <1>10 DEF recoveryVars, vars
  <2> QED BY <1>1, <2>1
<1> HIDE DEF Goal
<1>11. Goal
  <2>1. ASSUME NEW u \in Writers, LoggedPut(u) \/ PutFails(u) \/ AckedCommit(u)
        PROVE  FALSE
    BY <1>4, <1>5, <2>1 DEF LoggedPut, AckedCommit
  <2>2. ASSUME NEW t \in Freezers, FreezeWithWal(t) \/ FreezeCreateFails(t)
        PROVE  Goal
    BY <1>0, <1>4, <1>5, <1>6, <2>2 DEF FreezeWithWal, FreezeStep
  <2>3. ASSUME NEW u \in Writers, WriteBegin(u) \/ TryFreeze(u)
        PROVE  Goal
    BY <1>4, <1>6, <2>3
  <2>4. ASSUME NEW t \in Freezers, FreezeLock(t) \/ FreezeRecord(t) \/ FreezeFails(t)
                                   \/ FreezeSwap(t)
        PROVE  Goal
    BY <1>0, <1>4, <1>5, <1>6, <2>4 DEF FreezeStep
  <2> QED BY <1>7, <1>8, <1>9, <1>10, <2>1, <2>2, <2>3, <2>4 DEF RecoveryNext, UnloggedStep
<1>12. \A u \in Writers : ~ LoggedPut(u) /\ ~ PutFails(u)
  BY <1>4, <1>5 DEF LoggedPut
<1>13. ASSUME NEW t \in Freezers, FreezeSwap(t)
       PROVE  pc'[w] = "commit"
  BY <1>0, <1>4, <1>13 DEF FreezeStep, FreezeSwap
<1> QED BY <1>11, <1>12, <1>13 DEF Goal

LEMMA BatchesHeldStep ==
    ASSUME RecInv, LogsInTables, CellsPublished, BatchesHeld, Forcers = {},
           [RecoveryNext]_recoveryVars, ~ Reopen
    PROVE  BatchesHeld'
<1> DEFINE Kept(w) ==
              /\ inserted'[w] \in 0 .. Len(batch'[w])
              /\ pc'[w] # "put" => inserted'[w] = Len(batch'[w])
              /\ \A k \in Keys :
                    LastAmong(batch'[w], inserted'[w], k) # NoEntry =>
                        \E id \in LayerIds' :
                            /\ Holds(id, <<k, commit_ts + 1>>,
                                     LastAmong(batch[w], inserted[w], k))'
                            /\ pc'[w] # "commit" => id = state'.memtable
<1>0. IInv /\ TypeOK /\ WriteInProgress
  BY DEF RecInv, IInv
<1>1. /\ pc \in [Threads -> PcLabels] /\ inserted \in [Writers -> Nat]
      /\ batch \in [Writers -> Seq(Records)] /\ Writers \subseteq Threads /\ commit_ts \in Nat
  <2>1. commit_ts \in 0 .. MaxTs
    BY <1>0 DEF TypeOK
  <2> QED BY <1>0, <2>1 DEF TypeOK, Threads
<1>2. ASSUME NEW w \in Writers, InWrite(w), NEW k \in Keys
      PROVE  <<k, commit_ts + 1>> \in Cells
  <2>1. commit_ts + 1 \in 1 .. MaxTs
    BY <1>0, <1>1, <1>2, TablesAssumption DEF WriteInProgress
  <2> QED BY <2>1 DEF Cells
<1> SUFFICES ASSUME NEW w \in Writers, InWrite(w)'
             PROVE  Kept(w)
  BY DEF BatchesHeld
<1>3. CASE WriteBegin(w)
  <2>1. PICK b \in Batches : /\ batch' = [batch EXCEPT ![w] = b]
                             /\ pc' = [pc EXCEPT ![w] = IF b = <<>> THEN "try_freeze" ELSE "put"]
    BY <1>3 DEF WriteBegin, Goto
  <2>2. inserted'[w] = 0
    <3>1. inserted' = inserted /\ ~ InWrite(w)
      BY <1>3 DEF WriteBegin, InWrite, FreezeLabels
    <3> QED BY <1>0, <3>1 DEF WriteInProgress
  <2>3. /\ batch'[w] = b /\ b \in Seq(Records)
        /\ pc'[w] # "put" => b = <<>>
    BY <1>1, <2>1, StorageAssumption
  <2>4. \A k \in Keys : LastAmong(b, 0, k) = NoEntry
    BY DEF LastAmong
  <2>5. Len(b) \in Nat /\ (b = <<>> => Len(b) = 0)
    BY <2>3
  <2> QED BY <2>2, <2>3, <2>4, <2>5
<1>4. CASE LoggedPut(w)
  <2> DEFINE n == inserted[w]
             record == batch[w][n + 1]
  <2>0. PICK active : active = state.memtable
    OBVIOUS
  <2>1. /\ pc[w] = "put" /\ InWrite(w) /\ PutRecord(w) /\ state' = state
        /\ n \in Nat /\ n < Len(batch[w]) /\ Len(batch[w]) \in Nat
        /\ commit_ts' = commit_ts /\ batch' = batch
        /\ inserted'[w] = n + 1
        /\ pc'[w] = IF n + 1 = Len(batch[w]) THEN "try_freeze" ELSE "put"
    BY <1>0, <1>1, <1>4 DEF LoggedPut, PutRecord, Goto, InWrite, WriteInProgress
  <2>2. /\ PutCell(w) = <<record.key, commit_ts + 1>> /\ PutValue(w) = record.value
        /\ memtables'[active][PutCell(w)] = PutValue(w)
        /\ WalRecover(wal'[active].log)[PutCell(w)] = PutValue(w)
    BY <1>0, <1>4, <2>0, <2>1, PutRecordType, PutIsHeld DEF PutValue
  <2>3. active \in LayerIds /\ active \in LayerIds' /\ active = state'.memtable
    BY <2>0, <2>1 DEF LayerIds
  <2> HIDE DEF record, n
  <2>4. ASSUME NEW k \in Keys, NEW v, v = LastAmong(batch[w], n + 1, k), v # NoEntry
        PROVE  Holds(active, <<k, commit_ts + 1>>, v)'
    <3>1. v = IF record.key = k THEN record.value ELSE LastAmong(batch[w], n, k)
      BY <2>1, <2>4, LastAmongNext DEF record
    <3>2. PICK c \in Cells : c = <<k, commit_ts + 1>>
      BY <1>2, <2>1
    <3>3. CASE record.key = k
      <4>1. memtables'[active][c] = v /\ WalRecover(wal'[active].log)[c] = v
        BY <2>2, <3>1, <3>2, <3>3
      <4>2. c = <<k, commit_ts' + 1>>
        BY <2>1, <3>2
      <4> QED BY <4>1, <4>2 DEF Holds
    <3>4. CASE record.key # k
      <4>1. PICK id \in LayerIds : Holds(id, c, v) /\ id = active
        <5>1. pc[w] # "commit" /\ v = LastAmong(batch[w], inserted[w], k)
          BY <2>1, <3>1, <3>4 DEF n
        <5> QED BY <2>0, <2>1, <2>4, <3>2, <5>1 DEF BatchesHeld
      <4>2. active \in DOMAIN wal
        BY <2>3 DEF LogsInTables
      <4>3. \A u \in Writers : LoggedPut(u) \/ PutFails(u) => c # PutCell(u)
        <5>1. c # PutCell(w)
          BY <2>2, <3>2, <3>4
        <5>2. \A u \in Writers : LoggedPut(u) \/ PutFails(u) => u = w
          BY <2>1, PutIsAlone
        <5> QED BY <5>1, <5>2
      <4>4. Holds(active, c, v)'
        BY <2>3, <4>1, <4>2, <4>3, CellStays
      <4>5. c = <<k, commit_ts' + 1>>
        BY <2>1, <3>2
      <4> QED BY <4>4, <4>5
    <3> QED BY <3>3, <3>4
  <2>5. ASSUME NEW k \in Keys, LastAmong(batch'[w], inserted'[w], k) # NoEntry
        PROVE  \E id \in LayerIds' :
                  /\ Holds(id, <<k, commit_ts + 1>>, LastAmong(batch[w], inserted[w], k))'
                  /\ pc'[w] # "commit" => id = state'.memtable
    <3>1. PICK v : v = LastAmong(batch'[w], inserted'[w], k)
      OBVIOUS
    <3>2. v = LastAmong(batch[w], n + 1, k) /\ v # NoEntry
      BY <2>1, <2>5, <3>1
    <3>3. Holds(active, <<k, commit_ts + 1>>, v)'
      BY <2>4, <3>2
    <3> QED BY <2>3, <3>1, <3>3
  <2>6. n + 1 \in 0 .. Len(batch'[w]) /\ (pc'[w] # "put" => n + 1 = Len(batch'[w]))
    BY <2>1
  <2> QED BY <2>1, <2>5, <2>6
<1>5. CASE ~ WriteBegin(w) /\ ~ LoggedPut(w)
  <2>1. /\ InWrite(w) /\ commit_ts' = commit_ts
        /\ batch'[w] = batch[w] /\ inserted'[w] = inserted[w]
        /\ pc'[w] # "put" => pc[w] # "put"
        /\ pc[w] = "commit" => pc'[w] = "commit"
        /\ \A u \in Writers : ~ LoggedPut(u) /\ ~ PutFails(u)
        /\ \A t \in Freezers : FreezeSwap(t) => pc'[w] = "commit"
    BY <1>0, <1>5, WriteFrame
  <2>2. ASSUME NEW k \in Keys, LastAmong(batch'[w], inserted'[w], k) # NoEntry
        PROVE  \E id \in LayerIds' :
                  /\ Holds(id, <<k, commit_ts + 1>>, LastAmong(batch[w], inserted[w], k))'
                  /\ pc'[w] # "commit" => id = state'.memtable
    <3>1. PICK v : v = LastAmong(batch'[w], inserted'[w], k)
      OBVIOUS
    <3>2. v = LastAmong(batch[w], inserted[w], k) /\ v # NoEntry
      BY <2>1, <2>2, <3>1
    <3>3. PICK c \in Cells : c = <<k, commit_ts + 1>> /\ c = <<k, commit_ts' + 1>>
      BY <1>2, <2>1
    <3>4. PICK id \in LayerIds : Holds(id, c, v) /\ (pc[w] # "commit" => id = state.memtable)
      BY <2>1, <3>2, <3>3 DEF BatchesHeld
    <3>5. Holds(id, c, v)'
      BY <2>1, <3>4, CellStays DEF LogsInTables
    <3>6. id \in LayerIds' /\ (pc'[w] # "commit" => id = state'.memtable)
      BY <2>1, <3>4, LayersGrow
    <3> QED BY <3>1, <3>3, <3>5, <3>6
  <2>3. /\ inserted[w] \in 0 .. Len(batch[w])
        /\ pc[w] # "put" => inserted[w] = Len(batch[w])
    BY <2>1 DEF BatchesHeld
  <2> QED BY <2>1, <2>2, <2>3
<1> QED BY <1>3, <1>4, <1>5

LEMMA AckedHeldStep ==
    ASSUME RecInv, LogsInTables, CellsPublished, BatchesHeld, AckedHeld, Forcers = {},
           [RecoveryNext]_recoveryVars, ~ Reopen
    PROVE  AckedHeld'
<1>0. IInv /\ commit_ts \in Nat /\ commit_ts' \in Nat /\ commit_ts <= commit_ts'
  <2>1. IInv
    BY DEF RecInv
  <2> QED BY <2>1, PublishFrame
<1>1. ASSUME NEW c \in Cells, acked[c] # NoEntry
      PROVE  /\ c[2] <= commit_ts'
             /\ \E id \in LayerIds' : Holds(id, c, acked[c]) /\ memtables'[id][c] = acked[c]
                                      /\ WalRecover(wal'[id].log)[c] = acked[c]
  <2>1. c[2] <= commit_ts /\ c[2] \in Nat
    BY <1>1, TablesAssumption DEF AckedHeld, Cells
  <2>2. PICK id \in LayerIds : Holds(id, c, acked[c])
    BY <1>1 DEF AckedHeld
  <2>3. \A u \in Writers : LoggedPut(u) \/ PutFails(u) => c # PutCell(u)
    BY <1>0, <2>1, PutIsAlone
  <2>4. /\ memtables'[id][c] = memtables[id][c]
        /\ WalRecover(wal'[id].log)[c] = WalRecover(wal[id].log)[c]
    BY <2>3, CellStays DEF LogsInTables
  <2>5. id \in LayerIds'
    BY LayersGrow
  <2> QED BY <1>0, <2>1, <2>2, <2>4, <2>5 DEF Holds
<1>2. CASE acked' = acked
  <2> SUFFICES ASSUME NEW c \in Cells, acked'[c] # NoEntry
               PROVE  /\ c[2] <= commit_ts'
                      /\ \E id \in LayerIds' : /\ memtables'[id][c] = acked'[c]
                                               /\ WalRecover(wal'[id].log)[c] = acked'[c]
    BY DEF AckedHeld, Holds
  <2> QED BY <1>1, <1>2
<1>3. ASSUME NEW w \in Writers, AckedCommit(w)
      PROVE  AckedHeld'
  <2>1. /\ pc[w] = "commit" /\ InWrite(w) /\ write_ts[w] = commit_ts + 1
        /\ commit_ts' = commit_ts + 1
        /\ \A c \in Cells : acked'[c] =
              IF c[2] = write_ts[w] /\ LastValue(batch[w], c[1]) # NoEntry
              THEN LastValue(batch[w], c[1]) ELSE acked[c]
    BY <1>0, <1>3 DEF AckedCommit, Commit, InWrite, IInv, WriteInProgress
  <2>2. \A u \in Writers : ~ (LoggedPut(u) \/ PutFails(u))
    <3>1. \A u \in Writers : pc[u] # "put"
      BY <1>0, <2>1, OneWrite DEF InWrite
    <3> QED BY <3>1 DEF LoggedPut, PutRecord, PutFails
  <2> SUFFICES ASSUME NEW c \in Cells, acked'[c] # NoEntry
               PROVE  /\ c[2] <= commit_ts'
                      /\ \E id \in LayerIds' : /\ memtables'[id][c] = acked'[c]
                                               /\ WalRecover(wal'[id].log)[c] = acked'[c]
    BY DEF AckedHeld, Holds
  <2>3. CASE acked'[c] = acked[c]
    BY <1>1, <2>3
  <2>4. CASE acked'[c] # acked[c]
    <3>1. PICK k \in Keys : c = <<k, commit_ts + 1>> /\ c[1] = k /\ c[2] = commit_ts + 1
      BY <2>1, <2>4 DEF Cells
    <3>2. PICK v : v = LastValue(batch[w], k) /\ v # NoEntry /\ acked'[c] = v
      BY <2>1, <2>4, <3>1
    <3>3. v = LastAmong(batch[w], inserted[w], k)
      <4>1. batch[w] \in Seq(Records)
        BY <1>0 DEF IInv, TypeOK
      <4>2. inserted[w] = Len(batch[w])
        BY <2>1 DEF BatchesHeld
      <4> QED BY <3>2, <4>1, <4>2, LastValueIsLast
    <3>4. PICK id \in LayerIds : Holds(id, c, v)
      BY <2>1, <3>1, <3>2, <3>3 DEF BatchesHeld
    <3>5. /\ memtables'[id][c] = memtables[id][c]
          /\ WalRecover(wal'[id].log)[c] = WalRecover(wal[id].log)[c]
      BY <2>2, CellStays DEF LogsInTables
    <3>6. id \in LayerIds'
      BY LayersGrow
    <3>7. c[2] <= commit_ts'
      BY <1>0, <2>1, <3>1
    <3> QED BY <3>2, <3>4, <3>5, <3>6, <3>7 DEF Holds
  <2> QED BY <2>3, <2>4
<1> QED BY <1>2, <1>3, WalSteps

-------------------------------------------------------------------------------
(* What a new process finds of it                                          *)

(* Its layers are those of the process that died; the memtable of a freeze *)
(* that was recorded and not installed comes back too, and is empty.       *)
LEMMA ReopenLayers ==
    ASSUME RecInv, LayersOnRecord, LogsInTables, NEW lost, Reopened(lost)
    PROVE  /\ LayerIds' = IdsOf(Unflushed) \cup IdsOf(Flushes)
           /\ LayerIds \subseteq LayerIds'
           /\ IdsOf(Flushes) \subseteq LayerIds
           /\ \A id \in IdsOf(Unflushed) \ LayerIds : wal[id].log = <<>>
           /\ \A id \in IdsOf(Flushes) :
                memtables'[id] = memtables[id] /\ wal'[id] = wal[id] /\ id \in DOMAIN wal'
           /\ \A id \in IdsOf(Unflushed) :
                /\ id \in DOMAIN wal /\ id \in DOMAIN wal'
                /\ wal[id].log \in Seq(LogEntries) /\ wal'[id].log \in Seq(LogEntries)
                /\ memtables'[id] = WalRecover(wal'[id].log)
                /\ \A i \in DOMAIN wal'[id].log :
                        i \in DOMAIN wal[id].log /\ wal'[id].log[i] = wal[id].log[i]
                /\ wal'[id].log = OnFile(id, lost[id])
<1>1. /\ IdsOf(Unflushed) \subseteq DOMAIN wal
      /\ IdsOf(Unflushed) = {Record(n).id : n \in LiveRecords}
      /\ IdsOf(Flushes) = {Record(n).id : n \in FlushRecords}
      /\ IdsOf(Flushes) \subseteq state.sstables
      /\ IdsOf(Flushes) \cap IdsOf(Unflushed) = {}
      /\ Head(Unflushed) \in IdsOf(Unflushed)
      /\ IdsOf(Tail(Unflushed)) \subseteq IdsOf(Unflushed)
      /\ IdsOf(Unflushed) = {Head(Unflushed)} \cup IdsOf(Tail(Unflushed))
  BY ReplayFinds, ReplayHead
<1>2. LayerIds' = IdsOf(Unflushed) \cup IdsOf(Flushes)
  BY <1>1 DEF LayerIds, Reopened
<1>3. LayerIds \subseteq IdsOf(Unflushed) \cup IdsOf(Flushes)
  <2> SUFFICES ASSUME NEW id \in LayerIds, id \notin IdsOf(Flushes)
               PROVE  id \in IdsOf(Unflushed)
    OBVIOUS
  <2>1. PICK n \in RecordsOf("NewMemtable") : Record(n).id = id
    BY DEF LayersOnRecord
  <2>2. n \in LiveRecords
    BY <1>1, <2>1 DEF LiveRecords
  <2> QED BY <1>1, <2>1, <2>2
<1>4. IdsOf(Flushes) \subseteq LayerIds
  BY <1>1 DEF LayerIds
<1>5. ASSUME NEW id \in IdsOf(Unflushed), id \notin LayerIds
      PROVE  wal[id].log = <<>>
  <2>1. PICK m \in LiveRecords : Record(m).id = id
    BY <1>1
  <2>2. PICK n \in LiveRecords :
            \/ /\ Record(n).id = state.memtable
               /\ \A k \in RecordsOf("NewMemtable") \ {n} :
                    Record(k).id \in IdsOf(state.imm_memtables) \cup state.sstables
            \/ \E t \in Freezers :
               /\ pc[t] = "freeze_swap"
               /\ Record(n).id = new_state[t].memtable
               /\ \A k \in RecordsOf("NewMemtable") \ {n} : Record(k).id \in LayerIds
    BY LastRecord
  <2>3. m \in RecordsOf("NewMemtable")
    BY DEF LiveRecords
  <2>4. PICK t \in Freezers : pc[t] = "freeze_swap" /\ id = new_state[t].memtable
    BY <1>5, <2>1, <2>2, <2>3 DEF LayerIds
  <2> QED BY <2>4 DEF RecInv, FilesFirst, Preparing
<1>6. ASSUME NEW id \in IdsOf(Flushes)
      PROVE  memtables'[id] = memtables[id] /\ wal'[id] = wal[id] /\ id \in DOMAIN wal'
  <2>1. id \in Ids' \ IdsOf(Unflushed)
    BY <1>1, RecoveredIds DEF Reopened, FlushRecords, RecordsOf
  <2>2. id \in DOMAIN wal \ IdsOf(Unflushed)
    BY <1>4, <2>1 DEF LogsInTables
  <2> QED BY <2>1, <2>2 DEF Reopened
<1>7. ASSUME NEW id \in IdsOf(Unflushed)
      PROVE  /\ id \in DOMAIN wal /\ id \in DOMAIN wal'
             /\ wal[id].log \in Seq(LogEntries) /\ wal'[id].log \in Seq(LogEntries)
             /\ memtables'[id] = WalRecover(wal'[id].log)
             /\ \A i \in DOMAIN wal'[id].log :
                     i \in DOMAIN wal[id].log /\ wal'[id].log[i] = wal[id].log[i]
             /\ wal'[id].log = OnFile(id, lost[id])
  <2> DEFINE log == wal[id].log
             m == Len(log) - lost[id]
  <2>1. /\ id \in DOMAIN wal /\ lost[id] \in Nat /\ lost[id] <= InBuffer(id)
        /\ wal'[id].log = OnFile(id, lost[id]) /\ DOMAIN wal' = DOMAIN wal
        /\ memtables'[id] = WalRecover(OnFile(id, lost[id]))
    BY <1>1 DEF Reopened
  <2>2. /\ OnFile(id, lost[id]) \in Seq(LogEntries) /\ log \in Seq(LogEntries)
        /\ Len(log) \in Nat /\ Len(OnFile(id, lost[id])) = m
    BY <2>1, OnFileType, LogLength
  <2>3. OnFile(id, lost[id]) = SubSeq(log, 1, m)
    BY DEF OnFile
  <2>4. m <= Len(log) /\ m \in Nat
    <3>1. m \in Nat
      BY <2>2
    <3> QED BY <2>1, <2>2, <3>1
  <2> HIDE DEF log, m
  <2>5. \A i \in DOMAIN SubSeq(log, 1, m) : i \in DOMAIN log /\ SubSeq(log, 1, m)[i] = log[i]
    BY <2>2, <2>4
  <2> QED BY <2>1, <2>2, <2>3, <2>5 DEF log
<1> QED BY <1>2, <1>3, <1>4, <1>5, <1>6, <1>7

LEMMA ReopenFound ==
    ASSUME RecInv, LayersOnRecord, LogsInTables, Reopen,
           NEW id \in LayerIds', NEW c \in Cells, memtables'[id][c] # NoEntry
    PROVE  id \in LayerIds /\ memtables[id][c] # NoEntry
<1>1. PICK lost : Reopened(lost)
  BY ReopenEffect
<1>2. CASE id \in IdsOf(Flushes)
  BY <1>1, <1>2, ReopenLayers
<1>3. CASE id \in IdsOf(Unflushed)
  <2> DEFINE log == wal[id].log
             onFile == wal'[id].log
  <2>1. /\ log \in Seq(LogEntries) /\ onFile \in Seq(LogEntries)
        /\ memtables'[id] = WalRecover(onFile)
        /\ \A i \in DOMAIN onFile : i \in DOMAIN log /\ onFile[i] = log[i]
        /\ id \notin LayerIds => log = <<>>
    BY <1>1, <1>3, ReopenLayers
  <2> HIDE DEF log, onFile
  <2>2. PICK i \in DOMAIN onFile : onFile[i][1] = c
    BY <2>1, WalRecoverCell
  <2>3. i \in DOMAIN log /\ log[i][1] = c
    BY <2>1, <2>2
  <2>4. id \in LayerIds
    BY <2>1, <2>3
  <2> QED BY <2>3, <2>4 DEF LogsInTables, log
<1> QED BY <1>1, <1>2, <1>3, ReopenLayers

LEMMA HeldInvReopen ==
    ASSUME RecInv, HeldInv, Reopen,
           \A c \in Cells : View(state)'[c] # NoEntry => c[2] <= commit_ts'
    PROVE  HeldInv'
<1> USE DEF HeldInv
<1>1. PICK lost : Reopened(lost)
  BY ReopenEffect
<1>2. IInv'
  BY ReopenInv DEF RecInv
<1>3. SstsListed'
  BY <1>1 DEF Reopened, SstsListed
<1>4. /\ LayerIds' = IdsOf(Unflushed) \cup IdsOf(Flushes)
      /\ LayerIds \subseteq LayerIds' /\ IdsOf(Flushes) \subseteq LayerIds
  BY <1>1, ReopenLayers
<1>5. LayersOnRecord'
  <2>1. /\ RecordsOf("NewMemtable")' = RecordsOf("NewMemtable") /\ \A n : Record(n)' = Record(n)
    BY <1>1 DEF Reopened, RecordsOf, Record
  <2>2. \A id \in LayerIds' : \E n \in RecordsOf("NewMemtable") : Record(n).id = id
    BY <1>4, ReplayFinds DEF LayersOnRecord, LiveRecords
  <2> QED BY <2>1, <2>2 DEF LayersOnRecord
<1>6. LogsInTables'
  <2> SUFFICES ASSUME NEW id \in LayerIds'
               PROVE  /\ id \in DOMAIN wal'
                      /\ \A i \in DOMAIN wal'[id].log :
                            memtables'[id][wal'[id].log[i][1]] # NoEntry
    BY DEF LogsInTables
  <2>1. CASE id \in IdsOf(Flushes)
    BY <1>1, <1>4, <2>1, ReopenLayers DEF LogsInTables
  <2>2. CASE id \in IdsOf(Unflushed)
    <3> DEFINE log == wal'[id].log
    <3>1. log \in Seq(LogEntries) /\ memtables'[id] = WalRecover(log) /\ id \in DOMAIN wal'
      BY <1>1, <2>2, ReopenLayers
    <3> HIDE DEF log
    <3>2. ASSUME NEW i \in DOMAIN log
          PROVE  WalRecover(log)[log[i][1]] # NoEntry
      <4>1. log[i][1] \in Cells
        BY <3>1, LogEntryParts
      <4>2. WalRecover(log)[log[i][1]] \in Values
        BY <3>1, <4>1, WalRecoverCell
      <4> QED BY <4>2, TablesAssumption
    <3> QED BY <3>1, <3>2 DEF log
  <2> QED BY <1>4, <2>1, <2>2
<1>7. OneHolder'
  <2> SUFFICES ASSUME NEW c \in Cells, NEW i \in LayerIds', NEW j \in LayerIds',
                      memtables'[i][c] # NoEntry, memtables'[j][c] # NoEntry
               PROVE  i = j
    BY DEF OneHolder
  <2>1. /\ i \in LayerIds /\ memtables[i][c] # NoEntry
        /\ j \in LayerIds /\ memtables[j][c] # NoEntry
    BY ReopenFound
  <2> QED BY <2>1 DEF OneHolder
<1>8. ASSUME NEW id \in LayerIds', NEW c \in Cells, memtables'[id][c] # NoEntry
      PROVE  c[2] <= commit_ts'
  BY <1>2, <1>3, <1>8, ViewHolderNext
<1>9. CellsPublished'
  BY <1>8 DEF CellsPublished
<1>10. BatchesHeld'
  BY <1>1 DEF BatchesHeld, Reopened, InWrite, FreezeLabels, Threads
<1>11. AckedHeld'
  <2> SUFFICES ASSUME NEW c \in Cells, acked'[c] # NoEntry
               PROVE  /\ c[2] <= commit_ts'
                      /\ \E id \in LayerIds' : /\ memtables'[id][c] = acked'[c]
                                               /\ WalRecover(wal'[id].log)[c] = acked'[c]
    BY DEF AckedHeld, Holds
  <2>1. acked'[c] = acked[c] /\ c \notin CutCells(lost)
    BY <1>1 DEF Reopened
  <2>2. PICK id \in LayerIds : Holds(id, c, acked[c])
    BY <2>1 DEF AckedHeld
  <2>3. memtables'[id][c] = acked[c] /\ WalRecover(wal'[id].log)[c] = acked[c]
    <3>1. CASE id \in IdsOf(Flushes)
      BY <1>1, <2>2, <3>1, ReopenLayers DEF Holds
    <3>2. CASE id \in IdsOf(Unflushed)
      <4> DEFINE log == wal[id].log
                 onFile == wal'[id].log
      <4>1. /\ log \in Seq(LogEntries) /\ onFile \in Seq(LogEntries)
            /\ memtables'[id] = WalRecover(onFile)
            /\ \A i \in DOMAIN onFile : i \in DOMAIN log /\ onFile[i] = log[i]
            /\ onFile = OnFile(id, lost[id])
        BY <1>1, <3>2, ReopenLayers
      <4>2. \A i \in DOMAIN log \ DOMAIN onFile : log[i][1] # c
        BY <2>1, <3>2, <4>1 DEF CutCells
      <4>3. WalRecover(log)[c] = acked[c]
        BY <2>2 DEF Holds
      <4> HIDE DEF log, onFile
      <4>4. WalRecover(onFile)[c] = acked[c]
        BY <4>1, <4>2, <4>3, WalRecoverPrefix
      <4> QED BY <4>1, <4>4 DEF onFile
    <3> QED BY <1>4, <3>1, <3>2
  <2>4. id \in LayerIds' /\ c[2] <= commit_ts'
    BY <1>4, <1>8, <2>1, <2>3
  <2> QED BY <2>1, <2>3, <2>4
<1> QED BY <1>3, <1>5, <1>6, <1>7, <1>9, <1>10, <1>11

LEMMA HeldInvInit ==
    ASSUME RecoveryInit
    PROVE  HeldInv
<1>1. /\ state.memtable = 0 /\ state.imm_memtables = <<>> /\ state.sstables = {}
      /\ memtables[0] = EmptyTable /\ wal = [id \in {0} |-> NewWal] /\ manifest = <<>>
      /\ \A w \in Writers : pc[w] = "idle"
      /\ acked = EmptyTable
  BY DEF RecoveryInit, Init, InitState, Threads
<1>2. LayerIds = {0}
  BY <1>1 DEF LayerIds, IdsOf
<1>3. \A c \in Cells : memtables[0][c] = NoEntry /\ acked[c] = NoEntry
  BY <1>1 DEF EmptyTable
<1>4. wal[0].log = <<>> /\ 0 \in DOMAIN wal
  BY <1>1 DEF NewWal
<1>5. LayersOnRecord
  <2>1. 0 \in RecordsOf("NewMemtable") /\ Record(0).id = 0
    BY <1>1 DEF RecordsOf, Record
  <2> QED BY <1>2, <2>1 DEF LayersOnRecord
<1>6. SstsListed
  BY <1>1 DEF SstsListed
<1>7. LogsInTables
  BY <1>2, <1>4 DEF LogsInTables
<1>8. OneHolder /\ CellsPublished
  BY <1>2, <1>3 DEF OneHolder, CellsPublished
<1>9. BatchesHeld
  BY <1>1 DEF BatchesHeld, InWrite, FreezeLabels
<1>10. AckedHeld
  BY <1>3 DEF AckedHeld
<1> QED BY <1>5, <1>6, <1>7, <1>8, <1>9, <1>10 DEF HeldInv

(* One layer holds what was acknowledged, and nothing hides it.            *)
LEMMA HeldIsRead ==
    ASSUME IInv, HeldInv
    PROVE  AckedIsRead
<1> SUFFICES ASSUME NEW c \in Cells, acked[c] # NoEntry
             PROVE  View(state)[c] = acked[c]
  BY DEF AckedIsRead
<1>1. PICK id \in LayerIds : memtables[id][c] = acked[c]
  BY DEF HeldInv, AckedHeld, Holds
<1>2. View(state)[c] # NoEntry
  BY <1>1, ViewHolder DEF HeldInv
<1>3. PICK other \in LayerIds : memtables[other][c] = View(state)[c]
  BY <1>2, ViewHolder
<1>4. other = id
  BY <1>1, <1>2, <1>3 DEF HeldInv, OneHolder
<1> QED BY <1>1, <1>3, <1>4

(***************************************************************************)
(* What write_batch returned Ok for stays readable with its value, after   *)
(* any failures and restarts, as long as each restart finds a commit       *)
(* timestamp that covers the data: otherwise later batches are written     *)
(* over acknowledged cells.  Nor may force_flush run ("Only call this in   *)
(* test cases due to race conditions"): it can freeze the memtable of a    *)
(* failed batch, and if the Flush record of that memtable is lost, its     *)
(* cells come back above the SST of the batch that took the timestamp.     *)
(***************************************************************************)
THEOREM AckedIsReadForGood ==
    ASSUME Forcers = {}
    PROVE  RecoverySpec /\ CommitTsCoversData => []AckedIsRead
<1> DEFINE Covered ==
        crashes' # crashes => \A c \in Cells : View(state)'[c] # NoEntry => c[2] <= commit_ts'
<1>1. RecoveryInit => HeldInv
  BY HeldInvInit
<1>2. RecInv /\ HeldInv /\ [RecoveryNext]_recoveryVars /\ [Covered]_recoveryVars => HeldInv'
  <2> SUFFICES ASSUME RecInv, HeldInv, [RecoveryNext]_recoveryVars, [Covered]_recoveryVars
               PROVE  HeldInv'
    OBVIOUS
  <2>1. CASE ~ Reopen
    BY <2>1, SstsListedStep, LayersOnRecordStep, LogsInTablesStep, OneHolderStep,
       CellsPublishedStep, BatchesHeldStep, AckedHeldStep DEF HeldInv, RecInv
  <2>2. CASE Reopen
    <3>1. crashes' # crashes
      <4>1. crashes' = crashes + 1 /\ crashes \in Nat
        BY <2>2, RecoveryAssumption DEF Reopen, RecInv, WalTypeOK
      <4> QED BY <4>1
    <3>2. ~ UNCHANGED recoveryVars
      BY <3>1 DEF recoveryVars
    <3> QED BY <2>2, <3>1, <3>2, HeldInvReopen
  <2> QED BY <2>1, <2>2
<1>3. RecInv /\ HeldInv => AckedIsRead
  BY HeldIsRead DEF RecInv
<1> QED BY <1>1, <1>2, <1>3, RecInvHolds, PTL DEF RecoverySpec, CommitTsCoversData

================================================================================
