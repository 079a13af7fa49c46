---------------------------- MODULE CorpusProofs ----------------------------
(***************************************************************************)
(* Proofs about Corpus, for any VMs, programs, signal and sizes: what the  *)
(* database file holds (DB) and what the fuzzers are owed.                 *)
(***************************************************************************)
EXTENDS Corpus, FiniteSetTheorems, SequenceTheorems, TLAPS

USE SMT, Zenon, SMTT(30)    \* the provers of a step that names none, in this order

-----------------------------------------------------------------------------
(* The database file: sequences of entries and what Deserialize makes of   *)
(* them.                                                                   *)
Entries == [key : Prog, seq : {seqDeleted, 0}]
Records == [Prog -> {seqDeleted, 0}]

LEMMA LeastNat == ASSUME NEW T \in SUBSET Nat, T # {} PROVE \E n \in T : \A m \in T : n <= m
<1> DEFINE R == StrictSubsetOrdering(Nat)
           F == {1 .. n : n \in T}
<1>1. F \subseteq FiniteSubsetsOf(Nat) /\ F # {}
  <2>1. ASSUME NEW n \in T PROVE 1 .. n \in SUBSET Nat /\ IsFiniteSet(1 .. n)
    <3>1. 1 \in Int /\ n \in Int OBVIOUS
    <3> QED BY <3>1, FS_Interval
  <2> QED BY <2>1, Zenon DEF FiniteSubsetsOf
<1>2. IsWellFoundedOn(R, FiniteSubsetsOf(Nat)) BY FS_StrictSubsetOrderingWellFounded
<1> HIDE DEF R
<1>3. \E s \in F : \A r \in F : ~(<<r, s>> \in R)
  <2> HIDE DEF F
  <2> QED BY <1>1, <1>2, WFMin
<1>4. PICK n \in T : \A m \in T : <<1 .. m, 1 .. n>> \notin R BY <1>3, Zenon
<1>5. ASSUME NEW m \in T, ~(n <= m) PROVE FALSE
  <2>1. m \in Nat /\ n \in Nat /\ m < n BY <1>5
  <2>2. 1 .. m \subseteq 1 .. n /\ n \in 1 .. n /\ n \notin 1 .. m BY <2>1
  <2>3. 1 .. m \in SUBSET Nat /\ 1 .. n \in SUBSET Nat OBVIOUS
  <2> DEFINE a == 1 .. m
             b == 1 .. n
  <2> HIDE DEF a, b
  <2>4. a \subseteq b /\ a # b /\ a \in SUBSET Nat /\ b \in SUBSET Nat BY <2>2, <2>3 DEF a, b
  <2>5. <<a, b>> \in R BY <2>4, Zenon DEF R, StrictSubsetOrdering
  <2> QED BY <1>4, <2>5 DEF a, b
<1> QED BY <1>5

(* The places of a key in a sequence of entries, and the last of them. *)
At(es, k) == {i \in DOMAIN es : es[i].key = k}
IsLast(es, k, i) == i \in At(es, k) /\ \A j \in At(es, k) : j <= i

LEMMA LastExists == ASSUME NEW es \in Seq(Entries), NEW k, At(es, k) # {} PROVE \E i : IsLast(es, k, i)
<1> DEFINE T == {n \in Nat : \E i \in At(es, k) : n = Len(es) - i}
<1>1. At(es, k) \subseteq 1 .. Len(es) /\ Len(es) \in Nat BY DEF At
<1>2. T # {} /\ T \in SUBSET Nat
  <2>1. PICK i \in At(es, k) : TRUE OBVIOUS
  <2>2. Len(es) - i \in Nat BY <1>1
  <2> QED BY <2>2
<1>3. PICK n \in T : \A m \in T : n <= m BY <1>2, LeastNat, Zenon
<1>4. PICK i \in At(es, k) : n = Len(es) - i OBVIOUS
<1>5. ASSUME NEW j \in At(es, k) PROVE j <= i
  <2>1. Len(es) - j \in T BY <1>1
  <2> QED BY <1>1, <1>3, <1>4, <2>1
<1> QED BY <1>4, <1>5 DEF IsLast

LEMMA Read ==
  ASSUME NEW es \in Seq(Entries), NEW k \in Prog
  PROVE  /\ At(es, k) = {} => Deserialize(es)[k] = seqDeleted
         /\ \A i : IsLast(es, k, i) => Deserialize(es)[k] = es[i].seq
<1>1. CASE At(es, k) = {} BY <1>1 DEF Deserialize, At, IsLast
<1>2. CASE At(es, k) # {}
  <2> SUFFICES ASSUME NEW i, IsLast(es, k, i) PROVE Deserialize(es)[k] = es[i].seq BY <1>2
  <2> DEFINE last == CHOOSE l \in At(es, k) : \A j \in At(es, k) : j <= l
  <2>1. last \in At(es, k) /\ \A j \in At(es, k) : j <= last BY DEF IsLast
  <2>2. At(es, k) \subseteq Nat BY DEF At
  <2>3. last = i BY <2>1, <2>2 DEF IsLast
  <2>4. Deserialize(es)[k] = es[last].seq BY <1>2 DEF Deserialize, At
  <2> QED BY <2>3, <2>4, Zenon
<1> QED BY <1>1, <1>2

LEMMA ReadType == ASSUME NEW es \in Seq(Entries) PROVE Deserialize(es) \in Records
<1>1. ASSUME NEW k \in Prog PROVE Deserialize(es)[k] \in {seqDeleted, 0}
  <2>1. CASE At(es, k) = {} BY <2>1, Read
  <2>2. CASE At(es, k) # {}
    <3>1. PICK i : IsLast(es, k, i) BY <2>2, LastExists
    <3>2. es[i] \in Entries BY <3>1 DEF IsLast, At
    <3> QED BY <3>1, <3>2, Read, Zenon DEF Entries
  <2> QED BY <2>1, <2>2
<1>2. DOMAIN Deserialize(es) = Prog /\ Deserialize(es) = [k \in Prog |-> Deserialize(es)[k]] BY DEF Deserialize
<1> QED BY <1>1, <1>2 DEF Records

(* A longer sequence: the added part decides about the keys in it. *)
LEMMA ReadMore ==
  ASSUME NEW es \in Seq(Entries), NEW fs \in Seq(Entries), NEW k \in Prog
  PROVE  /\ At(fs, k) = {} => Deserialize(es \o fs)[k] = Deserialize(es)[k]
         /\ At(fs, k) # {} => Deserialize(es \o fs)[k] = Deserialize(fs)[k]
<1> DEFINE gs == es \o fs
<1>1. /\ gs \in Seq(Entries) /\ Len(gs) = Len(es) + Len(fs) /\ Len(es) \in Nat /\ Len(fs) \in Nat
      /\ DOMAIN es = 1 .. Len(es) /\ DOMAIN fs = 1 .. Len(fs) /\ DOMAIN gs = 1 .. Len(es) + Len(fs)
  BY ConcatProperties
<1>2. \A i \in 1 .. Len(es) + Len(fs) : gs[i] = IF i <= Len(es) THEN es[i] ELSE fs[i - Len(es)]
  BY ConcatProperties
<1> HIDE DEF gs
<1>3. CASE At(fs, k) = {}
  <2>1. At(gs, k) = At(es, k)
    <3>1. ASSUME NEW i \in At(gs, k) PROVE i \in At(es, k)
      <4>1. i \in 1 .. Len(es) + Len(fs) /\ gs[i].key = k BY <1>1 DEF At
      <4>2. CASE i <= Len(es) BY <1>1, <1>2, <4>1, <4>2 DEF At
      <4>3. CASE ~(i <= Len(es))
        <5>1. i - Len(es) \in 1 .. Len(fs) /\ fs[i - Len(es)].key = k BY <1>1, <1>2, <4>1, <4>3
        <5> QED BY <1>1, <1>3, <5>1 DEF At
      <4> QED BY <4>2, <4>3
    <3>2. ASSUME NEW i \in At(es, k) PROVE i \in At(gs, k) BY <1>1, <1>2 DEF At
    <3> QED BY <3>1, <3>2, Zenon
  <2>2. CASE At(es, k) = {} BY <1>1, <1>3, <2>1, <2>2, Read, Zenon DEF gs
  <2>3. CASE At(es, k) # {}
    <3>1. PICK i : IsLast(es, k, i) BY <2>3, LastExists
    <3>2. IsLast(gs, k, i) BY <2>1, <3>1 DEF IsLast
    <3>3. gs[i] = es[i] BY <1>1, <1>2, <3>1 DEF IsLast, At
    <3>4. Deserialize(gs)[k] = Deserialize(es)[k] BY <1>1, <3>1, <3>2, <3>3, Read
    <3> QED BY <1>3, <3>4 DEF gs
  <2> QED BY <2>2, <2>3
<1>4. CASE At(fs, k) # {}
  <2>1. PICK i : IsLast(fs, k, i) BY <1>4, LastExists
  <2> DEFINE n == Len(es) + i
  <2>2. i \in 1 .. Len(fs) /\ fs[i].key = k BY <1>1, <2>1 DEF IsLast, At
  <2>3. n \in 1 .. Len(es) + Len(fs) /\ gs[n] = fs[i]
    <3>1. n \in 1 .. Len(es) + Len(fs) /\ ~(n <= Len(es)) /\ n - Len(es) = i BY <1>1, <2>2
    <3> QED BY <1>2, <3>1
  <2>4. ASSUME NEW j \in At(gs, k) PROVE j <= n
    <3>1. j \in 1 .. Len(es) + Len(fs) /\ gs[j].key = k BY <1>1 DEF At
    <3>2. CASE j <= Len(es) BY <1>1, <2>2, <3>1, <3>2
    <3>3. CASE ~(j <= Len(es))
      <4>1. j - Len(es) \in 1 .. Len(fs) /\ fs[j - Len(es)].key = k BY <1>1, <1>2, <3>1, <3>3
      <4>2. j - Len(es) <= i BY <1>1, <2>1, <4>1 DEF IsLast, At
      <4> QED BY <1>1, <2>2, <3>1, <4>2
    <3> QED BY <3>2, <3>3
  <2>5. IsLast(gs, k, n) BY <1>1, <2>2, <2>3, <2>4 DEF IsLast, At
  <2> HIDE DEF n
  <2>6. Deserialize(gs)[k] = Deserialize(fs)[k] BY <1>1, <2>1, <2>3, <2>5, Read
  <2> QED BY <1>4, <2>6 DEF gs
<1> QED BY <1>3, <1>4

-----------------------------------------------------------------------------
LEMMA OrderIsOnto ==
  ASSUME NEW S, IsFiniteSet(S), NEW s \in Orders(S)
  PROVE  s \in Seq(S) /\ \A x \in S : \E i \in DOMAIN s : s[i] = x
<1> DEFINE n == Cardinality(S)
<1>1. n \in Nat BY FS_CardinalityType
<1>2. s \in [1 .. n -> S] /\ \A i, j \in 1 .. n : s[i] = s[j] => i = j BY DEF Orders, Distinct
<1>3. s \in Injection(1 .. n, S) BY <1>2 DEF Injection, IsInjective
<1>4. Cardinality(1 .. n) = n BY <1>1, FS_Interval
<1>5. s \in Surjection(1 .. n, S) BY <1>3, <1>4, FS_Injection
<1>6. s \in Seq(S) BY <1>1, <1>2, IsASeq
<1> QED BY <1>2, <1>5, <1>6 DEF Surjection

LEMMA OrderExists == ASSUME NEW S, IsFiniteSet(S) PROVE InSomeOrder(S) \in Orders(S)
<1> DEFINE n == Cardinality(S)
<1>1. PICK f : f \in Bijection(1 .. n, S) BY FS_CardinalityType DEF ExistsBijection
<1>2. f \in Orders(S) BY <1>1 DEF Orders, Distinct, Bijection, Injection, IsInjective
<1> QED BY <1>2 DEF Orders, InSomeOrder

EntriesOf(K, r) == {Entry(k, r[k]) : k \in K}

(* A finite set of keys gives finitely many entries. *)
LEMMA EntriesFinite ==
  ASSUME NEW K \in SUBSET Prog, NEW r
  PROVE  IsFiniteSet(EntriesOf(K, r))
<1> DEFINE L == {Entry(k, r[k]) : k \in K}
           f == [k \in K |-> Entry(k, r[k])]
<1>1. f \in Surjection(K, L) BY DEF Surjection
<1>2. IsFiniteSet(K) BY CorpusAssumption, FS_Subset
<1> HIDE DEF L, f
<1>3. IsFiniteSet(L) BY <1>1, <1>2, FS_Surjection
<1> QED BY <1>3 DEF L, EntriesOf

(* The entries of some keys, in any order, say of each of them what they said. *)
LEMMA ReadOrder ==
  ASSUME NEW K \in SUBSET Prog, NEW r, \A k \in K : r[k] \in {seqDeleted, 0}
  PROVE  LET es == InSomeOrder(EntriesOf(K, r))
         IN /\ es \in Seq(Entries)
            /\ \A k \in K : At(es, k) # {} /\ Deserialize(es)[k] = r[k]
            /\ \A k \in Prog \ K : At(es, k) = {}
            /\ \A i \in DOMAIN es : es[i].key \in K /\ es[i].seq = r[es[i].key]
<1> DEFINE L == EntriesOf(K, r)
           es == InSomeOrder(L)
<1>1. IsFiniteSet(L) BY EntriesFinite
<1>2. L \subseteq Entries /\ \A e \in L : e.key \in K /\ e.seq = r[e.key] BY DEF Entry, Entries, EntriesOf
<1>3. \A k \in K : \E e \in L : e.key = k
  <2> SUFFICES ASSUME NEW k \in K PROVE \E e \in L : e.key = k OBVIOUS
  <2>1. Entry(k, r[k]) \in L /\ Entry(k, r[k]).key = k BY DEF Entry, EntriesOf
  <2> QED BY <2>1
<1> HIDE DEF L
<1>4. es \in Orders(L) BY <1>1, OrderExists
<1> HIDE DEF es
<1>5. es \in Seq(L) /\ \A x \in L : \E i \in DOMAIN es : es[i] = x BY <1>1, <1>4, OrderIsOnto
<1>6. es \in Seq(Entries) BY <1>2, <1>5, SeqMonotonic
<1>7. \A i \in DOMAIN es : es[i] \in L BY <1>5
<1>8. \A k \in Prog \ K : At(es, k) = {} BY <1>2, <1>7 DEF At
<1>9. ASSUME NEW k \in K PROVE At(es, k) # {} /\ Deserialize(es)[k] = r[k]
  <2>1. PICK i \in DOMAIN es : es[i].key = k BY <1>3, <1>5
  <2>2. At(es, k) # {} BY <2>1 DEF At
  <2>3. PICK l : IsLast(es, k, l) BY <1>6, <2>2, LastExists
  <2>4. es[l].seq = r[k] BY <1>2, <1>7, <2>3 DEF IsLast, At
  <2> QED BY <1>6, <2>2, <2>3, <2>4, Read
<1>10. \A i \in DOMAIN es : es[i].key \in K /\ es[i].seq = r[es[i].key] BY <1>2, <1>7
<1> QED BY <1>6, <1>8, <1>9, <1>10 DEF es, L

LEMMA ReadListed == ASSUME NEW r \in Records PROVE Listed(r) \in Seq(Entries) /\ Deserialize(Listed(r)) = r
<1> DEFINE es == Listed(r)
<1>1. /\ es \in Seq(Entries)
      /\ \A k \in Keys(r) : Deserialize(es)[k] = r[k]
      /\ \A k \in Prog \ Keys(r) : At(es, k) = {}
  <2>1. Keys(r) \in SUBSET Prog /\ \A k \in Keys(r) : r[k] \in {seqDeleted, 0} BY DEF Keys, Records
  <2>2. es = InSomeOrder(EntriesOf(Keys(r), r)) BY DEF Listed, EntriesOf
  <2> QED BY <2>1, <2>2, ReadOrder
<1> HIDE DEF es
<1>2. \A k \in Prog : Deserialize(es)[k] = r[k] BY <1>1, Read DEF Keys
<1>3. Deserialize(es) \in Records BY <1>1, ReadType
<1> QED BY <1>1, <1>2, <1>3 DEF Records, es

(* A key that an addition takes away is deleted by one of its entries. *)
LEMMA LostKeys ==
  ASSUME NEW es \in Seq(Entries), NEW fs \in Seq(Entries),
         NEW k \in Keys(Deserialize(es)), k \notin Keys(Deserialize(es \o fs))
  PROVE  \E i \in DOMAIN fs : fs[i].key = k /\ fs[i].seq = seqDeleted
<1>1. k \in Prog /\ Deserialize(es)[k] # seqDeleted /\ Deserialize(es \o fs)[k] = seqDeleted BY DEF Keys
<1>2. At(fs, k) # {} /\ Deserialize(fs)[k] = seqDeleted BY <1>1, ReadMore
<1>3. PICK i : IsLast(fs, k, i) BY <1>2, LastExists
<1>4. fs[i].seq = seqDeleted BY <1>1, <1>2, <1>3, Read
<1> QED BY <1>3, <1>4 DEF IsLast, At

-----------------------------------------------------------------------------
(* The operations on a database. *)
Files == [version : Nat, entries : Seq(Entries)]
Database == [version : Nat, records : Records, file : Files, pending : Seq(Entries), uncompacted : Nat]

Replays(d) == d \in Database /\ Deserialize(d.file.entries \o d.pending) = d.records
DeletesOnly(d, K) == \A i \in DOMAIN d.pending : d.pending[i].seq = seqDeleted => d.pending[i].key \in K
Flushed(d) == d.pending = <<>>

LEMMA KeysFinite == ASSUME NEW r PROVE IsFiniteSet(Keys(r)) /\ Cardinality(Keys(r)) \in Nat
<1>1. IsFiniteSet(Keys(r)) BY CorpusAssumption, FS_Subset DEF Keys
<1> QED BY <1>1, FS_CardinalityType

LEMMA CompactDB ==
  ASSUME NEW d \in Database
  PROVE  /\ Replays(Compact(d)) /\ Flushed(Compact(d))
         /\ Compact(d).records = d.records /\ Compact(d).file \in Files
         /\ Deserialize(Compact(d).file.entries) = d.records
<1> DEFINE es == Listed(d.records)
           n == Cardinality(Keys(d.records))
           f == [version |-> d.version, entries |-> es]
<1>1. es \in Seq(Entries) /\ Deserialize(es) = d.records BY ReadListed DEF Database
<1>2. n \in Nat BY KeysFinite
<1>3. Compact(d) = [d EXCEPT !.file = f, !.pending = <<>>, !.uncompacted = n] BY DEF Compact
<1> HIDE DEF es, n
<1>4. f \in Files /\ f.entries = es BY <1>1 DEF Files, Database
<1>e. <<>> \in Seq(Entries) /\ es \o <<>> = es BY <1>1, ConcatEmptySeq
<1> HIDE DEF f
<1>5. /\ Compact(d) \in Database /\ Compact(d).records = d.records /\ Compact(d).file = f
      /\ Compact(d).pending = <<>>
  BY <1>2, <1>3, <1>4, <1>e, Zenon DEF Database
<1> QED BY <1>1, <1>4, <1>5, <1>e DEF Replays, Flushed

LEMMA FlushDB ==
  ASSUME NEW d, Replays(d)
  PROVE  Replays(Flush(d)) /\ Flushed(Flush(d)) /\ Flush(d).records = d.records
<1>1. CASE NeedCompact(d) BY <1>1, CompactDB DEF Flush, Replays
<1>2. CASE ~NeedCompact(d)
  <2> DEFINE f == Appended(d.file, d.pending)
  <2>1. d \in Database BY DEF Replays
  <2>2. d.file.entries \in Seq(Entries) /\ d.pending \in Seq(Entries) BY <2>1 DEF Database, Files
  <2>3. d.file.entries \o d.pending \in Seq(Entries) BY <2>2, ConcatProperties
  <2>4. f \in Files /\ f.entries = d.file.entries \o d.pending BY <2>1, <2>3, Zenon DEF Appended, Database, Files
  <2>e. <<>> \in Seq(Entries) /\ f.entries \o <<>> = f.entries BY <2>3, <2>4, ConcatEmptySeq
  <2>5. Flush(d) = [d EXCEPT !.file = f, !.pending = <<>>] BY <1>2 DEF Flush
  <2> HIDE DEF f
  <2>6. Flush(d) \in Database /\ Flush(d).records = d.records /\ Flush(d).file = f /\ Flush(d).pending = <<>>
    BY <2>1, <2>4, <2>e, <2>5, Zenon DEF Database
  <2> QED BY <2>4, <2>6, <2>e, Zenon DEF Replays, Flushed
<1> QED BY <1>1, <1>2

LEMMA BumpDB ==
  ASSUME NEW d, Replays(d)
  PROVE  LET b == BumpVersion(d, currentDBVersion) IN Replays(b) /\ Flushed(b) /\ b.records = d.records
<1>1. CASE d.version = currentDBVersion BY <1>1, FlushDB DEF BumpVersion
<1>2. CASE d.version # currentDBVersion
  <2> DEFINE e == [d EXCEPT !.version = currentDBVersion]
  <2>1. e \in Database /\ e.records = d.records BY DEF Replays, Database, currentDBVersion
  <2> HIDE DEF e
  <2>2. BumpVersion(d, currentDBVersion) = Compact(e) BY <1>2 DEF BumpVersion, e
  <2> QED BY <2>1, <2>2, CompactDB
<1> QED BY <1>1, <1>2

(* A flushed file holds the records. *)
LEMMA FlushedDB == ASSUME NEW d, Replays(d), Flushed(d) PROVE OnDisk(d) = Keys(d.records)
<1>1. d.file.entries \in Seq(Entries) BY DEF Replays, Database, Files
<1>2. d.file.entries \o <<>> = d.file.entries BY <1>1, ConcatEmptySeq
<1> QED BY <1>2 DEF OnDisk, Replays, Flushed

LEMMA OpenDB ==
  ASSUME NEW f \in Files
  PROVE  Replays(Open(f)) /\ Flushed(Open(f)) /\ Open(f).records = Deserialize(f.entries)
<1> DEFINE r == Deserialize(f.entries)
           d == [version |-> f.version, records |-> r, file |-> f, pending |-> <<>>, uncompacted |-> 0]
<1>1. r \in Records BY ReadType DEF Files
<1>2. Open(f) = Compact(d) BY DEF Open
<1>e. <<>> \in Seq(Entries) OBVIOUS
<1> HIDE DEF r
<1>3. d \in Database /\ d.records = r BY <1>1, <1>e DEF Database, Files
<1> HIDE DEF d
<1> QED BY <1>2, <1>3, CompactDB DEF r

(* More entries pending: the file replays to the records they give. *)
WithPending(d, r, fs, n) == [d EXCEPT !.records = r, !.pending = d.pending \o fs, !.uncompacted = n]

LEMMA PendingDB ==
  ASSUME NEW d, Replays(d), NEW fs \in Seq(Entries), NEW r \in Records, NEW n \in Nat,
         \A k \in Prog : r[k] = IF At(fs, k) = {} THEN d.records[k] ELSE Deserialize(fs)[k]
  PROVE  LET e == WithPending(d, r, fs, n)
         IN Replays(e) /\ e.records = r /\ e.file = d.file /\ e.pending = d.pending \o fs
<1> DEFINE es == d.file.entries
           qs == d.pending
           bs == es \o qs
           ps == qs \o fs
           e == WithPending(d, r, fs, n)
<1>1. d \in Database /\ es \in Seq(Entries) /\ qs \in Seq(Entries) BY DEF Replays, Database, Files
<1>0. Deserialize(bs) = d.records BY DEF Replays
<1> HIDE DEF es, qs
<1>2. ps \in Seq(Entries) /\ bs \in Seq(Entries) BY <1>1, ConcatProperties
<1>3. es \o ps = bs \o fs BY <1>1, ConcatAssociative
<1> HIDE DEF bs
<1>4. bs \o fs \in Seq(Entries) BY <1>2, ConcatProperties
<1>5. ASSUME NEW k \in Prog PROVE Deserialize(bs \o fs)[k] = r[k] BY <1>0, <1>2, ReadMore
<1>6. Deserialize(bs \o fs) \in Records BY <1>4, ReadType, Zenon
<1>7. Deserialize(es \o ps) = r BY <1>3, <1>5, <1>6 DEF Records
<1> HIDE DEF ps
<1>8. e \in Database /\ e.records = r /\ e.file = d.file /\ e.pending = ps
  BY <1>1, <1>2, Zenon DEF Database, WithPending, ps, qs
<1> HIDE DEF e
<1>9. Replays(e) BY <1>7, <1>8 DEF Replays, es
<1> QED BY <1>8, <1>9 DEF e, ps, qs

LEMMA SaveDB ==
  ASSUME NEW d, Replays(d), NEW p \in Prog, NEW K, DeletesOnly(d, K)
  PROVE  LET e == Save(d, p, 0)
         IN /\ Replays(e) /\ DeletesOnly(e, K) /\ e.file = d.file
            /\ Keys(e.records) = Keys(d.records) \cup {p}
<1>0. d \in Database /\ d.records \in Records /\ d.pending \in Seq(Entries) /\ d.uncompacted + 1 \in Nat
  BY DEF Replays, Database
<1>1. CASE d.records[p] = 0 BY <1>1 DEF Save, Keys, seqDeleted
<1>2. CASE d.records[p] # 0
  <2> DEFINE fs == <<Entry(p, 0)>>
             r == [d.records EXCEPT ![p] = 0]
             n == d.uncompacted + 1
             e == WithPending(d, r, fs, n)
  <2>1. Entry(p, 0) \in Entries /\ Entry(p, 0).key = p /\ Entry(p, 0).seq = 0 BY DEF Entry, Entries
  <2>2. fs \in Seq(Entries) /\ Len(fs) = 1 /\ DOMAIN fs = {1} /\ fs[1] = Entry(p, 0) BY <2>1
  <2>3. Append(d.pending, Entry(p, 0)) = d.pending \o fs BY <1>0, <2>1, AppendIsConcat
  <2>4. Save(d, p, 0) = e BY <1>0, <1>2, <2>3, Zenon DEF Save, Write, Database, WithPending
  <2>5. r \in Records /\ \A k \in Prog : r[k] = IF k = p THEN 0 ELSE d.records[k] BY <1>0 DEF Records
  <2> HIDE DEF fs, r, n
  <2>6. \A k \in Prog : k # p => At(fs, k) = {} BY <2>1, <2>2 DEF At
  <2>7. At(fs, p) # {} /\ IsLast(fs, p, 1) BY <2>1, <2>2 DEF At, IsLast
  <2>8. Deserialize(fs)[p] = 0 BY <2>1, <2>2, <2>7, Read
  <2>9. \A k \in Prog : r[k] = IF At(fs, k) = {} THEN d.records[k] ELSE Deserialize(fs)[k]
    BY <2>5, <2>6, <2>7, <2>8
  <2>n. n \in Nat BY <1>0 DEF n
  <2>10. Replays(e) /\ e.records = r /\ e.file = d.file /\ e.pending = d.pending \o fs
    BY <2>2, <2>5, <2>9, <2>n, PendingDB, Zenon
  <2> HIDE DEF e
  <2>11. DeletesOnly(e, K)
    <3> SUFFICES ASSUME NEW i \in DOMAIN e.pending, e.pending[i].seq = seqDeleted PROVE e.pending[i].key \in K
      BY DEF DeletesOnly
    <3>1. i \in 1 .. Len(d.pending) + 1 /\ e.pending[i] = IF i <= Len(d.pending) THEN d.pending[i] ELSE fs[i - Len(d.pending)]
      BY <1>0, <2>2, <2>10, ConcatProperties
    <3>2. Len(d.pending) \in Nat /\ DOMAIN d.pending = 1 .. Len(d.pending) BY <1>0
    <3>3. CASE i <= Len(d.pending) BY <3>1, <3>2, <3>3 DEF DeletesOnly
    <3>4. CASE ~(i <= Len(d.pending))
      <4>1. i - Len(d.pending) = 1 BY <3>1, <3>2, <3>4
      <4> QED BY <2>1, <2>2, <3>1, <3>4, <4>1 DEF seqDeleted
    <3> QED BY <3>3, <3>4
  <2>12. Keys(r) = Keys(d.records) \cup {p} BY <2>5 DEF Keys, seqDeleted
  <2> QED BY <2>4, <2>10, <2>11, <2>12
<1> QED BY <1>1, <1>2

LEMMA DeleteDB ==
  ASSUME NEW d, Replays(d), NEW K, NEW J, DeletesOnly(d, J), K \subseteq J
  PROVE  LET e == DeleteAll(d, K)
         IN /\ Replays(e) /\ DeletesOnly(e, J) /\ e.file = d.file
            /\ Keys(e.records) = Keys(d.records) \ K
<1> DEFINE gone == K \cap Keys(d.records)
           fs == InSomeOrder(EntriesOf(gone, NoRecords))
           r == [k \in Prog |-> IF k \in gone THEN seqDeleted ELSE d.records[k]]
           n == d.uncompacted + Cardinality(gone)
           e == WithPending(d, r, fs, n)
<1>0. d \in Database /\ d.records \in Records /\ d.pending \in Seq(Entries) /\ d.uncompacted \in Nat
  BY DEF Replays, Database
<1>1. gone \in SUBSET Prog /\ gone \subseteq Keys(d.records) BY DEF Keys
<1>2. n \in Nat
  <2>1. IsFiniteSet(gone) BY CorpusAssumption, <1>1, FS_Subset
  <2>2. Cardinality(gone) \in Nat BY <2>1, FS_CardinalityType
  <2> QED BY <1>0, <2>2
<1>3. EntriesOf(gone, NoRecords) = {Entry(k, seqDeleted) : k \in gone} BY <1>1 DEF EntriesOf, NoRecords
<1>4. DeleteAll(d, K) = e BY <1>0, <1>3, Zenon DEF DeleteAll, WithPending, Database
<1>5. /\ fs \in Seq(Entries)
      /\ \A k \in gone : At(fs, k) # {} /\ Deserialize(fs)[k] = seqDeleted
      /\ \A k \in Prog \ gone : At(fs, k) = {}
      /\ \A i \in DOMAIN fs : fs[i].key \in gone
  <2>1. \A k \in gone : NoRecords[k] = seqDeleted /\ NoRecords[k] \in {seqDeleted, 0} BY <1>1 DEF NoRecords
  <2> HIDE DEF gone
  <2>2. /\ fs \in Seq(Entries)
        /\ \A k \in gone : At(fs, k) # {} /\ Deserialize(fs)[k] = NoRecords[k]
        /\ \A k \in Prog \ gone : At(fs, k) = {}
        /\ \A i \in DOMAIN fs : fs[i].key \in gone /\ fs[i].seq = NoRecords[fs[i].key]
    BY <1>1, <2>1, ReadOrder, Zenon
  <2> QED BY <2>1, <2>2
<1>6. r \in Records /\ \A k \in Prog : r[k] = IF k \in gone THEN seqDeleted ELSE d.records[k] BY <1>0 DEF Records
<1>7. Keys(r) = Keys(d.records) \ K BY <1>6 DEF Keys
<1>8. gone \subseteq J OBVIOUS
<1> HIDE DEF gone, fs, r, n
<1>9. \A k \in Prog : r[k] = IF At(fs, k) = {} THEN d.records[k] ELSE Deserialize(fs)[k] BY <1>5, <1>6
<1>10. Replays(e) /\ e.records = r /\ e.file = d.file /\ e.pending = d.pending \o fs
  <2>1. fs \in Seq(Entries) /\ r \in Records BY <1>5, <1>6
  <2> QED BY <1>2, <1>9, <2>1, PendingDB, Zenon
<1> HIDE DEF e
<1>11. DeletesOnly(e, J)
  <2> SUFFICES ASSUME NEW i \in DOMAIN e.pending, e.pending[i].seq = seqDeleted PROVE e.pending[i].key \in J
    BY DEF DeletesOnly
  <2>1. /\ i \in 1 .. Len(d.pending) + Len(fs)
        /\ e.pending[i] = IF i <= Len(d.pending) THEN d.pending[i] ELSE fs[i - Len(d.pending)]
    BY <1>0, <1>5, <1>10, ConcatProperties
  <2>2. Len(d.pending) \in Nat /\ DOMAIN d.pending = 1 .. Len(d.pending) BY <1>0
  <2>3. Len(fs) \in Nat /\ DOMAIN fs = 1 .. Len(fs) BY <1>5
  <2>4. CASE i <= Len(d.pending) BY <2>1, <2>2, <2>4 DEF DeletesOnly
  <2>5. CASE ~(i <= Len(d.pending))
    <3>1. i - Len(d.pending) \in DOMAIN fs BY <2>1, <2>2, <2>3, <2>5
    <3> QED BY <1>5, <1>8, <2>1, <2>5, <3>1
  <2> QED BY <2>4, <2>5
<1> QED BY <1>4, <1>7, <1>10, <1>11

(* A crash during Flush leaves a file that can be read, and that has lost  *)
(* nothing but what was to be deleted.                                     *)
LEMMA CrashDB ==
  ASSUME NEW d, Replays(d), NEW K, DeletesOnly(d, K), NEW f \in {d.file} \cup FlushCrash(d)
  PROVE  f \in Files /\ OnDisk(d) \ Keys(Deserialize(f.entries)) \subseteq K
<1> DEFINE es == d.file.entries
           ps == d.pending
<1>1. d \in Database /\ d.file \in Files /\ es \in Seq(Entries) /\ ps \in Seq(Entries)
  BY DEF Replays, Database, Files
<1>2. ASSUME NEW n \in 0 .. Len(ps)
      PROVE  /\ SubSeq(ps, 1, n) \in Seq(Entries)
             /\ Keys(Deserialize(es)) \ Keys(Deserialize(es \o SubSeq(ps, 1, n))) \subseteq K
  <2> DEFINE fs == SubSeq(ps, 1, n)
  <2>1. fs \in Seq(Entries) /\ DOMAIN fs \subseteq DOMAIN ps /\ \A i \in DOMAIN fs : fs[i] = ps[i]
    <3>1. Len(ps) \in Nat /\ DOMAIN ps = 1 .. Len(ps) /\ n \in Nat /\ n <= Len(ps) BY <1>1
    <3>2. fs \in Seq(Entries) /\ Len(fs) = n /\ \A i \in 1 .. n : fs[i] = ps[i] BY <1>1, <3>1, SubSeqProperties
    <3>3. DOMAIN fs = 1 .. n BY <3>2
    <3> QED BY <3>1, <3>2, <3>3
  <2> HIDE DEF fs, es, ps
  <2>2. ASSUME NEW k \in Keys(Deserialize(es)), k \notin Keys(Deserialize(es \o fs)) PROVE k \in K
    <3>1. PICK i \in DOMAIN fs : fs[i].key = k /\ fs[i].seq = seqDeleted BY <1>1, <2>1, <2>2, LostKeys
    <3> QED BY <2>1, <3>1 DEF DeletesOnly, ps
  <2> QED BY <2>1, <2>2 DEF fs
<1>3. CASE f = d.file BY <1>1, <1>3 DEF OnDisk
<1>4. CASE NeedCompact(d) /\ f = Compact(d).file
  <2>1. f \in Files /\ Deserialize(f.entries) = d.records BY <1>1, <1>4, CompactDB
  <2>2. Len(ps) \in 0 .. Len(ps) /\ SubSeq(ps, 1, Len(ps)) = ps
    <3>1. Len(ps) \in Nat BY <1>1
    <3> QED BY <1>1, <3>1, SubSeqFull
  <2>3. Keys(Deserialize(es)) \ Keys(Deserialize(es \o ps)) \subseteq K BY <1>2, <2>2, Zenon
  <2> QED BY <2>1, <2>3 DEF OnDisk, Replays
<1>5. ASSUME NEW n \in 0 .. Len(ps), f = Appended(d.file, SubSeq(ps, 1, n))
      PROVE  f \in Files /\ OnDisk(d) \ Keys(Deserialize(f.entries)) \subseteq K
  <2> DEFINE fs == SubSeq(ps, 1, n)
  <2>1. fs \in Seq(Entries) /\ Keys(Deserialize(es)) \ Keys(Deserialize(es \o fs)) \subseteq K BY <1>2
  <2> HIDE DEF fs
  <2>2. es \o fs \in Seq(Entries) BY <1>1, <2>1, ConcatProperties
  <2>3. f = [d.file EXCEPT !.entries = es \o fs] BY <1>1, <1>5 DEF Appended, fs, Files
  <2>4. f \in Files /\ f.entries = es \o fs BY <1>1, <2>2, <2>3, Zenon DEF Files
  <2> QED BY <2>1, <2>4 DEF OnDisk
<1> QED BY <1>3, <1>4, <1>5 DEF FlushCrash

-----------------------------------------------------------------------------
(* Minimization. *)
LEMMA KeptCovers ==
  ASSUME corpus \in [Prog -> SUBSET Signal], NEW order \in Orders(Held(corpus))
  PROVE  /\ Kept(order) \subseteq Held(corpus)
         /\ \A e \in SignalOfAll(corpus) : \E p \in Kept(order) : e \in corpus[p]
<1>1. IsFiniteSet(Held(corpus)) BY CorpusAssumption, FS_Subset DEF Held
<1>2. order \in Seq(Held(corpus)) /\ \A x \in Held(corpus) : \E i \in DOMAIN order : order[i] = x
  BY <1>1, OrderIsOnto
<1>3. DOMAIN order \subseteq Nat \ {0} /\ DOMAIN order = 1 .. Len(order) /\ Len(order) \in Nat BY <1>2
<1>4. Kept(order) \subseteq Held(corpus) BY <1>2 DEF Kept
<1>5. ASSUME NEW e \in SignalOfAll(corpus) PROVE \E p \in Kept(order) : e \in corpus[p]
  <2> DEFINE T == {i \in DOMAIN order : e \in corpus[order[i]]}
  <2>1. PICK p \in Prog : e \in corpus[p] BY DEF SignalOfAll
  <2>2. p \in Held(corpus) BY <2>1 DEF Held
  <2>3. T # {} /\ T \in SUBSET Nat BY <1>2, <1>3, <2>1, <2>2
  <2>4. PICK i \in T : \A j \in T : i <= j BY <2>3, LeastNat, Zenon
  <2>5. \A j \in 1 .. i - 1 : e \notin corpus[order[j]]
    <3> SUFFICES ASSUME NEW j \in 1 .. i - 1, e \in corpus[order[j]] PROVE FALSE OBVIOUS
    <3>1. i \in 1 .. Len(order) BY <1>3
    <3>2. j \in 1 .. Len(order) /\ j < i BY <1>3, <3>1
    <3>3. j \in T BY <1>3, <3>2
    <3> QED BY <2>4, <3>1, <3>2, <3>3
  <2> QED BY <2>5 DEF Kept
<1> QED BY <1>4, <1>5

(* What the file, the records and the corpus say of each other. *)
DiskInv ==
  /\ phase \in Int
  /\ corpus \in [Prog -> SUBSET Signal]
  /\ Replays(db) /\ DeletesOnly(db, Bad)
  /\ Held(corpus) \subseteq (OnDisk(db) \cap Keys(db.records)) \ Bad

Redundant(p) == p \in Bad \/ (phase >= phaseTriagedCorpus /\ p \notin Held(corpus)' /\ p \notin disabledHashes)

LEMMA UnwrittenIsBad == ASSUME DiskInv PROVE OnDisk(db) \ Keys(db.records) \subseteq Bad
<1> SUFFICES ASSUME NEW k \in OnDisk(db), k \notin Keys(db.records) PROVE k \in Bad OBVIOUS
<1> DEFINE es == db.file.entries
<1>1. es \in Seq(Entries) /\ db.pending \in Seq(Entries) BY DEF DiskInv, Replays, Database, Files
<1>2. k \in Keys(Deserialize(es)) /\ k \notin Keys(Deserialize(es \o db.pending))
  BY DEF OnDisk, DiskInv, Replays
<1> HIDE DEF es
<1>3. PICK i \in DOMAIN db.pending : db.pending[i].key = k /\ db.pending[i].seq = seqDeleted
  BY <1>1, <1>2, LostKeys
<1> QED BY <1>3 DEF DiskInv, DeletesOnly

LEMMA FlushedDeletes == ASSUME NEW d, Flushed(d), NEW K PROVE DeletesOnly(d, K)
BY DEF Flushed, DeletesOnly

LEMMA MinimizeDisk ==
  ASSUME DiskInv, MinimizeCorpus, phase' \in Int
  PROVE  /\ DiskInv' /\ SignalOfAll(corpus)' = SignalOfAll(corpus)
         /\ \A p \in OnDisk(db) \ OnDisk(db)' : Redundant(p)
<1>1. CASE UNCHANGED <<corpus, db>>
  <2>1. Held(corpus)' = Held(corpus) /\ OnDisk(db)' = OnDisk(db) /\ SignalOfAll(corpus)' = SignalOfAll(corpus) BY <1>1
  <2> QED BY <1>1, <2>1 DEF DiskInv
<1>2. ASSUME NEW order \in Orders(Held(corpus)),
             corpus' = [p \in Prog |-> IF p \in Kept(order) THEN corpus[p] ELSE {}],
             db' = MinimizedDB(Kept(order))
      PROVE  /\ DiskInv' /\ SignalOfAll(corpus)' = SignalOfAll(corpus)
             /\ \A p \in OnDisk(db) \ OnDisk(db)' : Redundant(p)
  <2> DEFINE kept == Kept(order)
  <2>1. kept \subseteq Held(corpus) /\ \A e \in SignalOfAll(corpus) : \E p \in kept : e \in corpus[p]
    BY KeptCovers DEF DiskInv
  <2>0. kept \subseteq Prog BY <2>1 DEF Held
  <2>h. corpus' = [p \in Prog |-> IF p \in kept THEN corpus[p] ELSE {}] /\ db' = MinimizedDB(kept) BY <1>2
  <2> HIDE DEF kept
  <2>2. corpus' \in [Prog -> SUBSET Signal] BY <2>h DEF DiskInv
  <2>3. Held(corpus') = kept BY <2>0, <2>1, <2>h DEF Held
  <2>4. SignalOfAll(corpus') = SignalOfAll(corpus)
    <3>1. \A p \in kept : corpus'[p] = corpus[p] BY <2>0, <2>h
    <3>2. \A p \in Prog : corpus'[p] \subseteq corpus[p] BY <2>h
    <3> QED BY <2>0, <2>1, <3>1, <3>2 DEF SignalOfAll
  <2>5. CASE phase < phaseTriagedCorpus
    <3>1. db' = db BY <2>5, <2>h DEF MinimizedDB
    <3>2. OnDisk(db') = OnDisk(db) BY <3>1
    <3> QED BY <2>1, <2>2, <2>3, <2>4, <3>1, <3>2 DEF DiskInv
  <2>6. CASE ~(phase < phaseTriagedCorpus)
    <3> DEFINE K == Prog \ (kept \cup disabledHashes)
               J == Bad \cup K
               e == DeleteAll(db, K)
               b == BumpVersion(e, currentDBVersion)
    <3>1. db' = b BY <2>6, <2>h DEF MinimizedDB
    <3>2. DeletesOnly(db, J) /\ K \subseteq J /\ Replays(db) BY DEF DiskInv, DeletesOnly
    <3>k. kept \cap K = {} /\ K \cap disabledHashes = {} OBVIOUS
    <3> HIDE DEF K, J
    <3>3. Replays(e) /\ Keys(e.records) = Keys(db.records) \ K BY <3>2, DeleteDB
    <3> HIDE DEF e
    <3>4. Replays(b) /\ Flushed(b) /\ b.records = e.records BY <3>3, BumpDB
    <3> HIDE DEF b
    <3>5. OnDisk(b) = Keys(b.records) /\ DeletesOnly(b, Bad) BY <3>4, FlushedDB, FlushedDeletes
    <3>6. Held(corpus') \subseteq (OnDisk(b) \cap Keys(b.records)) \ Bad
      BY <2>1, <2>3, <3>3, <3>4, <3>5, <3>k DEF DiskInv
    <3>7. DiskInv' BY <2>2, <3>1, <3>4, <3>5, <3>6 DEF DiskInv
    <3>8. ASSUME NEW p \in OnDisk(db) \ OnDisk(db') PROVE Redundant(p)
      <4>1. p \notin Keys(db.records) \/ p \in K BY <3>1, <3>3, <3>4, <3>5, <3>8
      <4>2. CASE p \notin Keys(db.records) BY <3>8, <4>2, UnwrittenIsBad DEF Redundant
      <4>3. CASE p \in K
        <5>1. phase >= phaseTriagedCorpus BY <2>6 DEF DiskInv, phaseTriagedCorpus
        <5> QED BY <2>3, <3>k, <4>3, <5>1 DEF Redundant
      <4> QED BY <4>1, <4>2, <4>3
    <3> QED BY <2>4, <3>7, <3>8
  <2> QED BY <2>5, <2>6
<1> QED BY <1>1, <1>2 DEF MinimizeCorpus

LEMMA AddInputDisk ==
  ASSUME DiskInv, NEW p \in Prog \ (Bad \cup Disabled), NEW s \in SUBSET Signal, AddInput(p, s)
  PROVE  /\ DiskInv' /\ SignalOfAll(corpus)' = SignalOfAll(corpus) \cup s
         /\ \A q \in OnDisk(db) \ OnDisk(db)' : Redundant(q)
<1>1. corpus' = [corpus EXCEPT ![p] = @ \cup s] /\ corpus \in [Prog -> SUBSET Signal] /\ phase' = phase
  BY DEF AddInput, DiskInv
<1>2. corpus' \in [Prog -> SUBSET Signal] BY <1>1
<1>3. Held(corpus') \subseteq Held(corpus) \cup {p} BY <1>1 DEF Held
<1>4. SignalOfAll(corpus') = SignalOfAll(corpus) \cup s
  <2>1. corpus'[p] = corpus[p] \cup s /\ \A q \in Prog \ {p} : corpus'[q] = corpus[q] BY <1>1
  <2> QED BY <2>1 DEF SignalOfAll
<1>5. CASE corpus[p] # {}
  <2>1. db' = db /\ p \in Held(corpus) BY <1>5 DEF AddInput, Held
  <2>2. OnDisk(db') = OnDisk(db) BY <2>1
  <2> QED BY <1>1, <1>2, <1>3, <1>4, <2>1, <2>2, Zenon DEF DiskInv
<1>6. CASE corpus[p] = {}
  <2> DEFINE e == Save(db, p, 0)
             b == Flush(e)
  <2>1. db' = b BY <1>6 DEF AddInput
  <2>2. Replays(e) /\ Keys(e.records) = Keys(db.records) \cup {p} BY SaveDB, Zenon DEF DiskInv
  <2> HIDE DEF e
  <2>3. Replays(b) /\ Flushed(b) /\ b.records = e.records BY <2>2, FlushDB
  <2> HIDE DEF b
  <2>4. OnDisk(b) = Keys(b.records) /\ DeletesOnly(b, Bad) BY <2>3, FlushedDB, FlushedDeletes
  <2>5. Held(corpus') \subseteq (OnDisk(b) \cap Keys(b.records)) \ Bad
    BY <1>3, <2>2, <2>3, <2>4 DEF DiskInv
  <2>6. DiskInv' BY <1>1, <1>2, <2>1, <2>3, <2>4, <2>5, Zenon DEF DiskInv
  <2>7. \A q \in OnDisk(db) \ OnDisk(db') : Redundant(q)
    BY <2>1, <2>2, <2>3, <2>4, UnwrittenIsBad DEF Redundant
  <2> QED BY <1>4, <2>6, <2>7
<1> QED BY <1>5, <1>6

LEMMA NewInputDisk ==
  ASSUME DiskInv, NEW from, NEW p \in Prog \ (Bad \cup Disabled), NEW s \in SUBSET Signal, NewInput(from, p, s)
  PROVE  DiskInv' /\ \A q \in OnDisk(db) \ OnDisk(db)' : Redundant(q)
<1>1. CASE AddInput(p, s) BY <1>1, AddInputDisk
<1>2. CASE UNCHANGED mgrVars
  <2>1. Held(corpus)' = Held(corpus) /\ OnDisk(db)' = OnDisk(db) /\ phase' = phase BY <1>2 DEF mgrVars
  <2> QED BY <1>2, <2>1 DEF DiskInv, mgrVars
<1> QED BY <1>1, <1>2 DEF NewInput

LEMMA SameDisk ==
  ASSUME DiskInv, UNCHANGED <<corpus, db>>, phase' \in Int
  PROVE  DiskInv' /\ \A q \in OnDisk(db) \ OnDisk(db)' : Redundant(q)
<1>1. Held(corpus)' = Held(corpus) /\ OnDisk(db)' = OnDisk(db) OBVIOUS
<1> QED BY <1>1 DEF DiskInv

LEMMA DiskInit == Init => DiskInv
<1> SUFFICES ASSUME NEW file \in InitialFiles, Started(file) PROVE DiskInv BY DEF Init
<1>1. file \in Files BY CorpusAssumption, Zenon DEF Files, Entries
<1>2. Replays(db) /\ Flushed(db) BY <1>1, OpenDB DEF Started
<1>3. corpus = NoInputs /\ phase \in Int BY DEF Started, phaseInit
<1>4. Held(corpus) = {} /\ corpus \in [Prog -> SUBSET Signal] BY <1>3 DEF Held, NoInputs
<1> QED BY <1>2, <1>3, <1>4, FlushedDeletes DEF DiskInv

LEMMA RestartDisk ==
  ASSUME DiskInv, Restart
  PROVE  DiskInv' /\ \A q \in OnDisk(db) \ OnDisk(db)' : Redundant(q)
<1>1. PICK file \in {db.file} \cup UNION {FlushCrash(Save(db, p, 0)) : p \in Prog \ (Bad \cup Disabled)} :
        Restarted(file)
  BY DEF Restart
<1>2. file \in Files /\ OnDisk(db) \ Keys(Deserialize(file.entries)) \subseteq Bad
  <2>1. CASE file = db.file BY <2>1, CrashDB DEF DiskInv
  <2>2. ASSUME NEW p \in Prog \ (Bad \cup Disabled), file \in FlushCrash(Save(db, p, 0))
        PROVE  file \in Files /\ OnDisk(db) \ Keys(Deserialize(file.entries)) \subseteq Bad
    <3> DEFINE e == Save(db, p, 0)
    <3>1. Replays(e) /\ DeletesOnly(e, Bad) /\ e.file = db.file BY SaveDB DEF DiskInv
    <3>2. file \in FlushCrash(e) BY <2>2
    <3> HIDE DEF e
    <3>3. OnDisk(e) = OnDisk(db) BY <3>1 DEF OnDisk
    <3> QED BY <3>1, <3>2, <3>3, CrashDB
  <2> QED BY <1>1, <2>1, <2>2
<1>3. db' = Open(file) /\ corpus' = NoInputs /\ phase' \in Int BY <1>1 DEF Restarted, phaseInit
<1>4. Replays(db') /\ Flushed(db') /\ db'.records = Deserialize(file.entries) BY <1>2, <1>3, OpenDB
<1>5. OnDisk(db') = Keys(Deserialize(file.entries)) /\ DeletesOnly(db', Bad) BY <1>4, FlushedDB, FlushedDeletes
<1>6. Held(corpus') = {} /\ corpus' \in [Prog -> SUBSET Signal] BY <1>3 DEF Held, NoInputs
<1> QED BY <1>2, <1>3, <1>4, <1>5, <1>6 DEF DiskInv, Redundant

LEMMA DiskNext ==
  ASSUME DiskInv, [Next]_vars
  PROVE  DiskInv' /\ \A q \in OnDisk(db) \ OnDisk(db)' : Redundant(q)
<1> DEFINE Goal == DiskInv' /\ \A q \in OnDisk(db) \ OnDisk(db)' : Redundant(q)
<1>p. phase \in Int BY DEF DiskInv
<1>1. CASE UNCHANGED mgrVars BY <1>p, <1>1, SameDisk DEF mgrVars
<1>2. CASE UNCHANGED vars BY <1>1, <1>2 DEF vars
<1>3. ASSUME NEW f \in VM, VMStep(f) PROVE Goal
  <2>1. CASE FuzzerConnect(f) BY <1>p, <2>1, MinimizeDisk DEF FuzzerConnect
  <2>2. CASE Connect(f) BY <1>1, <2>2 DEF Connect
  <2>3. CASE ConnectRotated(f) BY <1>1, <2>3 DEF ConnectRotated
  <2>4. CASE Check(f)
    <3>1. CASE MachineChecked
      <4> DEFINE e == DeleteAll(db, Bad)
      <4>1. db' = e /\ corpus' = corpus /\ phase' \in Int BY <3>1 DEF MachineChecked, LoadCorpus, phaseLoadedCorpus
      <4>2. Replays(e) /\ DeletesOnly(e, Bad) /\ e.file = db.file /\ Keys(e.records) = Keys(db.records) \ Bad
        BY DeleteDB, Zenon DEF DiskInv
      <4> HIDE DEF e
      <4>3. OnDisk(db') = OnDisk(db) BY <4>1, <4>2 DEF OnDisk
      <4>4. Held(corpus') = Held(corpus) BY <4>1
      <4> QED BY <4>1, <4>2, <4>3, <4>4 DEF DiskInv
    <3> QED BY <1>1, <2>4, <3>1 DEF Check
  <2>5. CASE PollRotated(f) BY <1>1, <2>5 DEF PollRotated
  <2>6. ASSUME NEW need \in BOOLEAN, Poll(f, need) PROVE Goal
    <3>1. UNCHANGED <<corpus, db>> /\ phase' = IF need /\ candidates' = <<>> THEN PhaseWhenEmpty ELSE phase
      BY <2>6 DEF Poll
    <3>2. PhaseWhenEmpty \in Int
      BY <1>p DEF PhaseWhenEmpty, phaseLoadedCorpus, phaseTriagedCorpus, phaseTriagedHub, phaseQueriedHub
    <3> QED BY <1>p, <3>1, <3>2, SameDisk
  <2>7. ASSUME NEW p \in Prog, Run(f, p) \/ TriageNothing(f, p) PROVE Goal BY <1>1, <2>7 DEF Run, TriageNothing
  <2>8. ASSUME NEW p \in Prog, SendInput(f, p) \/ LateInput(f, p) PROVE Goal
    <3>1. PICK s \in SignalOf[p], from \in {{f}, {}} : NewInput(from, p, s) /\ p \notin Bad \cup Disabled
      BY <2>8 DEF SendInput, LateInput
    <3>2. s \in SUBSET Signal BY CorpusAssumption
    <3> QED BY <3>1, <3>2, NewInputDisk
  <2>9. CASE VMCrash(f) BY <1>1, <2>9 DEF VMCrash
  <2>10. CASE ShutdownInstance(f) BY <1>1, <2>10 DEF ShutdownInstance
  <2> QED BY <1>3, <2>1, <2>2, <2>3, <2>4, <2>5, <2>6, <2>7, <2>8, <2>9, <2>10 DEF VMStep
<1>4. CASE GetMinimizedCorpus BY <1>p, <1>4, MinimizeDisk DEF GetMinimizedCorpus
<1>5. CASE AddNewCandidates BY <1>p, <1>5, SameDisk DEF AddNewCandidates, phaseQueriedHub
<1>6. CASE HubIsUnreachable BY <1>6, SameDisk DEF HubIsUnreachable, phaseTriagedHub
<1>7. CASE Restart BY <1>7, RestartDisk
<1> QED BY <1>2, <1>3, <1>4, <1>5, <1>6, <1>7 DEF Next

(* What db.Flush appends or compact rewrites, followed by what Save and    *)
(* Delete have only put in db.pending, reads back as db.Records, for all   *)
(* programs and any thresholds of needCompact.                             *)
THEOREM FileIsTheRecords == Spec => []FileReplays
<1>1. DiskInv /\ [Next]_vars => DiskInv' BY DiskNext
<1>2. DiskInv => FileReplays BY DEF DiskInv, Replays, FileReplays
<1> QED BY DiskInit, <1>1, <1>2, PTL DEF Spec

(* Whenever the manager crashes, each input that NewInput has accepted and *)
(* minimizeCorpus has kept can be read back from corpus.db.                *)
THEOREM InputsAreDurable == Spec => []Durable
<1>1. DiskInv /\ [Next]_vars => DiskInv' BY DiskNext
<1>2. DiskInv => Durable BY DEF DiskInv, Durable
<1> QED BY DiskInit, <1>1, <1>2, PTL DEF Spec

(* No step, a crash in the middle of a flush included, takes a program     *)
(* from corpus.db unless checkProgram refuses it or minimizeCorpus, past   *)
(* its test of the phase, has found it redundant.                          *)
THEOREM DeletionsAreJustified == Spec => OnlyRedundantDeleted
<1>1. DiskInv /\ [Next]_vars => DiskInv' BY DiskNext
<1>2. DiskInv /\ [Next]_vars =>
        [db.file' = db.file \/ \A p \in OnDisk(db) \ OnDisk(db)' :
           p \in Bad \/ (phase >= phaseTriagedCorpus /\ p \notin Held(corpus)' /\ p \notin disabledHashes)]_vars
  BY DiskNext DEF Redundant
<1> QED BY DiskInit, <1>1, <1>2, PTL DEF Spec, OnlyRedundantDeleted

-----------------------------------------------------------------------------
(* What the fuzzers are owed. *)
Served(f) == f \in fuzzers \ rotated /\ vm[f] # "crashed"
OwedMax(f) == Served(f) => maxSignal \subseteq vmMax[f] \cup newMaxSignal[f]
OwedInputs(f) ==
  Served(f) \/ vm[f] = "connecting" => corpusSignal \subseteq vmCorpus[f] \cup SignalOfAll(inputs[f]) \cup missed[f]

OwedType ==
  /\ rotated \subseteq fuzzers /\ fuzzers \subseteq VM
  /\ inputs \in [VM -> [Prog -> SUBSET Signal]]
  /\ newMaxSignal \in [VM -> SUBSET Signal]
  /\ vm \in [VM -> {"off", "connecting", "checking", "on", "crashed", "gone"}]
  /\ vmMax \in [VM -> SUBSET Signal] /\ vmCorpus \in [VM -> SUBSET Signal] /\ missed \in [VM -> SUBSET Signal]
  /\ maxSignal \subseteq Signal
  /\ \A f \in fuzzers : vm[f] \in {"checking", "on", "crashed"}

OwedInv == OwedType /\ CorpusCovers /\ \A f \in VM : OwedMax(f) /\ OwedInputs(f)

LEMMA OwedInit == Init => OwedInv
<1> SUFFICES ASSUME NEW file \in InitialFiles, Started(file) PROVE OwedInv BY DEF Init
<1>1. OwedType BY DEF Started, OwedType, NoInputs
<1>2. SignalOfAll(NoInputs) = {} BY DEF SignalOfAll, NoInputs
<1>3. CorpusCovers BY <1>2 DEF Started, CorpusCovers
<1>4. \A f \in VM : OwedMax(f) /\ OwedInputs(f) BY DEF Started, OwedMax, OwedInputs
<1> QED BY <1>1, <1>3, <1>4 DEF OwedInv

LEMMA OwedConnect1 ==
  ASSUME DiskInv, OwedInv, NEW f \in VM, FuzzerConnect(f)
  PROVE  OwedInv'
<1>1. /\ MinimizeCorpus /\ vm[f] \in {"off", "gone"} /\ vm' = [vm EXCEPT ![f] = "connecting"]
      /\ inputs' = [inputs EXCEPT ![f] = corpus']
      /\ UNCHANGED <<phase, maxSignal, corpusSignal, fuzzers, rotated, newMaxSignal, vmMax, vmCorpus, missed>>
  BY DEF FuzzerConnect
<1>2. phase' \in Int BY <1>1 DEF DiskInv
<1>3. SignalOfAll(corpus') = SignalOfAll(corpus) /\ corpus' \in [Prog -> SUBSET Signal]
  BY <1>1, <1>2, MinimizeDisk DEF DiskInv
<1>4. CorpusCovers' BY <1>1, <1>3 DEF OwedInv, CorpusCovers
<1>5. f \notin fuzzers BY <1>1 DEF OwedInv, OwedType
<1>6. OwedType' BY <1>1, <1>3, <1>5 DEF OwedInv, OwedType
<1>7. ASSUME NEW g \in VM PROVE OwedMax(g)' /\ OwedInputs(g)'
  <2>1. CASE g = f
    <3>1. inputs'[f] = corpus' BY <1>1 DEF OwedInv, OwedType
    <3>2. corpusSignal' = SignalOfAll(inputs'[f]) BY <1>4, <3>1 DEF CorpusCovers
    <3> QED BY <1>1, <1>5, <2>1, <3>2 DEF OwedMax, OwedInputs, Served
  <2>2. CASE g # f
    <3>1. vm'[g] = vm[g] /\ inputs'[g] = inputs[g] BY <1>1, <2>2 DEF OwedInv, OwedType
    <3>2. SignalOfAll(inputs'[g]) = SignalOfAll(inputs[g]) BY <3>1
    <3> QED BY <1>1, <3>1, <3>2, Zenon DEF OwedInv, OwedMax, OwedInputs, Served
  <2> QED BY <2>1, <2>2
<1> QED BY <1>4, <1>6, <1>7 DEF OwedInv

LEMMA OwedConnect2 ==
  ASSUME OwedInv, NEW f \in VM, Connect(f)
  PROVE  OwedInv'
<1>1. /\ vm[f] = "connecting" /\ fuzzers' = fuzzers \cup {f} /\ newMaxSignal' = [newMaxSignal EXCEPT ![f] = maxSignal]
      /\ vm' = [vm EXCEPT ![f] = IF checked THEN "on" ELSE "checking"]
      /\ UNCHANGED <<corpus, maxSignal, corpusSignal, rotated, inputs, vmMax, vmCorpus, missed>>
  BY DEF Connect, mgrVars
<1>2. CorpusCovers' BY <1>1 DEF OwedInv, CorpusCovers
<1>3. f \notin fuzzers BY <1>1 DEF OwedInv, OwedType
<1>4. OwedType' BY <1>1, <1>3 DEF OwedInv, OwedType
<1>5. ASSUME NEW g \in VM PROVE OwedMax(g)' /\ OwedInputs(g)'
  <2>i. SignalOfAll(inputs'[g]) = SignalOfAll(inputs[g]) BY <1>1
  <2>1. CASE g = f
    <3>1. newMaxSignal'[f] = maxSignal BY <1>1 DEF OwedInv, OwedType
    <3> QED BY <1>1, <2>1, <2>i, <3>1 DEF OwedInv, OwedMax, OwedInputs
  <2>2. CASE g # f
    <3>1. vm'[g] = vm[g] /\ newMaxSignal'[g] = newMaxSignal[g] BY <1>1, <2>2 DEF OwedInv, OwedType
    <3> QED BY <1>1, <2>2, <2>i, <3>1 DEF OwedInv, OwedMax, OwedInputs, Served
  <2> QED BY <2>1, <2>2
<1> QED BY <1>2, <1>4, <1>5 DEF OwedInv

LEMMA OwedConnectRotated ==
  ASSUME OwedInv, NEW f \in VM, ConnectRotated(f)
  PROVE  OwedInv'
<1>1. PICK drop, cut :
      /\ drop \in SUBSET Held(inputs[f])
      /\ vm[f] = "connecting" /\ fuzzers' = fuzzers \cup {f} /\ rotated' = rotated \cup {f}
      /\ inputs' = [inputs EXCEPT ![f] = [p \in Prog |-> IF p \in drop THEN {} ELSE @[p]]]
      /\ newMaxSignal' = [newMaxSignal EXCEPT ![f] = (maxSignal \ UNION {inputs[f][p] : p \in drop}) \ cut]
      /\ vm' = [vm EXCEPT ![f] = "on"]
      /\ UNCHANGED <<corpus, maxSignal, corpusSignal, vmMax, vmCorpus, missed>>
  BY Zenon DEF ConnectRotated, mgrVars
<1>2. CorpusCovers' BY <1>1 DEF OwedInv, CorpusCovers
<1>3. f \notin fuzzers BY <1>1 DEF OwedInv, OwedType
<1>4. OwedType'
  <2>1. (maxSignal \ UNION {inputs[f][p] : p \in drop}) \ cut \in SUBSET Signal BY DEF OwedInv, OwedType
  <2>2. [p \in Prog |-> IF p \in drop THEN {} ELSE inputs[f][p]] \in [Prog -> SUBSET Signal] BY DEF OwedInv, OwedType
  <2>3. newMaxSignal' \in [VM -> SUBSET Signal] BY <1>1, <2>1 DEF OwedInv, OwedType
  <2>4. inputs' \in [VM -> [Prog -> SUBSET Signal]] BY <1>1, <2>2 DEF OwedInv, OwedType
  <2> QED BY <1>1, <1>3, <2>3, <2>4 DEF OwedInv, OwedType
<1>5. ASSUME NEW g \in VM PROVE OwedMax(g)' /\ OwedInputs(g)'
  <2>1. CASE g = f
    <3>1. vm'[f] = "on" /\ f \in rotated' BY <1>1 DEF OwedInv, OwedType
    <3> QED BY <2>1, <3>1 DEF OwedMax, OwedInputs, Served
  <2>2. CASE g # f
    <3>1. vm'[g] = vm[g] /\ newMaxSignal'[g] = newMaxSignal[g] /\ inputs'[g] = inputs[g]
      BY <1>1, <2>2 DEF OwedInv, OwedType
    <3>2. SignalOfAll(inputs'[g]) = SignalOfAll(inputs[g]) BY <3>1, Zenon
    <3> QED BY <1>1, <2>2, <3>1, <3>2 DEF OwedInv, OwedMax, OwedInputs, Served
  <2> QED BY <2>1, <2>2
<1> QED BY <1>2, <1>4, <1>5 DEF OwedInv

(* A step that changes neither the server's records nor the corpus and     *)
(* only moves a fuzzer between states that are served alike.               *)
LEMMA OwedSame ==
  ASSUME OwedInv, OwedType', SignalOfAll(corpus)' = SignalOfAll(corpus),
         UNCHANGED <<maxSignal, corpusSignal, fuzzers, rotated, inputs, newMaxSignal>>,
         \A f \in VM : /\ Served(f)' => Served(f)
                       /\ (vm[f] = "connecting")' => vm[f] = "connecting"
                       /\ Served(f)' \/ (vm[f] = "connecting")' =>
                            vmMax[f] \subseteq vmMax[f]' /\ vmCorpus[f] \subseteq vmCorpus[f]' /\ missed[f] \subseteq missed[f]'
  PROVE  OwedInv'
<1>1. CorpusCovers' BY DEF OwedInv, CorpusCovers
<1>2. ASSUME NEW g \in VM PROVE OwedMax(g)' /\ OwedInputs(g)'
  <2>1. SignalOfAll(inputs'[g]) = SignalOfAll(inputs[g]) OBVIOUS
  <2>2. OwedMax(g) /\ OwedInputs(g) BY DEF OwedInv
  <2>3. OwedMax(g)' BY <2>2 DEF OwedMax
  <2>4. OwedInputs(g)' BY <2>1, <2>2 DEF OwedInputs
  <2> QED BY <2>3, <2>4
<1> QED BY <1>1, <1>2 DEF OwedInv

LEMMA OwedNewInput ==
  ASSUME DiskInv, OwedInv, NEW from \in SUBSET VM, NEW p \in Prog \ (Bad \cup Disabled), NEW s \in SUBSET Signal,
         NewInput(from, p, s), UNCHANGED <<vm, vmMax>>,
         vmCorpus' = [f \in VM |-> IF f \in from THEN vmCorpus[f] \cup s ELSE vmCorpus[f]]
  PROVE  OwedInv'
<1>v. vmCorpus' \in [VM -> SUBSET Signal] BY DEF OwedInv, OwedType
<1>w. \A f \in VM : vmCorpus[f] \subseteq vmCorpus'[f] BY DEF OwedInv, OwedType
<1>1. CASE UNCHANGED <<mgrVars, servVars, missed>>
  <2>0. UNCHANGED <<corpus, maxSignal, corpusSignal, fuzzers, rotated, inputs, newMaxSignal, missed>>
    BY <1>1, Zenon DEF mgrVars, servVars
  <2>1. OwedType' BY <2>0, <1>v DEF OwedInv, OwedType
  <2>2. SignalOfAll(corpus)' = SignalOfAll(corpus) BY <2>0
  <2>3. \A f \in VM : Served(f)' = Served(f) BY <2>0 DEF Served
  <2> QED BY <1>w, <2>0, <2>1, <2>2, <2>3, OwedSame
<1>2. CASE ~UNCHANGED <<mgrVars, servVars, missed>>
  <2> DEFINE genuine == ~(s \subseteq corpusSignal)
  <2>1. /\ AddInput(p, s) /\ corpusSignal' = corpusSignal \cup s
        /\ inputs' = [f \in VM |->
             IF genuine /\ f \in Others(from) THEN [inputs[f] EXCEPT ![p] = @ \cup s] ELSE inputs[f]]
        /\ missed' = [f \in VM |-> missed[f] \cup (IF vm[f] = "connecting" THEN s ELSE {})]
        /\ UNCHANGED <<maxSignal, fuzzers, rotated, newMaxSignal>>
    BY <1>2 DEF NewInput
  <2>2. SignalOfAll(corpus') = SignalOfAll(corpus) \cup s BY <2>1, AddInputDisk
  <2>3. CorpusCovers' BY <2>1, <2>2 DEF OwedInv, CorpusCovers
  <2>4. missed' \in [VM -> SUBSET Signal] BY <2>1 DEF OwedInv, OwedType
  <2>5. inputs' \in [VM -> [Prog -> SUBSET Signal]]
    <3>1. ASSUME NEW f \in VM PROVE inputs'[f] \in [Prog -> SUBSET Signal] BY <2>1 DEF OwedInv, OwedType
    <3>2. inputs' = [f \in VM |-> inputs'[f]] BY <2>1
    <3> QED BY <3>1, <3>2
  <2>6. OwedType' BY <1>v, <2>1, <2>4, <2>5 DEF OwedInv, OwedType
  <2>7. ASSUME NEW g \in VM PROVE OwedMax(g)' /\ OwedInputs(g)'
    <3>1. OwedMax(g) /\ OwedInputs(g) /\ Served(g)' = Served(g) BY <2>1, Zenon DEF OwedInv, Served
    <3>2. OwedMax(g)' BY <2>1, <3>1 DEF OwedMax
    <3>3. missed[g] \subseteq missed'[g] BY <2>1
    <3>4. SignalOfAll(inputs[g]) \subseteq SignalOfAll(inputs'[g])
      <4>1. \A q \in Prog : inputs[g][q] \subseteq inputs'[g][q] BY <2>1 DEF OwedInv, OwedType
      <4> QED BY <4>1 DEF SignalOfAll
    <3>5. ASSUME Served(g) \/ vm[g] = "connecting"
          PROVE  s \subseteq corpusSignal \cup vmCorpus'[g] \cup SignalOfAll(inputs'[g]) \cup missed'[g]
      <4>1. CASE vm[g] = "connecting" BY <2>1, <4>1, Zenon
      <4>2. CASE g \in from BY <4>2
      <4>3. CASE ~genuine BY <4>3
      <4>4. CASE genuine /\ g \in Others(from)
        <5>1. inputs'[g][p] = inputs[g][p] \cup s BY <2>1, <4>4 DEF OwedInv, OwedType
        <5> QED BY <5>1 DEF SignalOfAll
      <4> QED BY <3>5, <4>1, <4>2, <4>3, <4>4 DEF Served, Others
    <3>6. OwedInputs(g)'
      <4> SUFFICES ASSUME Served(g) \/ vm[g] = "connecting"
                   PROVE  corpusSignal' \subseteq vmCorpus'[g] \cup SignalOfAll(inputs'[g]) \cup missed'[g]
        BY <3>1, Zenon DEF OwedInputs
      <4>1. corpusSignal \subseteq vmCorpus[g] \cup SignalOfAll(inputs[g]) \cup missed[g] BY <3>1, Zenon DEF OwedInputs
      <4> QED BY <1>w, <2>1, <3>3, <3>4, <3>5, <4>1, Zenon
    <3> QED BY <3>2, <3>6
  <2> QED BY <2>3, <2>6, <2>7 DEF OwedInv
<1> QED BY <1>1, <1>2

(* What a report of f leaves the other fuzzers, and what the server has.   *)
LEMMA MergeOwed ==
  ASSUME OwedInv, NEW f \in VM, MergeMaxSignal(f)
  PROVE  /\ maxSignal' = maxSignal \cup vmMax[f] /\ maxSignal' \subseteq Signal
         /\ newMaxSignal' \in [VM -> SUBSET Signal]
         /\ \A g \in VM \ {f} : /\ newMaxSignal[g] \subseteq newMaxSignal'[g]
                                /\ g \in fuzzers \ rotated => maxSignal' \subseteq maxSignal \cup newMaxSignal'[g]
<1> DEFINE new == vmMax[f] \ maxSignal
<1>1. new \in SUBSET Signal BY DEF OwedInv, OwedType
<1>2. maxSignal' = maxSignal \cup new BY DEF MergeMaxSignal
<1>3. newMaxSignal' = [g \in VM |->
        IF g = f THEN IF f \in rotated THEN newMaxSignal[f] ELSE {}
        ELSE newMaxSignal[g] \cup (IF g \in Others({f}) THEN new ELSE {})]
  BY DEF MergeMaxSignal
<1>4. maxSignal' = maxSignal \cup vmMax[f] BY <1>2
<1> HIDE DEF new
<1>5. newMaxSignal' \in [VM -> SUBSET Signal] BY <1>1, <1>3 DEF OwedInv, OwedType
<1>6. ASSUME NEW g \in VM \ {f} PROVE newMaxSignal'[g] = newMaxSignal[g] \cup (IF g \in Others({f}) THEN new ELSE {})
  BY <1>3
<1>7. maxSignal' \subseteq Signal BY <1>1, <1>2 DEF OwedInv, OwedType
<1>8. \A g \in VM \ {f} : g \in fuzzers \ rotated => g \in Others({f}) BY DEF Others
<1>9. \A g \in VM \ {f} : newMaxSignal[g] \subseteq newMaxSignal'[g] BY <1>6
<1>10. \A g \in VM \ {f} : g \in fuzzers \ rotated => maxSignal' \subseteq maxSignal \cup newMaxSignal'[g]
  BY <1>2, <1>6, <1>8
<1> QED BY <1>4, <1>5, <1>7, <1>9, <1>10

LEMMA OwedPollRotated ==
  ASSUME OwedInv, NEW f \in VM, PollRotated(f)
  PROVE  OwedInv'
<1>1. /\ f \in rotated /\ MergeMaxSignal(f)
      /\ UNCHANGED <<corpus, corpusSignal, fuzzers, rotated, inputs, vm, vmMax, vmCorpus, missed>>
  BY DEF PollRotated, mgrVars, vmVars
<1>2. OwedType' BY <1>1, MergeOwed DEF OwedInv, OwedType
<1>3. CorpusCovers' BY <1>1 DEF OwedInv, CorpusCovers
<1>4. ASSUME NEW g \in VM PROVE OwedMax(g)' /\ OwedInputs(g)'
  <2>1. OwedMax(g) /\ OwedInputs(g) /\ Served(g)' = Served(g) BY <1>1 DEF OwedInv, Served
  <2>2. OwedInputs(g)' BY <1>1, <2>1 DEF OwedInputs
  <2>3. OwedMax(g)'
    <3>1. CASE g = f BY <1>1, <2>1, <3>1 DEF OwedMax, Served
    <3>2. CASE g # f BY <1>1, <2>1, <3>2, MergeOwed DEF OwedMax, Served
    <3> QED BY <3>1, <3>2
  <2> QED BY <2>2, <2>3
<1> QED BY <1>2, <1>3, <1>4 DEF OwedInv

LEMMA OwedPoll ==
  ASSUME OwedInv, NEW f \in VM, NEW need \in BOOLEAN, Poll(f, need)
  PROVE  OwedInv'
<1> DEFINE Got(take) == UNION {inputs[f][p] : p \in take}
<1>1. PICK take \in SUBSET Held(inputs[f]) :
        /\ f \in fuzzers \ rotated /\ vm[f] = "on" /\ MergeMaxSignal(f)
        /\ inputs' = [inputs EXCEPT ![f] = [p \in Prog |-> IF p \in take THEN {} ELSE @[p]]]
        /\ vmMax' = [vmMax EXCEPT ![f] = @ \cup newMaxSignal[f] \cup Got(take)]
        /\ vmCorpus' = [vmCorpus EXCEPT ![f] = @ \cup Got(take)]
        /\ UNCHANGED <<corpus, corpusSignal, fuzzers, rotated, vm, missed>>
  BY Zenon DEF Poll
<1> DEFINE got == Got(take)
<1>2. got \in SUBSET Signal BY DEF OwedInv, OwedType, Held
<1>3. SignalOfAll(inputs[f]) \subseteq SignalOfAll([p \in Prog |-> IF p \in take THEN {} ELSE inputs[f][p]]) \cup got
  BY DEF SignalOfAll
<1>4. vmMax' = [vmMax EXCEPT ![f] = @ \cup newMaxSignal[f] \cup got] /\ vmCorpus' = [vmCorpus EXCEPT ![f] = @ \cup got]
  BY <1>1
<1> HIDE DEF got, Got
<1>5. inputs' \in [VM -> [Prog -> SUBSET Signal]]
  <2>1. [p \in Prog |-> IF p \in take THEN {} ELSE inputs[f][p]] \in [Prog -> SUBSET Signal] BY DEF OwedInv, OwedType
  <2> QED BY <1>1, <2>1 DEF OwedInv, OwedType
<1>6. vmMax' \in [VM -> SUBSET Signal] /\ vmCorpus' \in [VM -> SUBSET Signal] BY <1>2, <1>4 DEF OwedInv, OwedType
<1>7. OwedType' BY <1>1, <1>5, <1>6, MergeOwed DEF OwedInv, OwedType
<1>8. CorpusCovers' BY <1>1, Zenon DEF OwedInv, CorpusCovers
<1>9. ASSUME NEW g \in VM PROVE OwedMax(g)' /\ OwedInputs(g)'
  <2>1. OwedMax(g) /\ OwedInputs(g) /\ Served(g)' = Served(g) BY <1>1 DEF OwedInv, Served
  <2>2. CASE g = f
    <3>1. vmMax'[f] = vmMax[f] \cup newMaxSignal[f] \cup got /\ vmCorpus'[f] = vmCorpus[f] \cup got
      BY <1>4 DEF OwedInv, OwedType
    <3>2. inputs'[f] = [p \in Prog |-> IF p \in take THEN {} ELSE inputs[f][p]] BY <1>1 DEF OwedInv, OwedType
    <3>3. SignalOfAll(inputs[f]) \subseteq SignalOfAll(inputs'[f]) \cup got BY <1>3, <3>2
    <3>4. Served(f) BY <1>1 DEF Served
    <3>5. OwedMax(f)' BY <1>1, <2>1, <2>2, <3>1, <3>4, MergeOwed DEF OwedMax
    <3>6. OwedInputs(f)' BY <1>1, <2>1, <2>2, <3>1, <3>3, <3>4, Zenon DEF OwedInputs
    <3> QED BY <2>2, <3>5, <3>6
  <2>3. CASE g # f
    <3>1. inputs'[g] = inputs[g] /\ vmMax'[g] = vmMax[g] /\ vmCorpus'[g] = vmCorpus[g]
      BY <1>1, <1>4, <2>3 DEF OwedInv, OwedType
    <3>2. SignalOfAll(inputs'[g]) = SignalOfAll(inputs[g]) BY <3>1
    <3>3. OwedMax(g)' BY <1>1, <2>1, <2>3, <3>1, MergeOwed, Zenon DEF OwedMax, Served
    <3>4. OwedInputs(g)' BY <1>1, <2>1, <3>1, <3>2, Zenon DEF OwedInputs
    <3> QED BY <3>3, <3>4
  <2> QED BY <2>2, <2>3
<1> QED BY <1>7, <1>8, <1>9 DEF OwedInv

LEMMA OwedShutdown ==
  ASSUME OwedInv, NEW f \in VM, ShutdownInstance(f)
  PROVE  OwedInv'
<1>1. /\ vm' = [vm EXCEPT ![f] = "gone"] /\ fuzzers' = fuzzers \ {f} /\ rotated' = rotated \ {f}
      /\ inputs' = [inputs EXCEPT ![f] = NoInputs] /\ newMaxSignal' = [newMaxSignal EXCEPT ![f] = {}]
      /\ UNCHANGED <<corpus, maxSignal, corpusSignal, vmMax, vmCorpus, missed>>
  BY DEF ShutdownInstance, mgrVars
<1>2. NoInputs \in [Prog -> SUBSET Signal] BY DEF NoInputs
<1>3. OwedType' BY <1>1, <1>2 DEF OwedInv, OwedType
<1>4. CorpusCovers' BY <1>1 DEF OwedInv, CorpusCovers
<1>5. ASSUME NEW g \in VM PROVE OwedMax(g)' /\ OwedInputs(g)'
  <2>1. CASE g = f
    <3>1. vm'[f] = "gone" /\ f \notin fuzzers' BY <1>1 DEF OwedInv, OwedType
    <3> QED BY <2>1, <3>1 DEF OwedMax, OwedInputs, Served
  <2>2. CASE g # f
    <3>1. vm'[g] = vm[g] /\ newMaxSignal'[g] = newMaxSignal[g] /\ inputs'[g] = inputs[g]
      BY <1>1, <2>2 DEF OwedInv, OwedType
    <3>2. SignalOfAll(inputs'[g]) = SignalOfAll(inputs[g]) BY <3>1
    <3> QED BY <1>1, <2>2, <3>1, <3>2 DEF OwedInv, OwedMax, OwedInputs, Served
  <2> QED BY <2>1, <2>2
<1> QED BY <1>3, <1>4, <1>5 DEF OwedInv

LEMMA OwedNext == ASSUME DiskInv, OwedInv, [Next]_vars PROVE OwedInv'
<1>1. CASE UNCHANGED <<servVars, vm, vmMax, vmCorpus, missed>> /\ SignalOfAll(corpus)' = SignalOfAll(corpus)
  <2>1. UNCHANGED <<maxSignal, corpusSignal, fuzzers, rotated, inputs, newMaxSignal, vm, vmMax, vmCorpus, missed>>
    BY <1>1 DEF servVars
  <2>2. OwedType' BY <2>1 DEF OwedInv, OwedType
  <2>3. \A f \in VM : Served(f)' = Served(f) BY <2>1 DEF Served
  <2> QED BY <1>1, <2>1, <2>2, <2>3, OwedSame
<1>2. CASE UNCHANGED vars
  <2>1. SignalOfAll(corpus)' = SignalOfAll(corpus) BY <1>2 DEF vars, mgrVars
  <2> QED BY <1>1, <1>2, <2>1 DEF vars, vmVars
<1>3. ASSUME NEW f \in VM, VMStep(f) PROVE OwedInv'
  <2>1. CASE FuzzerConnect(f) BY <2>1, OwedConnect1
  <2>2. CASE Connect(f) BY <2>2, OwedConnect2
  <2>3. CASE ConnectRotated(f) BY <2>3, OwedConnectRotated
  <2>4. CASE Check(f)
    <3>1. /\ vm[f] = "checking" /\ vm' = [vm EXCEPT ![f] = "on"] /\ UNCHANGED <<servVars, vmMax, vmCorpus, missed>>
          /\ corpus' = corpus
      BY <2>4 DEF Check, mgrVars, MachineChecked
    <3>2. UNCHANGED <<maxSignal, corpusSignal, fuzzers, rotated, inputs, newMaxSignal>> BY <3>1 DEF servVars
    <3>3. OwedType' BY <3>1, <3>2 DEF OwedInv, OwedType
    <3>4. \A g \in VM : (Served(g)' => Served(g)) /\ (vm'[g] = "connecting" => vm[g] = "connecting")
      BY <3>1, <3>2 DEF Served, OwedInv, OwedType
    <3>5. SignalOfAll(corpus)' = SignalOfAll(corpus) BY <3>1
    <3> QED BY <3>1, <3>2, <3>3, <3>4, <3>5, OwedSame
  <2>5. CASE PollRotated(f) BY <2>5, OwedPollRotated
  <2>6. ASSUME NEW need \in BOOLEAN, Poll(f, need) PROVE OwedInv' BY <2>6, OwedPoll
  <2>7. ASSUME NEW p \in Prog, Run(f, p) PROVE OwedInv'
    <3>1. PICK s \in SignalOf[p] : vmMax' = [vmMax EXCEPT ![f] = @ \cup s] BY <2>7, Zenon DEF Run
    <3>2. s \in SUBSET Signal BY CorpusAssumption
    <3>3. UNCHANGED <<corpus, maxSignal, corpusSignal, fuzzers, rotated, inputs, newMaxSignal, vm, vmCorpus, missed>>
      BY <2>7 DEF Run, mgrVars, servVars
    <3>4. OwedType' BY <3>1, <3>2, <3>3 DEF OwedInv, OwedType
    <3>5. \A g \in VM : Served(g)' = Served(g) BY <3>3 DEF Served
    <3>6. \A g \in VM : vmMax[g] \subseteq vmMax'[g] BY <3>1 DEF OwedInv, OwedType
    <3>7. SignalOfAll(corpus)' = SignalOfAll(corpus) BY <3>3
    <3> QED BY <3>3, <3>4, <3>5, <3>6, <3>7, OwedSame
  <2>8. ASSUME NEW p \in Prog, TriageNothing(f, p) PROVE OwedInv'
    <3>1. UNCHANGED <<mgrVars, servVars, vm, vmMax, vmCorpus, missed>> BY <2>8 DEF TriageNothing
    <3>2. SignalOfAll(corpus)' = SignalOfAll(corpus) BY <3>1 DEF mgrVars
    <3> QED BY <1>1, <3>1, <3>2
  <2>9. ASSUME NEW p \in Prog, SendInput(f, p) PROVE OwedInv'
    <3>1. PICK s \in SignalOf[p] : NewInput({f}, p, s) /\ vmCorpus' = [vmCorpus EXCEPT ![f] = @ \cup s]
      BY <2>9, Zenon DEF SendInput
    <3>2. s \in SUBSET Signal BY CorpusAssumption
    <3>3. p \in Prog \ (Bad \cup Disabled) /\ UNCHANGED <<vm, vmMax>> BY <2>9 DEF SendInput
    <3>4. vmCorpus' = [g \in VM |-> IF g \in {f} THEN vmCorpus[g] \cup s ELSE vmCorpus[g]]
      BY <3>1, Zenon DEF OwedInv, OwedType
    <3>5. {f} \in SUBSET VM OBVIOUS
    <3> QED BY <3>1, <3>2, <3>3, <3>4, <3>5, OwedNewInput, Zenon
  <2>10. ASSUME NEW p \in Prog, LateInput(f, p) PROVE OwedInv'
    <3>1. PICK s \in SignalOf[p] : NewInput({}, p, s) BY <2>10 DEF LateInput
    <3>2. s \in SUBSET Signal BY CorpusAssumption
    <3>3. p \in Prog \ (Bad \cup Disabled) /\ UNCHANGED <<vm, vmMax, vmCorpus>> BY <2>10 DEF LateInput
    <3>4. vmCorpus' = [g \in VM |-> IF g \in {} THEN vmCorpus[g] \cup s ELSE vmCorpus[g]]
      BY <3>3 DEF OwedInv, OwedType
    <3>5. {} \in SUBSET VM OBVIOUS
    <3> QED BY <3>1, <3>2, <3>3, <3>4, <3>5, OwedNewInput
  <2>11. CASE VMCrash(f)
    <3>1. /\ vm' = [vm EXCEPT ![f] = "crashed"] /\ vmMax' = [vmMax EXCEPT ![f] = {}]
          /\ vmCorpus' = [vmCorpus EXCEPT ![f] = {}] /\ missed' = [missed EXCEPT ![f] = {}]
          /\ UNCHANGED <<corpus, maxSignal, corpusSignal, fuzzers, rotated, inputs, newMaxSignal>>
      BY <2>11 DEF VMCrash, mgrVars, servVars
    <3>2. OwedType' BY <3>1 DEF OwedInv, OwedType
    <3>3. ASSUME NEW g \in VM
          PROVE  /\ Served(g)' => Served(g)
                 /\ vm'[g] = "connecting" => vm[g] = "connecting"
                 /\ Served(g)' \/ vm'[g] = "connecting" =>
                      vmMax[g] \subseteq vmMax'[g] /\ vmCorpus[g] \subseteq vmCorpus'[g] /\ missed[g] \subseteq missed'[g]
      <4>1. CASE g = f
        <5>1. vm'[f] = "crashed" BY <3>1 DEF OwedInv, OwedType
        <5> QED BY <4>1, <5>1 DEF Served
      <4>2. CASE g # f
        <5>1. vm'[g] = vm[g] /\ vmMax'[g] = vmMax[g] /\ vmCorpus'[g] = vmCorpus[g] /\ missed'[g] = missed[g]
          BY <3>1, <4>2 DEF OwedInv, OwedType
        <5> QED BY <3>1, <5>1 DEF Served
      <4> QED BY <4>1, <4>2
    <3>4. SignalOfAll(corpus)' = SignalOfAll(corpus) BY <3>1
    <3> QED BY <3>1, <3>2, <3>3, <3>4, OwedSame
  <2>12. CASE ShutdownInstance(f) BY <2>12, OwedShutdown
  <2> QED BY <1>3, <2>1, <2>2, <2>3, <2>4, <2>5, <2>6, <2>7, <2>8, <2>9, <2>10, <2>11, <2>12 DEF VMStep
<1>4. CASE GetMinimizedCorpus
  <2>1. MinimizeCorpus /\ phase' \in Int /\ UNCHANGED <<servVars, vm, vmMax, vmCorpus, missed>>
    BY <1>4 DEF GetMinimizedCorpus, DiskInv, vmVars
  <2>2. SignalOfAll(corpus)' = SignalOfAll(corpus) BY <2>1, MinimizeDisk
  <2> QED BY <1>1, <2>1, <2>2
<1>5. CASE AddNewCandidates \/ HubIsUnreachable
  <2>1. UNCHANGED <<corpus, servVars, vm, vmMax, vmCorpus, missed>>
    BY <1>5 DEF AddNewCandidates, HubIsUnreachable, vmVars
  <2>2. SignalOfAll(corpus)' = SignalOfAll(corpus) BY <2>1
  <2> QED BY <1>1, <2>1, <2>2
<1>6. CASE Restart
  <2>1. PICK file : Restarted(file) BY <1>6 DEF Restart
  <2>2. OwedType' BY <2>1 DEF Restarted, OwedType, NoInputs
  <2>3. SignalOfAll(NoInputs) = {} BY DEF SignalOfAll, NoInputs
  <2>4. CorpusCovers' BY <2>1, <2>3 DEF Restarted, CorpusCovers
  <2>5. \A f \in VM : OwedMax(f)' /\ OwedInputs(f)' BY <2>1 DEF Restarted, OwedMax, OwedInputs
  <2> QED BY <2>2, <2>4, <2>5 DEF OwedInv
<1> QED BY <1>2, <1>3, <1>4, <1>5, <1>6 DEF Next

(* serv.corpusSignal is exactly the signal of mgr.corpus: what NewInput    *)
(* refuses, and what signal.Minimize drops in any order of the map, takes  *)
(* no signal with it.                                                      *)
THEOREM CorpusHasTheSignal == Spec => []CorpusCovers
<1>1. DiskInv /\ OwedInv /\ [Next]_vars => DiskInv' /\ OwedInv' BY DiskNext, OwedNext
<1>2. OwedInv => CorpusCovers BY DEF OwedInv
<1> QED BY DiskInit, OwedInit, <1>1, <1>2, PTL DEF Spec

(* Connect and Poll leave every fuzzer that is alive and not rotated with  *)
(* all of serv.maxSignal, or with the rest of it in its newMaxSignal.      *)
THEOREM MaxSignalReachesAll == Spec => []MaxSignalDistributed
<1>1. DiskInv /\ OwedInv /\ [Next]_vars => DiskInv' /\ OwedInv' BY DiskNext, OwedNext
<1>2. OwedInv => MaxSignalDistributed BY DEF OwedInv, OwedType, OwedMax, Served, MaxSignalDistributed
<1> QED BY DiskInit, OwedInit, <1>1, <1>2, PTL DEF Spec

(* Such a fuzzer has inputs for all the signal of the corpus or they are   *)
(* in its f.inputs; the one exception is what NewInput accepts between the *)
(* snapshot of fuzzerConnect and the insertion into serv.fuzzers.          *)
THEOREM InputsReachAll == Spec => []InputsDistributed
<1>1. DiskInv /\ OwedInv /\ [Next]_vars => DiskInv' /\ OwedInv' BY DiskNext, OwedNext
<1>2. OwedInv => InputsDistributed BY DEF OwedInv, OwedType, OwedInputs, Served, InputsDistributed
<1> QED BY DiskInit, OwedInit, <1>1, <1>2, PTL DEF Spec
=============================================================================
