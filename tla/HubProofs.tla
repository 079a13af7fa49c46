----------------------------- MODULE HubProofs ------------------------------
(***************************************************************************)
(* Proofs about syz-hub and the HubConnectors (module Hub), for any number *)
(* of managers, programs, repros and faults.  A call of the hub is a       *)
(* sequence of records; what a crash may leave follows from an invariant   *)
(* of all of them (Durable) and from how one differs from the next (Near). *)
(***************************************************************************)
EXTENDS Hub, FiniteSetTheorems, WellFoundedInduction, TLAPS

USE SMT, Zenon, SMTT(30)    \* the provers of a step that names none, in this order

HubRec ==
  [corpus : [Prog -> Nat], repros : [Repro -> Nat], corpusSeq : Nat, reproSeq : Nat,
   managers : SUBSET Mgr, connected : SUBSET Mgr, mgrCorpus : [Mgr -> SUBSET Prog],
   mgrCorpusSeq : [Mgr -> Nat], mgrReproSeq : [Mgr -> Nat], reproSeqFile : [Mgr -> Nat],
   ownRepros : [Mgr -> SUBSET Repro], passed : [Mgr -> SUBSET Prog], given : [Mgr -> [Repro -> Nat]]]

-----------------------------------------------------------------------------
(* What the operators on the hub change.                                   *)

LEMMA Purged ==
  ASSUME NEW h \in HubRec
  PROVE  LET g == Purge(h)
         IN  /\ g \in HubRec
             /\ g.corpus = [p \in Prog |-> IF p \in UNION {h.mgrCorpus[m] : m \in Mgr} THEN h.corpus[p] ELSE 0]
             /\ g.passed = [m \in Mgr |-> h.passed[m] \cap UNION {h.mgrCorpus[k] : k \in Mgr}]
             /\ g.repros = h.repros /\ g.corpusSeq = h.corpusSeq /\ g.reproSeq = h.reproSeq
             /\ g.managers = h.managers /\ g.connected = h.connected
             /\ g.mgrCorpus = h.mgrCorpus /\ g.mgrCorpusSeq = h.mgrCorpusSeq
             /\ g.mgrReproSeq = h.mgrReproSeq /\ g.reproSeqFile = h.reproSeqFile
             /\ g.ownRepros = h.ownRepros /\ g.given = h.given
BY Zenon DEF HubRec, Purge

LEMMA Numbered ==
  ASSUME NEW h \in HubRec, NEW add
  PROVE  LET g == NewSeq(h, add)
         IN  /\ g \in HubRec
             /\ g.corpusSeq = IF add = {} THEN h.corpusSeq ELSE h.corpusSeq + 1
             /\ g.corpus = h.corpus /\ g.repros = h.repros /\ g.reproSeq = h.reproSeq
             /\ g.managers = h.managers /\ g.connected = h.connected
             /\ g.mgrCorpus = h.mgrCorpus /\ g.mgrCorpusSeq = h.mgrCorpusSeq
             /\ g.mgrReproSeq = h.mgrReproSeq /\ g.reproSeqFile = h.reproSeqFile
             /\ g.ownRepros = h.ownRepros /\ g.passed = h.passed /\ g.given = h.given
<1>1. CASE add = {}
  BY <1>1 DEF NewSeq
<1>2. CASE add # {}
  <2> DEFINE n == h.corpusSeq + 1
  <2>1. n \in Nat
    BY DEF HubRec
  <2>2. NewSeq(h, add) = [h EXCEPT !.corpusSeq = n]
    BY <1>2 DEF NewSeq
  <2> HIDE DEF n
  <2> QED BY <1>2, <2>1, <2>2, Zenon DEF HubRec, n
<1> QED BY <1>1, <1>2

LEMMA ManagerAdded ==
  ASSUME NEW h \in HubRec, NEW m \in Mgr, NEW add \in SUBSET Prog
  PROVE  LET g == AddToManager(h, m, add)
         IN  /\ g \in HubRec
             /\ g.mgrCorpus = [h.mgrCorpus EXCEPT ![m] = h.mgrCorpus[m] \cup (add \ Refused)]
             /\ g.passed = [h.passed EXCEPT ![m] = h.passed[m] \cup (add \ Refused)]
             /\ g.corpus = h.corpus /\ g.repros = h.repros /\ g.corpusSeq = h.corpusSeq
             /\ g.reproSeq = h.reproSeq /\ g.managers = h.managers
             /\ g.connected = h.connected /\ g.mgrCorpusSeq = h.mgrCorpusSeq
             /\ g.mgrReproSeq = h.mgrReproSeq /\ g.reproSeqFile = h.reproSeqFile
             /\ g.ownRepros = h.ownRepros /\ g.given = h.given
BY Zenon DEF HubRec, AddToManager

LEMMA HubAdded ==
  ASSUME NEW h \in HubRec, NEW add \in SUBSET Prog
  PROVE  LET g == AddToHub(h, add)
         IN  /\ g \in HubRec
             /\ g.corpus = [p \in Prog |-> IF p \in add \ Refused /\ h.corpus[p] = 0 THEN h.corpusSeq ELSE h.corpus[p]]
             /\ g.repros = h.repros /\ g.corpusSeq = h.corpusSeq /\ g.reproSeq = h.reproSeq
             /\ g.managers = h.managers /\ g.connected = h.connected
             /\ g.mgrCorpus = h.mgrCorpus /\ g.mgrCorpusSeq = h.mgrCorpusSeq
             /\ g.mgrReproSeq = h.mgrReproSeq /\ g.reproSeqFile = h.reproSeqFile
             /\ g.ownRepros = h.ownRepros /\ g.passed = h.passed /\ g.given = h.given
BY Zenon DEF HubRec, AddToHub

LEMMA OwnAdded ==
  ASSUME NEW h \in HubRec, NEW m \in Mgr, NEW r \in Repro
  PROVE  LET g == OwnRepro(h, m, r)
         IN  /\ g \in HubRec
             /\ g.ownRepros = [h.ownRepros EXCEPT ![m] = h.ownRepros[m] \cup {r}]
             /\ \/ /\ h.mgrReproSeq[m] = h.reproSeq
                   /\ g.mgrReproSeq = [h.mgrReproSeq EXCEPT ![m] = h.reproSeq + 1]
                   /\ g.reproSeqFile = [h.reproSeqFile EXCEPT ![m] = h.reproSeq + 1]
                \/ /\ h.mgrReproSeq[m] # h.reproSeq
                   /\ g.mgrReproSeq = h.mgrReproSeq
                   /\ g.reproSeqFile = h.reproSeqFile
             /\ g.corpus = h.corpus /\ g.repros = h.repros /\ g.corpusSeq = h.corpusSeq
             /\ g.reproSeq = h.reproSeq /\ g.managers = h.managers
             /\ g.connected = h.connected /\ g.mgrCorpus = h.mgrCorpus
             /\ g.mgrCorpusSeq = h.mgrCorpusSeq /\ g.passed = h.passed /\ g.given = h.given
<1> DEFINE n == IF h.mgrReproSeq[m] = h.reproSeq THEN h.reproSeq + 1 ELSE h.mgrReproSeq[m]
           file == IF n = h.mgrReproSeq[m] THEN h.reproSeqFile[m] ELSE n
           own == h.ownRepros[m] \cup {r}
           F1 == [h.ownRepros EXCEPT ![m] = own]
           F2 == [h.mgrReproSeq EXCEPT ![m] = n]
           F3 == [h.reproSeqFile EXCEPT ![m] = file]
<1>1. /\ h.mgrReproSeq \in [Mgr -> Nat] /\ h.reproSeqFile \in [Mgr -> Nat]
      /\ h.ownRepros \in [Mgr -> SUBSET Repro] /\ h.reproSeq \in Nat
  BY DEF HubRec
<1>2. n \in Nat /\ file \in Nat /\ own \in SUBSET Repro
  BY <1>1
<1>3. OwnRepro(h, m, r) = [h EXCEPT !.ownRepros = F1, !.mgrReproSeq = F2, !.reproSeqFile = F3]
  <2>1. OwnRepro(h, m, r) = [h EXCEPT !.ownRepros[m] = own, !.mgrReproSeq[m] = n, !.reproSeqFile[m] = file]
    BY DEF OwnRepro
  <2> HIDE DEF n, own, file
  <2> QED BY <2>1
<1>4. \/ /\ h.mgrReproSeq[m] = h.reproSeq /\ n = h.reproSeq + 1 /\ file = h.reproSeq + 1
      \/ /\ h.mgrReproSeq[m] # h.reproSeq /\ n = h.mgrReproSeq[m] /\ file = h.reproSeqFile[m]
  BY <1>1
<1> HIDE DEF n, file, own
<1>5. \/ /\ h.mgrReproSeq[m] = h.reproSeq
         /\ F2 = [h.mgrReproSeq EXCEPT ![m] = h.reproSeq + 1]
         /\ F3 = [h.reproSeqFile EXCEPT ![m] = h.reproSeq + 1]
      \/ /\ h.mgrReproSeq[m] # h.reproSeq
         /\ F2 = h.mgrReproSeq
         /\ F3 = h.reproSeqFile
  BY <1>1, <1>4
<1>6. /\ F1 \in [Mgr -> SUBSET Repro] /\ F2 \in [Mgr -> Nat] /\ F3 \in [Mgr -> Nat]
      /\ F1 = [h.ownRepros EXCEPT ![m] = h.ownRepros[m] \cup {r}]
  BY <1>1, <1>2 DEF own
<1> HIDE DEF F1, F2, F3
<1>7. LET g == OwnRepro(h, m, r) IN
          /\ g \in HubRec /\ g.ownRepros = F1 /\ g.mgrReproSeq = F2 /\ g.reproSeqFile = F3
          /\ g.corpus = h.corpus /\ g.repros = h.repros /\ g.corpusSeq = h.corpusSeq
          /\ g.reproSeq = h.reproSeq /\ g.managers = h.managers
          /\ g.connected = h.connected /\ g.mgrCorpus = h.mgrCorpus
          /\ g.mgrCorpusSeq = h.mgrCorpusSeq /\ g.passed = h.passed /\ g.given = h.given
  BY <1>3, <1>6, Zenon DEF HubRec
<1> QED BY <1>5, <1>6, <1>7, Zenon

LEMMA ReproAdded ==
  ASSUME NEW h \in HubRec, NEW r \in Repro
  PROVE  LET g == AddRepro(h, r)
         IN  /\ g \in HubRec
             /\ g.reproSeq = h.reproSeq + 1
             /\ g.repros = [h.repros EXCEPT ![r] = h.reproSeq + 1]
             /\ g.corpus = h.corpus /\ g.corpusSeq = h.corpusSeq /\ g.managers = h.managers
             /\ g.connected = h.connected /\ g.mgrCorpus = h.mgrCorpus
             /\ g.mgrCorpusSeq = h.mgrCorpusSeq /\ g.mgrReproSeq = h.mgrReproSeq
             /\ g.reproSeqFile = h.reproSeqFile /\ g.ownRepros = h.ownRepros
             /\ g.passed = h.passed /\ g.given = h.given
<1> DEFINE n == h.reproSeq + 1
<1>1. n \in Nat
  BY DEF HubRec
<1> DEFINE F == [h.repros EXCEPT ![r] = n]
<1>2. AddRepro(h, r) = [h EXCEPT !.reproSeq = n, !.repros = F]
  BY DEF AddRepro, HubRec
<1>3. F \in [Repro -> Nat] /\ F = [h.repros EXCEPT ![r] = h.reproSeq + 1] /\ n = h.reproSeq + 1
  BY <1>1 DEF HubRec
<1> HIDE DEF n, F
<1>4. LET g == AddRepro(h, r) IN
          /\ g \in HubRec /\ g.reproSeq = n /\ g.repros = F
          /\ g.corpus = h.corpus /\ g.corpusSeq = h.corpusSeq /\ g.managers = h.managers
          /\ g.connected = h.connected /\ g.mgrCorpus = h.mgrCorpus
          /\ g.mgrCorpusSeq = h.mgrCorpusSeq /\ g.mgrReproSeq = h.mgrReproSeq
          /\ g.reproSeqFile = h.reproSeqFile /\ g.ownRepros = h.ownRepros
          /\ g.passed = h.passed /\ g.given = h.given
  BY <1>1, <1>2, <1>3, Zenon DEF HubRec
<1> QED BY <1>3, <1>4, Zenon

LEMMA TornBetween ==
  ASSUME NEW h \in HubRec, NEW n \in HubRec, NEW ps \in SUBSET Prog
  PROVE  LET g == Torn(h, n, ps)
         IN  /\ g \in HubRec
             /\ g.corpus = [p \in Prog |-> IF p \in ps THEN n.corpus[p] ELSE h.corpus[p]]
             /\ g.repros = h.repros /\ g.corpusSeq = h.corpusSeq /\ g.reproSeq = h.reproSeq
             /\ g.managers = h.managers /\ g.connected = h.connected
             /\ g.mgrCorpusSeq = h.mgrCorpusSeq /\ g.mgrReproSeq = h.mgrReproSeq
             /\ g.reproSeqFile = h.reproSeqFile /\ g.ownRepros = h.ownRepros
             /\ g.passed = h.passed /\ g.given = h.given
BY Zenon DEF HubRec, Torn

-----------------------------------------------------------------------------
(* Numbers that are chosen: the highest, and those of a batch.             *)

LEMMA LeastNat ==
  ASSUME NEW T \in SUBSET Nat, T # {}
  PROVE  \E n \in T : \A m \in T : n <= m
<1> DEFINE R == StrictSubsetOrdering(Nat)
           F == {1 .. n : n \in T}
<1>1. F \subseteq FiniteSubsetsOf(Nat) /\ F # {}
  <2>1. ASSUME NEW n \in T PROVE 1 .. n \in SUBSET Nat /\ IsFiniteSet(1 .. n)
    <3>1. 1 \in Int /\ n \in Int
      OBVIOUS
    <3> QED BY <3>1, FS_Interval
  <2> QED BY <2>1, Zenon DEF FiniteSubsetsOf
<1>2. IsWellFoundedOn(R, FiniteSubsetsOf(Nat))
  BY FS_StrictSubsetOrderingWellFounded
<1> HIDE DEF R
<1>3. \E s \in F : \A r \in F : ~(<<r, s>> \in R)
  <2> HIDE DEF F
  <2> QED BY <1>1, <1>2, WFMin
<1>4. PICK n \in T : \A m \in T : <<1 .. m, 1 .. n>> \notin R
  BY <1>3, Zenon
<1>5. ASSUME NEW m \in T, ~(n <= m) PROVE FALSE
  <2>1. m \in Nat /\ n \in Nat /\ m < n
    BY <1>5
  <2>2. 1 .. m \subseteq 1 .. n /\ n \in 1 .. n /\ n \notin 1 .. m
    BY <2>1
  <2>3. 1 .. m \in SUBSET Nat /\ 1 .. n \in SUBSET Nat
    OBVIOUS
  <2> DEFINE a == 1 .. m
             b == 1 .. n
  <2> HIDE DEF a, b
  <2>4. a \subseteq b /\ a # b /\ a \in SUBSET Nat /\ b \in SUBSET Nat
    BY <2>2, <2>3 DEF a, b
  <2>5. <<a, b>> \in R
    BY <2>4, Zenon DEF R, StrictSubsetOrdering
  <2> QED BY <1>4, <2>5 DEF a, b
<1> QED BY <1>5

LEMMA Highest ==
  ASSUME NEW S \in SUBSET Nat, 0 \in S, NEW b \in Nat, \A x \in S : x <= b
  PROVE  Max(S) \in S /\ \A x \in S : x <= Max(S)
<1> DEFINE T == {n \in Nat : \A x \in S : x <= n}
<1>1. PICK n \in T : \A k \in T : n <= k
  <2>1. b \in T /\ T \in SUBSET Nat
    OBVIOUS
  <2> HIDE DEF T
  <2> QED BY <2>1, LeastNat
<1>2. n \in S
  <2> SUFFICES ASSUME n \notin S PROVE FALSE
    OBVIOUS
  <2>1. n \in Nat /\ \A x \in S : x \in Nat /\ x <= n /\ x # n
    BY DEF T
  <2>2. n - 1 \in Nat /\ \A x \in S : x <= n - 1
    BY <2>1
  <2>3. n - 1 \in T
    BY <2>2
  <2>4. n <= n - 1
    BY <1>1, <2>3
  <2> QED BY <2>1, <2>4
<1>3. \A x \in S : n >= x
  BY <1>1
<1> QED BY <1>2, <1>3, Zenon DEF Max

(* pendingInputs stops at a number that is in use.                         *)
LEMMA BatchEnds ==
  ASSUME NEW h \in HubRec, \A p \in Prog : h.corpus[p] <= h.corpusSeq, NEW m \in Mgr
  PROVE  LastSeq(h, m) \in Nat /\ LastSeq(h, m) <= h.corpusSeq
<1> DEFINE ps == Pending(h, m)
           Seqs == {h.corpus[p] : p \in ps}
           Last(n) == Cardinality(UpTo(h, ps, n)) > MaxRecords /\ Cardinality(UpTo(h, ps, n - 1)) <= MaxRecords
<1>1. h.corpus \in [Prog -> Nat] /\ h.corpusSeq \in Nat /\ ps \in SUBSET Prog
  BY DEF HubRec, Pending
<1>2. CASE Cardinality(ps) <= MaxRecords
  BY <1>1, <1>2 DEF LastSeq
<1>3. CASE ~(Cardinality(ps) <= MaxRecords)
  <2>1. IsFiniteSet(ps) /\ Cardinality(ps) \in Nat /\ MaxRecords \in Nat
    BY <1>1, HubAssumption, FS_Subset, FS_CardinalityType
  <2> DEFINE T == {n \in Nat : Cardinality(UpTo(h, ps, n)) > MaxRecords}
  <2>2. PICK n \in T : \A k \in T : n <= k
    <3>1. UpTo(h, ps, h.corpusSeq) = ps
      BY <1>1 DEF UpTo
    <3>2. h.corpusSeq \in T /\ T \in SUBSET Nat
      BY <1>1, <1>3, <2>1, <3>1
    <3> HIDE DEF T
    <3> QED BY <3>2, LeastNat
  <2>3. n # 0
    <3>1. \A p \in ps : h.corpus[p] > 0
      BY <1>1 DEF Pending, HubRec
    <3>2. UpTo(h, ps, 0) = {}
      BY <1>1, <3>1 DEF UpTo
    <3>3. Cardinality(UpTo(h, ps, 0)) = 0
      BY <3>2, FS_EmptySet
    <3> QED BY <2>1, <3>3
  <2>4. Cardinality(UpTo(h, ps, n - 1)) <= MaxRecords
    <3>1. n - 1 \in Nat /\ ~(n <= n - 1)
      BY <2>3
    <3>2. n - 1 \notin T
      BY <2>2, <3>1
    <3>3. ~(Cardinality(UpTo(h, ps, n - 1)) > MaxRecords)
      BY <3>1, <3>2
    <3>4. UpTo(h, ps, n - 1) \in SUBSET ps
      BY DEF UpTo
    <3>5. Cardinality(UpTo(h, ps, n - 1)) \in Nat
      BY <2>1, <3>4, FS_Subset, FS_CardinalityType
    <3> QED BY <2>1, <3>3, <3>5
  <2>5. n \in Seqs
    <3> SUFFICES ASSUME n \notin Seqs PROVE FALSE
      OBVIOUS
    <3>1. UpTo(h, ps, n) = UpTo(h, ps, n - 1)
      BY <1>1 DEF UpTo
    <3>2. Cardinality(UpTo(h, ps, n)) > MaxRecords
      OBVIOUS
    <3>3. Cardinality(UpTo(h, ps, n)) \in Nat
      <4>1. UpTo(h, ps, n) \in SUBSET ps
        BY DEF UpTo
      <4> QED BY <2>1, <4>1, FS_Subset, FS_CardinalityType
    <3> QED BY <2>1, <2>4, <3>1, <3>2, <3>3
  <2>6. Last(n)
    BY <2>4
  <2>7. LastSeq(h, m) = CHOOSE k \in Seqs : Last(k)
    BY <1>3 DEF LastSeq
  <2>8. LastSeq(h, m) \in Seqs
    <3> HIDE DEF Seqs, Last
    <3> QED BY <2>5, <2>6, <2>7
  <2> QED BY <1>1, <2>8
<1> QED BY <1>2, <1>3

LEMMA Fields ==
  ASSUME NEW h \in HubRec
  PROVE  /\ h.corpus \in [Prog -> Nat] /\ h.repros \in [Repro -> Nat]
         /\ h.corpusSeq \in Nat /\ h.reproSeq \in Nat
         /\ h.managers \in SUBSET Mgr /\ h.connected \in SUBSET Mgr
         /\ h.mgrCorpus \in [Mgr -> SUBSET Prog] /\ h.mgrCorpusSeq \in [Mgr -> Nat]
         /\ h.mgrReproSeq \in [Mgr -> Nat] /\ h.reproSeqFile \in [Mgr -> Nat]
         /\ h.ownRepros \in [Mgr -> SUBSET Repro] /\ h.passed \in [Mgr -> SUBSET Prog]
         /\ h.given \in [Mgr -> [Repro -> Nat]]
BY DEF HubRec

LEMMA InputsSent ==
  ASSUME NEW h \in HubRec, \A p \in Prog : h.corpus[p] <= h.corpusSeq, NEW m \in Mgr
  PROVE  LET g == PendingInputs(h, m)
         IN  /\ g \in HubRec
             /\ g.mgrCorpusSeq = [h.mgrCorpusSeq EXCEPT ![m] = LastSeq(h, m)]
             /\ g.passed = [h.passed EXCEPT ![m] = h.passed[m] \cup Inputs(h, m)]
             /\ g.corpus = h.corpus /\ g.repros = h.repros /\ g.corpusSeq = h.corpusSeq
             /\ g.reproSeq = h.reproSeq /\ g.managers = h.managers
             /\ g.connected = h.connected /\ g.mgrCorpus = h.mgrCorpus
             /\ g.mgrReproSeq = h.mgrReproSeq /\ g.reproSeqFile = h.reproSeqFile
             /\ g.ownRepros = h.ownRepros /\ g.given = h.given
<1> DEFINE n == LastSeq(h, m)
           F1 == [h.mgrCorpusSeq EXCEPT ![m] = n]
           F2 == [h.passed EXCEPT ![m] = h.passed[m] \cup Inputs(h, m)]
<1>1. n \in Nat
  BY BatchEnds
<1>2. Inputs(h, m) \in SUBSET Prog
  BY DEF Inputs, UpTo, Pending
<1>3. PendingInputs(h, m) = [h EXCEPT !.mgrCorpusSeq = F1, !.passed = F2]
  BY DEF PendingInputs
<1> HIDE DEF n
<1>4. F1 \in [Mgr -> Nat] /\ F2 \in [Mgr -> SUBSET Prog]
  BY <1>1, <1>2, Fields
<1>5. F1 = [h.mgrCorpusSeq EXCEPT ![m] = LastSeq(h, m)]
      /\ F2 = [h.passed EXCEPT ![m] = h.passed[m] \cup Inputs(h, m)]
  BY DEF n
<1> HIDE DEF F1, F2
<1>6. LET g == PendingInputs(h, m) IN
          /\ g \in HubRec /\ g.mgrCorpusSeq = F1 /\ g.passed = F2
          /\ g.corpus = h.corpus /\ g.repros = h.repros /\ g.corpusSeq = h.corpusSeq
          /\ g.reproSeq = h.reproSeq /\ g.managers = h.managers
          /\ g.connected = h.connected /\ g.mgrCorpus = h.mgrCorpus
          /\ g.mgrReproSeq = h.mgrReproSeq /\ g.reproSeqFile = h.reproSeqFile
          /\ g.ownRepros = h.ownRepros /\ g.given = h.given
  BY <1>3, <1>4, Zenon DEF HubRec
<1> QED BY <1>5, <1>6, Zenon

(* The repro that PendingRepro gives is the oldest.                        *)
LEMMA ReproGiven ==
  ASSUME NEW h \in HubRec, NEW m \in Mgr
  PROVE  LET g == PendingRepro(h, m)
             rs == PendingRepros(h, m)
         IN  /\ g \in HubRec
             /\ \/ h.mgrReproSeq[m] = h.reproSeq /\ g = h
                \/ /\ rs = {}
                   /\ g.mgrReproSeq = [h.mgrReproSeq EXCEPT ![m] = h.reproSeq]
                   /\ g.reproSeqFile = [h.reproSeqFile EXCEPT ![m] = h.reproSeq]
                   /\ g.given = h.given
                \/ \E r \in rs :
                     /\ \A s \in rs : h.repros[r] <= h.repros[s]
                     /\ g.mgrReproSeq = [h.mgrReproSeq EXCEPT ![m] = h.repros[r]]
                     /\ g.reproSeqFile = [h.reproSeqFile EXCEPT ![m] = h.repros[r]]
                     /\ g.given = [h.given EXCEPT ![m] = [h.given[m] EXCEPT ![r] = h.given[m][r] + 1]]
             /\ g.corpus = h.corpus /\ g.repros = h.repros /\ g.corpusSeq = h.corpusSeq
             /\ g.reproSeq = h.reproSeq /\ g.managers = h.managers
             /\ g.connected = h.connected /\ g.mgrCorpus = h.mgrCorpus
             /\ g.mgrCorpusSeq = h.mgrCorpusSeq /\ g.ownRepros = h.ownRepros
             /\ g.passed = h.passed
<1> DEFINE rs == PendingRepros(h, m)
           Oldest(r) == \A s \in rs : h.repros[r] <= h.repros[s]
           r0 == CHOOSE r \in rs : Oldest(r)
           n == IF rs = {} THEN h.reproSeq ELSE h.repros[r0]
           F1 == [h.mgrReproSeq EXCEPT ![m] = n]
           F2 == [h.reproSeqFile EXCEPT ![m] = n]
           gv == [s \in Repro |-> IF rs # {} /\ s = r0 THEN h.given[m][s] + 1 ELSE h.given[m][s]]
           F3 == [h.given EXCEPT ![m] = gv]
<1>1. CASE h.mgrReproSeq[m] = h.reproSeq
  BY <1>1 DEF PendingRepro
<1>2. CASE h.mgrReproSeq[m] # h.reproSeq
  <2>1. rs \in SUBSET Repro
    BY DEF PendingRepros
  <2>2. rs # {} => r0 \in rs /\ Oldest(r0)
    <3> SUFFICES ASSUME rs # {} PROVE r0 \in rs /\ Oldest(r0)
      OBVIOUS
    <3> DEFINE T == {h.repros[r] : r \in rs}
    <3> HIDE DEF rs
    <3>1. T \in SUBSET Nat /\ T # {}
      BY <2>1, Fields
    <3>2. PICK k \in T : \A j \in T : k <= j
      <4> HIDE DEF T
      <4> QED BY <3>1, LeastNat
    <3>3. PICK r \in rs : h.repros[r] = k
      OBVIOUS
    <3>4. Oldest(r)
      BY <3>2, <3>3
    <3> HIDE DEF Oldest
    <3> QED BY <3>4
  <2>3. PendingRepro(h, m) = [h EXCEPT !.mgrReproSeq = F1, !.reproSeqFile = F2, !.given = F3]
    <3> HIDE DEF rs, n
    <3> QED BY <1>2 DEF PendingRepro, rs, n
  <2> HIDE DEF rs, Oldest, r0
  <2>4. n \in Nat /\ (rs = {} => n = h.reproSeq) /\ (rs # {} => n = h.repros[r0])
    BY <2>1, <2>2, Fields
  <2> HIDE DEF n
  <2>5. gv \in [Repro -> Nat] /\ (rs = {} => gv = h.given[m])
        /\ (rs # {} => gv = [h.given[m] EXCEPT ![r0] = h.given[m][r0] + 1])
    <3>1. h.given[m] \in [Repro -> Nat]
      BY Fields
    <3> QED BY <3>1, <2>1, <2>2
  <2> HIDE DEF gv
  <2>6. F1 \in [Mgr -> Nat] /\ F2 \in [Mgr -> Nat] /\ F3 \in [Mgr -> [Repro -> Nat]]
        /\ (rs = {} => F3 = h.given)
    BY <2>4, <2>5, Fields
  <2>7. rs = {} => F1 = [h.mgrReproSeq EXCEPT ![m] = h.reproSeq] /\ F2 = [h.reproSeqFile EXCEPT ![m] = h.reproSeq]
    BY <2>4
  <2>8. rs # {} => /\ F1 = [h.mgrReproSeq EXCEPT ![m] = h.repros[r0]]
                   /\ F2 = [h.reproSeqFile EXCEPT ![m] = h.repros[r0]]
                   /\ F3 = [h.given EXCEPT ![m] = [h.given[m] EXCEPT ![r0] = h.given[m][r0] + 1]]
    BY <2>4, <2>5
  <2> HIDE DEF F1, F2, F3
  <2>9. LET g == PendingRepro(h, m) IN
          /\ g \in HubRec /\ g.mgrReproSeq = F1 /\ g.reproSeqFile = F2 /\ g.given = F3
          /\ g.corpus = h.corpus /\ g.repros = h.repros /\ g.corpusSeq = h.corpusSeq
          /\ g.reproSeq = h.reproSeq /\ g.managers = h.managers
          /\ g.connected = h.connected /\ g.mgrCorpus = h.mgrCorpus
          /\ g.mgrCorpusSeq = h.mgrCorpusSeq /\ g.ownRepros = h.ownRepros
          /\ g.passed = h.passed
    BY <2>3, <2>6, Zenon DEF HubRec
  <2>10. CASE rs = {}
    BY <2>6, <2>7, <2>9, <2>10, Zenon DEF rs
  <2>11. CASE rs # {}
    <3>1. r0 \in rs /\ \A s \in rs : h.repros[r0] <= h.repros[s]
      BY <2>2, <2>11 DEF Oldest
    <3> QED BY <2>8, <2>9, <2>11, <3>1, Zenon DEF rs
  <2> QED BY <2>10, <2>11, Zenon
<1> QED BY <1>1, <1>2, Zenon

-----------------------------------------------------------------------------
(* What holds of every record that a call goes through, of the programs    *)
(* with numbers up to b ...                                                *)
CorpusPart(h, b) ==
  /\ \A p \in Prog : h.corpus[p] <= b
  /\ \A m \in Mgr : h.mgrCorpusSeq[m] <= b
  /\ \A m \in Mgr \ h.managers : h.mgrCorpusSeq[m] = 0
  /\ \A m \in Mgr : \A p \in Prog \cap Supports[m] :
       h.corpus[p] # 0 /\ h.corpus[p] <= h.mgrCorpusSeq[m] => p \in h.passed[m]

(* ... and of the repros: each has a number of its own, and a manager was  *)
(* given only those that its file has passed.                              *)
ReproPart(h) ==
  /\ \A r \in Repro : h.repros[r] <= h.reproSeq
  /\ \A r, s \in Repro : h.repros[r] # 0 /\ h.repros[r] = h.repros[s] => r = s
  /\ \A m \in Mgr : h.reproSeqFile[m] <= h.mgrReproSeq[m] /\ h.mgrReproSeq[m] <= h.reproSeq + 1
  /\ \A m \in Mgr \ h.managers : h.reproSeqFile[m] = 0
  /\ \A m \in Mgr, r \in Repro :
       /\ h.given[m][r] <= 1
       /\ h.given[m][r] # 0 => h.repros[r] # 0 /\ h.repros[r] <= h.reproSeqFile[m]

Durable(h) == h \in HubRec /\ CorpusPart(h, h.corpusSeq) /\ ReproPart(h)

(* What holds between calls.  The hub has what its managers ms have ...    *)
Has(h, ms) ==
  \A m \in ms : h.mgrCorpus[m] \subseteq Stored(h) /\ h.mgrCorpus[m] \subseteq h.passed[m]

(* ... and nothing else.                                                   *)
Used(h) == Stored(h) \subseteq UNION {h.mgrCorpus[m] : m \in Mgr}

Caught(h) == h.connected \subseteq h.managers /\ \A m \in Mgr : h.mgrReproSeq[m] <= h.reproSeq

Live(h) == Caught(h) /\ Has(h, h.connected) /\ Used(h)

(* A flush of the hub's corpus from g to h removes programs, or stores     *)
(* them under a number that no manager has passed.                         *)
Near(g, h) ==
  \A p \in Prog : \/ h.corpus[p] = 0 \/ h.corpus[p] = g.corpus[p]
                  \/ \A m \in Mgr : g.mgrCorpusSeq[m] < h.corpus[p]

-----------------------------------------------------------------------------
(* What the hub comes up with.                                             *)

LEMMA MadeFrom ==
  ASSUME NEW h \in HubRec, NEW b \in Nat, CorpusPart(h, b), ReproPart(h)
  PROVE  LET g == Made(h)
             used == UNION {h.mgrCorpus[m] : m \in Mgr}
         IN  /\ g \in HubRec
             /\ g.corpus = [p \in Prog |-> IF p \in used THEN h.corpus[p] ELSE 0]
             /\ g.passed = [m \in Mgr |-> h.passed[m] \cap used]
             /\ g.connected = {} /\ g.ownRepros = [m \in Mgr |-> {}]
             /\ g.repros = h.repros /\ g.managers = h.managers /\ g.mgrCorpus = h.mgrCorpus
             /\ g.mgrCorpusSeq = h.mgrCorpusSeq /\ g.reproSeqFile = h.reproSeqFile
             /\ g.given = h.given
             /\ \A p \in Prog : h.corpus[p] <= g.corpusSeq
             /\ \A m \in h.managers : h.mgrCorpusSeq[m] <= g.corpusSeq
             /\ \A r \in Repro : h.repros[r] <= g.reproSeq
             /\ \A m \in Mgr : /\ h.reproSeqFile[m] <= g.mgrReproSeq[m] /\ g.mgrReproSeq[m] <= g.reproSeq
                               /\ h.reproSeqFile[m] # 0 => g.mgrReproSeq[m] = h.reproSeqFile[m]
<1> DEFINE Cs == {h.corpus[p] : p \in Prog} \cup {h.mgrCorpusSeq[m] : m \in h.managers} \cup {0}
           Rs(ms) == {h.repros[r] : r \in Repro} \cup {h.reproSeqFile[m] : m \in ms} \cup {0}
           before(m) == {n \in h.managers : n < m}
           cs == Max(Cs)
           rs == Max(Rs(h.managers))
           F1 == [m \in Mgr |-> {}]
           F2 == [m \in Mgr |-> IF m \in h.managers /\ h.reproSeqFile[m] = 0
                                THEN Max(Rs(before(m))) ELSE h.reproSeqFile[m]]
<1>0. h.managers \in SUBSET Mgr
  BY Fields
<1>1. cs \in Nat /\ \A x \in Cs : x <= cs
  <2>1. Cs \in SUBSET Nat /\ 0 \in Cs
    BY Fields, <1>0
  <2>2. \A x \in Cs : x <= b
    BY <1>0 DEF CorpusPart
  <2> HIDE DEF Cs
  <2> QED BY <2>1, <2>2, Highest, Zenon
<1>2. ASSUME NEW ms \in SUBSET Mgr
      PROVE  Max(Rs(ms)) \in Rs(ms) /\ Rs(ms) \subseteq Nat /\ \A x \in Rs(ms) : x <= Max(Rs(ms))
  <2>1. Rs(ms) \in SUBSET Nat /\ 0 \in Rs(ms)
    BY Fields
  <2>2. h.reproSeq + 1 \in Nat /\ h.reproSeq \in Nat
    BY Fields
  <2>3. \A r \in Repro : h.repros[r] <= h.reproSeq + 1
    BY <2>2, Fields DEF ReproPart
  <2>4. \A m \in ms : h.reproSeqFile[m] <= h.reproSeq + 1
    BY <2>2, Fields DEF ReproPart
  <2>5. \A x \in Rs(ms) : x <= h.reproSeq + 1
    BY <2>2, <2>3, <2>4
  <2> HIDE DEF Rs
  <2> QED BY <2>1, <2>2, <2>5, Highest, Zenon
<1>3. rs \in Nat /\ rs \in Rs(h.managers) /\ \A x \in Rs(h.managers) : x <= rs
  BY <1>0, <1>2, Zenon
<1>4. ASSUME NEW m \in Mgr
      PROVE  /\ F2[m] \in Nat /\ h.reproSeqFile[m] <= F2[m] /\ F2[m] <= rs
             /\ h.reproSeqFile[m] # 0 => F2[m] = h.reproSeqFile[m]
  <2>1. before(m) \in SUBSET Mgr /\ before(m) \subseteq h.managers
    BY <1>0
  <2>2. Rs(before(m)) \subseteq Rs(h.managers)
    BY <2>1
  <2>3. Max(Rs(before(m))) \in Rs(h.managers)
    BY <1>2, <2>1, <2>2, Zenon
  <2>4. h.reproSeqFile[m] \in Nat /\ (m \in h.managers => h.reproSeqFile[m] \in Rs(h.managers))
    BY Fields
  <2>5. m \notin h.managers => h.reproSeqFile[m] = 0
    BY DEF ReproPart
  <2>6. Rs(h.managers) \subseteq Nat
    BY <1>0, <1>2, Zenon
  <2>7. CASE m \in h.managers /\ h.reproSeqFile[m] = 0
    <3>1. F2[m] = Max(Rs(before(m)))
      BY <2>7
    <3> HIDE DEF F2, rs, Rs
    <3> QED BY <1>3, <2>3, <2>6, <2>7, <3>1
  <2>8. CASE ~(m \in h.managers /\ h.reproSeqFile[m] = 0)
    <3>1. F2[m] = h.reproSeqFile[m]
      BY <2>8
    <3> HIDE DEF F2, rs, Rs
    <3> QED BY <1>3, <2>4, <2>5, <2>6, <2>8, <3>1
  <2> QED BY <2>7, <2>8
<1>5. F1 \in [Mgr -> SUBSET Repro] /\ F2 \in [Mgr -> Nat]
  BY <1>4, Zenon
<1> DEFINE t == [h EXCEPT !.corpusSeq = cs, !.reproSeq = rs, !.connected = {}, !.ownRepros = F1, !.mgrReproSeq = F2]
<1>6. Made(h) = Purge(t)
  BY DEF Made
<1>7. (\A p \in Prog : h.corpus[p] <= cs) /\ (\A m \in h.managers : h.mgrCorpusSeq[m] <= cs)
      /\ \A r \in Repro : h.repros[r] <= rs
  BY <1>1, <1>3
<1>8. cs \in Nat /\ rs \in Nat
  BY <1>1, <1>3
<1> HIDE DEF cs, rs, F1, F2, Cs, Rs
<1>9. /\ t \in HubRec /\ t.corpusSeq = cs /\ t.reproSeq = rs /\ t.connected = {} /\ t.ownRepros = F1
      /\ t.mgrReproSeq = F2 /\ t.corpus = h.corpus /\ t.passed = h.passed /\ t.repros = h.repros
      /\ t.managers = h.managers /\ t.mgrCorpus = h.mgrCorpus /\ t.mgrCorpusSeq = h.mgrCorpusSeq
      /\ t.reproSeqFile = h.reproSeqFile /\ t.given = h.given
  BY <1>5, <1>8, Zenon DEF HubRec
<1> HIDE DEF t
<1>10. F1 = [m \in Mgr |-> {}]
  BY DEF F1
<1>11. \A m \in Mgr : /\ h.reproSeqFile[m] <= F2[m] /\ F2[m] <= rs
                      /\ h.reproSeqFile[m] # 0 => F2[m] = h.reproSeqFile[m]
  BY <1>4
<1> QED
  <2> DEFINE g == Purge(t)
  <2>1. /\ g \in HubRec
        /\ g.corpus = [p \in Prog |-> IF p \in UNION {h.mgrCorpus[m] : m \in Mgr} THEN h.corpus[p] ELSE 0]
        /\ g.passed = [m \in Mgr |-> h.passed[m] \cap UNION {h.mgrCorpus[k] : k \in Mgr}]
        /\ g.connected = {} /\ g.ownRepros = F1
        /\ g.repros = h.repros /\ g.managers = h.managers /\ g.mgrCorpus = h.mgrCorpus
        /\ g.mgrCorpusSeq = h.mgrCorpusSeq /\ g.reproSeqFile = h.reproSeqFile
        /\ g.given = h.given /\ g.corpusSeq = cs /\ g.reproSeq = rs /\ g.mgrReproSeq = F2
    <3>1. /\ g \in HubRec
          /\ g.corpus = [p \in Prog |-> IF p \in UNION {t.mgrCorpus[m] : m \in Mgr} THEN t.corpus[p] ELSE 0]
          /\ g.passed = [m \in Mgr |-> t.passed[m] \cap UNION {t.mgrCorpus[k] : k \in Mgr}]
          /\ g.repros = t.repros /\ g.corpusSeq = t.corpusSeq /\ g.reproSeq = t.reproSeq
          /\ g.managers = t.managers /\ g.connected = t.connected
          /\ g.mgrCorpus = t.mgrCorpus /\ g.mgrCorpusSeq = t.mgrCorpusSeq
          /\ g.mgrReproSeq = t.mgrReproSeq /\ g.reproSeqFile = t.reproSeqFile
          /\ g.ownRepros = t.ownRepros /\ g.given = t.given
      BY <1>9, Purged
    <3> HIDE DEF g
    <3> QED BY <1>9, <3>1
  <2> HIDE DEF g
  <2>2. Made(h) = g
    BY <1>6 DEF g
  <2> QED BY <1>7, <1>10, <1>11, <2>1, <2>2, Zenon

LEMMA MadeSound ==
  ASSUME NEW h \in HubRec, NEW b \in Nat, CorpusPart(h, b), ReproPart(h)
  PROVE  Durable(Made(h)) /\ Live(Made(h)) /\ Made(h).connected = {}
<1> DEFINE g == Made(h)
           used == UNION {h.mgrCorpus[m] : m \in Mgr}
<1>1. /\ g \in HubRec
      /\ g.corpus = [p \in Prog |-> IF p \in used THEN h.corpus[p] ELSE 0]
      /\ g.passed = [m \in Mgr |-> h.passed[m] \cap used]
      /\ g.connected = {}
      /\ g.repros = h.repros /\ g.managers = h.managers /\ g.mgrCorpus = h.mgrCorpus
      /\ g.mgrCorpusSeq = h.mgrCorpusSeq /\ g.reproSeqFile = h.reproSeqFile
      /\ g.given = h.given
      /\ \A p \in Prog : h.corpus[p] <= g.corpusSeq
      /\ \A m \in h.managers : h.mgrCorpusSeq[m] <= g.corpusSeq
      /\ \A r \in Repro : h.repros[r] <= g.reproSeq
      /\ \A m \in Mgr : h.reproSeqFile[m] <= g.mgrReproSeq[m] /\ g.mgrReproSeq[m] <= g.reproSeq
  BY MadeFrom
<1> HIDE DEF g, used
<1>2. g.corpusSeq \in Nat /\ g.reproSeq \in Nat /\ g.mgrReproSeq \in [Mgr -> Nat]
  BY <1>1, Fields
<1>3. CorpusPart(g, g.corpusSeq)
  <2>1. \A p \in Prog : g.corpus[p] <= g.corpusSeq
    BY <1>1, <1>2, Fields
  <2>2. \A m \in Mgr : g.mgrCorpusSeq[m] <= g.corpusSeq
    BY <1>1, <1>2, Fields DEF CorpusPart
  <2>3. \A m \in Mgr \ g.managers : g.mgrCorpusSeq[m] = 0
    BY <1>1 DEF CorpusPart
  <2>4. ASSUME NEW m \in Mgr, NEW p \in Prog \cap Supports[m], g.corpus[p] # 0, g.corpus[p] <= g.mgrCorpusSeq[m]
        PROVE  p \in g.passed[m]
    <3>1. p \in used /\ g.corpus[p] = h.corpus[p]
      BY <1>1, <2>4
    <3> QED BY <1>1, <2>4, <3>1 DEF CorpusPart
  <2> QED BY <2>1, <2>2, <2>3, <2>4 DEF CorpusPart
<1>4. ReproPart(g)
  <2>1. \A m \in Mgr : g.reproSeqFile[m] <= g.mgrReproSeq[m] /\ g.mgrReproSeq[m] <= g.reproSeq + 1
    BY <1>1, <1>2, Fields
  <2> QED BY <1>1, <2>1 DEF ReproPart
<1>5. Live(g)
  <2>1. Stored(g) \subseteq used
    BY <1>1 DEF Stored
  <2> QED BY <1>1, <2>1 DEF Live, Caught, Has, Used, used
<1> QED BY <1>1, <1>3, <1>4, <1>5 DEF Durable, g

LEMMA TornSound ==
  ASSUME NEW g, NEW h, Durable(g), Durable(h), Near(g, h), NEW ps \in SUBSET Prog
  PROVE  /\ Torn(g, h, ps) \in HubRec /\ g.corpusSeq + h.corpusSeq \in Nat
         /\ CorpusPart(Torn(g, h, ps), g.corpusSeq + h.corpusSeq) /\ ReproPart(Torn(g, h, ps))
<1> DEFINE t == Torn(g, h, ps)
           b == g.corpusSeq + h.corpusSeq
<1>1. /\ g \in HubRec /\ h \in HubRec /\ CorpusPart(g, g.corpusSeq) /\ CorpusPart(h, h.corpusSeq)
      /\ ReproPart(g)
  BY DEF Durable
<1>2. /\ t \in HubRec
      /\ t.corpus = [p \in Prog |-> IF p \in ps THEN h.corpus[p] ELSE g.corpus[p]]
      /\ t.repros = g.repros /\ t.reproSeq = g.reproSeq
      /\ t.managers = g.managers
      /\ t.mgrCorpusSeq = g.mgrCorpusSeq /\ t.mgrReproSeq = g.mgrReproSeq
      /\ t.reproSeqFile = g.reproSeqFile
      /\ t.passed = g.passed /\ t.given = g.given
  BY <1>1, TornBetween
<1> HIDE DEF t
<1>3. b \in Nat /\ g.corpusSeq \in Nat /\ h.corpusSeq \in Nat
  BY <1>1, Fields
<1>4. CorpusPart(t, b)
  <2>1. \A p \in Prog : t.corpus[p] <= b
    BY <1>1, <1>2, <1>3, Fields DEF CorpusPart
  <2>2. \A m \in Mgr : t.mgrCorpusSeq[m] <= b
    BY <1>1, <1>2, <1>3, Fields DEF CorpusPart
  <2>3. \A m \in Mgr \ t.managers : t.mgrCorpusSeq[m] = 0
    BY <1>1, <1>2 DEF CorpusPart
  <2>4. ASSUME NEW m \in Mgr, NEW p \in Prog \cap Supports[m], t.corpus[p] # 0, t.corpus[p] <= t.mgrCorpusSeq[m]
        PROVE  p \in t.passed[m]
    <3>1. t.corpus[p] = g.corpus[p] \/ t.corpus[p] = h.corpus[p]
      BY <1>2
    <3>2. g.mgrCorpusSeq[m] \in Nat /\ h.corpus[p] \in Nat
      BY <1>1, Fields
    <3>3. t.corpus[p] = g.corpus[p]
      BY <1>2, <2>4, <3>1, <3>2 DEF Near
    <3> QED BY <1>1, <1>2, <2>4, <3>3 DEF CorpusPart
  <2> QED BY <2>1, <2>2, <2>3, <2>4 DEF CorpusPart
<1>5. ReproPart(t)
  BY <1>1, <1>2 DEF ReproPart
<1> QED BY <1>2, <1>3, <1>4, <1>5 DEF t

LEMMA Recovered ==
  ASSUME NEW g, NEW h, Durable(g), Durable(h), Near(g, h), NEW ps \in SUBSET Prog
  PROVE  LET t == Made(Torn(g, h, ps)) IN Durable(t) /\ Live(t) /\ t.connected = {}
BY TornSound, MadeSound

(* What waits for a manager m in h still waits in g, or was given to it.   *)
Kept(h, g, m) ==
  h.reproSeqFile[m] # 0 =>
    /\ g.reproSeqFile[m] # 0
    /\ \A r \in PendingRepros(h, m) : r \in PendingRepros(g, m) \/ g.given[m][r] > 0
    /\ \A r \in Repro : h.given[m][r] > 0 => g.given[m][r] > 0

LEMMA KeptOn ==
  ASSUME NEW f, NEW g, NEW h, NEW m, Kept(f, g, m), Kept(g, h, m)
  PROVE  Kept(f, h, m)
<1>1. PendingRepros(f, m) \subseteq Repro
  BY DEF PendingRepros
<1> QED BY <1>1 DEF Kept

LEMMA KeptSame ==
  ASSUME NEW g, NEW h, NEW m, g.repros = h.repros, g.mgrReproSeq = h.mgrReproSeq,
         g.reproSeqFile = h.reproSeqFile, g.ownRepros = h.ownRepros, g.given = h.given
  PROVE  Kept(g, h, m)
BY DEF Kept, PendingRepros

LEMMA KeptMade ==
  ASSUME NEW h \in HubRec, NEW b \in Nat, CorpusPart(h, b), ReproPart(h), NEW m \in Mgr
  PROVE  Kept(h, Made(h), m)
<1> DEFINE g == Made(h)
<1>1. /\ g \in HubRec /\ g.ownRepros = [k \in Mgr |-> {}]
      /\ g.repros = h.repros /\ g.reproSeqFile = h.reproSeqFile /\ g.given = h.given
      /\ h.reproSeqFile[m] # 0 => g.mgrReproSeq[m] = h.reproSeqFile[m]
  BY MadeFrom, Zenon
<1> HIDE DEF g
<1>2. h.reproSeqFile[m] \in Nat /\ h.mgrReproSeq[m] \in Nat /\ h.repros \in [Repro -> Nat]
  BY Fields
<1>3. h.reproSeqFile[m] <= h.mgrReproSeq[m]
  BY DEF ReproPart
<1>4. h.reproSeqFile[m] # 0 => PendingRepros(h, m) \subseteq PendingRepros(g, m)
  BY <1>1, <1>2, <1>3 DEF PendingRepros
<1> QED BY <1>1, <1>4 DEF Kept, g

LEMMA KeptRecovered ==
  ASSUME NEW g, NEW h, Durable(g), Durable(h), Near(g, h), NEW ps \in SUBSET Prog, NEW m \in Mgr
  PROVE  Kept(g, Made(Torn(g, h, ps)), m)
<1>1. Kept(Torn(g, h, ps), Made(Torn(g, h, ps)), m)
  BY TornSound, KeptMade
<1>2. Kept(g, Torn(g, h, ps), m)
  <2>1. g \in HubRec /\ h \in HubRec
    BY DEF Durable
  <2> DEFINE t == Torn(g, h, ps)
  <2>2. /\ t.repros = g.repros /\ t.mgrReproSeq = g.mgrReproSeq
        /\ t.reproSeqFile = g.reproSeqFile /\ t.ownRepros = g.ownRepros
        /\ t.given = g.given
    BY <2>1 DEF Torn, HubRec
  <2> HIDE DEF t
  <2>3. Kept(g, t, m)
    BY <2>2, KeptSame
  <2> QED BY <2>3 DEF t
<1> QED BY <1>1, <1>2, KeptOn

-----------------------------------------------------------------------------
(* What the writes of a call keep.                                         *)

(* Those that leave the repros alone.                                      *)
ReproAlone(g, h) ==
  /\ g.repros = h.repros /\ g.reproSeq = h.reproSeq /\ g.managers = h.managers
  /\ g.mgrReproSeq = h.mgrReproSeq /\ g.reproSeqFile = h.reproSeqFile
  /\ g.ownRepros = h.ownRepros /\ g.given = h.given

LEMMA AloneKeeps ==
  ASSUME NEW g, NEW h, ReproAlone(g, h), ReproPart(g)
  PROVE  ReproPart(h) /\ \A m \in Mgr : Kept(g, h, m)
BY KeptSame DEF ReproAlone, ReproPart

(* Those that leave the programs alone.                                    *)
CorpusAlone(g, h) ==
  /\ g.corpus = h.corpus /\ g.corpusSeq = h.corpusSeq /\ g.managers = h.managers
  /\ g.connected = h.connected /\ g.mgrCorpus = h.mgrCorpus
  /\ g.mgrCorpusSeq = h.mgrCorpusSeq /\ g.passed = h.passed

LEMMA AloneCorpus ==
  ASSUME NEW g, NEW h, CorpusAlone(g, h), CorpusPart(g, g.corpusSeq)
  PROVE  /\ CorpusPart(h, h.corpusSeq) /\ Near(g, h)
         /\ Has(g, g.connected) => Has(h, h.connected)
         /\ Used(g) => Used(h)
BY DEF CorpusAlone, CorpusPart, Near, Has, Used, Stored

LEMMA PurgeKeeps ==
  ASSUME NEW h, Durable(h)
  PROVE  LET g == Purge(h)
         IN  /\ Durable(g) /\ Near(h, g) /\ ReproAlone(h, g)
             /\ g.connected = h.connected /\ g.mgrCorpus = h.mgrCorpus
             /\ Has(h, h.connected) => Has(g, g.connected)
             /\ Used(g)
<1> DEFINE g == Purge(h)
           used == UNION {h.mgrCorpus[m] : m \in Mgr}
<1>1. h \in HubRec /\ CorpusPart(h, h.corpusSeq) /\ ReproPart(h)
  BY DEF Durable
<1>2. /\ g \in HubRec
      /\ g.corpus = [p \in Prog |-> IF p \in used THEN h.corpus[p] ELSE 0]
      /\ g.passed = [m \in Mgr |-> h.passed[m] \cap used]
      /\ g.corpusSeq = h.corpusSeq /\ g.mgrCorpus = h.mgrCorpus /\ g.mgrCorpusSeq = h.mgrCorpusSeq
      /\ g.managers = h.managers /\ g.connected = h.connected
      /\ ReproAlone(h, g)
  BY <1>1, Purged DEF ReproAlone
<1> HIDE DEF g
<1>3. CorpusPart(g, g.corpusSeq)
  <2>1. \A p \in Prog : g.corpus[p] <= g.corpusSeq
    BY <1>1, <1>2, Fields DEF CorpusPart
  <2>2. ASSUME NEW m \in Mgr, NEW p \in Prog \cap Supports[m], g.corpus[p] # 0, g.corpus[p] <= g.mgrCorpusSeq[m]
        PROVE  p \in g.passed[m]
    <3>1. p \in used /\ g.corpus[p] = h.corpus[p]
      BY <1>2, <2>2
    <3> HIDE DEF used
    <3> QED BY <1>1, <1>2, <2>2, <3>1 DEF CorpusPart
  <2> QED BY <1>1, <1>2, <2>1, <2>2 DEF CorpusPart
<1>4. Near(h, g)
  BY <1>2 DEF Near
<1>5. ReproPart(g)
  BY <1>1, <1>2, AloneKeeps
<1>6. Used(g)
  BY <1>2 DEF Used, Stored
<1>7. ASSUME Has(h, h.connected), NEW m \in g.connected
      PROVE  g.mgrCorpus[m] \subseteq Stored(g) /\ g.mgrCorpus[m] \subseteq g.passed[m]
  <2>1. m \in Mgr /\ h.mgrCorpus[m] \subseteq Stored(h) /\ h.mgrCorpus[m] \subseteq h.passed[m]
    BY <1>1, <1>2, <1>7, Fields DEF Has
  <2>2. h.mgrCorpus[m] \subseteq used
    BY <2>1
  <2> HIDE DEF used
  <2> QED BY <1>2, <2>1, <2>2 DEF Stored
<1>8. Has(h, h.connected) => Has(g, g.connected)
  BY <1>7 DEF Has
<1>9. Durable(g)
  BY <1>2, <1>3, <1>5 DEF Durable
<1> QED BY <1>2, <1>4, <1>6, <1>8, <1>9 DEF g

(* addInputs: the number of what is added is new to all managers.          *)
Ahead(h, add) == add # {} => \A m \in Mgr : h.mgrCorpusSeq[m] < h.corpusSeq

LEMMA SeqKeeps ==
  ASSUME NEW h, Durable(h), NEW add \in SUBSET Prog
  PROVE  LET g == NewSeq(h, add)
         IN  /\ Durable(g) /\ Near(h, g) /\ ReproAlone(h, g) /\ Ahead(g, add)
             /\ add # {} => g.corpusSeq # 0
             /\ g.connected = h.connected /\ g.mgrCorpus = h.mgrCorpus
             /\ g.corpus = h.corpus /\ g.passed = h.passed
<1> DEFINE g == NewSeq(h, add)
<1>1. h \in HubRec /\ CorpusPart(h, h.corpusSeq) /\ ReproPart(h)
  BY DEF Durable
<1>2. /\ g \in HubRec
      /\ g.corpusSeq = IF add = {} THEN h.corpusSeq ELSE h.corpusSeq + 1
      /\ g.corpus = h.corpus /\ g.mgrCorpus = h.mgrCorpus /\ g.mgrCorpusSeq = h.mgrCorpusSeq
      /\ g.managers = h.managers /\ g.connected = h.connected /\ g.passed = h.passed
      /\ ReproAlone(h, g)
  BY <1>1, Numbered DEF ReproAlone
<1> HIDE DEF g
<1>3. g.corpusSeq \in Nat /\ h.corpusSeq \in Nat /\ h.corpusSeq <= g.corpusSeq
      /\ (add # {} => h.corpusSeq < g.corpusSeq)
  BY <1>1, <1>2, Fields
<1>4. (\A p \in Prog : g.corpus[p] <= g.corpusSeq) /\ \A m \in Mgr : g.mgrCorpusSeq[m] <= g.corpusSeq
  <2>1. (\A p \in Prog : h.corpus[p] <= h.corpusSeq) /\ (\A m \in Mgr : h.mgrCorpusSeq[m] <= h.corpusSeq)
    BY <1>1 DEF CorpusPart
  <2>2. h.corpus \in [Prog -> Nat] /\ h.mgrCorpusSeq \in [Mgr -> Nat]
    BY <1>1, Fields
  <2> QED BY <1>2, <1>3, <2>1, <2>2
<1>5. CorpusPart(g, g.corpusSeq)
  BY <1>1, <1>2, <1>4 DEF CorpusPart
<1>6. Ahead(g, add)
  <2>1. \A m \in Mgr : h.mgrCorpusSeq[m] <= h.corpusSeq
    BY <1>1 DEF CorpusPart
  <2>2. h.mgrCorpusSeq \in [Mgr -> Nat]
    BY <1>1, Fields
  <2> QED BY <1>2, <1>3, <2>1, <2>2 DEF Ahead
<1>7. ReproPart(g)
  BY <1>1, <1>2, AloneKeeps
<1>8. Near(h, g)
  BY <1>2 DEF Near
<1>9. add # {} => g.corpusSeq # 0
  BY <1>3
<1> QED BY <1>2, <1>5, <1>6, <1>7, <1>8, <1>9 DEF g, Durable

LEMMA ManagerKeeps ==
  ASSUME NEW h, Durable(h), NEW m \in Mgr, NEW add \in SUBSET Prog
  PROVE  LET g == AddToManager(h, m, add)
         IN  /\ Durable(g) /\ Near(h, g) /\ ReproAlone(h, g)
             /\ Ahead(h, add) => Ahead(g, add)
             /\ g.mgrCorpus = [h.mgrCorpus EXCEPT ![m] = h.mgrCorpus[m] \cup (add \ Refused)]
             /\ g.passed = [h.passed EXCEPT ![m] = h.passed[m] \cup (add \ Refused)]
             /\ g.connected = h.connected /\ g.corpus = h.corpus /\ g.corpusSeq = h.corpusSeq
<1> DEFINE g == AddToManager(h, m, add)
<1>1. h \in HubRec /\ CorpusPart(h, h.corpusSeq) /\ ReproPart(h)
  BY DEF Durable
<1>2. /\ g \in HubRec
      /\ g.mgrCorpus = [h.mgrCorpus EXCEPT ![m] = h.mgrCorpus[m] \cup (add \ Refused)]
      /\ g.passed = [h.passed EXCEPT ![m] = h.passed[m] \cup (add \ Refused)]
      /\ g.corpus = h.corpus /\ g.corpusSeq = h.corpusSeq /\ g.mgrCorpusSeq = h.mgrCorpusSeq
      /\ g.managers = h.managers /\ g.connected = h.connected
      /\ ReproAlone(h, g)
  BY <1>1, ManagerAdded DEF ReproAlone
<1> HIDE DEF g
<1>3. \A k \in Mgr : h.passed[k] \subseteq g.passed[k]
  BY <1>1, <1>2, Fields
<1>4. CorpusPart(g, g.corpusSeq)
  BY <1>1, <1>2, <1>3 DEF CorpusPart
<1>5. ReproPart(g)
  BY <1>1, <1>2, AloneKeeps
<1>6. Near(h, g) /\ (Ahead(h, add) => Ahead(g, add))
  BY <1>2 DEF Near, Ahead
<1> QED BY <1>2, <1>4, <1>5, <1>6 DEF g, Durable

LEMMA HubKeeps ==
  ASSUME NEW h, Durable(h), NEW add \in SUBSET Prog, Ahead(h, add)
  PROVE  LET g == AddToHub(h, add)
         IN  /\ Durable(g) /\ Near(h, g) /\ ReproAlone(h, g)
             /\ g.corpus = [p \in Prog |-> IF p \in add \ Refused /\ h.corpus[p] = 0 THEN h.corpusSeq ELSE h.corpus[p]]
             /\ g.connected = h.connected /\ g.mgrCorpus = h.mgrCorpus /\ g.passed = h.passed
<1> DEFINE g == AddToHub(h, add)
<1>1. h \in HubRec /\ CorpusPart(h, h.corpusSeq) /\ ReproPart(h)
  BY DEF Durable
<1>2. /\ g \in HubRec
      /\ g.corpus = [p \in Prog |-> IF p \in add \ Refused /\ h.corpus[p] = 0 THEN h.corpusSeq ELSE h.corpus[p]]
      /\ g.passed = h.passed /\ g.mgrCorpus = h.mgrCorpus
      /\ g.corpusSeq = h.corpusSeq /\ g.mgrCorpusSeq = h.mgrCorpusSeq
      /\ g.managers = h.managers /\ g.connected = h.connected
      /\ ReproAlone(h, g)
  BY <1>1, HubAdded DEF ReproAlone
<1> HIDE DEF g
<1>3. h.corpusSeq \in Nat /\ h.corpus \in [Prog -> Nat] /\ h.mgrCorpusSeq \in [Mgr -> Nat]
  BY <1>1, Fields
<1>4. \A p \in Prog : g.corpus[p] = h.corpus[p] \/ (\A m \in Mgr : h.mgrCorpusSeq[m] < g.corpus[p])
  BY <1>2, <1>3 DEF Ahead
<1>5. \A p \in Prog : g.corpus[p] <= g.corpusSeq
  BY <1>1, <1>2, <1>3 DEF CorpusPart
<1>6. ASSUME NEW m \in Mgr, NEW p \in Prog \cap Supports[m], g.corpus[p] # 0, g.corpus[p] <= g.mgrCorpusSeq[m]
      PROVE  p \in g.passed[m]
  <2>1. g.corpus[p] \in Nat
    BY <1>2, Fields
  <2>2. g.corpus[p] = h.corpus[p]
    BY <1>2, <1>3, <1>4, <1>6, <2>1
  <2> QED BY <1>1, <1>2, <1>6, <2>2 DEF CorpusPart
<1>7. CorpusPart(g, g.corpusSeq)
  BY <1>1, <1>2, <1>5, <1>6 DEF CorpusPart
<1>8. Near(h, g)
  BY <1>4 DEF Near
<1>9. ReproPart(g)
  BY <1>1, <1>2, AloneKeeps
<1> QED BY <1>2, <1>7, <1>8, <1>9 DEF g, Durable

(* All of addInputs.                                                       *)
LEMMA AddedHas ==
  ASSUME NEW h, Durable(h), NEW m \in Mgr, NEW add \in SUBSET Prog
  PROVE  LET h1 == NewSeq(h, add)
             h2 == AddToManager(h1, m, add)
             h3 == AddToHub(h2, add)
         IN  /\ Durable(h1) /\ Durable(h2) /\ Durable(h3)
             /\ Near(h, h1) /\ Near(h1, h2) /\ Near(h2, h3)
             /\ ReproAlone(h, h1) /\ ReproAlone(h1, h2) /\ ReproAlone(h2, h3)
             /\ h3.mgrCorpus = [h.mgrCorpus EXCEPT ![m] = h.mgrCorpus[m] \cup (add \ Refused)]
             /\ h3.connected = h.connected
             /\ Has(h, h.connected) => Has(h3, h3.connected)
             /\ Used(h) => Used(h3)
<1> DEFINE h1 == NewSeq(h, add)
           h2 == AddToManager(h1, m, add)
           h3 == AddToHub(h2, add)
<1>1. /\ Durable(h1) /\ Near(h, h1) /\ ReproAlone(h, h1) /\ Ahead(h1, add)
      /\ add # {} => h1.corpusSeq # 0
      /\ h1.connected = h.connected /\ h1.mgrCorpus = h.mgrCorpus
      /\ h1.corpus = h.corpus /\ h1.passed = h.passed
  BY SeqKeeps
<1> HIDE DEF h1
<1>2. /\ Durable(h2) /\ Near(h1, h2) /\ ReproAlone(h1, h2) /\ Ahead(h2, add)
      /\ h2.mgrCorpus = [h1.mgrCorpus EXCEPT ![m] = h1.mgrCorpus[m] \cup (add \ Refused)]
      /\ h2.passed = [h1.passed EXCEPT ![m] = h1.passed[m] \cup (add \ Refused)]
      /\ h2.connected = h1.connected /\ h2.corpus = h1.corpus /\ h2.corpusSeq = h1.corpusSeq
  BY <1>1, ManagerKeeps
<1> HIDE DEF h2
<1>3. /\ Durable(h3) /\ Near(h2, h3) /\ ReproAlone(h2, h3)
      /\ h3.corpus = [p \in Prog |-> IF p \in add \ Refused /\ h2.corpus[p] = 0 THEN h2.corpusSeq ELSE h2.corpus[p]]
      /\ h3.connected = h2.connected /\ h3.mgrCorpus = h2.mgrCorpus /\ h3.passed = h2.passed
  BY <1>2, HubKeeps
<1> HIDE DEF h3
<1>4. h \in HubRec
  BY DEF Durable
<1>5. h.mgrCorpus \in [Mgr -> SUBSET Prog] /\ h.passed \in [Mgr -> SUBSET Prog] /\ h.connected \in SUBSET Mgr
      /\ h.corpus \in [Prog -> Nat]
  BY <1>4, Fields
<1>6. Stored(h3) = Stored(h) \cup (add \ Refused)
  BY <1>1, <1>2, <1>3 DEF Stored
<1>7. ASSUME Has(h, h.connected), NEW k \in h3.connected
      PROVE  h3.mgrCorpus[k] \subseteq Stored(h3) /\ h3.mgrCorpus[k] \subseteq h3.passed[k]
  <2>1. k \in Mgr /\ h.mgrCorpus[k] \subseteq Stored(h) /\ h.mgrCorpus[k] \subseteq h.passed[k]
    BY <1>1, <1>2, <1>3, <1>5, <1>7 DEF Has
  <2>2. CASE k = m
    BY <1>1, <1>2, <1>3, <1>5, <1>6, <2>1, <2>2
  <2>3. CASE k # m
    BY <1>1, <1>2, <1>3, <1>5, <1>6, <2>1, <2>3
  <2> QED BY <2>2, <2>3
<1>8. Has(h, h.connected) => Has(h3, h3.connected)
  BY <1>7 DEF Has
<1>9. Used(h) => Used(h3)
  <2>1. \A k \in Mgr : h.mgrCorpus[k] \subseteq h3.mgrCorpus[k]
    BY <1>1, <1>2, <1>3, <1>5
  <2>2. add \ Refused \subseteq h3.mgrCorpus[m]
    BY <1>1, <1>2, <1>3, <1>5
  <2> QED BY <1>6, <2>1, <2>2 DEF Used
<1>10. h3.mgrCorpus = [h.mgrCorpus EXCEPT ![m] = h.mgrCorpus[m] \cup (add \ Refused)] /\ h3.connected = h.connected
  BY <1>1, <1>2, <1>3
<1> QED BY <1>1, <1>2, <1>3, <1>8, <1>9, <1>10 DEF h1, h2, h3

(* pendingInputs: what the manager's number passes is sent, was passed     *)
(* before, or is its own.                                                  *)
LEMMA InputsKeep ==
  ASSUME NEW h, Durable(h), Caught(h), Has(h, h.connected), NEW m \in h.connected
  PROVE  LET g == PendingInputs(h, m)
         IN  /\ Durable(g) /\ Near(h, g) /\ ReproAlone(h, g)
             /\ g.connected = h.connected /\ g.mgrCorpus = h.mgrCorpus
             /\ Has(g, g.connected)
             /\ Used(h) => Used(g)
<1> DEFINE g == PendingInputs(h, m)
           n == LastSeq(h, m)
           sent == Inputs(h, m)
<1>1. h \in HubRec /\ CorpusPart(h, h.corpusSeq) /\ ReproPart(h)
  BY DEF Durable
<1>2. /\ m \in Mgr /\ m \in h.managers /\ h.connected \in SUBSET Mgr /\ h.corpus \in [Prog -> Nat]
      /\ h.mgrCorpusSeq \in [Mgr -> Nat] /\ h.passed \in [Mgr -> SUBSET Prog]
      /\ h.mgrCorpus \in [Mgr -> SUBSET Prog]
  BY <1>1, Fields DEF Caught
<1>3. \A p \in Prog : h.corpus[p] <= h.corpusSeq
  BY <1>1 DEF CorpusPart
<1>4. n \in Nat /\ n <= h.corpusSeq
  BY <1>1, <1>2, <1>3, BatchEnds
<1>5. /\ g \in HubRec
      /\ g.mgrCorpusSeq = [h.mgrCorpusSeq EXCEPT ![m] = n]
      /\ g.passed = [h.passed EXCEPT ![m] = h.passed[m] \cup sent]
      /\ g.corpus = h.corpus /\ g.corpusSeq = h.corpusSeq /\ g.managers = h.managers
      /\ g.connected = h.connected /\ g.mgrCorpus = h.mgrCorpus
      /\ ReproAlone(h, g)
  BY <1>1, <1>2, <1>3, InputsSent DEF ReproAlone
<1> HIDE DEF g, n
<1>6. ASSUME NEW k \in Mgr, NEW p \in Prog \cap Supports[k], g.corpus[p] # 0, g.corpus[p] <= g.mgrCorpusSeq[k]
      PROVE  p \in g.passed[k]
  <2>1. CASE k # m
    BY <1>1, <1>2, <1>5, <1>6, <2>1 DEF CorpusPart
  <2>2. CASE k = m
    <3>1. h.corpus[p] \in Nat /\ h.corpus[p] # 0 /\ h.corpus[p] <= n /\ h.mgrCorpusSeq[m] \in Nat
      BY <1>2, <1>5, <1>6, <2>2
    <3>2. CASE h.corpus[p] <= h.mgrCorpusSeq[m]
      <4>1. p \in h.passed[m]
        BY <1>1, <1>2, <2>2, <3>1, <3>2 DEF CorpusPart
      <4> QED BY <1>2, <1>5, <2>2, <4>1
    <3>3. CASE p \in h.mgrCorpus[m]
      <4>1. p \in h.passed[m]
        BY <3>3 DEF Has
      <4> QED BY <1>2, <1>5, <2>2, <4>1
    <3>4. CASE h.corpus[p] > h.mgrCorpusSeq[m] /\ p \notin h.mgrCorpus[m]
      <4>1. p \in Pending(h, m)
        BY <2>2, <3>4 DEF Pending
      <4>2. p \in sent
        BY <3>1, <4>1 DEF Inputs, UpTo, n
      <4> HIDE DEF sent
      <4> QED BY <1>2, <1>5, <2>2, <4>2
    <3> QED BY <3>1, <3>2, <3>3, <3>4
  <2> QED BY <2>1, <2>2
<1>7. \A k \in Mgr : g.mgrCorpusSeq[k] <= g.corpusSeq
  BY <1>1, <1>2, <1>4, <1>5 DEF CorpusPart
<1>8. \A k \in Mgr \ g.managers : g.mgrCorpusSeq[k] = 0
  BY <1>1, <1>2, <1>5 DEF CorpusPart
<1>9. CorpusPart(g, g.corpusSeq)
  BY <1>3, <1>5, <1>6, <1>7, <1>8 DEF CorpusPart
<1>10. ReproPart(g)
  BY <1>1, <1>5, AloneKeeps
<1>11. Near(h, g) /\ Stored(g) = Stored(h) /\ (Used(h) => Used(g))
  BY <1>5 DEF Near, Stored, Used
<1>12. \A k \in Mgr : h.passed[k] \subseteq g.passed[k]
  BY <1>2, <1>5
<1>13. Has(g, g.connected)
  BY <1>2, <1>5, <1>11, <1>12 DEF Has
<1> QED BY <1>5, <1>9, <1>10, <1>11, <1>13 DEF Durable, g

LEMMA OwnKeeps ==
  ASSUME NEW h, Durable(h), Caught(h), NEW m \in h.managers, NEW r \in Repro, h.repros[r] = 0
  PROVE  LET g == OwnRepro(h, m, r)
         IN  /\ Durable(g) /\ CorpusAlone(h, g) /\ g.repros = h.repros /\ g.reproSeq = h.reproSeq
             /\ \A k \in Mgr : Kept(h, g, k)
<1> DEFINE g == OwnRepro(h, m, r)
<1>1. h \in HubRec /\ CorpusPart(h, h.corpusSeq) /\ ReproPart(h)
  BY DEF Durable
<1>2. /\ m \in Mgr /\ h.repros \in [Repro -> Nat] /\ h.reproSeq \in Nat /\ h.mgrReproSeq \in [Mgr -> Nat]
      /\ h.reproSeqFile \in [Mgr -> Nat] /\ h.ownRepros \in [Mgr -> SUBSET Repro]
      /\ h.given \in [Mgr -> [Repro -> Nat]]
  BY <1>1, Fields
<1>3. /\ g \in HubRec
      /\ g.ownRepros = [h.ownRepros EXCEPT ![m] = h.ownRepros[m] \cup {r}]
      /\ \/ /\ h.mgrReproSeq[m] = h.reproSeq
            /\ g.mgrReproSeq = [h.mgrReproSeq EXCEPT ![m] = h.reproSeq + 1]
            /\ g.reproSeqFile = [h.reproSeqFile EXCEPT ![m] = h.reproSeq + 1]
         \/ /\ h.mgrReproSeq[m] # h.reproSeq
            /\ g.mgrReproSeq = h.mgrReproSeq
            /\ g.reproSeqFile = h.reproSeqFile
      /\ CorpusAlone(h, g) /\ g.managers = h.managers
      /\ g.repros = h.repros /\ g.reproSeq = h.reproSeq /\ g.given = h.given
  <2>1. m \in Mgr /\ h \in HubRec
    BY <1>1, <1>2
  <2>2. /\ g \in HubRec
        /\ g.ownRepros = [h.ownRepros EXCEPT ![m] = h.ownRepros[m] \cup {r}]
        /\ \/ /\ h.mgrReproSeq[m] = h.reproSeq
              /\ g.mgrReproSeq = [h.mgrReproSeq EXCEPT ![m] = h.reproSeq + 1]
              /\ g.reproSeqFile = [h.reproSeqFile EXCEPT ![m] = h.reproSeq + 1]
           \/ /\ h.mgrReproSeq[m] # h.reproSeq
              /\ g.mgrReproSeq = h.mgrReproSeq
              /\ g.reproSeqFile = h.reproSeqFile
        /\ g.corpus = h.corpus /\ g.repros = h.repros /\ g.corpusSeq = h.corpusSeq
        /\ g.reproSeq = h.reproSeq /\ g.managers = h.managers
        /\ g.connected = h.connected /\ g.mgrCorpus = h.mgrCorpus
        /\ g.mgrCorpusSeq = h.mgrCorpusSeq /\ g.passed = h.passed /\ g.given = h.given
    BY <2>1, OwnAdded, Zenon
  <2> HIDE DEF g
  <2> QED BY <2>2, Zenon DEF CorpusAlone
<1> HIDE DEF g
<1>4. \A k \in Mgr : h.reproSeqFile[k] <= h.mgrReproSeq[k] /\ h.mgrReproSeq[k] <= h.reproSeq
  BY <1>1 DEF ReproPart, Caught
<1>5. \A k \in Mgr : /\ g.reproSeqFile[k] \in Nat /\ g.reproSeqFile[k] <= g.mgrReproSeq[k]
                     /\ g.mgrReproSeq[k] <= g.reproSeq + 1 /\ h.reproSeqFile[k] <= g.reproSeqFile[k]
                     /\ k # m => g.mgrReproSeq[k] = h.mgrReproSeq[k] /\ g.reproSeqFile[k] = h.reproSeqFile[k]
  <2>1. CASE h.mgrReproSeq[m] = h.reproSeq
    <3>1. /\ g.mgrReproSeq = [h.mgrReproSeq EXCEPT ![m] = h.reproSeq + 1]
          /\ g.reproSeqFile = [h.reproSeqFile EXCEPT ![m] = h.reproSeq + 1]
          /\ g.reproSeq = h.reproSeq
      BY <1>3, <2>1
    <3>2. \A k \in Mgr : /\ g.mgrReproSeq[k] = IF k = m THEN h.reproSeq + 1 ELSE h.mgrReproSeq[k]
                         /\ g.reproSeqFile[k] = IF k = m THEN h.reproSeq + 1 ELSE h.reproSeqFile[k]
      BY <1>2, <3>1
    <3> QED BY <1>2, <1>4, <3>1, <3>2
  <2>2. CASE h.mgrReproSeq[m] # h.reproSeq
    BY <1>2, <1>3, <1>4, <2>2
  <2> QED BY <2>1, <2>2
<1>6. ReproPart(g)
  <2>1. \A k \in Mgr, s \in Repro : /\ g.given[k][s] <= 1
                                    /\ g.given[k][s] # 0 => g.repros[s] # 0 /\ g.repros[s] <= g.reproSeqFile[k]
    BY <1>1, <1>2, <1>3, <1>5 DEF ReproPart
  <2>2. \A k \in Mgr \ g.managers : g.reproSeqFile[k] = 0
    BY <1>1, <1>2, <1>3, <1>5 DEF ReproPart
  <2>3. /\ \A s \in Repro : g.repros[s] <= g.reproSeq
        /\ \A s, t \in Repro : g.repros[s] # 0 /\ g.repros[s] = g.repros[t] => s = t
    BY <1>1, <1>3 DEF ReproPart
  <2> QED BY <1>5, <2>1, <2>2, <2>3 DEF ReproPart
<1>7. ASSUME NEW k \in Mgr PROVE Kept(h, g, k)
  <2>1. h.reproSeqFile[k] # 0 => g.reproSeqFile[k] # 0
    BY <1>2, <1>5
  <2>2. ASSUME NEW s \in PendingRepros(h, k) PROVE s \in PendingRepros(g, k)
    <3>1. s \in Repro /\ s \in Supports[k] /\ s \notin h.ownRepros[k] /\ h.repros[s] > h.mgrReproSeq[k]
      BY DEF PendingRepros
    <3>2. s # r /\ h.repros[s] <= h.reproSeq
      BY <1>1, <1>2, <3>1 DEF ReproPart
    <3>3. CASE k = m
      <4>1. h.mgrReproSeq[m] # h.reproSeq
        BY <1>2, <3>1, <3>2, <3>3
      <4> QED BY <1>2, <1>3, <3>1, <3>2, <3>3, <4>1 DEF PendingRepros
    <3>4. CASE k # m
      BY <1>2, <1>3, <1>5, <3>1, <3>4 DEF PendingRepros
    <3> QED BY <3>3, <3>4
  <2> QED BY <1>3, <2>1, <2>2 DEF Kept
<1>8. CorpusPart(g, g.corpusSeq)
  BY <1>1, <1>3, AloneCorpus
<1> QED BY <1>3, <1>6, <1>7, <1>8 DEF g, Durable

LEMMA ReproKeeps ==
  ASSUME NEW h, Durable(h), NEW r \in Repro, h.repros[r] = 0
  PROVE  LET g == AddRepro(h, r)
         IN  /\ Durable(g) /\ CorpusAlone(h, g)
             /\ h.connected \subseteq h.managers => Caught(g)
             /\ \A k \in Mgr : Kept(h, g, k)
<1> DEFINE g == AddRepro(h, r)
<1>1. h \in HubRec /\ CorpusPart(h, h.corpusSeq) /\ ReproPart(h)
  BY DEF Durable
<1>2. /\ h.repros \in [Repro -> Nat] /\ h.reproSeq \in Nat /\ h.mgrReproSeq \in [Mgr -> Nat]
      /\ h.reproSeqFile \in [Mgr -> Nat] /\ h.given \in [Mgr -> [Repro -> Nat]]
  BY <1>1, Fields
<1>3. /\ g \in HubRec
      /\ g.reproSeq = h.reproSeq + 1
      /\ g.repros = [h.repros EXCEPT ![r] = h.reproSeq + 1]
      /\ g.mgrReproSeq = h.mgrReproSeq /\ g.reproSeqFile = h.reproSeqFile
      /\ g.ownRepros = h.ownRepros /\ g.given = h.given /\ g.managers = h.managers
      /\ g.connected = h.connected /\ CorpusAlone(h, g)
  BY <1>1, ReproAdded DEF CorpusAlone
<1> HIDE DEF g
<1>4. /\ g.repros[r] = h.reproSeq + 1
      /\ \A s \in Repro : s # r => g.repros[s] = h.repros[s] /\ g.repros[s] <= h.reproSeq
  BY <1>1, <1>2, <1>3 DEF ReproPart
<1>5. \A s \in Repro : g.repros[s] <= g.reproSeq
  BY <1>2, <1>3, <1>4
<1>6. ASSUME NEW s \in Repro, NEW t \in Repro, g.repros[s] # 0, g.repros[s] = g.repros[t]
      PROVE  s = t
  <2>1. CASE s = r \/ t = r
    BY <1>2, <1>4, <1>6, <2>1
  <2>2. CASE s # r /\ t # r
    BY <1>1, <1>4, <1>6, <2>2 DEF ReproPart
  <2> QED BY <2>1, <2>2
<1>7. \A k \in Mgr : g.reproSeqFile[k] <= g.mgrReproSeq[k] /\ g.mgrReproSeq[k] <= g.reproSeq
  BY <1>1, <1>3 DEF ReproPart
<1>8. \A k \in Mgr : g.mgrReproSeq[k] <= g.reproSeq + 1
  BY <1>2, <1>3, <1>7
<1>9. ASSUME NEW k \in Mgr, NEW s \in Repro
      PROVE  /\ g.given[k][s] <= 1
             /\ g.given[k][s] # 0 => g.repros[s] # 0 /\ g.repros[s] <= g.reproSeqFile[k]
  <2>1. g.given[k][s] # 0 => s # r
    BY <1>1, <1>3 DEF ReproPart
  <2> QED BY <1>1, <1>3, <1>4, <2>1 DEF ReproPart
<1>10. ReproPart(g)
  <2>1. \A k \in Mgr \ g.managers : g.reproSeqFile[k] = 0
    BY <1>1, <1>3 DEF ReproPart
  <2> QED BY <1>5, <1>6, <1>7, <1>8, <1>9, <2>1 DEF ReproPart
<1>11. ASSUME NEW k \in Mgr PROVE Kept(h, g, k)
  <2>1. PendingRepros(h, k) \subseteq PendingRepros(g, k)
    <3>1. ASSUME NEW s \in PendingRepros(h, k) PROVE s \in PendingRepros(g, k)
      <4>1. s \in Repro /\ h.repros[s] > h.mgrReproSeq[k]
        BY DEF PendingRepros
      <4>2. s # r
        BY <1>2, <4>1
      <4> QED BY <1>3, <1>4, <4>1, <4>2 DEF PendingRepros
    <3> QED BY <3>1
  <2> QED BY <1>3, <2>1 DEF Kept
<1>12. h.connected \subseteq h.managers => Caught(g)
  BY <1>3, <1>7 DEF Caught
<1>13. CorpusPart(g, g.corpusSeq)
  BY <1>1, <1>3, AloneCorpus
<1> QED BY <1>3, <1>10, <1>11, <1>12, <1>13 DEF g, Durable

LEMMA GivenKeeps ==
  ASSUME NEW h, Durable(h), Caught(h), NEW m \in h.managers
  PROVE  LET g == PendingRepro(h, m)
         IN  Durable(g) /\ CorpusAlone(h, g) /\ Caught(g) /\ \A k \in Mgr : Kept(h, g, k)
<1> DEFINE g == PendingRepro(h, m)
           rs == PendingRepros(h, m)
<1>1. h \in HubRec /\ CorpusPart(h, h.corpusSeq) /\ ReproPart(h)
  BY DEF Durable
<1>2. /\ m \in Mgr /\ h.repros \in [Repro -> Nat] /\ h.reproSeq \in Nat /\ h.mgrReproSeq \in [Mgr -> Nat]
      /\ h.reproSeqFile \in [Mgr -> Nat] /\ h.ownRepros \in [Mgr -> SUBSET Repro]
      /\ h.given \in [Mgr -> [Repro -> Nat]]
  BY <1>1, Fields
<1>3. /\ g \in HubRec
      /\ \/ h.mgrReproSeq[m] = h.reproSeq /\ g = h
         \/ /\ rs = {}
            /\ g.mgrReproSeq = [h.mgrReproSeq EXCEPT ![m] = h.reproSeq]
            /\ g.reproSeqFile = [h.reproSeqFile EXCEPT ![m] = h.reproSeq]
            /\ g.given = h.given
         \/ \E r \in rs :
              /\ \A s \in rs : h.repros[r] <= h.repros[s]
              /\ g.mgrReproSeq = [h.mgrReproSeq EXCEPT ![m] = h.repros[r]]
              /\ g.reproSeqFile = [h.reproSeqFile EXCEPT ![m] = h.repros[r]]
              /\ g.given = [h.given EXCEPT ![m] = [h.given[m] EXCEPT ![r] = h.given[m][r] + 1]]
      /\ g.corpus = h.corpus /\ g.repros = h.repros /\ g.corpusSeq = h.corpusSeq
      /\ g.reproSeq = h.reproSeq /\ g.managers = h.managers
      /\ g.connected = h.connected /\ g.mgrCorpus = h.mgrCorpus
      /\ g.mgrCorpusSeq = h.mgrCorpusSeq /\ g.ownRepros = h.ownRepros
      /\ g.passed = h.passed
  <2>1. m \in Mgr /\ h \in HubRec
    BY <1>1, <1>2
  <2> QED BY <2>1, ReproGiven, Zenon
<1> HIDE DEF g
<1>4. CorpusAlone(h, g)
  BY <1>3, Zenon DEF CorpusAlone
<1>5. CorpusPart(g, g.corpusSeq)
  BY <1>1, <1>4, AloneCorpus
<1>6. \A k \in Mgr : h.reproSeqFile[k] <= h.mgrReproSeq[k] /\ h.mgrReproSeq[k] <= h.reproSeq
  BY <1>1 DEF ReproPart, Caught
(* The manager's number is n from now on.                                  *)
<1>7. ASSUME NEW n \in Nat, n <= h.reproSeq, h.mgrReproSeq[m] <= n,
             g.mgrReproSeq = [h.mgrReproSeq EXCEPT ![m] = n],
             g.reproSeqFile = [h.reproSeqFile EXCEPT ![m] = n],
             \A s \in PendingRepros(h, m) : h.repros[s] > n \/ g.given[m][s] > 0,
             \A k \in Mgr, s \in Repro :
               /\ g.given[k][s] <= 1
               /\ h.given[k][s] > 0 => g.given[k][s] > 0
               /\ g.given[k][s] # 0 => h.repros[s] # 0 /\ (h.repros[s] <= h.reproSeqFile[k] \/ (k = m /\ h.repros[s] <= n))
      PROVE  ReproPart(g) /\ Caught(g) /\ \A k \in Mgr : Kept(h, g, k)
  <2>1. \A k \in Mgr : /\ g.mgrReproSeq[k] = IF k = m THEN n ELSE h.mgrReproSeq[k]
                       /\ g.reproSeqFile[k] = IF k = m THEN n ELSE h.reproSeqFile[k]
    BY <1>2, <1>7
  <2>2. \A k \in Mgr : /\ g.reproSeqFile[k] <= g.mgrReproSeq[k] /\ g.mgrReproSeq[k] <= g.reproSeq
                       /\ g.mgrReproSeq[k] <= g.reproSeq + 1 /\ h.reproSeqFile[k] <= g.reproSeqFile[k]
                       /\ g.reproSeqFile[k] \in Nat
    <3>1. g.reproSeq = h.reproSeq
      BY <1>3
    <3> QED BY <1>2, <1>6, <1>7, <2>1, <3>1
  <2>3. ASSUME NEW k \in Mgr, NEW s \in Repro, g.given[k][s] # 0
        PROVE  g.repros[s] # 0 /\ g.repros[s] <= g.reproSeqFile[k]
    <3>1. h.repros[s] # 0 /\ (h.repros[s] <= h.reproSeqFile[k] \/ (k = m /\ h.repros[s] <= n))
      BY <1>7, <2>3
    <3>2. g.repros[s] = h.repros[s] /\ h.repros[s] \in Nat /\ h.reproSeqFile[k] \in Nat
      BY <1>2, <1>3
    <3> QED BY <2>1, <2>2, <3>1, <3>2
  <2>4. \A k \in Mgr \ g.managers : g.reproSeqFile[k] = 0
    BY <1>1, <1>3, <2>1 DEF ReproPart
  <2>5. ReproPart(g)
    <3>1. /\ \A r \in Repro : g.repros[r] <= g.reproSeq
          /\ \A r, s \in Repro : g.repros[r] # 0 /\ g.repros[r] = g.repros[s] => r = s
      BY <1>1, <1>3 DEF ReproPart
    <3> QED BY <1>7, <2>2, <2>3, <2>4, <3>1 DEF ReproPart
  <2>6. Caught(g)
    BY <1>3, <2>2 DEF Caught
  <2>7. ASSUME NEW k \in Mgr PROVE Kept(h, g, k)
    <3>1. h.reproSeqFile[k] # 0 => g.reproSeqFile[k] # 0
      BY <1>2, <2>2
    <3>2. ASSUME NEW s \in PendingRepros(h, k) PROVE s \in PendingRepros(g, k) \/ g.given[k][s] > 0
      <4>1. s \in Repro /\ h.repros[s] > h.mgrReproSeq[k] /\ s \notin h.ownRepros[k] /\ s \in Supports[k]
        BY DEF PendingRepros
      <4>2. CASE k = m
        BY <1>3, <1>7, <2>1, <4>1, <4>2 DEF PendingRepros
      <4>3. CASE k # m
        BY <1>3, <2>1, <4>1, <4>3 DEF PendingRepros
      <4> QED BY <4>2, <4>3
    <3> QED BY <1>7, <3>1, <3>2 DEF Kept
  <2> QED BY <2>5, <2>6, <2>7
<1>8. ASSUME g = h
      PROVE  ReproPart(g) /\ Caught(g) /\ \A k \in Mgr : Kept(h, g, k)
  BY <1>1, <1>8, KeptSame DEF ReproPart
<1>9. ASSUME rs = {},
             g.mgrReproSeq = [h.mgrReproSeq EXCEPT ![m] = h.reproSeq],
             g.reproSeqFile = [h.reproSeqFile EXCEPT ![m] = h.reproSeq],
             g.given = h.given
      PROVE  ReproPart(g) /\ Caught(g) /\ \A k \in Mgr : Kept(h, g, k)
  <2>1. \A k \in Mgr, s \in Repro :
          /\ g.given[k][s] <= 1
          /\ h.given[k][s] > 0 => g.given[k][s] > 0
          /\ g.given[k][s] # 0 => h.repros[s] # 0 /\ h.repros[s] <= h.reproSeqFile[k]
    BY <1>1, <1>9 DEF ReproPart
  <2>2. h.reproSeq \in Nat /\ h.reproSeq <= h.reproSeq /\ h.mgrReproSeq[m] <= h.reproSeq
    BY <1>2, <1>6
  <2>3. \A k \in Mgr, s \in Repro :
          /\ g.given[k][s] <= 1
          /\ h.given[k][s] > 0 => g.given[k][s] > 0
          /\ g.given[k][s] # 0 =>
               h.repros[s] # 0 /\ (h.repros[s] <= h.reproSeqFile[k] \/ (k = m /\ h.repros[s] <= h.reproSeq))
    BY <2>1, Zenon
  <2>4. \A s \in PendingRepros(h, m) : h.repros[s] > h.reproSeq \/ g.given[m][s] > 0
    BY <1>9
  <2> QED BY <1>7, <1>9, <2>2, <2>3, <2>4, Zenon
<1>10. ASSUME NEW r \in rs,
              \A s \in rs : h.repros[r] <= h.repros[s],
              g.mgrReproSeq = [h.mgrReproSeq EXCEPT ![m] = h.repros[r]],
              g.reproSeqFile = [h.reproSeqFile EXCEPT ![m] = h.repros[r]],
              g.given = [h.given EXCEPT ![m] = [h.given[m] EXCEPT ![r] = h.given[m][r] + 1]]
       PROVE  ReproPart(g) /\ Caught(g) /\ \A k \in Mgr : Kept(h, g, k)
  <2>1. r \in Repro /\ h.repros[r] > h.mgrReproSeq[m]
    BY DEF PendingRepros
  <2>2. h.repros[r] \in Nat /\ h.repros[r] <= h.reproSeq /\ h.mgrReproSeq[m] <= h.repros[r] /\ h.repros[r] # 0
    BY <1>1, <1>2, <2>1 DEF ReproPart
  <2>3. h.given[m][r] = 0
    <3>1. h.given[m][r] # 0 => h.repros[r] <= h.reproSeqFile[m]
      BY <1>1, <1>2, <2>1 DEF ReproPart
    <3>2. h.reproSeqFile[m] <= h.mgrReproSeq[m] /\ h.reproSeqFile[m] \in Nat /\ h.mgrReproSeq[m] \in Nat
      BY <1>2, <1>6
    <3> QED BY <2>1, <2>2, <3>1, <3>2
  <2>4. g.given[m][r] = 1 /\ \A k \in Mgr, s \in Repro : k # m \/ s # r => g.given[k][s] = h.given[k][s]
    <3>1. h.given[m] \in [Repro -> Nat]
      BY <1>2
    <3> QED BY <1>2, <1>10, <2>1, <2>3, <3>1
  <2>5. ASSUME NEW s \in PendingRepros(h, m) PROVE h.repros[s] > h.repros[r] \/ g.given[m][s] > 0
    <3>1. s \in Repro /\ h.repros[r] <= h.repros[s] /\ h.repros[s] \in Nat
      BY <1>2, <1>10 DEF PendingRepros
    <3>2. s # r => h.repros[s] # h.repros[r]
      BY <1>1, <2>1, <2>2, <3>1 DEF ReproPart
    <3> QED BY <2>2, <2>4, <3>1, <3>2
  <2>6. ASSUME NEW k \in Mgr, NEW s \in Repro
        PROVE  /\ g.given[k][s] <= 1
               /\ h.given[k][s] > 0 => g.given[k][s] > 0
               /\ g.given[k][s] # 0 => h.repros[s] # 0 /\ (h.repros[s] <= h.reproSeqFile[k] \/ (k = m /\ h.repros[s] <= h.repros[r]))
    <3>1. CASE k = m /\ s = r
      BY <2>2, <2>4, <3>1
    <3>2. CASE k # m \/ s # r
      <4>1. g.given[k][s] = h.given[k][s]
        BY <2>4, <3>2
      <4>2. h.given[k][s] <= 1 /\ (h.given[k][s] # 0 => h.repros[s] # 0 /\ h.repros[s] <= h.reproSeqFile[k])
        BY <1>1 DEF ReproPart
      <4> QED BY <4>1, <4>2, Zenon
    <3> QED BY <3>1, <3>2
  <2> QED BY <1>7, <1>10, <2>2, <2>5, <2>6, Zenon
<1>11. ReproPart(g) /\ Caught(g) /\ \A k \in Mgr : Kept(h, g, k)
  BY <1>3, <1>8, <1>9, <1>10, Zenon
<1> QED BY <1>3, <1>4, <1>5, <1>11 DEF g, Durable

-----------------------------------------------------------------------------
(* The records of Connect.  createManager ...                              *)
Joined(h, m) ==
  IF m \in h.managers THEN h ELSE [h EXCEPT !.managers = @ \cup {m}, !.mgrReproSeq[m] = h.reproSeq]

LEMMA JoinKeeps ==
  ASSUME NEW h, Durable(h), Caught(h), NEW m \in Mgr
  PROVE  LET g == Joined(h, m)
         IN  /\ Durable(g) /\ Near(h, g) /\ Caught(g) /\ m \in g.managers
             /\ \A k \in Mgr : Kept(h, g, k)
             /\ g.reproSeq = h.reproSeq /\ g.connected = h.connected /\ g.mgrCorpus = h.mgrCorpus
             /\ g.corpus = h.corpus /\ g.passed = h.passed
<1>1. CASE m \in h.managers
  BY <1>1, KeptSame DEF Joined, Near
<1>2. CASE m \notin h.managers
  <2> DEFINE F1 == h.managers \cup {m}
             F2 == [h.mgrReproSeq EXCEPT ![m] = h.reproSeq]
             g == Joined(h, m)
  <2>1. h \in HubRec /\ CorpusPart(h, h.corpusSeq) /\ ReproPart(h)
    BY DEF Durable
  <2>2. /\ h.managers \in SUBSET Mgr /\ h.mgrReproSeq \in [Mgr -> Nat] /\ h.reproSeq \in Nat
        /\ h.reproSeqFile \in [Mgr -> Nat]
    BY <2>1, Fields
  <2>3. g = [h EXCEPT !.managers = F1, !.mgrReproSeq = F2]
    BY <1>2 DEF Joined
  <2>4. /\ F1 \in SUBSET Mgr /\ m \in F1 /\ h.managers \subseteq F1 /\ F2 \in [Mgr -> Nat]
        /\ F2[m] = h.reproSeq /\ \A k \in Mgr : k # m => F2[k] = h.mgrReproSeq[k]
    BY <2>2
  <2> HIDE DEF F1, F2, g
  <2>5. /\ g \in HubRec /\ g.managers = F1 /\ g.mgrReproSeq = F2
        /\ g.corpus = h.corpus /\ g.repros = h.repros /\ g.corpusSeq = h.corpusSeq /\ g.reproSeq = h.reproSeq
        /\ g.connected = h.connected /\ g.mgrCorpus = h.mgrCorpus /\ g.mgrCorpusSeq = h.mgrCorpusSeq
        /\ g.reproSeqFile = h.reproSeqFile /\ g.ownRepros = h.ownRepros
        /\ g.passed = h.passed /\ g.given = h.given
    BY <2>1, <2>3, <2>4, Zenon DEF HubRec
  <2>6. CorpusPart(g, g.corpusSeq) /\ Near(h, g)
    BY <2>1, <2>4, <2>5 DEF CorpusPart, Near
  <2>7. \A k \in Mgr : h.reproSeqFile[k] <= h.mgrReproSeq[k] /\ h.mgrReproSeq[k] <= h.reproSeq
    BY <2>1 DEF ReproPart, Caught
  <2>8. \A k \in Mgr : /\ g.reproSeqFile[k] <= g.mgrReproSeq[k] /\ g.mgrReproSeq[k] <= g.reproSeq
                       /\ g.mgrReproSeq[k] <= g.reproSeq + 1
    BY <2>2, <2>4, <2>5, <2>7
  <2>9. \A k \in Mgr \ g.managers : g.reproSeqFile[k] = 0
    BY <2>1, <2>4, <2>5 DEF ReproPart
  <2>10. ReproPart(g)
    BY <2>1, <2>5, <2>8, <2>9 DEF ReproPart
  <2>11. Caught(g)
    BY <2>4, <2>5, <2>8 DEF Caught
  <2>12. ASSUME NEW k \in Mgr PROVE Kept(h, g, k)
    <3>1. h.reproSeqFile[m] = 0
      BY <1>2, <2>1 DEF ReproPart
    <3> QED BY <2>4, <2>5, <3>1 DEF Kept, PendingRepros
  <2> QED BY <2>4, <2>5, <2>6, <2>10, <2>11, <2>12 DEF Durable, g
<1> QED BY <1>1, <1>2

(* ... the manager's number for programs ...                               *)
LEMMA ConnectKeeps ==
  ASSUME NEW h, Durable(h), Caught(h), NEW m \in h.managers, NEW n \in Nat, n <= h.mgrCorpusSeq[m]
  PROVE  LET g == [h EXCEPT !.connected = @ \cup {m}, !.mgrCorpusSeq[m] = n]
         IN  /\ Durable(g) /\ Near(h, g) /\ Caught(g) /\ ReproAlone(h, g)
             /\ g.connected = h.connected \cup {m} /\ g.mgrCorpus = h.mgrCorpus
             /\ g.corpus = h.corpus /\ g.passed = h.passed
<1> DEFINE F1 == h.connected \cup {m}
           F2 == [h.mgrCorpusSeq EXCEPT ![m] = n]
           g == [h EXCEPT !.connected = @ \cup {m}, !.mgrCorpusSeq[m] = n]
<1>1. h \in HubRec /\ CorpusPart(h, h.corpusSeq) /\ ReproPart(h)
  BY DEF Durable
<1>2. /\ h.managers \in SUBSET Mgr /\ h.connected \in SUBSET Mgr /\ h.mgrCorpusSeq \in [Mgr -> Nat]
      /\ h.corpus \in [Prog -> Nat] /\ h.corpusSeq \in Nat /\ m \in Mgr
  BY <1>1, Fields
<1>3. g = [h EXCEPT !.connected = F1, !.mgrCorpusSeq = F2]
  OBVIOUS
<1>4. /\ F1 \in SUBSET Mgr /\ F2 \in [Mgr -> Nat]
      /\ F2[m] = n /\ \A k \in Mgr : k # m => F2[k] = h.mgrCorpusSeq[k]
  BY <1>2
<1>5. F1 = h.connected \cup {m}
  OBVIOUS
<1> HIDE DEF F1, F2, g
<1>6. /\ g \in HubRec /\ g.connected = F1 /\ g.mgrCorpusSeq = F2
      /\ g.corpus = h.corpus /\ g.corpusSeq = h.corpusSeq
      /\ g.managers = h.managers /\ g.mgrCorpus = h.mgrCorpus /\ g.passed = h.passed
      /\ ReproAlone(h, g)
  BY <1>1, <1>3, <1>4, Zenon DEF HubRec, ReproAlone
<1>7. \A k \in Mgr : F2[k] \in Nat /\ F2[k] <= h.mgrCorpusSeq[k]
  BY <1>2, <1>4
<1>8. CorpusPart(g, g.corpusSeq)
  <2>1. \A k \in Mgr : g.mgrCorpusSeq[k] <= g.corpusSeq
    <3>1. \A k \in Mgr : h.mgrCorpusSeq[k] <= h.corpusSeq
      BY <1>1 DEF CorpusPart
    <3> QED BY <1>2, <1>6, <1>7, <3>1
  <2>2. \A k \in Mgr \ g.managers : g.mgrCorpusSeq[k] = 0
    BY <1>1, <1>4, <1>6 DEF CorpusPart
  <2>3. ASSUME NEW k \in Mgr, NEW p \in Prog \cap Supports[k], g.corpus[p] # 0, g.corpus[p] <= g.mgrCorpusSeq[k]
        PROVE  p \in g.passed[k]
    <3>1. h.corpus[p] # 0 /\ h.corpus[p] <= h.mgrCorpusSeq[k]
      BY <1>2, <1>6, <1>7, <2>3
    <3> QED BY <1>1, <1>6, <3>1 DEF CorpusPart
  <2> QED BY <1>1, <1>6, <2>1, <2>2, <2>3 DEF CorpusPart
<1>9. ReproPart(g)
  BY <1>1, <1>6, AloneKeeps
<1>10. Near(h, g) /\ Caught(g)
  BY <1>5, <1>6 DEF Near, Caught, ReproAlone
<1> QED BY <1>5, <1>6, <1>8, <1>9, <1>10 DEF Durable, g

(* ... and for repros.                                                     *)
LEMMA SkipKeeps ==
  ASSUME NEW h, Durable(h), Caught(h), NEW m \in h.managers,
         NEW n \in Nat, h.mgrReproSeq[m] <= n, n <= h.reproSeq
  PROVE  LET g == [h EXCEPT !.mgrReproSeq[m] = n, !.reproSeqFile[m] = n]
         IN  /\ Durable(g) /\ CorpusAlone(h, g) /\ Caught(g)
             /\ \A k \in Mgr : k # m \/ n = h.mgrReproSeq[m] => Kept(h, g, k)
<1> DEFINE F1 == [h.mgrReproSeq EXCEPT ![m] = n]
           F2 == [h.reproSeqFile EXCEPT ![m] = n]
           g == [h EXCEPT !.mgrReproSeq[m] = n, !.reproSeqFile[m] = n]
<1>1. h \in HubRec /\ CorpusPart(h, h.corpusSeq) /\ ReproPart(h)
  BY DEF Durable
<1>2. /\ h.managers \in SUBSET Mgr /\ h.mgrReproSeq \in [Mgr -> Nat] /\ h.reproSeqFile \in [Mgr -> Nat]
      /\ h.repros \in [Repro -> Nat] /\ h.reproSeq \in Nat /\ m \in Mgr
  BY <1>1, Fields
<1>3. g = [h EXCEPT !.mgrReproSeq = F1, !.reproSeqFile = F2]
  OBVIOUS
<1>4. /\ F1 \in [Mgr -> Nat] /\ F2 \in [Mgr -> Nat] /\ F1[m] = n /\ F2[m] = n
      /\ \A k \in Mgr : k # m => F1[k] = h.mgrReproSeq[k] /\ F2[k] = h.reproSeqFile[k]
  BY <1>2
<1> HIDE DEF F1, F2, g
<1>5. /\ g \in HubRec /\ g.mgrReproSeq = F1 /\ g.reproSeqFile = F2
      /\ g.repros = h.repros /\ g.reproSeq = h.reproSeq /\ g.managers = h.managers
      /\ g.connected = h.connected
      /\ g.ownRepros = h.ownRepros /\ g.given = h.given /\ CorpusAlone(h, g)
  BY <1>1, <1>3, <1>4, Zenon DEF HubRec, CorpusAlone
<1>6. \A k \in Mgr : h.reproSeqFile[k] <= h.mgrReproSeq[k] /\ h.mgrReproSeq[k] <= h.reproSeq
  BY <1>1 DEF ReproPart, Caught
<1>7. \A k \in Mgr : /\ g.reproSeqFile[k] <= g.mgrReproSeq[k] /\ g.mgrReproSeq[k] <= g.reproSeq
                     /\ g.mgrReproSeq[k] <= g.reproSeq + 1 /\ h.reproSeqFile[k] <= g.reproSeqFile[k]
                     /\ g.reproSeqFile[k] \in Nat
  <2>1. g.reproSeq = h.reproSeq /\ g.mgrReproSeq = F1 /\ g.reproSeqFile = F2
    BY <1>5
  <2> QED BY <1>2, <1>4, <1>6, <2>1
<1>8. ReproPart(g)
  <2>1. \A k \in Mgr \ g.managers : g.reproSeqFile[k] = 0
    BY <1>1, <1>4, <1>5 DEF ReproPart
  <2>2. ASSUME NEW k \in Mgr, NEW s \in Repro
        PROVE  g.given[k][s] <= 1 /\ (g.given[k][s] # 0 => g.repros[s] # 0 /\ g.repros[s] <= g.reproSeqFile[k])
    <3>1. h.given[k][s] <= 1 /\ (h.given[k][s] # 0 => h.repros[s] # 0 /\ h.repros[s] <= h.reproSeqFile[k])
      BY <1>1 DEF ReproPart
    <3>2. h.repros[s] \in Nat /\ h.reproSeqFile[k] \in Nat
      BY <1>2
    <3> QED BY <1>5, <1>7, <3>1, <3>2
  <2>3. /\ \A s \in Repro : g.repros[s] <= g.reproSeq
        /\ \A s, t \in Repro : g.repros[s] # 0 /\ g.repros[s] = g.repros[t] => s = t
    BY <1>1, <1>5 DEF ReproPart
  <2> QED BY <1>7, <2>1, <2>2, <2>3 DEF ReproPart
<1>9. Caught(g)
  BY <1>5, <1>7 DEF Caught
<1>10. ASSUME NEW k \in Mgr, k # m \/ n = h.mgrReproSeq[m] PROVE Kept(h, g, k)
  <2>1. h.reproSeqFile[k] # 0 => g.reproSeqFile[k] # 0
    BY <1>2, <1>7
  <2>2. g.mgrReproSeq[k] = h.mgrReproSeq[k]
    BY <1>4, <1>5, <1>10
  <2> QED BY <1>5, <2>1, <2>2 DEF Kept, PendingRepros
<1>11. CorpusPart(g, g.corpusSeq)
  BY <1>1, <1>5, AloneCorpus
<1> QED BY <1>5, <1>8, <1>9, <1>10, <1>11 DEF Durable, g

(* A part of a manager's corpus is deleted.                                *)
LEMMA DropKeeps ==
  ASSUME NEW h, Durable(h), NEW m \in Mgr, NEW S \in SUBSET Prog
  PROVE  LET g == [h EXCEPT !.mgrCorpus[m] = S]
         IN  /\ Durable(g) /\ Near(h, g) /\ ReproAlone(h, g)
             /\ g.mgrCorpus = [h.mgrCorpus EXCEPT ![m] = S] /\ g.connected = h.connected
             /\ Has(h, h.connected \ {m}) /\ S \subseteq Stored(h) \cap h.passed[m] => Has(g, g.connected)
<1> DEFINE F == [h.mgrCorpus EXCEPT ![m] = S]
           g == [h EXCEPT !.mgrCorpus[m] = S]
<1>1. h \in HubRec /\ CorpusPart(h, h.corpusSeq) /\ ReproPart(h)
  BY DEF Durable
<1>2. h.mgrCorpus \in [Mgr -> SUBSET Prog] /\ h.connected \in SUBSET Mgr
  BY <1>1, Fields
<1>3. g = [h EXCEPT !.mgrCorpus = F]
  OBVIOUS
<1>4. /\ F \in [Mgr -> SUBSET Prog] /\ F = [h.mgrCorpus EXCEPT ![m] = S]
      /\ F[m] = S /\ \A k \in Mgr : k # m => F[k] = h.mgrCorpus[k]
  BY <1>2
<1> HIDE DEF F, g
<1>5. /\ g \in HubRec /\ g.mgrCorpus = F /\ g.connected = h.connected /\ g.corpus = h.corpus
      /\ g.corpusSeq = h.corpusSeq /\ g.managers = h.managers /\ g.passed = h.passed
      /\ g.mgrCorpusSeq = h.mgrCorpusSeq /\ ReproAlone(h, g)
  BY <1>1, <1>3, <1>4, Zenon DEF HubRec, ReproAlone
<1>6. CorpusPart(g, g.corpusSeq) /\ Near(h, g) /\ Stored(g) = Stored(h)
  BY <1>1, <1>5 DEF CorpusPart, Near, Stored
<1>7. ReproPart(g)
  BY <1>1, <1>5, AloneKeeps
<1>8. ASSUME Has(h, h.connected \ {m}), S \subseteq Stored(h) \cap h.passed[m]
      PROVE  Has(g, g.connected)
  <2>1. ASSUME NEW k \in g.connected
        PROVE  g.mgrCorpus[k] \subseteq Stored(g) /\ g.mgrCorpus[k] \subseteq g.passed[k]
    <3>1. CASE k = m
      BY <1>4, <1>5, <1>6, <1>8, <3>1
    <3>2. CASE k # m
      BY <1>2, <1>4, <1>5, <1>6, <1>8, <3>2 DEF Has
    <3> QED BY <3>1, <3>2
  <2> QED BY <2>1 DEF Has
<1> QED BY <1>4, <1>5, <1>6, <1>7, <1>8 DEF Durable, g

(* What a call goes through: records as above, each near to the one before *)
(* it; what waits for the managers in ms stays.                            *)
Trail(steps, len, ms) ==
  /\ Len(steps) = len
  /\ \A i \in 1 .. len : Durable(steps[i])
  /\ \A i \in 1 .. len - 1 : Near(steps[i], steps[i + 1])
  /\ \A i \in 1 .. len : \A k \in ms : Kept(steps[1], steps[i], k)

LEMMA ConnectRecords ==
  ASSUME NEW h, Durable(h), Live(h), NEW m \in Mgr, NEW isFresh \in BOOLEAN, NEW corpus \in SUBSET Prog
  PROVE  LET steps == ConnectSteps(h, m, isFresh, corpus)
         IN  /\ Trail(steps, 8, IF isFresh THEN Mgr \ {m} ELSE Mgr)
             /\ steps[1] = h
             /\ Live(steps[8])
             /\ steps[8].mgrCorpus = [h.mgrCorpus EXCEPT ![m] = corpus \ Refused]
             /\ steps[8].connected = h.connected \cup {m}
<1> DEFINE h1 == Joined(h, m)
           n == IF isFresh THEN 0 ELSE h1.mgrCorpusSeq[m]
           h2 == [h1 EXCEPT !.connected = @ \cup {m}, !.mgrCorpusSeq[m] = n]
           seq == IF isFresh THEN h.reproSeq ELSE h2.mgrReproSeq[m]
           h3 == [h2 EXCEPT !.mgrReproSeq[m] = seq, !.reproSeqFile[m] = seq]
           none == {}
           c3 == [h3 EXCEPT !.mgrCorpus[m] = none]
           h4 == NewSeq(c3, corpus)
           h5 == AddToManager(h4, m, corpus)
           h6 == AddToHub(h5, corpus)
           h7 == Purge(h6)
           ms == IF isFresh THEN Mgr \ {m} ELSE Mgr
           steps == ConnectSteps(h, m, isFresh, corpus)
<1>0. steps = <<h, h1, h2, h3, h4, h5, h6, h7>>
  BY Zenon DEF ConnectSteps, Joined
<1> HIDE DEF steps
<1>1. /\ Durable(h1) /\ Near(h, h1) /\ Caught(h1) /\ m \in h1.managers
      /\ \A k \in Mgr : Kept(h, h1, k)
      /\ h1.reproSeq = h.reproSeq /\ h1.connected = h.connected /\ h1.mgrCorpus = h.mgrCorpus
      /\ h1.corpus = h.corpus /\ h1.passed = h.passed
  <2>1. Caught(h)
    BY DEF Live
  <2> QED BY <2>1, JoinKeeps
<1> HIDE DEF h1
<1>2. n \in Nat /\ n <= h1.mgrCorpusSeq[m]
  <2>1. h1.mgrCorpusSeq[m] \in Nat
    BY <1>1, Fields DEF Durable
  <2> QED BY <2>1
<1> HIDE DEF n
<1>3. /\ Durable(h2) /\ Near(h1, h2) /\ Caught(h2) /\ ReproAlone(h1, h2)
      /\ h2.connected = h1.connected \cup {m} /\ h2.mgrCorpus = h1.mgrCorpus
      /\ h2.corpus = h1.corpus /\ h2.passed = h1.passed
  BY <1>1, <1>2, ConnectKeeps, Zenon
<1> HIDE DEF h2
<1>4. /\ m \in h2.managers /\ seq \in Nat /\ h2.mgrReproSeq[m] <= seq /\ seq <= h2.reproSeq
      /\ ~isFresh => seq = h2.mgrReproSeq[m]
  <2>1. h2.mgrReproSeq[m] \in Nat /\ h2.reproSeq \in Nat /\ h2.managers = h1.managers /\ h2.reproSeq = h1.reproSeq
    BY <1>3, Fields DEF Durable, ReproAlone
  <2>2. h2.mgrReproSeq[m] <= h2.reproSeq
    BY <1>3 DEF Caught
  <2> QED BY <1>1, <2>1, <2>2
<1> HIDE DEF seq
<1>5. /\ Durable(h3) /\ CorpusAlone(h2, h3) /\ Caught(h3)
      /\ \A k \in Mgr : k # m \/ seq = h2.mgrReproSeq[m] => Kept(h2, h3, k)
  BY <1>3, <1>4, SkipKeeps, Zenon
<1> HIDE DEF h3
<1>6. /\ Durable(c3) /\ Near(h3, c3) /\ ReproAlone(h3, c3)
      /\ c3.mgrCorpus = [h3.mgrCorpus EXCEPT ![m] = none] /\ c3.connected = h3.connected
      /\ Has(h3, h3.connected \ {m}) /\ none \subseteq Stored(h3) \cap h3.passed[m] => Has(c3, c3.connected)
  <2>1. none \in SUBSET Prog
    OBVIOUS
  <2> HIDE DEF none
  <2> QED BY <1>5, <2>1, DropKeeps
<1>7. Has(c3, c3.connected)
  <2>1. h3.connected \ {m} \subseteq h.connected
    BY <1>1, <1>3, <1>5 DEF CorpusAlone
  <2>2. h3.corpus = h.corpus /\ h3.mgrCorpus = h.mgrCorpus /\ h3.passed = h.passed
    BY <1>1, <1>3, <1>5 DEF CorpusAlone
  <2>3. Has(h3, h3.connected \ {m})
    BY <2>1, <2>2 DEF Live, Has, Stored
  <2> QED BY <1>6, <2>3
<1> HIDE DEF c3
<1>8. /\ Durable(h4) /\ Durable(h5) /\ Durable(h6)
      /\ Near(c3, h4) /\ Near(h4, h5) /\ Near(h5, h6)
      /\ ReproAlone(c3, h4) /\ ReproAlone(h4, h5) /\ ReproAlone(h5, h6)
      /\ h6.mgrCorpus = [c3.mgrCorpus EXCEPT ![m] = c3.mgrCorpus[m] \cup (corpus \ Refused)]
      /\ h6.connected = c3.connected
      /\ Has(c3, c3.connected) => Has(h6, h6.connected)
      /\ Used(c3) => Used(h6)
  <2>1. Durable(c3)
    BY <1>6
  <2> QED BY <2>1, AddedHas, Zenon
<1>b. Has(h6, h6.connected)
  BY <1>7, <1>8, Zenon
<1>9. Near(h3, h4)
  <2>1. h4.corpus = c3.corpus
    BY <1>6, SeqKeeps
  <2>2. c3.corpus = h3.corpus
    BY <1>5 DEF c3, Durable, HubRec
  <2> QED BY <2>1, <2>2 DEF Near
<1> HIDE DEF h4, h5, h6
<1>10. /\ Durable(h7) /\ Near(h6, h7) /\ ReproAlone(h6, h7)
       /\ h7.connected = h6.connected /\ h7.mgrCorpus = h6.mgrCorpus
       /\ Has(h7, h7.connected) /\ Used(h7)
  BY <1>8, <1>b, PurgeKeeps
<1> HIDE DEF h7
<1>11. Near(h2, h3)
  BY <1>3, <1>5, AloneCorpus DEF Durable
<1>12. h7.connected = h.connected \cup {m}
  BY <1>1, <1>3, <1>5, <1>6, <1>8, <1>10 DEF CorpusAlone
<1>13. h7.mgrCorpus = [h.mgrCorpus EXCEPT ![m] = corpus \ Refused]
  <2>1. c3.mgrCorpus = [h.mgrCorpus EXCEPT ![m] = {}]
    BY <1>1, <1>3, <1>5, <1>6 DEF CorpusAlone
  <2>2. h.mgrCorpus \in [Mgr -> SUBSET Prog]
    BY Fields DEF Durable
  <2> QED BY <1>8, <1>10, <2>1, <2>2
<1>14. Live(h7)
  <2>1. h7.managers = h3.managers /\ h7.mgrReproSeq = h3.mgrReproSeq /\ h7.reproSeq = h3.reproSeq
    BY <1>6, <1>8, <1>10 DEF ReproAlone
  <2>2. h7.connected = h3.connected
    BY <1>6, <1>8, <1>10
  <2>3. Caught(h7)
    BY <1>5, <2>1, <2>2 DEF Caught
  <2> QED BY <1>10, <2>3 DEF Live
<1>15. ASSUME NEW k \in ms
       PROVE  /\ Kept(h, h, k) /\ Kept(h, h1, k) /\ Kept(h, h2, k) /\ Kept(h, h3, k)
              /\ Kept(h, h4, k) /\ Kept(h, h5, k) /\ Kept(h, h6, k) /\ Kept(h, h7, k)
  <2>1. k \in Mgr /\ (k # m \/ ~isFresh)
    OBVIOUS
  <2> HIDE DEF ms
  <2>2. Kept(h, h, k) /\ Kept(h, h1, k)
    BY <1>1, <2>1, KeptSame
  <2>3. Kept(h, h2, k)
    BY <1>1, <1>3, <2>1, <2>2, AloneKeeps, KeptOn DEF Durable
  <2>4. Kept(h, h3, k)
    BY <1>4, <1>5, <2>1, <2>3, KeptOn
  <2>5. Kept(h, c3, k)
    BY <1>5, <1>6, <2>1, <2>4, AloneKeeps, KeptOn DEF Durable
  <2>6. Kept(h, h4, k)
    BY <1>6, <1>8, <2>1, <2>5, AloneKeeps, KeptOn DEF Durable
  <2>7. Kept(h, h5, k)
    BY <1>8, <2>1, <2>6, AloneKeeps, KeptOn DEF Durable
  <2>8. Kept(h, h6, k)
    BY <1>8, <2>1, <2>7, AloneKeeps, KeptOn DEF Durable
  <2>9. Kept(h, h7, k)
    BY <1>8, <1>10, <2>1, <2>8, AloneKeeps, KeptOn DEF Durable
  <2> QED BY <2>2, <2>3, <2>4, <2>6, <2>7, <2>8, <2>9
<1> HIDE DEF ms
<1>16. /\ Len(steps) = 8 /\ steps[1] = h /\ steps[2] = h1 /\ steps[3] = h2 /\ steps[4] = h3
       /\ steps[5] = h4 /\ steps[6] = h5 /\ steps[7] = h6 /\ steps[8] = h7
  BY <1>0
<1>17. Trail(steps, 8, ms)
  <2>1. \A i \in 1 .. 8 : i \in {1, 2, 3, 4, 5, 6, 7, 8}
    OBVIOUS
  <2>2. \A i \in 1 .. 8 : Durable(steps[i])
    <3> SUFFICES ASSUME NEW i \in 1 .. 8 PROVE Durable(steps[i])
      OBVIOUS
    <3> QED BY <1>1, <1>3, <1>5, <1>8, <1>10, <1>16, <2>1
  <2>3. \A i \in 1 .. 8 - 1 : Near(steps[i], steps[i + 1])
    <3>1. 1 + 1 = 2 /\ 2 + 1 = 3 /\ 3 + 1 = 4 /\ 4 + 1 = 5 /\ 5 + 1 = 6 /\ 6 + 1 = 7 /\ 7 + 1 = 8
      OBVIOUS
    <3>2. \A i \in 1 .. 8 - 1 : i \in {1, 2, 3, 4, 5, 6, 7}
      OBVIOUS
    <3> QED BY <1>1, <1>3, <1>8, <1>9, <1>10, <1>11, <1>16, <3>1, <3>2
  <2>4. \A i \in 1 .. 8 : \A k \in ms : Kept(steps[1], steps[i], k)
    BY <1>15, <1>16, <2>1
  <2> QED BY <1>16, <2>2, <2>3, <2>4 DEF Trail
<1> QED BY <1>12, <1>13, <1>14, <1>16, <1>17 DEF steps, ms

(* The records of Sync.                                                    *)
LEMMA AloneCaught ==
  ASSUME NEW g, NEW h, ReproAlone(g, h), g.connected = h.connected, Caught(g)
  PROVE  Caught(h)
BY DEF ReproAlone, Caught

LEMMA SyncRecords ==
  ASSUME NEW h, Durable(h), Live(h), NEW m \in h.connected, NEW add \in SUBSET Prog, NEW del \in SUBSET Prog,
         NEW repros \in SUBSET Repro, NEW need \in BOOLEAN
  PROVE  LET steps == SyncSteps(h, m, add, del, repros, need)
         IN  /\ Trail(steps, 10, Mgr)
             /\ steps[1] = h
             /\ Live(steps[10])
             /\ steps[10].mgrCorpus = [h.mgrCorpus EXCEPT ![m] = (h.mgrCorpus[m] \ del) \cup (add \ Refused)]
             /\ steps[10].connected = h.connected
<1> DEFINE S == h.mgrCorpus[m] \ del
           h1 == [h EXCEPT !.mgrCorpus[m] = S]
           h2 == IF del = {} THEN h1 ELSE Purge(h1)
           h3 == NewSeq(h2, add)
           h4 == AddToManager(h3, m, add)
           h5 == AddToHub(h4, add)
           h6 == PendingInputs(h5, m)
           new == {r \in repros : h.repros[r] = 0}
           r0 == CHOOSE r \in new : TRUE
           h7 == IF new = {} THEN h6 ELSE OwnRepro(h6, m, r0)
           h8 == IF new = {} THEN h7 ELSE AddRepro(h7, r0)
           h9 == IF need THEN PendingRepro(h8, m) ELSE h8
           steps == SyncSteps(h, m, add, del, repros, need)
<1>0. steps = <<h, h1, h2, h3, h4, h5, h6, h7, h8, h9>>
  BY DEF SyncSteps
<1> HIDE DEF steps
<1>a. /\ h \in HubRec /\ m \in Mgr /\ m \in h.managers /\ h.mgrCorpus \in [Mgr -> SUBSET Prog]
      /\ h.repros \in [Repro -> Nat] /\ h.passed \in [Mgr -> SUBSET Prog]
      /\ Caught(h) /\ Has(h, h.connected) /\ Used(h)
  BY Fields DEF Durable, Live, Caught
<1>1. /\ Durable(h1) /\ Near(h, h1) /\ ReproAlone(h, h1)
      /\ h1.mgrCorpus = [h.mgrCorpus EXCEPT ![m] = S] /\ h1.connected = h.connected
      /\ Has(h1, h1.connected)
  <2>1. S \in SUBSET Prog /\ S \subseteq Stored(h) \cap h.passed[m]
    BY <1>a DEF Has
  <2>2. Has(h, h.connected \ {m})
    BY <1>a DEF Has
  <2> HIDE DEF S
  <2>3. /\ Durable(h1) /\ Near(h, h1) /\ ReproAlone(h, h1)
        /\ h1.mgrCorpus = [h.mgrCorpus EXCEPT ![m] = S] /\ h1.connected = h.connected
        /\ Has(h, h.connected \ {m}) /\ S \subseteq Stored(h) \cap h.passed[m] => Has(h1, h1.connected)
    BY <1>a, <2>1, DropKeeps, Zenon
  <2> HIDE DEF h1
  <2> QED BY <2>1, <2>2, <2>3, Zenon
<1>b. del = {} => Used(h1)
  <2> SUFFICES ASSUME del = {} PROVE Used(h1)
    OBVIOUS
  <2>1. h1.mgrCorpus = h.mgrCorpus
    BY <1>1, <1>a
  <2>2. h1.corpus = h.corpus
    BY <1>a DEF HubRec
  <2> HIDE DEF h1
  <2> QED BY <1>a, <2>1, <2>2 DEF Used, Stored
<1> HIDE DEF h1
<1>2. /\ Durable(h2) /\ Near(h1, h2) /\ ReproAlone(h1, h2)
      /\ h2.mgrCorpus = h1.mgrCorpus /\ h2.connected = h1.connected
      /\ Has(h2, h2.connected) /\ Used(h2)
  <2>1. CASE del = {}
    BY <1>1, <1>b, <2>1 DEF Near, ReproAlone
  <2>2. CASE del # {}
    BY <1>1, <2>2, PurgeKeeps
  <2> QED BY <2>1, <2>2
<1> HIDE DEF h2
<1>3. /\ Durable(h3) /\ Durable(h4) /\ Durable(h5)
      /\ Near(h2, h3) /\ Near(h3, h4) /\ Near(h4, h5)
      /\ ReproAlone(h2, h3) /\ ReproAlone(h3, h4) /\ ReproAlone(h4, h5)
      /\ h5.mgrCorpus = [h2.mgrCorpus EXCEPT ![m] = h2.mgrCorpus[m] \cup (add \ Refused)]
      /\ h5.connected = h2.connected
      /\ Has(h5, h5.connected) /\ Used(h5)
  <2>1. Durable(h2) /\ m \in Mgr /\ Has(h2, h2.connected) /\ Used(h2)
    BY <1>2, <1>a
  <2>2. /\ Durable(h3) /\ Durable(h4) /\ Durable(h5)
        /\ Near(h2, h3) /\ Near(h3, h4) /\ Near(h4, h5)
        /\ ReproAlone(h2, h3) /\ ReproAlone(h3, h4) /\ ReproAlone(h4, h5)
        /\ h5.mgrCorpus = [h2.mgrCorpus EXCEPT ![m] = h2.mgrCorpus[m] \cup (add \ Refused)]
        /\ h5.connected = h2.connected
        /\ Has(h2, h2.connected) => Has(h5, h5.connected)
        /\ Used(h2) => Used(h5)
    BY <2>1, AddedHas, Zenon
  <2> HIDE DEF h3, h4, h5
  <2> QED BY <2>1, <2>2, Zenon
<1> HIDE DEF h3, h4, h5
<1>4. ReproAlone(h, h5) /\ h5.connected = h.connected /\ Caught(h5)
  <2>1. ReproAlone(h, h5) /\ h5.connected = h.connected
    BY <1>1, <1>2, <1>3, Zenon DEF ReproAlone
  <2> QED BY <1>a, <2>1, AloneCaught, Zenon
<1>5. /\ Durable(h6) /\ Near(h5, h6) /\ ReproAlone(h5, h6)
      /\ h6.connected = h5.connected /\ h6.mgrCorpus = h5.mgrCorpus
      /\ Has(h6, h6.connected) /\ Used(h6)
  <2>1. m \in h5.connected
    BY <1>4
  <2> QED BY <1>3, <1>4, <2>1, InputsKeep
<1> HIDE DEF h6
<1>6. /\ Caught(h6) /\ h6.repros = h.repros /\ m \in h6.managers /\ h6.connected = h.connected
      /\ h6.connected \subseteq h6.managers
  BY <1>a, <1>4, <1>5, AloneCaught DEF ReproAlone, Caught
<1>7. /\ Durable(h7) /\ CorpusAlone(h6, h7) /\ \A k \in Mgr : Kept(h6, h7, k)
      /\ Durable(h8) /\ CorpusAlone(h7, h8) /\ Caught(h8) /\ \A k \in Mgr : Kept(h7, h8, k)
  <2>1. CASE new = {}
    BY <1>5, <1>6, <2>1, KeptSame, Zenon DEF CorpusAlone
  <2>2. CASE new # {}
    <3>1. r0 \in Repro /\ h6.repros[r0] = 0
      <4>1. r0 \in new
        BY <2>2
      <4> HIDE DEF r0
      <4> QED BY <1>6, <4>1
    <3> HIDE DEF r0
    <3>2. h7 = OwnRepro(h6, m, r0) /\ h8 = AddRepro(h7, r0)
      BY <2>2
    <3> HIDE DEF h7, h8
    <3>3. /\ Durable(h7) /\ CorpusAlone(h6, h7) /\ h7.repros = h6.repros
          /\ \A k \in Mgr : Kept(h6, h7, k)
      BY <1>5, <1>6, <3>1, <3>2, OwnKeeps
    <3>4. h7.repros[r0] = 0 /\ h7.connected \subseteq h7.managers
      BY <1>6, <3>1, <3>3 DEF CorpusAlone
    <3>5. Durable(h8) /\ CorpusAlone(h7, h8) /\ Caught(h8) /\ \A k \in Mgr : Kept(h7, h8, k)
      BY <3>1, <3>2, <3>3, <3>4, ReproKeeps
    <3> QED BY <3>3, <3>5, Zenon
  <2> QED BY <2>1, <2>2, Zenon
<1> HIDE DEF h7, h8
<1>8. Durable(h9) /\ CorpusAlone(h8, h9) /\ Caught(h9) /\ \A k \in Mgr : Kept(h8, h9, k)
  <2>1. m \in h8.managers
    BY <1>6, <1>7 DEF CorpusAlone
  <2>2. CASE need
    BY <1>7, <2>1, <2>2, GivenKeeps
  <2>3. CASE ~need
    BY <1>7, <2>3, KeptSame DEF CorpusAlone
  <2> QED BY <2>2, <2>3
<1> HIDE DEF h9
<1>9. /\ Near(h6, h7) /\ Near(h7, h8) /\ Near(h8, h9)
      /\ Has(h9, h9.connected) /\ Used(h9)
  BY <1>5, <1>7, <1>8, AloneCorpus DEF Durable
<1>10. Live(h9)
  BY <1>8, <1>9 DEF Live
<1>11. h9.connected = h.connected
  BY <1>6, <1>7, <1>8 DEF CorpusAlone
<1>12. h9.mgrCorpus = [h.mgrCorpus EXCEPT ![m] = (h.mgrCorpus[m] \ del) \cup (add \ Refused)]
  <2>1. h9.mgrCorpus = h5.mgrCorpus
    BY <1>5, <1>7, <1>8 DEF CorpusAlone
  <2> QED BY <1>a, <1>1, <1>2, <1>3, <2>1, Zenon
<1>13. ASSUME NEW k \in Mgr
       PROVE  /\ Kept(h, h, k) /\ Kept(h, h1, k) /\ Kept(h, h2, k) /\ Kept(h, h3, k) /\ Kept(h, h4, k)
              /\ Kept(h, h5, k) /\ Kept(h, h6, k) /\ Kept(h, h7, k) /\ Kept(h, h8, k) /\ Kept(h, h9, k)
  <2>1. ReproAlone(h, h)
    BY DEF ReproAlone
  <2>2. ReproAlone(h, h1) /\ ReproAlone(h, h2) /\ ReproAlone(h, h3) /\ ReproAlone(h, h4) /\ ReproAlone(h, h6)
    BY <1>1, <1>2, <1>3, <1>4, <1>5, Zenon DEF ReproAlone
  <2>3. /\ Kept(h, h, k) /\ Kept(h, h1, k) /\ Kept(h, h2, k) /\ Kept(h, h3, k) /\ Kept(h, h4, k)
        /\ Kept(h, h5, k) /\ Kept(h, h6, k)
    BY <1>4, <2>1, <2>2, AloneKeeps, Zenon DEF Durable
  <2>4. Kept(h, h7, k)
    BY <1>7, <2>3, KeptOn
  <2>5. Kept(h, h8, k)
    BY <1>7, <2>4, KeptOn
  <2>6. Kept(h, h9, k)
    BY <1>8, <2>5, KeptOn
  <2> QED BY <2>3, <2>4, <2>5, <2>6
<1>14. /\ Len(steps) = 10 /\ steps[1] = h /\ steps[2] = h1 /\ steps[3] = h2 /\ steps[4] = h3 /\ steps[5] = h4
       /\ steps[6] = h5 /\ steps[7] = h6 /\ steps[8] = h7 /\ steps[9] = h8 /\ steps[10] = h9
  BY <1>0
<1>15. Trail(steps, 10, Mgr)
  <2>1. \A i \in 1 .. 10 : i \in {1, 2, 3, 4, 5, 6, 7, 8, 9, 10}
    OBVIOUS
  <2>2. \A i \in 1 .. 10 : Durable(steps[i])
    BY <1>1, <1>2, <1>3, <1>5, <1>7, <1>8, <1>14, <2>1, Zenon
  <2>3. \A i \in 1 .. 10 - 1 : Near(steps[i], steps[i + 1])
    <3>1. /\ 1 + 1 = 2 /\ 2 + 1 = 3 /\ 3 + 1 = 4 /\ 4 + 1 = 5 /\ 5 + 1 = 6 /\ 6 + 1 = 7 /\ 7 + 1 = 8
          /\ 8 + 1 = 9 /\ 9 + 1 = 10
      OBVIOUS
    <3>2. \A i \in 1 .. 10 - 1 : i \in {1, 2, 3, 4, 5, 6, 7, 8, 9}
      OBVIOUS
    <3> QED BY <1>1, <1>2, <1>3, <1>5, <1>9, <1>14, <3>1, <3>2
  <2>4. \A i \in 1 .. 10 : \A k \in Mgr : Kept(steps[1], steps[i], k)
    BY <1>13, <1>14, <2>1
  <2> QED BY <1>14, <2>2, <2>3, <2>4 DEF Trail
<1> QED BY <1>10, <1>11, <1>12, <1>14, <1>15 DEF steps

(* A crash on the way.                                                     *)
LEMMA CrashSound ==
  ASSUME NEW steps, NEW n \in Nat, n # 0, NEW ms \in SUBSET Mgr, Trail(steps, n, ms), NEW g \in Crashes(steps)
  PROVE  Durable(g) /\ Live(g) /\ g.connected = {} /\ \A k \in ms : Kept(steps[1], g, k)
<1>1. \E i \in 1 .. n - 1 : \E ps \in SUBSET Prog : g = Made(Torn(steps[i], steps[i + 1], ps))
  <2> DEFINE T == {Torn(steps[i], steps[i + 1], ps) : i \in 1 .. Len(steps) - 1, ps \in SUBSET Prog}
  <2>1. Crashes(steps) = {Made(h) : h \in T}
    BY DEF Crashes
  <2>2. Len(steps) = n
    BY DEF Trail
  <2>3. ASSUME NEW t \in T PROVE \E i \in 1 .. n - 1 : \E ps \in SUBSET Prog : t = Torn(steps[i], steps[i + 1], ps)
    BY <2>2
  <2> HIDE DEF T
  <2>4. PICK t \in T : g = Made(t)
    BY <2>1
  <2> QED BY <2>3, <2>4
<1>2. PICK i \in 1 .. n - 1 : \E ps \in SUBSET Prog : g = Made(Torn(steps[i], steps[i + 1], ps))
  BY <1>1
<1>3. PICK ps \in SUBSET Prog : g = Made(Torn(steps[i], steps[i + 1], ps))
  BY <1>2
<1>4. i \in 1 .. n /\ i + 1 \in 1 .. n
  OBVIOUS
<1>5. Durable(steps[i]) /\ Durable(steps[i + 1]) /\ Near(steps[i], steps[i + 1])
  BY <1>4 DEF Trail
<1>6. Durable(g) /\ Live(g) /\ g.connected = {}
  BY <1>3, <1>5, Recovered
<1>7. ASSUME NEW k \in ms PROVE Kept(steps[1], g, k)
  <2>1. Kept(steps[i], g, k)
    BY <1>3, <1>5, KeptRecovered
  <2>2. Kept(steps[1], steps[i], k)
    BY <1>4 DEF Trail
  <2> QED BY <2>1, <2>2, KeptOn
<1> QED BY <1>6, <1>7

-----------------------------------------------------------------------------
(* The steps of the managers and of the hub.                               *)

LinkTypes ==
  /\ link \in [Mgr -> {"none", "connected", "idle", "more"}]
  /\ hubCorpus \in [Mgr -> SUBSET Prog] /\ newRepros \in [Mgr -> SUBSET Repro] /\ fresh \in [Mgr -> BOOLEAN]

HubInv == LinkTypes /\ Durable(hub) /\ Live(hub) /\ Mirrored

(* What waits for a manager that does not start afresh is kept in a step.  *)
StepKeeps == \A k \in Mgr : ~fresh[k] => Kept(hub, hub', k)

(* Nobody is connected after a crash of the hub.                           *)
LEMMA MirroredAfterCrash ==
  ASSUME hub'.connected = {}
  PROVE  Mirrored'
BY DEF Mirrored

LEMMA ConnectStep ==
  ASSUME HubInv, NEW m \in Mgr, NEW corpus \in SUBSET Prog, NEW repros \in SUBSET Repro, Connect(m, corpus, repros)
  PROVE  HubInv' /\ StepKeeps
<1> DEFINE steps == ConnectSteps(hub, m, fresh[m], corpus)
           ms == IF fresh[m] THEN Mgr \ {m} ELSE Mgr
<1>1. Durable(hub) /\ Live(hub) /\ fresh[m] \in BOOLEAN
  BY DEF HubInv, LinkTypes
<1>2. /\ Trail(steps, 8, ms) /\ steps[1] = hub /\ Live(steps[8])
      /\ steps[8].mgrCorpus = [hub.mgrCorpus EXCEPT ![m] = corpus \ Refused]
      /\ steps[8].connected = hub.connected \cup {m}
  BY <1>1, ConnectRecords
<1>3. /\ link[m] = "none" /\ newRepros' = [newRepros EXCEPT ![m] = Found(m, repros)]
      /\ \/ /\ hub' = steps[Len(steps)]
            /\ link' = [link EXCEPT ![m] = "connected"]
            /\ hubCorpus' = [hubCorpus EXCEPT ![m] = corpus]
            /\ fresh' = [fresh EXCEPT ![m] = FALSE]
         \/ hub' \in {steps[Len(steps)]} \cup Crashes(steps) /\ UNCHANGED <<link, hubCorpus, fresh>>
  BY DEF Connect
<1>4. \A k \in Mgr : ~fresh[k] => k \in ms
  BY <1>1
<1>5. ms \in SUBSET Mgr
  OBVIOUS
<1> HIDE DEF steps, ms
<1>6. Len(steps) = 8 /\ 8 \in Nat /\ 8 # 0
  BY <1>2 DEF Trail
<1>7. LinkTypes'
  <2>1. Found(m, repros) \in SUBSET Repro
    BY DEF Found, HubInv, LinkTypes
  <2>2. newRepros' \in [Mgr -> SUBSET Repro]
    BY <1>3, <2>1 DEF HubInv, LinkTypes
  <2>3. CASE /\ link' = [link EXCEPT ![m] = "connected"]
             /\ hubCorpus' = [hubCorpus EXCEPT ![m] = corpus]
             /\ fresh' = [fresh EXCEPT ![m] = FALSE]
    BY <2>2, <2>3 DEF HubInv, LinkTypes
  <2>4. CASE UNCHANGED <<link, hubCorpus, fresh>>
    BY <2>2, <2>4 DEF HubInv, LinkTypes
  <2> QED BY <1>3, <2>3, <2>4
<1>8. CASE hub' = steps[8]
  <2>1. Durable(hub') /\ Live(hub') /\ \A k \in ms : Kept(hub, hub', k)
    <3>1. 8 \in 1 .. 8
      OBVIOUS
    <3> QED BY <1>2, <1>8, <3>1 DEF Trail
  <2>2. ASSUME NEW k \in hub'.connected, link'[k] # "none"
        PROVE  hub'.mgrCorpus[k] = hubCorpus'[k] \ Refused
    <3>1. k \in Mgr /\ hub.mgrCorpus \in [Mgr -> SUBSET Prog]
      BY <1>1, <2>1, Fields DEF Durable
    <3>2. CASE k = m
      <4>1. link'[m] # "none" => hubCorpus' = [hubCorpus EXCEPT ![m] = corpus]
        BY <1>3
      <4> QED BY <1>2, <1>8, <2>2, <3>1, <3>2, <4>1 DEF HubInv, LinkTypes
    <3>3. CASE k # m
      <4>1. link'[k] = link[k] /\ hubCorpus'[k] = hubCorpus[k] /\ k \in hub.connected
        BY <1>2, <1>3, <1>8, <3>1, <3>3 DEF HubInv, LinkTypes
      <4> QED BY <1>2, <1>8, <2>2, <3>1, <3>3, <4>1 DEF HubInv, Mirrored
    <3> QED BY <3>2, <3>3
  <2>3. Mirrored'
    BY <2>2 DEF Mirrored
  <2> QED BY <1>4, <1>7, <2>1, <2>3 DEF HubInv, StepKeeps
<1>9. CASE hub' \in Crashes(steps)
  <2>1. Durable(hub') /\ Live(hub') /\ hub'.connected = {} /\ \A k \in ms : Kept(hub, hub', k)
    BY <1>2, <1>5, <1>6, <1>9, CrashSound
  <2> QED BY <1>4, <1>7, <2>1, MirroredAfterCrash DEF HubInv, StepKeeps
<1> QED BY <1>3, <1>6, <1>8, <1>9

LEMMA CallStep ==
  ASSUME HubInv, NEW m \in Mgr, NEW c \in SUBSET Prog, NEW add \in SUBSET Prog, NEW del \in SUBSET Prog,
         NEW repros \in SUBSET Repro, NEW need \in BOOLEAN,
         add = c \ hubCorpus[m], del = hubCorpus[m] \ c, link[m] # "none",
         CallSync(m, add, del, repros, need), hubCorpus' = [hubCorpus EXCEPT ![m] = c], UNCHANGED fresh
  PROVE  HubInv' /\ StepKeeps
<1> DEFINE steps == SyncSteps(hub, m, add, del, repros, need)
<1>1. Durable(hub) /\ Live(hub) /\ hub \in HubRec
  BY DEF HubInv, Durable
<1>2. ASSUME m \in hub.connected
      PROVE  /\ Trail(steps, 10, Mgr) /\ steps[1] = hub /\ Live(steps[10])
             /\ steps[10].mgrCorpus = [hub.mgrCorpus EXCEPT ![m] = (hub.mgrCorpus[m] \ del) \cup (add \ Refused)]
             /\ steps[10].connected = hub.connected
  BY <1>1, <1>2, SyncRecords
<1>3. \/ /\ m \in hub.connected /\ hub' = steps[Len(steps)]
         /\ \E l \in {"idle", "more"} : link' = [link EXCEPT ![m] = l]
         /\ newRepros' = [newRepros EXCEPT ![m] = {}]
      \/ /\ \/ m \in hub.connected /\ hub' \in {hub, steps[Len(steps)]} \cup Crashes(steps)
            \/ UNCHANGED hub
         /\ link' = [link EXCEPT ![m] = "none"]
         /\ newRepros' = [newRepros EXCEPT ![m] = repros]
  BY DEF CallSync
<1> HIDE DEF steps
<1>4. LinkTypes'
  <2>1. hubCorpus' \in [Mgr -> SUBSET Prog] /\ fresh' \in [Mgr -> BOOLEAN]
    BY DEF HubInv, LinkTypes
  <2>2. newRepros' \in [Mgr -> SUBSET Repro]
    BY <1>3 DEF HubInv, LinkTypes
  <2>3. link' \in [Mgr -> {"none", "connected", "idle", "more"}]
    BY <1>3 DEF HubInv, LinkTypes
  <2> QED BY <2>1, <2>2, <2>3 DEF LinkTypes
<1>5. ASSUME NEW k \in Mgr, k # m PROVE link'[k] = link[k] /\ hubCorpus'[k] = hubCorpus[k]
  BY <1>3, <1>5 DEF HubInv, LinkTypes
<1>6. CASE m \in hub.connected /\ hub' = steps[10]
  <2>1. Durable(hub') /\ Live(hub') /\ \A k \in Mgr : Kept(hub, hub', k)
    <3>1. 10 \in 1 .. 10
      OBVIOUS
    <3> QED BY <1>2, <1>6, <3>1 DEF Trail
  <2>2. ASSUME NEW k \in hub'.connected, link'[k] # "none"
        PROVE  hub'.mgrCorpus[k] = hubCorpus'[k] \ Refused
    <3>1. k \in Mgr /\ hub.mgrCorpus \in [Mgr -> SUBSET Prog] /\ k \in hub.connected
      BY <1>1, <1>2, <1>6, <2>1, <2>2, Fields DEF Durable
    <3>2. CASE k = m
      <4>1. hub.mgrCorpus[m] = hubCorpus[m] \ Refused
        BY <1>6 DEF HubInv, Mirrored
      <4>2. hub'.mgrCorpus[m] = (hub.mgrCorpus[m] \ del) \cup (add \ Refused)
        BY <1>2, <1>6, <3>1
      <4>3. hubCorpus'[m] = c
        BY DEF HubInv, LinkTypes
      <4> QED BY <3>2, <4>1, <4>2, <4>3
    <3>3. CASE k # m
      <4>1. hub'.mgrCorpus[k] = hub.mgrCorpus[k]
        BY <1>2, <1>6, <3>1, <3>3
      <4> QED BY <1>5, <2>2, <3>1, <3>3, <4>1 DEF HubInv, Mirrored
    <3> QED BY <3>2, <3>3
  <2>3. Mirrored'
    BY <2>2 DEF Mirrored
  <2> QED BY <1>4, <2>1, <2>3 DEF HubInv, StepKeeps
<1>7. CASE UNCHANGED hub /\ link' = [link EXCEPT ![m] = "none"]
  <2>1. StepKeeps
    BY <1>7, KeptSame DEF StepKeeps
  <2>2. hub.connected \in SUBSET Mgr /\ link'[m] = "none"
    BY <1>1, <1>7, Fields DEF HubInv, LinkTypes
  <2>3. Mirrored'
    BY <1>5, <1>7, <2>2 DEF HubInv, Mirrored
  <2> QED BY <1>1, <1>4, <1>7, <2>1, <2>3 DEF HubInv
<1>8. CASE m \in hub.connected /\ hub' \in Crashes(steps)
  <2>1. 10 \in Nat /\ 10 # 0 /\ Mgr \in SUBSET Mgr
    OBVIOUS
  <2>2. Durable(hub') /\ Live(hub') /\ hub'.connected = {} /\ \A k \in Mgr : Kept(hub, hub', k)
    BY <1>2, <1>8, <2>1, CrashSound
  <2> QED BY <1>4, <2>2, MirroredAfterCrash DEF HubInv, StepKeeps
<1>9. m \in hub.connected => Len(steps) = 10
  BY <1>2 DEF Trail
<1> QED BY <1>3, <1>6, <1>7, <1>8, <1>9, Zenon

LEMMA RestartStep ==
  ASSUME HubInv, RestartHub
  PROVE  HubInv' /\ StepKeeps
<1>1. hub \in HubRec /\ hub.corpusSeq \in Nat /\ CorpusPart(hub, hub.corpusSeq) /\ ReproPart(hub)
  BY Fields DEF HubInv, Durable
<1>2. hub' = Made(hub) /\ UNCHANGED <<link, hubCorpus, newRepros, fresh>>
  BY DEF RestartHub
<1>3. Durable(hub') /\ Live(hub') /\ hub'.connected = {}
  BY <1>1, <1>2, MadeSound
<1>4. StepKeeps
  BY <1>1, <1>2, KeptMade DEF StepKeeps
<1> QED BY <1>2, <1>3, <1>4, MirroredAfterCrash DEF HubInv, LinkTypes

LEMMA ManagerRestartStep ==
  ASSUME HubInv, NEW m \in Mgr, RestartManager(m)
  PROVE  HubInv' /\ StepKeeps
<1>1. /\ link' = [link EXCEPT ![m] = "none"] /\ hubCorpus' = [hubCorpus EXCEPT ![m] = {}]
      /\ newRepros' = [newRepros EXCEPT ![m] = {}]
      /\ \E b \in BOOLEAN : fresh' = [fresh EXCEPT ![m] = b]
      /\ UNCHANGED hub
  BY Zenon DEF RestartManager
<1>2. LinkTypes'
  BY <1>1 DEF HubInv, LinkTypes
<1>3. StepKeeps
  BY <1>1, KeptSame DEF StepKeeps
<1>4. hub.connected \in SUBSET Mgr
  BY Fields DEF HubInv, Durable
<1>5. Mirrored'
  BY <1>1, <1>4 DEF HubInv, Mirrored, LinkTypes
<1> QED BY <1>1, <1>2, <1>3, <1>5 DEF HubInv

LEMMA HubStep ==
  ASSUME HubInv, [Next]_vars
  PROVE  HubInv' /\ StepKeeps
<1>1. CASE UNCHANGED vars
  <2>1. UNCHANGED <<hub, link, hubCorpus, newRepros, fresh>>
    BY <1>1 DEF vars
  <2> QED BY <2>1, KeptSame DEF HubInv, LinkTypes, Mirrored, StepKeeps
<1>2. CASE RestartHub
  BY <1>2, RestartStep
<1>3. ASSUME NEW m \in Mgr, ManagerStep(m) PROVE HubInv' /\ StepKeeps
  <2>1. ASSUME NEW corpus \in SUBSET (Prog \cap Supports[m]),
               NEW repros \in {{}} \cup {{r} : r \in Repro \cap Supports[m]}
        PROVE  corpus \in SUBSET Prog /\ repros \in SUBSET Repro
    OBVIOUS
  <2>2. ASSUME NEW corpus \in SUBSET (Prog \cap Supports[m]),
               NEW repros \in {{}} \cup {{r} : r \in Repro \cap Supports[m]},
               Connect(m, corpus, repros)
        PROVE  HubInv' /\ StepKeeps
    BY <2>1, <2>2, ConnectStep
  <2>3. ASSUME NEW corpus \in SUBSET (Prog \cap Supports[m]),
               NEW repros \in {{}} \cup {{r} : r \in Repro \cap Supports[m]},
               NEW need \in BOOLEAN, Sync(m, corpus, repros, need)
        PROVE  HubInv' /\ StepKeeps
    <3>1. corpus \in SUBSET Prog /\ repros \in SUBSET Repro
      BY <2>1
    <3>2. /\ link[m] # "none" /\ hubCorpus' = [hubCorpus EXCEPT ![m] = corpus] /\ UNCHANGED fresh
          /\ CallSync(m, corpus \ hubCorpus[m], hubCorpus[m] \ corpus, repros, need)
      BY <2>3 DEF Sync
    <3>3. corpus \ hubCorpus[m] \in SUBSET Prog /\ hubCorpus[m] \ corpus \in SUBSET Prog
      BY <3>1 DEF HubInv, LinkTypes
    <3> QED BY <3>1, <3>2, <3>3, CallStep, Zenon
  <2>4. CASE SyncMore(m)
    <3> DEFINE none == {}
               c == hubCorpus[m]
    <3>1. /\ link[m] # "none" /\ UNCHANGED <<hubCorpus, fresh>>
          /\ CallSync(m, none, none, none, FALSE)
      BY <2>4, Zenon DEF SyncMore
    <3>2. c \in SUBSET Prog /\ hubCorpus' = [hubCorpus EXCEPT ![m] = c] /\ UNCHANGED fresh
      BY <3>1 DEF HubInv, LinkTypes
    <3>3. none = c \ hubCorpus[m] /\ none = hubCorpus[m] \ c
      OBVIOUS
    <3>4. none \in SUBSET Prog /\ none \in SUBSET Repro
      OBVIOUS
    <3> HIDE DEF none, c
    <3> QED BY <3>1, <3>2, <3>3, <3>4, CallStep, Zenon
  <2>5. CASE RestartManager(m)
    BY <2>5, ManagerRestartStep
  <2> QED BY <1>3, <2>2, <2>3, <2>4, <2>5 DEF ManagerStep
<1> QED BY <1>1, <1>2, <1>3 DEF Next

LEMMA HubInit ==
  ASSUME Init
  PROVE  HubInv
<1> DEFINE z == [m \in Mgr |-> 0]
           e == [m \in Mgr |-> {}]
           zp == [p \in Prog |-> 0]
           zr == [r \in Repro |-> 0]
           zz == [m \in Mgr |-> zr]
           none == {}
<1>1. hub = [corpus |-> zp, repros |-> zr, corpusSeq |-> 0, reproSeq |-> 0,
             managers |-> none, connected |-> none, mgrCorpus |-> e, mgrCorpusSeq |-> z,
             mgrReproSeq |-> z, reproSeqFile |-> z, ownRepros |-> e, passed |-> e, given |-> zz]
  BY DEF Init, Empty
<1>2. /\ z \in [Mgr -> Nat] /\ zp \in [Prog -> Nat] /\ zr \in [Repro -> Nat] /\ zz \in [Mgr -> [Repro -> Nat]]
      /\ e \in [Mgr -> SUBSET Prog] /\ e \in [Mgr -> SUBSET Repro] /\ none \in SUBSET Mgr
  OBVIOUS
<1>3. /\ \A m \in Mgr : z[m] = 0 /\ \A r \in Repro : zz[m][r] = 0
      /\ \A p \in Prog : zp[p] = 0
      /\ \A r \in Repro : zr[r] = 0
      /\ none = {}
  OBVIOUS
<1> HIDE DEF z, e, zp, zr, zz, none
<1>4. /\ hub \in HubRec /\ hub.corpus = zp /\ hub.repros = zr /\ hub.corpusSeq = 0 /\ hub.reproSeq = 0
      /\ hub.connected = none /\ hub.mgrCorpusSeq = z /\ hub.mgrReproSeq = z
      /\ hub.reproSeqFile = z /\ hub.given = zz
  BY <1>1, <1>2 DEF HubRec
<1>5. Durable(hub)
  BY <1>3, <1>4 DEF Durable, CorpusPart, ReproPart
<1>6. Live(hub)
  BY <1>3, <1>4 DEF Live, Caught, Has, Used, Stored
<1>7. LinkTypes
  BY DEF Init, LinkTypes
<1>8. Mirrored
  BY <1>3, <1>4 DEF Mirrored
<1> QED BY <1>5, <1>6, <1>7, <1>8 DEF HubInv

-----------------------------------------------------------------------------
(* The hub between two calls, whatever was lost or crashed: its numbers    *)
(* bound those it gave out, a manager's number has passed only programs    *)
(* that were sent to it, a manager was given only repros that its file has *)
(* passed.                                                                 *)
THEOREM HubInvariant == Spec => []HubInv
<1>1. Init => HubInv
  BY HubInit
<1>2. HubInv /\ [Next]_vars => HubInv'
  BY HubStep
<1> QED BY <1>1, <1>2, PTL DEF Spec

(* What HubConnector believes the hub to have (hubCorpus) is what the hub  *)
(* has of it, as long as both think that they are connected.               *)
THEOREM DifferencesAreRight == Spec => []Mirrored
<1>1. HubInv => Mirrored
  BY DEF HubInv
<1> QED BY <1>1, HubInvariant, PTL

(* purgeCorpus and the order of the flushes: the hub has the programs of   *)
(* the connected managers, and no others than some manager has.            *)
THEOREM HubHasWhatManagersHave == Spec => []HubExact
<1>1. HubInv => HubExact
  BY DEF HubInv, Live, Has, Used, HubExact
<1> QED BY <1>1, HubInvariant, PTL

(* pendingInputs: no program falls between two batches, for every size of  *)
(* a batch and every crash.                                                *)
THEOREM NoProgramSkipped == Spec => []NothingSkipped
<1>1. HubInv => NothingSkipped
  <2> SUFFICES ASSUME HubInv, NEW m \in hub.managers, NEW p \in Stored(hub) \cap Supports[m],
                      hub.corpus[p] <= hub.mgrCorpusSeq[m]
               PROVE  p \in hub.passed[m]
    BY DEF NothingSkipped
  <2>1. m \in Mgr
    BY Fields DEF HubInv, Durable
  <2>2. p \in Prog \cap Supports[m] /\ hub.corpus[p] # 0
    BY DEF Stored
  <2> QED BY <2>1, <2>2 DEF HubInv, Durable, CorpusPart
<1> QED BY <1>1, HubInvariant, PTL

(* PendingRepro: no manager is given a repro twice.                        *)
THEOREM ReprosGivenOnce == Spec => []ReproOnce
<1>1. HubInv => ReproOnce
  BY DEF HubInv, Durable, ReproPart, ReproOnce
<1> QED BY <1>1, HubInvariant, PTL

(* PendingRepro and Make: a repro that waits for a manager stays until the *)
(* manager is given it, through every crash.                               *)
THEOREM WaitingReprosAreKept == Spec => ReproKept
<1> DEFINE K == \A m \in hub.managers : hub.reproSeqFile[m] # 0 /\ ~fresh[m] =>
                  \A r \in PendingRepros(hub, m) : r \in PendingRepros(hub', m) \/ hub'.given[m][r] > 0
<1>1. HubInv /\ [Next]_vars => [K]_vars
  <2> SUFFICES ASSUME HubInv, [Next]_vars PROVE K
    OBVIOUS
  <2>1. StepKeeps
    BY HubStep
  <2>2. hub.managers \in SUBSET Mgr
    BY Fields DEF HubInv, Durable
  <2> QED BY <2>1, <2>2 DEF StepKeeps, Kept
<1> QED BY <1>1, HubInvariant, PTL DEF Spec, ReproKept
=============================================================================
