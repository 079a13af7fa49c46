---------------------------- MODULE VmLoopProofs ----------------------------
(***************************************************************************)
(* Proofs about VmLoop, for any number of VMs and of attempts, any titles  *)
(* and any split between fuzzing and reproduction.                         *)
(***************************************************************************)
EXTENDS VmLoop, FiniteSetTheorems, SequenceTheorems, TLAPS

USE SMT, Zenon, SMTT(30)    \* the provers of a step that names none, in this order

-----------------------------------------------------------------------------
(* Sequences without repetition.                                           *)
Inj(q) == \A i, j \in DOMAIN q : q[i] = q[j] => i = j

(* ResourcePool.Put appends VMs that are not in the pool.                  *)
LEMMA Appended ==
  ASSUME NEW S, NEW q \in Seq(S), NEW r \in Seq(S),
         Inj(q), Inj(r), Range(q) \cap Range(r) = {}
  PROVE  /\ q \o r \in Seq(S) /\ Inj(q \o r)
         /\ Range(q \o r) = Range(q) \cup Range(r)
<1>1. /\ q \o r \in Seq(S)
      /\ Len(q \o r) = Len(q) + Len(r)
      /\ \A i \in 1 .. Len(q) + Len(r) :
           (q \o r)[i] = IF i <= Len(q) THEN q[i] ELSE r[i - Len(q)]
      /\ DOMAIN (q \o r) = 1 .. Len(q) + Len(r)
  BY ConcatProperties
<1>2. /\ Len(q) \in Nat /\ DOMAIN q = 1 .. Len(q)
      /\ Len(r) \in Nat /\ DOMAIN r = 1 .. Len(r)
  OBVIOUS
<1>3. Range(q \o r) = Range(q) \cup Range(r)
  BY RangeConcatenation
<1>4. ASSUME NEW i \in DOMAIN (q \o r), NEW j \in DOMAIN (q \o r), (q \o r)[i] = (q \o r)[j]
      PROVE  i = j
  <2>1. CASE i <= Len(q) /\ j <= Len(q)
    BY <1>1, <1>2, <1>4, <2>1 DEF Inj
  <2>2. CASE i > Len(q) /\ j > Len(q)
    <3>1. i - Len(q) \in DOMAIN r /\ j - Len(q) \in DOMAIN r
      BY <1>1, <1>2, <2>2
    <3>2. r[i - Len(q)] = r[j - Len(q)]
      BY <1>1, <1>2, <1>4, <2>2
    <3> QED BY <1>1, <1>2, <3>1, <3>2 DEF Inj
  <2>3. ASSUME NEW k \in DOMAIN (q \o r), NEW l \in DOMAIN (q \o r),
               k <= Len(q), l > Len(q), (q \o r)[k] = (q \o r)[l]
        PROVE  FALSE
    <3>1. k \in DOMAIN q /\ l - Len(q) \in DOMAIN r
      BY <1>1, <1>2, <2>3
    <3>2. q[k] = r[l - Len(q)]
      BY <1>1, <1>2, <2>3
    <3> QED BY <3>1, <3>2 DEF Range
  <2> QED BY <1>1, <1>2, <1>4, <2>1, <2>2, <2>3
<1> QED BY <1>1, <1>3, <1>4 DEF Inj

(* ResourcePool.Take splits the pool.                                      *)
LEMMA Split ==
  ASSUME NEW S, NEW q \in Seq(S), Inj(q), NEW n \in Nat, n <= Len(q)
  PROVE  LET front == SubSeq(q, 1, Len(q) - n)
             back == SubSeq(q, Len(q) - n + 1, Len(q))
         IN  /\ front \in Seq(S) /\ Inj(front) /\ Len(front) = Len(q) - n
             /\ back \in Seq(S) /\ Inj(back) /\ Len(back) = n
             /\ Range(front) \cup Range(back) = Range(q)
             /\ Range(front) \cap Range(back) = {}
<1> DEFINE k == Len(q) - n
           front == SubSeq(q, 1, k)
           back == SubSeq(q, k + 1, Len(q))
<1>1. k \in Nat /\ Len(q) \in Nat /\ k <= Len(q) /\ DOMAIN q = 1 .. Len(q)
  OBVIOUS
<1>2. /\ front \in Seq(S) /\ Len(front) = k
      /\ \A i \in 1 .. k : front[i] = q[i]
  <2>1. \A i \in 1 .. k : q[i] \in S
    BY <1>1
  <2>2. /\ front \in Seq(S) /\ Len(front) = IF 1 <= k THEN k - 1 + 1 ELSE 0
        /\ \A i \in 1 .. k - 1 + 1 : front[i] = q[1 + i - 1]
    <3> HIDE DEF k
    <3> QED BY <1>1, <2>1, SubSeqProperties
  <2> HIDE DEF front, k
  <2> QED BY <1>1, <2>2
<1>3. /\ back \in Seq(S) /\ Len(back) = n
      /\ \A i \in 1 .. n : back[i] = q[k + i]
  BY <1>1, SubSeqProperties
<1>4. DOMAIN front = 1 .. k /\ DOMAIN back = 1 .. n
  BY <1>2, <1>3
<1> HIDE DEF front, back, k
<1>5. Inj(front)
  BY <1>1, <1>2, <1>4 DEF Inj
<1>6. Inj(back)
  <2> SUFFICES ASSUME NEW i \in 1 .. n, NEW j \in 1 .. n, back[i] = back[j] PROVE i = j
    BY <1>4 DEF Inj
  <2>1. k + i \in DOMAIN q /\ k + j \in DOMAIN q
    BY <1>1 DEF k
  <2>2. k + i = k + j
    BY <1>3, <2>1 DEF Inj
  <2> QED BY <1>1, <2>2
<1>7. Range(front) \cup Range(back) = Range(q)
  <2>1. Range(front) \subseteq Range(q)
    BY <1>1, <1>2, <1>4 DEF Range
  <2>2. Range(back) \subseteq Range(q)
    <3> SUFFICES ASSUME NEW i \in 1 .. n PROVE back[i] \in Range(q)
      BY <1>4 DEF Range
    <3>1. k + i \in DOMAIN q
      BY <1>1 DEF k
    <3> QED BY <1>3, <3>1 DEF Range
  <2>3. ASSUME NEW i \in DOMAIN q PROVE q[i] \in Range(front) \cup Range(back)
    <3>1. CASE i <= k
      BY <1>1, <1>2, <1>4, <3>1 DEF Range
    <3>2. CASE i > k
      <4>1. i - k \in 1 .. n /\ k + (i - k) = i
        BY <1>1, <3>2 DEF k
      <4>2. back[i - k] = q[i]
        BY <1>3, <4>1
      <4> QED BY <1>4, <4>1, <4>2 DEF Range
    <3> QED BY <1>1, <3>1, <3>2
  <2> QED BY <2>1, <2>2, <2>3 DEF Range
<1>8. Range(front) \cap Range(back) = {}
  <2> SUFFICES ASSUME NEW i \in 1 .. k, NEW j \in 1 .. n, front[i] = back[j] PROVE FALSE
    BY <1>4 DEF Range
  <2>1. i \in DOMAIN q /\ k + j \in DOMAIN q
    BY <1>1 DEF k
  <2>2. i = k + j
    BY <1>2, <1>3, <2>1 DEF Inj
  <2> QED BY <1>1, <2>2
<1> QED BY <1>2, <1>3, <1>5, <1>6, <1>7, <1>8 DEF front, back, k

LEMMA Single ==
  ASSUME NEW S, NEW x \in S
  PROVE  <<x>> \in Seq(S) /\ Inj(<<x>>) /\ Range(<<x>>) = {x}
BY DEF Inj, Range

LEMMA NoVMs ==
  ASSUME NEW S
  PROVE  <<>> \in Seq(S) /\ Inj(<<>>) /\ Range(<<>>) = {} /\ Len(<<>>) = 0
BY DEF Inj, Range

LEMMA HeadAndTail ==
  ASSUME NEW S, NEW q \in Seq(S), Inj(q), q # <<>>
  PROVE  /\ Head(q) \in S /\ Tail(q) \in Seq(S) /\ Inj(Tail(q))
         /\ Range(q) = {Head(q)} \cup Range(Tail(q))
         /\ Head(q) \notin Range(Tail(q))
<1>1. /\ Len(q) \in Nat /\ Len(q) > 0 /\ DOMAIN q = 1 .. Len(q)
      /\ Tail(q) \in Seq(S) /\ Len(Tail(q)) = Len(q) - 1
      /\ DOMAIN Tail(q) = 1 .. Len(q) - 1
      /\ \A i \in 1 .. Len(q) - 1 : Tail(q)[i] = q[i + 1]
      /\ Head(q) = q[1] /\ q[1] \in S
  BY HeadTailProperties
<1>2. \A i \in 1 .. Len(q) - 1 : i + 1 \in DOMAIN q
  BY <1>1
<1>3. Inj(Tail(q))
  BY <1>1, <1>2 DEF Inj
<1>4. Head(q) \notin Range(Tail(q))
  BY <1>1, <1>2 DEF Inj, Range
<1>5. Range(q) = {Head(q)} \cup Range(Tail(q))
  <2>1. ASSUME NEW i \in DOMAIN q PROVE q[i] \in {Head(q)} \cup Range(Tail(q))
    <3>1. CASE i = 1
      BY <1>1, <3>1
    <3>2. CASE i # 1
      <4>1. i - 1 \in 1 .. Len(q) - 1 /\ (i - 1) + 1 = i
        BY <1>1, <3>2
      <4>2. Tail(q)[i - 1] = q[i]
        BY <1>1, <4>1
      <4> QED BY <1>1, <4>1, <4>2 DEF Range
    <3> QED BY <3>1, <3>2
  <2>2. {Head(q)} \cup Range(Tail(q)) \subseteq Range(q)
    BY <1>1, <1>2 DEF Range
  <2> QED BY <2>1, <2>2 DEF Range
<1> QED BY <1>1, <1>3, <1>4, <1>5

-----------------------------------------------------------------------------
(* The inductive invariant.                                                *)
External == Crash("external repro", TRUE)
Wanted == {Crash(t, FALSE) : t \in Local} \cup {External}

ReproRecord ==
  [at : {"none", "test", "close", "strace", "sent"}, crash : Wanted \cup {NoCrash},
   vms : Seq(VM), boots : SUBSET VM, ready : SUBSET VM,
   result : {"none", "error", "other title"} \cup Local]

Types ==
  /\ pool \in Seq(VM) /\ booting \subseteq VM
  /\ inst \in [VM -> [at : {"none", "run", "done"}, crash : Crashes]]
  /\ repro \in [Slot -> ReproRecord]
  /\ pendingRepro \subseteq Wanted /\ reproQueue \in Seq(Wanted)
  /\ numReproducing \in Nat
  /\ failed \in [Title -> Nat]
  /\ FuzzingVMs \in 0 .. vmCount

(* What runRepro holds: its VMs, each once, and no more than it was given. *)
HoldsVMs(r) ==
  /\ Inj(r.vms) /\ Len(r.vms) <= instancesPerRepro
  /\ r.boots \cup r.ready \subseteq Range(r.vms)
  /\ r.at = "none" => r.vms = <<>>
  /\ r.at # "none" => r.crash \in Wanted
  /\ r.at \in {"test", "close"} => r.vms # <<>>
  /\ r.at \in {"strace", "sent"} => r.boots = {} /\ r.ready = {}

(* Every VM is in the pool, boots, fuzzes or is held by one reproduction.  *)
Held(s) == Range(repro[s].vms)
Used ==
  /\ Inj(pool)
  /\ Range(pool) \cap (booting \cup InstancesFuzzing) = {}
  /\ booting \cap InstancesFuzzing = {}
  /\ \A s \in Slot : Held(s) \cap (Range(pool) \cup booting \cup InstancesFuzzing) = {}
  /\ \A s, r \in Slot : s # r => Held(s) \cap Held(r) = {}

(* numReproducing counts the reproductions, and they have their share.     *)
Share ==
  /\ numReproducing = Cardinality(Running)
  /\ numReproducing * instancesPerRepro <= maxReproVMs

(* The titles of the reproductions that run and of those that wait.        *)
Titles ==
  /\ \A s, r \in Running : repro[s].crash.title = repro[r].crash.title => s = r
  /\ \A i, j \in DOMAIN reproQueue : reproQueue[i].title = reproQueue[j].title => i = j
  /\ \A s \in Running, i \in DOMAIN reproQueue : repro[s].crash.title # reproQueue[i].title
  /\ reproducing = {repro[s].crash.title : s \in Running}
                     \cup {reproQueue[i].title : i \in DOMAIN reproQueue}

(* Without a dashboard nothing comes from the hub.                         *)
OwnCrashes ==
  ~dash => \A c \in pendingRepro : ~c.fromHub

LoopInv ==
  /\ Types
  /\ \A s \in Slot : HoldsVMs(repro[s])
  /\ Used /\ Share /\ Titles /\ OwnCrashes /\ WorthTrying

-----------------------------------------------------------------------------
(* How the VMs change hands.                                               *)

LEMMA ReproSize ==
  ASSUME FuzzingVMs \in 0 .. vmCount
  PROVE  /\ instancesPerRepro \in Nat \ {0} /\ maxReproVMs \in Nat
         /\ maxReproVMs + FuzzingVMs = vmCount
BY VmLoopAssumption DEF instancesPerRepro, maxReproVMs

(* Nobody takes a VM.                                                      *)
LEMMA UsedKept ==
  ASSUME Used, pool' = pool, booting' \subseteq booting,
         InstancesFuzzing' \subseteq InstancesFuzzing,
         \A s \in Slot : Held(s)' \subseteq Held(s)
  PROVE  Used'
<1>1. Inj(pool)' /\ Range(pool)' = Range(pool)
  BY DEF Used, Inj, Range
<1>2. (Range(pool) \cap (booting \cup InstancesFuzzing) = {})'
  BY <1>1 DEF Used
<1>3. (booting \cap InstancesFuzzing = {})'
  BY DEF Used
<1>4. \A s \in Slot : Held(s)' \cap (Range(pool)' \cup booting' \cup InstancesFuzzing') = {}
  BY <1>1 DEF Used
<1>5. \A s, r \in Slot : s # r => Held(s)' \cap Held(r)' = {}
  BY DEF Used
<1> QED BY <1>1, <1>2, <1>3, <1>4, <1>5 DEF Used

(* VMs go back to the pool, and who had them has them no more.             *)
LEMMA UsedFreed ==
  ASSUME Used, Types, NEW vs \in Seq(VM), Inj(vs), pool' = pool \o vs,
         Range(vs) \cap Range(pool) = {},
         booting' \subseteq booting \ Range(vs),
         InstancesFuzzing' \subseteq InstancesFuzzing \ Range(vs),
         \A s \in Slot : Held(s)' \subseteq Held(s) \ Range(vs)
  PROVE  Used' /\ pool' \in Seq(VM)
<1>1. pool \in Seq(VM) /\ Inj(pool)
  BY DEF Used, Types
<1>2. pool' \in Seq(VM) /\ Inj(pool)' /\ Range(pool)' = Range(pool) \cup Range(vs)
  <2>1. /\ pool \o vs \in Seq(VM) /\ Inj(pool \o vs)
        /\ Range(pool \o vs) = Range(pool) \cup Range(vs)
    BY <1>1, Appended
  <2>2. Range(pool)' = Range(pool \o vs) /\ (Inj(pool)' <=> Inj(pool \o vs))
    BY DEF Range, Inj
  <2> QED BY <2>1, <2>2
<1>3. (Range(pool) \cap (booting \cup InstancesFuzzing) = {})'
  BY <1>2 DEF Used
<1>4. (booting \cap InstancesFuzzing = {})'
  BY DEF Used
<1>5. \A s \in Slot : Held(s)' \cap (Range(pool)' \cup booting' \cup InstancesFuzzing') = {}
  BY <1>2 DEF Used
<1>6. \A s, r \in Slot : s # r => Held(s)' \cap Held(r)' = {}
  BY DEF Used
<1> QED BY <1>2, <1>3, <1>4, <1>5, <1>6 DEF Used

(* VMs are taken out of the pool by an instance or by a reproduction.      *)
LEMMA UsedTaken ==
  ASSUME Used, Types, NEW n \in Nat, n <= Len(pool), pool' = Rest(n), booting' = booting,
         \/ /\ InstancesFuzzing' = InstancesFuzzing \cup Range(Taken(n))
            /\ \A s \in Slot : Held(s)' = Held(s)
         \/ /\ InstancesFuzzing' = InstancesFuzzing
            /\ \E z \in Slot : /\ Held(z)' = Range(Taken(n))
                               /\ \A s \in Slot \ {z} : Held(s)' = Held(s)
  PROVE  Used' /\ pool' \in Seq(VM)
<1>1. pool \in Seq(VM) /\ Inj(pool)
  BY DEF Used, Types
<1>2. /\ Rest(n) \in Seq(VM) /\ Inj(Rest(n))
      /\ Range(Rest(n)) \cup Range(Taken(n)) = Range(pool)
      /\ Range(Rest(n)) \cap Range(Taken(n)) = {}
  BY <1>1, Split DEF Rest, Taken
<1>3. pool' \in Seq(VM) /\ Inj(pool)' /\ Range(pool)' = Range(Rest(n))
  BY <1>2 DEF Inj, Range
<1> DEFINE V == Range(Taken(n))
           P == Range(pool)'
<1>4. P \subseteq Range(pool) /\ V \subseteq Range(pool) /\ P \cap V = {}
  BY <1>2, <1>3
<1> HIDE DEF V, P
<1>5. /\ Range(pool) \cap (booting \cup InstancesFuzzing) = {}
      /\ booting \cap InstancesFuzzing = {}
      /\ \A s \in Slot : Held(s) \cap (Range(pool) \cup booting \cup InstancesFuzzing) = {}
      /\ \A s, r \in Slot : s # r => Held(s) \cap Held(r) = {}
  BY DEF Used
<1>6. CASE /\ InstancesFuzzing' = InstancesFuzzing \cup Range(Taken(n))
           /\ \A s \in Slot : Held(s)' = Held(s)
  <2>1. InstancesFuzzing' = InstancesFuzzing \cup V
    BY <1>6 DEF V
  <2>2. P \cap (booting' \cup InstancesFuzzing') = {} /\ booting' \cap InstancesFuzzing' = {}
    BY <1>4, <1>5, <2>1
  <2>3. ASSUME NEW s \in Slot PROVE Held(s)' \cap (P \cup booting' \cup InstancesFuzzing') = {}
    BY <1>4, <1>5, <1>6, <2>1
  <2>4. ASSUME NEW s \in Slot, NEW r \in Slot, s # r PROVE Held(s)' \cap Held(r)' = {}
    BY <1>5, <1>6, <2>4
  <2> QED BY <1>3, <2>2, <2>3, <2>4 DEF Used, P
<1>7. ASSUME InstancesFuzzing' = InstancesFuzzing,
             NEW z \in Slot, Held(z)' = Range(Taken(n)),
             \A s \in Slot \ {z} : Held(s)' = Held(s)
      PROVE  Used'
  <2>1. Held(z)' = V
    BY <1>7 DEF V
  <2>2. P \cap (booting' \cup InstancesFuzzing') = {} /\ booting' \cap InstancesFuzzing' = {}
    BY <1>4, <1>5, <1>7
  <2>3. ASSUME NEW s \in Slot PROVE Held(s)' \cap (P \cup booting' \cup InstancesFuzzing') = {}
    <3>1. CASE s = z
      BY <1>4, <1>5, <1>7, <2>1, <3>1
    <3>2. CASE s # z
      BY <1>4, <1>5, <1>7, <3>2
    <3> QED BY <3>1, <3>2
  <2>4. ASSUME NEW s \in Slot, NEW r \in Slot, s # r PROVE Held(s)' \cap Held(r)' = {}
    <3>1. CASE s = z \/ r = z
      BY <1>4, <1>5, <1>7, <2>1, <2>4, <3>1
    <3>2. CASE s # z /\ r # z
      BY <1>5, <1>7, <2>4, <3>2
    <3> QED BY <3>1, <3>2
  <2> QED BY <1>3, <2>2, <2>3, <2>4 DEF Used, P
<1> QED BY <1>3, <1>6, <1>7

(* A step that starts, ends and queues no reproduction owes the invariant  *)
(* only the places of the VMs.                                             *)
LEMMA SameRepros ==
  ASSUME LoopInv, Types', \A s \in Slot : HoldsVMs(repro[s])', Used', OwnCrashes',
         \A s \in Slot : /\ repro'[s].at = "none" <=> repro[s].at = "none"
                         /\ repro'[s].crash = repro[s].crash,
         UNCHANGED <<reproQueue, reproducing, numReproducing, failed, FuzzingVMs, dash>>
  PROVE  LoopInv'
<1>1. Running' = Running
  BY DEF Running
<1>2. \A s \in Running : repro'[s].crash = repro[s].crash
  BY DEF Running
<1>3. Share'
  <2>1. instancesPerRepro' = instancesPerRepro /\ maxReproVMs' = maxReproVMs
    BY DEF instancesPerRepro, maxReproVMs
  <2> QED BY <1>1, <2>1 DEF LoopInv, Share
<1>4. Titles'
  <2>1. {repro[s].crash.title : s \in Running}' = {repro[s].crash.title : s \in Running}
    BY <1>1, <1>2
  <2> QED BY <1>1, <1>2, <2>1 DEF LoopInv, Titles
<1>5. WorthTrying'
  BY <1>1, <1>2 DEF LoopInv, WorthTrying
<1> QED BY <1>3, <1>4, <1>5 DEF LoopInv

-----------------------------------------------------------------------------
(* The steps that move no reproduction.                                    *)

LEMMA SameHolders ==
  ASSUME \A s \in Slot : HoldsVMs(repro[s]), repro' = repro, FuzzingVMs' = FuzzingVMs
  PROVE  \A s \in Slot : HoldsVMs(repro[s])'
BY DEF HoldsVMs, instancesPerRepro, maxReproVMs, Inj, Range

(* The steps that leave the VMs where they are.                            *)
LEMMA IdleStep ==
  ASSUME LoopInv, pendingRepro' \subseteq Wanted, OwnCrashes',
         inst' \in [VM -> [at : {"none", "run", "done"}, crash : Crashes]],
         InstancesFuzzing' = InstancesFuzzing,
         UNCHANGED <<pool, booting, repro, reproQueue, reproducing, numReproducing, failed,
                     FuzzingVMs, dash>>
  PROVE  LoopInv'
<1>1. Types' /\ \A s \in Slot : HoldsVMs(repro[s])'
  BY SameHolders DEF LoopInv, Types
<1>2. Used'
  <2>1. \A s \in Slot : Held(s)' = Held(s)
    BY DEF Held, Range
  <2> QED BY <2>1, UsedKept DEF LoopInv
<1> QED BY <1>1, <1>2, SameRepros

LEMMA LoopIdle ==
  ASSUME LoopInv, Wait \/ Freed \/ ShutdownSeen \/ ExternalRepro \/ TriagedHub \/ Interrupt
  PROVE  LoopInv'
<1>1. /\ UNCHANGED <<pool, booting, repro, reproQueue, reproducing, numReproducing, failed,
                     FuzzingVMs, dash, inst>>
      /\ pendingRepro' = pendingRepro \/ (dash /\ pendingRepro' = pendingRepro \cup {External})
  BY Zenon DEF Wait, Freed, ShutdownSeen, ExternalRepro, TriagedHub, Interrupt, poolVars, loopVars,
         config, diskVars, External
<1>2. pendingRepro' \subseteq Wanted /\ OwnCrashes'
  BY <1>1, Zenon DEF LoopInv, Types, Wanted, OwnCrashes
<1>3. InstancesFuzzing' = InstancesFuzzing
  BY <1>1 DEF InstancesFuzzing
<1>4. inst' \in [VM -> [at : {"none", "run", "done"}, crash : Crashes]]
  BY <1>1 DEF LoopInv, Types
<1> QED BY <1>1, <1>2, <1>3, <1>4, IdleStep

LEMMA InstanceStops ==
  ASSUME LoopInv, NEW v \in VM, StopRequest(v) \/ InstanceEnds(v)
  PROVE  LoopInv'
<1>1. /\ UNCHANGED <<pool, booting, repro, reproQueue, reproducing, numReproducing, failed,
                     FuzzingVMs, dash, pendingRepro>>
      /\ inst[v].at = "run" /\ InstanceDone(v)
  BY DEF StopRequest, InstanceEnds, poolVars, loopVars, config, diskVars
<1>2. PICK c \in Crashes : inst' = [inst EXCEPT ![v] = [at |-> "done", crash |-> c]]
  BY <1>1, Zenon DEF InstanceDone
<1>3. inst \in [VM -> [at : {"none", "run", "done"}, crash : Crashes]]
  BY DEF LoopInv, Types
<1>4. inst' \in [VM -> [at : {"none", "run", "done"}, crash : Crashes]]
  BY <1>2, <1>3
<1>5. InstancesFuzzing' = InstancesFuzzing
  BY <1>1, <1>2, <1>3 DEF InstancesFuzzing
<1>6. pendingRepro' \subseteq Wanted /\ OwnCrashes'
  BY <1>1 DEF LoopInv, Types, OwnCrashes
<1> QED BY <1>1, <1>4, <1>5, <1>6, IdleStep

LEMMA InstanceStarts ==
  ASSUME LoopInv, StartInstance
  PROVE  LoopInv'
<1>1. /\ UNCHANGED <<booting, repro, reproQueue, reproducing, numReproducing, failed,
                     FuzzingVMs, dash, pendingRepro>>
      /\ pool # <<>> /\ pool' = Rest(1)
      /\ inst' = [inst EXCEPT ![Last(pool)] = [NoInstance EXCEPT !.at = "run"]]
  BY DEF StartInstance, loopVars, config, diskVars
<1>2. /\ inst \in [VM -> [at : {"none", "run", "done"}, crash : Crashes]]
      /\ pool \in Seq(VM)
  BY DEF LoopInv, Types
<1>3. Len(pool) \in Nat /\ 1 <= Len(pool) /\ Last(pool) \in VM
  BY <1>1, <1>2 DEF Last
<1>4. Range(Taken(1)) = {Last(pool)}
  <2>1. /\ Len(Taken(1)) = 1 /\ Taken(1) \in Seq(VM)
        /\ Taken(1)[1] = pool[Len(pool)]
    BY <1>2, <1>3 DEF Taken
  <2> QED BY <2>1 DEF Range, Last
<1>5. inst' \in [VM -> [at : {"none", "run", "done"}, crash : Crashes]]
  BY <1>1, <1>2, <1>3, Zenon DEF NoInstance, Crashes
<1>6. InstancesFuzzing' = InstancesFuzzing \cup {Last(pool)}
  BY <1>1, <1>2, <1>3 DEF InstancesFuzzing, NoInstance
<1>7. \A s \in Slot : Held(s)' = Held(s)
  BY <1>1 DEF Held, Range
<1>8. Used' /\ pool' \in Seq(VM)
  BY <1>1, <1>3, <1>4, <1>6, <1>7, UsedTaken DEF LoopInv
<1>9. Types' /\ (\A s \in Slot : HoldsVMs(repro[s])') /\ OwnCrashes'
  BY <1>1, <1>5, <1>8, SameHolders DEF LoopInv, Types, OwnCrashes
<1> QED BY <1>1, <1>8, <1>9, SameRepros

(* A VM that is done booting or fuzzing goes into the pool.                *)
LEMMA VMFreed ==
  ASSUME LoopInv, NEW v \in VM, v \in booting \cup InstancesFuzzing,
         pool' = pool \o <<v>>, booting' = booting \ {v},
         InstancesFuzzing' = InstancesFuzzing \ {v}, repro' = repro
  PROVE  Used' /\ pool' \in Seq(VM)
<1>1. <<v>> \in Seq(VM) /\ Inj(<<v>>) /\ Range(<<v>>) = {v}
  BY Single
<1>2. v \notin Range(pool) /\ \A s \in Slot : v \notin Held(s)
  BY DEF LoopInv, Used
<1>3. \A s \in Slot : Held(s)' \subseteq Held(s) \ {v}
  BY <1>2 DEF Held, Range
<1> HIDE DEF InstancesFuzzing
<1>4. /\ Range(<<v>>) \cap Range(pool) = {} /\ booting' \subseteq booting \ Range(<<v>>)
      /\ InstancesFuzzing' \subseteq InstancesFuzzing \ Range(<<v>>)
      /\ \A s \in Slot : Held(s)' \subseteq Held(s) \ Range(<<v>>)
  BY <1>1, <1>2, <1>3
<1> QED BY <1>1, <1>4, UsedFreed, Zenon DEF LoopInv

LEMMA VMAdded ==
  ASSUME LoopInv, NEW v \in VM, AddVM(v)
  PROVE  LoopInv'
<1>1. /\ UNCHANGED <<repro, reproQueue, reproducing, numReproducing, failed, inst,
                     FuzzingVMs, dash, pendingRepro>>
      /\ v \in booting /\ booting' = booting \ {v} /\ pool' = pool \o <<v>>
  BY DEF AddVM, Put, loopVars, config, diskVars
<1>2. InstancesFuzzing' = InstancesFuzzing \ {v}
  BY <1>1 DEF InstancesFuzzing, LoopInv, Used
<1>3. Used' /\ pool' \in Seq(VM)
  BY <1>1, <1>2, VMFreed
<1>4. Types' /\ (\A s \in Slot : HoldsVMs(repro[s])') /\ OwnCrashes'
  BY <1>1, <1>3, SameHolders DEF LoopInv, Types, OwnCrashes
<1> QED BY <1>1, <1>3, <1>4, SameRepros

LEMMA InstanceFreed ==
  ASSUME LoopInv, NEW v \in VM, RunDone(v)
  PROVE  LoopInv'
<1>1. /\ UNCHANGED <<booting, repro, reproQueue, reproducing, numReproducing, failed,
                     FuzzingVMs, dash>>
      /\ inst[v].at = "done" /\ inst' = [inst EXCEPT ![v] = NoInstance] /\ pool' = pool \o <<v>>
      /\ \/ pendingRepro' = pendingRepro
         \/ inst[v].crash # NoCrash /\ pendingRepro' = pendingRepro \cup {inst[v].crash}
  BY Zenon DEF RunDone, Put, loopVars, config, diskVars
<1>2. /\ inst \in [VM -> [at : {"none", "run", "done"}, crash : Crashes]]
  BY DEF LoopInv, Types
<1>3. inst' \in [VM -> [at : {"none", "run", "done"}, crash : Crashes]]
  BY <1>1, <1>2, Zenon DEF NoInstance, Crashes
<1>4. v \in InstancesFuzzing /\ InstancesFuzzing' = InstancesFuzzing \ {v}
  BY <1>1, <1>2 DEF InstancesFuzzing, NoInstance
<1>5. booting' = booting \ {v}
  BY <1>1, <1>4 DEF LoopInv, Used
<1>6. Used' /\ pool' \in Seq(VM)
  BY <1>1, <1>4, <1>5, VMFreed
<1>7. inst[v].crash # NoCrash => inst[v].crash \in {Crash(t, FALSE) : t \in Local}
  BY <1>2, Zenon DEF Crashes
<1>8. pendingRepro' \subseteq Wanted
  BY <1>1, <1>7, Zenon DEF LoopInv, Types, Wanted
<1>9. OwnCrashes'
  BY <1>1, <1>7 DEF LoopInv, OwnCrashes, Crash
<1>10. Types' /\ (\A s \in Slot : HoldsVMs(repro[s])')
  BY <1>1, <1>3, <1>6, <1>8, SameHolders DEF LoopInv, Types
<1> QED BY <1>1, <1>6, <1>9, <1>10, SameRepros

-----------------------------------------------------------------------------
(* The steps of a reproduction.                                            *)
ReproFrame == <<booting, inst, reproQueue, reproducing, numReproducing, failed,
                FuzzingVMs, dash, pendingRepro>>

LEMMA HeldAfter ==
  ASSUME repro \in [Slot -> ReproRecord], NEW s \in Slot, NEW r, repro' = [repro EXCEPT ![s] = r]
  PROVE  /\ repro'[s] = r /\ Held(s)' = Range(r.vms)
         /\ \A z \in Slot \ {s} : repro'[z] = repro[z] /\ Held(z)' = Held(z)
<1>1. repro'[s] = r /\ \A z \in Slot \ {s} : repro'[z] = repro[z]
  OBVIOUS
<1> QED BY <1>1 DEF Held, Range

LEMMA HoldersAfter ==
  ASSUME LoopInv, NEW s \in Slot, NEW r \in ReproRecord, repro' = [repro EXCEPT ![s] = r],
         HoldsVMs(r), FuzzingVMs' = FuzzingVMs
  PROVE  (\A z \in Slot : HoldsVMs(repro[z])') /\ repro' \in [Slot -> ReproRecord]
<1>1. repro \in [Slot -> ReproRecord] /\ \A z \in Slot : HoldsVMs(repro[z])
  BY DEF LoopInv, Types
<1>2. repro'[s] = r /\ \A z \in Slot \ {s} : repro'[z] = repro[z]
  BY <1>1, HeldAfter
<1>3. instancesPerRepro' = instancesPerRepro
  BY DEF instancesPerRepro, maxReproVMs
<1>4. ASSUME NEW z \in Slot PROVE HoldsVMs(repro[z])'
  <2>1. HoldsVMs(repro'[z])
    BY <1>1, <1>2
  <2> QED BY <1>3, <2>1 DEF HoldsVMs, Inj, Range
<1> QED BY <1>1, <1>4

LEMMA ReproMoves ==
  ASSUME LoopInv, NEW s \in Slot, NEW r \in ReproRecord, repro' = [repro EXCEPT ![s] = r],
         HoldsVMs(r), repro[s].at # "none", r.at # "none", r.crash = repro[s].crash,
         UNCHANGED ReproFrame,
         \/ pool' = pool /\ Range(r.vms) \subseteq Held(s)
         \/ \E vs \in Seq(VM) : /\ pool' = pool \o vs /\ Inj(vs) /\ Range(vs) \subseteq Held(s)
                               /\ Range(r.vms) \subseteq Held(s) \ Range(vs)
  PROVE  LoopInv'
<1>1. repro \in [Slot -> ReproRecord] /\ Types /\ Used
  BY DEF LoopInv, Types
<1>2. /\ repro'[s] = r /\ Held(s)' = Range(r.vms)
      /\ \A z \in Slot \ {s} : repro'[z] = repro[z] /\ Held(z)' = Held(z)
  BY <1>1, HeldAfter, Zenon
<1>3. InstancesFuzzing' = InstancesFuzzing /\ booting' = booting
  BY DEF InstancesFuzzing, ReproFrame
<1>4. Used' /\ pool' \in Seq(VM)
  <2>1. CASE pool' = pool /\ Range(r.vms) \subseteq Held(s)
    BY <1>1, <1>2, <1>3, <2>1, UsedKept DEF Types
  <2>2. ASSUME NEW vs \in Seq(VM), pool' = pool \o vs, Inj(vs), Range(vs) \subseteq Held(s),
               Range(r.vms) \subseteq Held(s) \ Range(vs)
        PROVE  Used' /\ pool' \in Seq(VM)
    <3>1. /\ Range(vs) \cap Range(pool) = {} /\ booting' \subseteq booting \ Range(vs)
          /\ InstancesFuzzing' \subseteq InstancesFuzzing \ Range(vs)
      BY <1>1, <1>3, <2>2 DEF Used
    <3>2. \A z \in Slot : Held(z)' \subseteq Held(z) \ Range(vs)
      BY <1>1, <1>2, <2>2 DEF Used
    <3> QED BY <1>1, <2>2, <3>1, <3>2, UsedFreed, Zenon
  <2> QED BY <2>1, <2>2
<1>5. (\A z \in Slot : HoldsVMs(repro[z])') /\ repro' \in [Slot -> ReproRecord]
  BY HoldersAfter, Zenon DEF ReproFrame
<1>6. Types' /\ OwnCrashes'
  BY <1>4, <1>5 DEF LoopInv, Types, OwnCrashes, ReproFrame
<1>7. \A z \in Slot : /\ repro'[z].at = "none" <=> repro[z].at = "none"
                      /\ repro'[z].crash = repro[z].crash
  BY <1>2
<1> QED BY <1>4, <1>5, <1>6, <1>7, SameRepros DEF ReproFrame

LEMMA VMBoots ==
  ASSUME LoopInv, NEW s \in Slot, NEW v \in VM, BootVM(s, v)
  PROVE  LoopInv'
<1> DEFINE r == repro[s]
           up == [r EXCEPT !.boots = r.boots \ {v}, !.ready = r.ready \cup {v}]
           down == [r EXCEPT !.boots = r.boots \ {v}]
<1>1. /\ repro \in [Slot -> ReproRecord] /\ r \in ReproRecord /\ HoldsVMs(r)
      /\ v \in r.boots /\ UNCHANGED ReproFrame /\ pool' = pool
  BY DEF LoopInv, Types, BootVM, ReproFrame, poolVars, loopVars, config, diskVars
<1>2. repro' = [repro EXCEPT ![s] = up] \/ repro' = [repro EXCEPT ![s] = down]
  BY DEF BootVM
<1>3. /\ r.at \in {"none", "test", "close", "strace", "sent"} /\ r.vms \in Seq(VM)
      /\ r.boots \subseteq VM /\ r.ready \subseteq VM
  BY <1>1, Zenon DEF ReproRecord
<1>4. r.at # "none"
  BY <1>1 DEF HoldsVMs, Range
<1>5. /\ up \in ReproRecord /\ up.at = r.at /\ up.crash = r.crash /\ up.vms = r.vms
      /\ up.boots = r.boots \ {v} /\ up.ready = r.ready \cup {v}
  BY <1>1, <1>3, Zenon DEF ReproRecord
<1>6. /\ down \in ReproRecord /\ down.at = r.at /\ down.crash = r.crash /\ down.vms = r.vms
      /\ down.boots = r.boots \ {v} /\ down.ready = r.ready
  BY <1>1, <1>3, Zenon DEF ReproRecord
<1> HIDE DEF up, down
<1>7. HoldsVMs(up) /\ HoldsVMs(down)
  BY <1>1, <1>5, <1>6 DEF HoldsVMs
<1> QED BY <1>1, <1>2, <1>4, <1>5, <1>6, <1>7, ReproMoves DEF Held

LEMMA ProgTested ==
  ASSUME LoopInv, NEW s \in Slot, NEW v \in VM, TestProg(s, v)
  PROVE  LoopInv'
<1> DEFINE r == repro[s]
<1>1. /\ repro \in [Slot -> ReproRecord] /\ r \in ReproRecord /\ HoldsVMs(r)
      /\ r.at = "test" /\ v \in r.ready /\ UNCHANGED ReproFrame /\ pool' = pool
  BY Zenon DEF LoopInv, Types, TestProg, ReproFrame, poolVars, loopVars, config, diskVars
<1>2. PICK at \in {"test", "close"}, result \in {"none", "error", "other title"} \cup Local :
        repro' = [repro EXCEPT ![s].ready = @ \ {v}, ![s].boots = IF Shutdown THEN @ ELSE @ \cup {v},
                               ![s].at = at, ![s].result = result]
  BY Zenon DEF TestProg
<1> DEFINE boots == IF Shutdown THEN r.boots ELSE r.boots \cup {v}
           n == [r EXCEPT !.ready = r.ready \ {v}, !.boots = boots, !.at = at, !.result = result]
<1>3. repro' = [repro EXCEPT ![s] = n]
  BY <1>1, <1>2, Zenon
<1>4. boots \subseteq VM /\ boots \subseteq r.boots \cup {v}
  BY <1>1, Zenon DEF ReproRecord
<1> HIDE DEF boots
<1>5. /\ n \in ReproRecord /\ n.at = at /\ n.crash = r.crash /\ n.vms = r.vms
      /\ n.boots = boots /\ n.ready = r.ready \ {v}
  BY <1>1, <1>4, Zenon DEF ReproRecord
<1> HIDE DEF n
<1>6. HoldsVMs(n)
  BY <1>1, <1>4, <1>5, Zenon DEF HoldsVMs
<1> QED BY <1>1, <1>3, <1>5, <1>6, ReproMoves, Zenon DEF Held

LEMMA NothingToTest ==
  ASSUME LoopInv, NEW s \in Slot, NoPrograms(s)
  PROVE  LoopInv'
<1> DEFINE r == repro[s]
           n == [r EXCEPT !.at = "close", !.boots = {}, !.result = "error"]
<1>1. /\ repro \in [Slot -> ReproRecord] /\ r \in ReproRecord /\ HoldsVMs(r)
      /\ r.at = "test" /\ UNCHANGED ReproFrame /\ pool' = pool
      /\ repro' = [repro EXCEPT ![s] = n]
  BY Zenon DEF LoopInv, Types, NoPrograms, ReproFrame, poolVars, loopVars, config, diskVars
<1>2. /\ n \in ReproRecord /\ n.at = "close" /\ n.crash = r.crash /\ n.vms = r.vms
      /\ n.boots = {} /\ n.ready = r.ready
  BY <1>1, Zenon DEF ReproRecord
<1> HIDE DEF n
<1>3. HoldsVMs(n)
  BY <1>1, <1>2 DEF HoldsVMs
<1> QED BY <1>1, <1>2, <1>3, ReproMoves, Zenon DEF Held

LEMMA ReproOver ==
  ASSUME LoopInv, NEW s \in Slot, ReproRuns(s) \/ RunStrace(s)
  PROVE  LoopInv'
<1> DEFINE r == repro[s]
           kept == [r EXCEPT !.at = "strace", !.vms = <<Head(r.vms)>>, !.ready = {}]
           sent == [r EXCEPT !.at = "sent", !.vms = <<>>, !.ready = {}]
           straced == [r EXCEPT !.at = "sent", !.vms = <<>>]
           none == <<>>
<1>1. /\ repro \in [Slot -> ReproRecord] /\ r \in ReproRecord /\ HoldsVMs(r)
      /\ UNCHANGED ReproFrame /\ FuzzingVMs \in 0 .. vmCount
  BY DEF LoopInv, Types, ReproRuns, RunStrace, ReproFrame, poolVars, loopVars, config, diskVars
<1>2. \/ /\ r.at = "close" /\ r.boots = {} /\ pool' = pool \o Tail(r.vms)
         /\ repro' = [repro EXCEPT ![s] = kept]
      \/ /\ r.at = "close" /\ r.boots = {} /\ pool' = pool \o r.vms
         /\ repro' = [repro EXCEPT ![s] = sent]
      \/ /\ r.at = "strace" /\ pool' = pool \o r.vms
         /\ repro' = [repro EXCEPT ![s] = straced]
  BY Zenon DEF ReproRuns, RunStrace, Put
<1>3. r.vms \in Seq(VM) /\ Inj(r.vms) /\ r.boots \cup r.ready \subseteq Range(r.vms)
      /\ r.boots \subseteq VM /\ r.ready \subseteq VM /\ Held(s) = Range(r.vms)
      /\ (r.at = "close" => r.vms # <<>>) /\ (r.at # "none" => r.crash \in Wanted)
  BY <1>1, Zenon DEF HoldsVMs, ReproRecord, Held
<1>4. instancesPerRepro \in Nat \ {0}
  BY <1>1, ReproSize
<1>5. CASE /\ r.at = "close" /\ r.boots = {} /\ pool' = pool \o Tail(r.vms)
           /\ repro' = [repro EXCEPT ![s] = kept]
  <2>1. /\ Head(r.vms) \in VM /\ Tail(r.vms) \in Seq(VM) /\ Inj(Tail(r.vms))
        /\ Range(r.vms) = {Head(r.vms)} \cup Range(Tail(r.vms))
        /\ Head(r.vms) \notin Range(Tail(r.vms))
    BY <1>3, <1>5, HeadAndTail
  <2> DEFINE one == <<Head(r.vms)>>
  <2>2. one \in Seq(VM) /\ Inj(one) /\ Range(one) = {Head(r.vms)} /\ Len(one) = 1 /\ one # <<>>
    BY <2>1, Single
  <2> HIDE DEF one
  <2>3. /\ kept \in ReproRecord /\ kept.at = "strace" /\ kept.crash = r.crash
        /\ kept.vms = one /\ kept.boots = r.boots /\ kept.ready = {}
    BY <1>1, <2>2, Zenon DEF ReproRecord, one
  <2> HIDE DEF kept
  <2>4. HoldsVMs(kept)
    <3>1. kept.boots = {}
      BY <1>5, <2>3
    <3>2. kept.crash \in Wanted
      BY <1>3, <1>5, <2>3
    <3>3. Len(kept.vms) <= instancesPerRepro
      BY <1>4, <2>2, <2>3
    <3> QED BY <2>2, <2>3, <3>1, <3>2, <3>3 DEF HoldsVMs
  <2>5. Range(kept.vms) \subseteq Held(s) \ Range(Tail(r.vms)) /\ Range(Tail(r.vms)) \subseteq Held(s)
    BY <1>3, <2>1, <2>2, <2>3
  <2> QED BY <1>1, <1>5, <2>1, <2>3, <2>4, <2>5, ReproMoves, Zenon
<1>6. ASSUME NEW n \in ReproRecord, r.at # "none", n.at = "sent", n.vms = <<>>, n.crash = r.crash,
             n.boots = {}, n.ready = {}, pool' = pool \o r.vms, repro' = [repro EXCEPT ![s] = n]
      PROVE  LoopInv'
  <2>1. Inj(<<>>) /\ Range(<<>>) = {} /\ Len(<<>>) = 0
    BY NoVMs
  <2>2. HoldsVMs(n)
    BY <1>3, <1>4, <1>6, <2>1 DEF HoldsVMs
  <2>3. Range(n.vms) \subseteq Held(s) \ Range(r.vms) /\ Range(r.vms) \subseteq Held(s)
    BY <1>3, <1>6, <2>1
  <2> QED BY <1>1, <1>3, <1>6, <2>2, <2>3, ReproMoves, Zenon
<1>7. CASE /\ r.at = "close" /\ r.boots = {} /\ pool' = pool \o r.vms
           /\ repro' = [repro EXCEPT ![s] = sent]
  <2>1. /\ sent \in ReproRecord /\ sent.at = "sent" /\ sent.vms = <<>> /\ sent.crash = r.crash
        /\ sent.boots = r.boots /\ sent.ready = {}
    <3>1. none \in Seq(VM)
      BY NoVMs
    <3>2. sent = [r EXCEPT !.at = "sent", !.vms = none, !.ready = {}]
      OBVIOUS
    <3> HIDE DEF sent, none
    <3>3. /\ sent \in ReproRecord /\ sent.at = "sent" /\ sent.vms = none /\ sent.crash = r.crash
          /\ sent.boots = r.boots /\ sent.ready = {}
      BY <1>1, <3>1, <3>2, Zenon DEF ReproRecord
    <3> QED BY <3>3 DEF none
  <2> HIDE DEF sent
  <2> QED BY <1>6, <1>7, <2>1, Zenon
<1>8. CASE /\ r.at = "strace" /\ pool' = pool \o r.vms
           /\ repro' = [repro EXCEPT ![s] = straced]
  <2>1. /\ straced \in ReproRecord /\ straced.at = "sent" /\ straced.vms = <<>> /\ straced.crash = r.crash
        /\ straced.boots = r.boots /\ straced.ready = r.ready
    <3>1. none \in Seq(VM)
      BY NoVMs
    <3>2. straced = [r EXCEPT !.at = "sent", !.vms = none]
      OBVIOUS
    <3> HIDE DEF straced, none
    <3>3. /\ straced \in ReproRecord /\ straced.at = "sent" /\ straced.vms = none
          /\ straced.crash = r.crash /\ straced.boots = r.boots /\ straced.ready = r.ready
      BY <1>1, <3>1, <3>2, Zenon DEF ReproRecord
    <3> QED BY <3>3 DEF none
  <2>2. r.boots = {} /\ r.ready = {}
    BY <1>1, <1>8 DEF HoldsVMs
  <2> HIDE DEF straced
  <2> QED BY <1>6, <1>8, <2>1, <2>2, Zenon
<1> QED BY <1>2, <1>5, <1>7, <1>8

-----------------------------------------------------------------------------
(* Reproductions are queued, start and end.                                *)

LEMMA RunningFinite == IsFiniteSet(Running) /\ Cardinality(Running) \in Nat
<1>1. IsFiniteSet(Slot)
  BY VmLoopAssumption, FS_Interval DEF Slot
<1>2. Running \in SUBSET Slot
  BY DEF Running
<1> QED BY <1>1, <1>2, FS_Subset, FS_CardinalityType

LEMMA ReproQueued ==
  ASSUME LoopInv, NEW c \in pendingRepro, QueueRepro(c)
  PROVE  LoopInv'
<1>1. /\ UNCHANGED <<pool, booting, inst, repro, numReproducing, failed, FuzzingVMs, dash>>
      /\ c \in Waiting /\ pendingRepro' = pendingRepro \ {c}
  BY DEF QueueRepro, poolVars, config, diskVars
<1>2. pendingRepro' \subseteq Wanted /\ OwnCrashes' /\ c \in Wanted /\ c.title \notin reproducing
  BY <1>1 DEF LoopInv, Types, OwnCrashes, Waiting
<1>3. InstancesFuzzing' = InstancesFuzzing
  BY <1>1 DEF InstancesFuzzing
<1>4. inst' \in [VM -> [at : {"none", "run", "done"}, crash : Crashes]]
  BY <1>1 DEF LoopInv, Types
<1>5. CASE UNCHANGED <<reproducing, reproQueue>>
  BY <1>1, <1>2, <1>3, <1>4, <1>5, IdleStep
<1>6. CASE /\ TRUE \in needRepro(c)
           /\ reproducing' = reproducing \cup {c.title} /\ reproQueue' = Append(reproQueue, c)
  <2> DEFINE q == reproQueue
             n == Len(q)
  <2>1. /\ q \in Seq(Wanted) /\ n \in Nat /\ DOMAIN q = 1 .. n
        /\ reproQueue' \in Seq(Wanted) /\ DOMAIN reproQueue' = 1 .. n + 1
        /\ \A i \in 1 .. n : reproQueue'[i] = q[i]
        /\ reproQueue'[n + 1] = c
    BY <1>2, <1>6, AppendProperties DEF LoopInv, Types
  <2>2. Types' /\ \A z \in Slot : HoldsVMs(repro[z])'
    BY <1>1, <1>2, <2>1, SameHolders DEF LoopInv, Types
  <2>3. Used'
    <3>1. \A z \in Slot : Held(z)' = Held(z)
      BY <1>1 DEF Held, Range
    <3> QED BY <1>1, <1>3, <3>1, UsedKept DEF LoopInv
  <2>4. Running' = Running /\ repro' = repro
    BY <1>1 DEF Running
  <2>5. Share'
    BY <1>1, <2>4 DEF LoopInv, Share, instancesPerRepro, maxReproVMs
  <2>6. /\ \A i \in 1 .. n : q[i].title \in reproducing
        /\ \A z \in Running : repro[z].crash.title \in reproducing
    BY <2>1 DEF LoopInv, Titles
  <2>7. Titles'
    <3>1. \A i, j \in 1 .. n + 1 : reproQueue'[i].title = reproQueue'[j].title => i = j
      <4> SUFFICES ASSUME NEW i \in 1 .. n + 1, NEW j \in 1 .. n + 1,
                          reproQueue'[i].title = reproQueue'[j].title
                   PROVE  i = j
        OBVIOUS
      <4>1. CASE i \in 1 .. n /\ j \in 1 .. n
        BY <2>1, <4>1 DEF LoopInv, Titles
      <4>2. CASE i = n + 1 \/ j = n + 1
        BY <1>2, <2>1, <2>6, <4>2
      <4> QED BY <2>1, <4>1, <4>2
    <3>2. \A z \in Running, i \in 1 .. n + 1 : repro[z].crash.title # reproQueue'[i].title
      <4> SUFFICES ASSUME NEW z \in Running, NEW i \in 1 .. n + 1 
                   PROVE repro[z].crash.title # reproQueue'[i].title
        OBVIOUS
      <4>1. CASE i \in 1 .. n
        BY <2>1, <4>1 DEF LoopInv, Titles
      <4>2. CASE i = n + 1
        BY <1>2, <2>1, <2>6, <4>2
      <4> QED BY <2>1, <4>1, <4>2
    <3>3. {reproQueue'[i].title : i \in 1 .. n + 1} = {q[i].title : i \in 1 .. n} \cup {c.title}
      <4>1. 1 .. n + 1 = (1 .. n) \cup {n + 1}
        BY <2>1
      <4> QED BY <2>1, <4>1
    <3>4. reproducing' = {repro[z].crash.title : z \in Running}
                           \cup {reproQueue'[i].title : i \in 1 .. n + 1}
      BY <1>6, <2>1, <3>3 DEF LoopInv, Titles
    <3> QED BY <2>1, <2>4, <3>1, <3>2, <3>4 DEF LoopInv, Titles
  <2>8. WorthTrying'
    <3> SUFFICES ASSUME ~dash
                 PROVE  /\ \A z \in Running : failed[repro[z].crash.title] < MaxAttempts
                        /\ \A i \in 1 .. n + 1 : failed[reproQueue'[i].title] < MaxAttempts
      BY <1>1, <2>1, <2>4 DEF WorthTrying
    <3>1. failed[c.title] < MaxAttempts
      BY <1>6, Zenon DEF LoopInv, OwnCrashes, needRepro, needLocalRepro
    <3> QED BY <2>1, <3>1 DEF LoopInv, WorthTrying
  <2> QED BY <1>2, <2>2, <2>3, <2>5, <2>7, <2>8 DEF LoopInv
<1> QED BY <1>5, <1>6, Zenon DEF QueueRepro

LEMMA ReproStarts ==
  ASSUME LoopInv, NEW s \in Slot, StartRepro(s)
  PROVE  LoopInv'
<1> DEFINE k == instancesPerRepro
           vms == Taken(k)
           boots == {vms[i] : i \in DOMAIN vms}
           q == reproQueue
           n == Len(q)
           r == [NoRepro EXCEPT !.at = "test", !.crash = Last(q), !.vms = vms, !.boots = boots]
<1>1. /\ UNCHANGED <<booting, inst, pendingRepro, reproducing, failed, FuzzingVMs, dash>>
      /\ canRepro /\ Len(pool) >= k /\ repro[s].at = "none"
      /\ pool' = Rest(k) /\ repro' = [repro EXCEPT ![s] = r]
      /\ reproQueue' = Front(q) /\ numReproducing' = numReproducing + 1
  BY DEF StartRepro, config, diskVars
<1>2. /\ Types /\ Used /\ repro \in [Slot -> ReproRecord] /\ pool \in Seq(VM) /\ Inj(pool)
      /\ FuzzingVMs \in 0 .. vmCount /\ numReproducing \in Nat /\ q \in Seq(Wanted)
  BY DEF LoopInv, Types, Used
<1>3. k \in Nat \ {0} /\ Len(pool) \in Nat
  BY <1>2, ReproSize
<1>4. vms \in Seq(VM) /\ Inj(vms) /\ Len(vms) = k /\ boots = Range(vms) /\ boots \subseteq VM
  <2>1. vms \in Seq(VM) /\ Inj(vms) /\ Len(vms) = k
    BY <1>1, <1>2, <1>3, Split DEF Taken
  <2> QED BY <2>1 DEF Range
<1>5. /\ n \in Nat /\ n > 0 /\ DOMAIN q = 1 .. n /\ Last(q) = q[n] /\ Last(q) \in Wanted
      /\ reproQueue' \in Seq(Wanted) /\ DOMAIN reproQueue' = 1 .. n - 1
      /\ \A i \in 1 .. n - 1 : reproQueue'[i] = q[i]
  <2>1. q # <<>>
    BY <1>1 DEF canRepro
  <2> QED BY <1>1, <1>2, <2>1 DEF Last, Front
<1> HIDE DEF vms, boots
<1>6. /\ r \in ReproRecord /\ r.at = "test" /\ r.crash = Last(q) /\ r.vms = vms
      /\ r.boots = boots /\ r.ready = {}
  BY <1>4, <1>5, Zenon DEF ReproRecord, NoRepro
<1> HIDE DEF r
<1>7. HoldsVMs(r)
  <2>1. vms # <<>>
    BY <1>3, <1>4
  <2> QED BY <1>3, <1>4, <1>5, <1>6, <2>1 DEF HoldsVMs
<1>8. (\A z \in Slot : HoldsVMs(repro[z])') /\ repro' \in [Slot -> ReproRecord]
  BY <1>1, <1>6, <1>7, HoldersAfter, Zenon
<1>9. /\ repro'[s] = r /\ Held(s)' = Range(r.vms)
      /\ \A z \in Slot \ {s} : repro'[z] = repro[z] /\ Held(z)' = Held(z)
  BY <1>1, <1>2, HeldAfter, Zenon
<1>10. Used' /\ pool' \in Seq(VM)
  <2>1. InstancesFuzzing' = InstancesFuzzing
    BY <1>1 DEF InstancesFuzzing
  <2>2. Held(s)' = Range(Taken(k))
    BY <1>6, <1>9 DEF vms
  <2>3. k \in Nat /\ k <= Len(pool)
    BY <1>1, <1>3
  <2> HIDE DEF k
  <2> QED BY <1>1, <1>2, <1>9, <2>1, <2>2, <2>3, UsedTaken
<1>11. Running' = Running \cup {s} /\ s \notin Running
  BY <1>1, <1>6, <1>9 DEF Running
<1>12. Types' /\ OwnCrashes'
  BY <1>1, <1>2, <1>5, <1>8, <1>10 DEF Types, LoopInv, OwnCrashes
<1>13. Share'
  <2>1. Cardinality(Running)' = Cardinality(Running) + 1
    BY <1>11, RunningFinite, FS_AddElement
  <2>2. (numReproducing + 1) * instancesPerRepro <= maxReproVMs
    BY <1>1 DEF canRepro
  <2>3. instancesPerRepro' = instancesPerRepro /\ maxReproVMs' = maxReproVMs
    BY <1>1 DEF instancesPerRepro, maxReproVMs
  <2> QED BY <1>1, <2>1, <2>2, <2>3 DEF Share, LoopInv
<1>14. /\ \A z \in Running : repro'[z] = repro[z]
       /\ repro'[s].crash = q[n]
  BY <1>5, <1>6, <1>9, <1>11 DEF Running
<1>15. Titles'
  <2> USE DEF LoopInv, Titles
  <2>1. \A z, y \in Running' : repro'[z].crash.title = repro'[y].crash.title => z = y
    BY <1>5, <1>11, <1>14
  <2>2. \A i, j \in 1 .. n - 1 : reproQueue'[i].title = reproQueue'[j].title => i = j
    BY <1>5
  <2>3. \A z \in Running', i \in 1 .. n - 1 : repro'[z].crash.title # reproQueue'[i].title
    <3> SUFFICES ASSUME NEW z \in Running', NEW i \in 1 .. n - 1
                 PROVE  repro'[z].crash.title # reproQueue'[i].title
      OBVIOUS
    <3>1. CASE z = s
      <4>1. q[n].title # q[i].title
        BY <1>5
      <4> QED BY <1>5, <1>14, <3>1, <4>1
    <3>2. CASE z \in Running
      BY <1>5, <1>14, <3>2
    <3> QED BY <1>11, <3>1, <3>2
  <2>4. reproducing' = {repro'[z].crash.title : z \in Running'}
                         \cup {reproQueue'[i].title : i \in 1 .. n - 1}
    <3>1. {repro'[z].crash.title : z \in Running'} = {repro[z].crash.title : z \in Running} \cup {q[n].title}
      BY <1>11, <1>14
    <3>2. {q[i].title : i \in 1 .. n} = {reproQueue'[i].title : i \in 1 .. n - 1} \cup {q[n].title}
      <4>1. 1 .. n = (1 .. n - 1) \cup {n}
        BY <1>5
      <4> QED BY <1>5, <4>1
    <3>3. reproducing = {repro[z].crash.title : z \in Running} \cup {q[i].title : i \in 1 .. n}
      BY <1>5
    <3> QED BY <1>1, <3>1, <3>2, <3>3, Zenon
  <2> HIDE DEF LoopInv
  <2> QED BY <1>5, <2>1, <2>2, <2>3, <2>4
<1>16. WorthTrying'
  <2> SUFFICES ASSUME ~dash
               PROVE  /\ \A z \in Running' : failed[repro'[z].crash.title] < MaxAttempts
                      /\ \A i \in 1 .. n - 1 : failed[reproQueue'[i].title] < MaxAttempts
    BY <1>1, <1>5 DEF WorthTrying
  <2>1. /\ \A z \in Running : failed[repro[z].crash.title] < MaxAttempts
        /\ \A i \in 1 .. n : failed[q[i].title] < MaxAttempts
    BY <1>5 DEF LoopInv, WorthTrying
  <2> QED BY <1>5, <1>11, <1>14, <2>1
<1> QED BY <1>8, <1>10, <1>12, <1>13, <1>15, <1>16 DEF LoopInv

LEMMA WantedTitles ==
  ASSUME NEW c \in Wanted
  PROVE  c.title \in Title
<1>1. CASE c = External
  BY <1>1, Zenon DEF External, Crash, Title
<1>2. ASSUME NEW t \in Local, c = Crash(t, FALSE)
      PROVE  c.title \in Title
  BY <1>2, Zenon DEF Crash, Title
<1> QED BY <1>1, <1>2, Zenon DEF Wanted

LEMMA NothingHeld ==
  ASSUME FuzzingVMs \in 0 .. vmCount
  PROVE  NoRepro \in ReproRecord /\ NoRepro.vms = <<>> /\ NoRepro.at = "none" /\ HoldsVMs(NoRepro)
<1>1. instancesPerRepro \in Nat
  BY ReproSize
<1> DEFINE none == <<>>
<1>2. none \in Seq(VM) /\ Inj(none) /\ Range(none) = {} /\ Len(none) = 0
  BY NoVMs
<1>3. NoRepro = [at |-> "none", crash |-> NoCrash, vms |-> none, boots |-> {}, ready |-> {}, result |-> "none"]
  BY DEF NoRepro
<1> HIDE DEF none
<1>4. NoRepro \in ReproRecord /\ NoRepro.at = "none" /\ NoRepro.vms = none
        /\ NoRepro.boots = {} /\ NoRepro.ready = {}
  BY <1>2, <1>3 DEF ReproRecord
<1>5. HoldsVMs(NoRepro)
  BY <1>1, <1>2, <1>4 DEF HoldsVMs, none
<1> QED BY <1>4, <1>5 DEF none

LEMMA ReproEnds ==
  ASSUME LoopInv, NEW s \in Slot, ReproDone(s)
  PROVE  LoopInv'
<1> DEFINE t == repro[s].crash.title
           n == Len(reproQueue)
<1>1. /\ UNCHANGED <<pool, booting, inst, pendingRepro, reproQueue, FuzzingVMs, dash>>
      /\ repro[s].at = "sent" /\ numReproducing' = numReproducing - 1
      /\ reproducing' = reproducing \ {t}
      /\ saveFailedRepro(repro[s])
      /\ repro' = [repro EXCEPT ![s] = NoRepro]
  BY DEF ReproDone, poolVars, config
<1>2. /\ repro \in [Slot -> ReproRecord] /\ numReproducing \in Nat /\ failed \in [Title -> Nat]
      /\ reproQueue \in Seq(Wanted) /\ FuzzingVMs \in 0 .. vmCount
  BY DEF LoopInv, Types
<1>3. n \in Nat /\ DOMAIN reproQueue = 1 .. n /\ \A i \in 1 .. n : reproQueue[i] \in Wanted
  BY <1>2
<1>4. NoRepro \in ReproRecord /\ NoRepro.vms = <<>> /\ NoRepro.at = "none" /\ HoldsVMs(NoRepro)
  BY <1>2, NothingHeld
<1>5. (\A z \in Slot : HoldsVMs(repro[z])') /\ repro' \in [Slot -> ReproRecord]
  BY <1>1, <1>4, HoldersAfter, Zenon
<1>6. /\ repro'[s] = NoRepro /\ Held(s)' = Range(NoRepro.vms)
      /\ \A z \in Slot \ {s} : repro'[z] = repro[z] /\ Held(z)' = Held(z)
  BY <1>1, <1>2, HeldAfter, Zenon
<1>7. Used'
  <2>1. Held(s)' = {}
    BY <1>4, <1>6, NoVMs
  <2>2. \A z \in Slot : Held(z)' \subseteq Held(z)
    BY <1>6, <2>1
  <2>3. InstancesFuzzing' = InstancesFuzzing
    BY <1>1 DEF InstancesFuzzing
  <2> QED BY <1>1, <2>2, <2>3, UsedKept DEF LoopInv
<1>8. Running' = Running \ {s} /\ s \in Running
  BY <1>1, <1>4, <1>6 DEF Running
<1>9. \A z \in Running' : repro'[z] = repro[z] /\ z \in Running /\ z # s
  BY <1>6, <1>8 DEF Running
<1>10. Cardinality(Running)' = Cardinality(Running) - 1 /\ Cardinality(Running) > 0
  <2>1. Cardinality(Running') = Cardinality(Running) - 1
    BY <1>8, RunningFinite, FS_RemoveElement
  <2>2. Cardinality(Running) # 0
    BY <1>8, RunningFinite, FS_EmptySet
  <2> QED BY <2>1, <2>2, RunningFinite
<1>11. numReproducing' \in Nat /\ Share'
  <2>1. instancesPerRepro' = instancesPerRepro /\ maxReproVMs' = maxReproVMs
    BY <1>1 DEF instancesPerRepro, maxReproVMs
  <2>2. instancesPerRepro \in Nat /\ maxReproVMs \in Nat
    BY <1>2, ReproSize, VmLoopAssumption DEF maxReproVMs
  <2>3. /\ numReproducing = Cardinality(Running)
        /\ numReproducing * instancesPerRepro <= maxReproVMs
    BY DEF LoopInv, Share
  <2>4. numReproducing' \in Nat /\ numReproducing' = Cardinality(Running)'
    BY <1>1, <1>2, <1>10, <2>3
  <2>5. \A m, k, x \in Nat : m > 0 /\ m * k <= x => (m - 1) * k <= x
    BY SMT
  <2>6. numReproducing' * instancesPerRepro <= maxReproVMs
    <3> HIDE DEF LoopInv
    <3> QED BY <1>1, <1>2, <1>10, <2>2, <2>3, <2>5
  <2> QED BY <2>1, <2>4, <2>6 DEF Share
<1>12. failed' \in [Title -> Nat] /\ \A u \in Title \ {t} : failed'[u] = failed[u]
  <2>1. CASE failed' = failed
    BY <1>2, <2>1
  <2>2. CASE failed' = [failed EXCEPT ![t] = IF failed[t] < MaxAttempts THEN failed[t] + 1 ELSE failed[t]]
    <3>1. repro[s].crash \in Wanted
      BY <1>1 DEF LoopInv, HoldsVMs
    <3>2. t \in Title
      BY <3>1, WantedTitles
    <3> HIDE DEF t
    <3> QED BY <1>2, <2>2, <3>2
  <2> QED BY <1>1, <2>1, <2>2, Zenon DEF saveFailedRepro
<1>13. Types' /\ OwnCrashes'
  BY <1>1, <1>5, <1>11, <1>12 DEF LoopInv, Types, OwnCrashes
<1>14. /\ \A z \in Running' : repro[z].crash.title # t
       /\ \A i \in 1 .. n : reproQueue[i].title # t
  BY <1>3, <1>8, <1>9 DEF LoopInv, Titles
<1>15. Titles'
  <2>1. \A z, y \in Running' : repro'[z].crash.title = repro'[y].crash.title => z = y
    BY <1>9 DEF LoopInv, Titles
  <2>2. \A z \in Running', i \in 1 .. n : repro'[z].crash.title # reproQueue[i].title
    BY <1>3, <1>9 DEF LoopInv, Titles
  <2>3. reproducing' = {repro'[z].crash.title : z \in Running'} \cup {reproQueue[i].title : i \in 1 .. n}
    <3>1. {repro[z].crash.title : z \in Running} = {repro'[z].crash.title : z \in Running'} \cup {t}
      BY <1>8, <1>9
    <3>2. t \notin {repro'[z].crash.title : z \in Running'} \cup {reproQueue[i].title : i \in 1 .. n}
      BY <1>9, <1>14
    <3>3. reproducing = {repro[z].crash.title : z \in Running} \cup {reproQueue[i].title : i \in 1 .. n}
      BY <1>3 DEF LoopInv, Titles
    <3> HIDE DEF t
    <3> QED BY <1>1, <3>1, <3>2, <3>3, Zenon
  <2>4. \A i, j \in 1 .. n : reproQueue[i].title = reproQueue[j].title => i = j
    BY <1>3 DEF LoopInv, Titles
  <2>5. reproQueue' = reproQueue /\ DOMAIN reproQueue' = 1 .. n
    BY <1>1, <1>3
  <2> HIDE DEF n, t
  <2> QED BY <2>1, <2>2, <2>3, <2>4, <2>5, Zenon DEF Titles
<1>16. WorthTrying'
  <2> SUFFICES ASSUME ~dash
               PROVE  /\ \A z \in Running' : failed'[repro'[z].crash.title] < MaxAttempts
                      /\ \A i \in 1 .. n : failed'[reproQueue[i].title] < MaxAttempts
    BY <1>1, <1>3 DEF WorthTrying
  <2>1. \A z \in Running : repro[z].crash \in Wanted
    BY DEF LoopInv, HoldsVMs, Running
  <2>2. /\ \A z \in Running' : failed'[repro'[z].crash.title] = failed[repro[z].crash.title]
        /\ \A i \in 1 .. n : failed'[reproQueue[i].title] = failed[reproQueue[i].title]
    BY <1>3, <1>9, <1>12, <1>14, <2>1, WantedTitles
  <2> QED BY <1>3, <1>9, <2>2 DEF LoopInv, WorthTrying
<1> QED BY <1>5, <1>7, <1>11, <1>13, <1>15, <1>16 DEF LoopInv

-----------------------------------------------------------------------------
(* The invariant holds.                                                    *)

LEMMA LoopInitInv == Init => LoopInv
<1> SUFFICES ASSUME Init PROVE LoopInv
  OBVIOUS
<1>1. /\ pool = <<>> /\ booting = VM /\ inst = [v \in VM |-> NoInstance]
      /\ pendingRepro = {} /\ reproducing = {} /\ reproQueue = <<>> /\ numReproducing = 0
      /\ repro = [z \in Slot |-> NoRepro] /\ FuzzingVMs \in 0 .. vmCount
      /\ failed = [t \in Title |-> 0]
  BY DEF Init
<1>2. /\ <<>> \in Seq(VM) /\ Inj(<<>>) /\ Range(<<>>) = {} /\ Len(<<>>) = 0
      /\ <<>> \in Seq(Wanted) /\ DOMAIN <<>> = {}
  BY NoVMs
<1>3. NoRepro \in ReproRecord /\ NoRepro.vms = <<>> /\ NoRepro.at = "none" /\ HoldsVMs(NoRepro)
  BY <1>1, NothingHeld
<1>4. \A z \in Slot : repro[z] = NoRepro
  BY <1>1
<1>5. Types
  <2>1. inst \in [VM -> [at : {"none", "run", "done"}, crash : Crashes]]
    BY <1>1 DEF NoInstance, Crashes
  <2> QED BY <1>1, <1>2, <1>3, <2>1 DEF Types
<1>6. \A z \in Slot : HoldsVMs(repro[z]) /\ Held(z) = {}
  BY <1>2, <1>3, <1>4 DEF Held
<1>7. InstancesFuzzing = {} /\ Running = {}
  BY <1>1, <1>3, <1>4 DEF InstancesFuzzing, NoInstance, Running
<1>8. Used
  BY <1>1, <1>2, <1>6, <1>7 DEF Used
<1>9. Share
  BY <1>1, <1>7, FS_EmptySet, ReproSize DEF Share
<1>10. Titles /\ OwnCrashes /\ WorthTrying
  BY <1>1, <1>2, <1>7 DEF Titles, OwnCrashes, WorthTrying
<1> QED BY <1>5, <1>6, <1>8, <1>9, <1>10 DEF LoopInv

LEMMA LoopInvStep == LoopInv /\ [Next]_vars => LoopInv'
<1> SUFFICES ASSUME LoopInv, [Next]_vars PROVE LoopInv'
  OBVIOUS
<1>1. CASE UNCHANGED vars
  <2>1. /\ UNCHANGED <<pool, booting, repro, reproQueue, reproducing, numReproducing, failed,
                      FuzzingVMs, dash, inst, pendingRepro>>
    BY <1>1 DEF vars, poolVars, loopVars, config, diskVars
  <2> QED BY <2>1, IdleStep DEF LoopInv, Types, OwnCrashes, InstancesFuzzing
<1>2. CASE LoopStep
  BY <1>2, ReproQueued, ReproStarts, InstanceStarts, LoopIdle DEF LoopStep
<1>3. CASE Select
  BY <1>3, LoopIdle, InstanceStops, InstanceFreed, ReproEnds DEF Select
<1>4. CASE \E v \in VM : AddVM(v) \/ InstanceEnds(v)
  BY <1>4, VMAdded, InstanceStops
<1>5. CASE \E z \in Slot : ReproStep(z)
  BY <1>5, VMBoots, ProgTested, NothingToTest, ReproOver DEF ReproStep
<1>6. CASE TriagedHub \/ Interrupt
  BY <1>6, LoopIdle
<1> QED BY <1>1, <1>2, <1>3, <1>4, <1>5, <1>6 DEF Next

(* The inductive invariant of vmLoop: every VM is in one place, the        *)
(* reproductions that run are counted and have their share of the VMs, and *)
(* reproducing holds the titles of those that run or wait.                 *)
THEOREM LoopInvariant == Spec => []LoopInv
BY LoopInitInv, LoopInvStep, PTL DEF Spec

-----------------------------------------------------------------------------
(* What follows.                                                           *)

LEMMA HeldVMs ==
  ASSUME LoopInv, NEW s \in Slot
  PROVE  ReproVMs(s) = Held(s)
BY DEF LoopInv, HoldsVMs, ReproVMs, Held, Range

(* A VM is used for one thing at a time, whatever the number of VMs and of *)
(* reproductions: Take, Put, and the boot requests of pkg/repro never give *)
(* a VM to two of the pool, the instances and the reproductions.           *)
THEOREM VMsUsedOnce == Spec => []VMUsedOnce
<1>1. LoopInv => VMUsedOnce
  <2> SUFFICES ASSUME LoopInv PROVE VMUsedOnce
    OBVIOUS
  <2>1. \A s \in Slot : ReproVMs(s) = Held(s)
    BY HeldVMs
  <2>2. Used
    BY DEF LoopInv
  <2>3. \A i, j \in DOMAIN pool : pool[i] = pool[j] => i = j
    BY <2>2 DEF Used, Inj
  <2>4. \A i \in DOMAIN pool : pool[i] \notin booting \cup InstancesFuzzing \cup UNION {ReproVMs(s) : s \in Slot}
    BY <2>1, <2>2 DEF Used, Range
  <2>5. \A s \in Slot : ReproVMs(s) \cap (booting \cup InstancesFuzzing \cup UNION {ReproVMs(r) : r \in Slot \ {s}}) = {}
    BY <2>1, <2>2 DEF Used
  <2>6. booting \cap InstancesFuzzing = {}
    BY <2>2 DEF Used
  <2> QED BY <2>3, <2>4, <2>5, <2>6 DEF VMUsedOnce
<1> QED BY <1>1, LoopInvariant, PTL

(* Reproductions never hold more VMs than maxReproVMs: the FuzzingVMs of   *)
(* the configuration are left to fuzzing.                                  *)
THEOREM FuzzingKeepsItsVMs == Spec => []FuzzingGoesOn
<1>1. LoopInv => FuzzingGoesOn
  <2> SUFFICES ASSUME LoopInv PROVE FuzzingGoesOn
    OBVIOUS
  <2> DEFINE U == UNION {ReproVMs(s) : s \in Slot}
             k == instancesPerRepro
             P == Running \X (1 .. k)
             At(v, p) == p[2] \in DOMAIN repro[p[1]].vms /\ repro[p[1]].vms[p[2]] = v
             f == [v \in U |-> CHOOSE p \in P : At(v, p)]
  <2>1. /\ k \in Nat \ {0} /\ maxReproVMs \in Nat /\ maxReproVMs + FuzzingVMs = vmCount
        /\ FuzzingVMs \in Nat /\ vmCount \in Nat
    BY ReproSize, VmLoopAssumption DEF LoopInv, Types
  <2>2. ASSUME NEW v \in U PROVE \E p \in P : At(v, p)
    <3>1. PICK s \in Slot : v \in Held(s)
      BY HeldVMs
    <3>2. PICK i \in DOMAIN repro[s].vms : repro[s].vms[i] = v
      BY <3>1 DEF Held, Range
    <3>3. /\ repro[s].vms \in Seq(VM) /\ Len(repro[s].vms) <= k
          /\ repro[s].at = "none" => repro[s].vms = <<>>
      BY Zenon DEF LoopInv, Types, HoldsVMs, ReproRecord
    <3>4. i \in 1 .. k
      BY <2>1, <3>3
    <3>5. s \in Running
      BY <3>2, <3>3 DEF Running
    <3>6. <<s, i>> \in P /\ At(v, <<s, i>>)
      BY <3>2, <3>4, <3>5
    <3> QED BY <3>6
  <2>3. \A v \in U : f[v] \in P /\ At(v, f[v])
    <3> HIDE DEF At, P, U
    <3> QED BY <2>2
  <2>4. f \in Injection(U, P)
    <3>1. f \in [U -> P]
      <4> HIDE DEF At, P, U
      <4> QED BY <2>3
    <3>2. ASSUME NEW v \in U, NEW w \in U, f[v] = f[w] PROVE v = w
      <4> HIDE DEF f, U, P
      <4> QED BY <2>3, <3>2
    <3> HIDE DEF f, U, P
    <3> QED BY <3>1, <3>2 DEF Injection, IsInjective
  <2>5. IsFiniteSet(P) /\ Cardinality(P) = Cardinality(Running) * k
    <3>1. IsFiniteSet(1 .. k) /\ Cardinality(1 .. k) = k
      BY <2>1, FS_Interval
    <3> QED BY <3>1, RunningFinite, FS_Product, Zenon
  <2>6. IsFiniteSet(U) /\ Cardinality(U) <= Cardinality(P)
    <3> HIDE DEF f, U, P
    <3> QED BY <2>4, <2>5, FS_Injection
  <2>7. Cardinality(U) \in Nat
    BY <2>6, FS_CardinalityType
  <2>8. Cardinality(Running) * k <= maxReproVMs
    BY DEF LoopInv, Share
  <2>9. Cardinality(Running) * k \in Nat
    BY <2>1, RunningFinite
  <2> HIDE DEF U, k, P
  <2>10. Cardinality(U) + FuzzingVMs <= vmCount
    BY <2>1, <2>5, <2>6, <2>7, <2>8, <2>9
  <2> QED BY <2>10 DEF FuzzingGoesOn, U
<1> QED BY <1>1, LoopInvariant, PTL

LEMMA ImageSize ==
  ASSUME NEW f, IsFiniteSet(DOMAIN f), f = [x \in DOMAIN f |-> f[x]],
         \A x, y \in DOMAIN f : f[x] = f[y] => x = y
  PROVE  LET T == {f[x] : x \in DOMAIN f} IN IsFiniteSet(T) /\ Cardinality(T) = Cardinality(DOMAIN f)
<1> DEFINE S == DOMAIN f
           T == {f[x] : x \in S}
<1>1. f \in [S -> T]
  OBVIOUS
<1>2. f \in Surjection(S, T) /\ f \in Injection(S, T)
  BY <1>1 DEF Surjection, Injection, IsInjective
<1> QED BY <1>2, FS_Surjection

(* No title is reproduced twice at the same time, running or queued, and   *)
(* the map reproducing of vmLoop says exactly which titles are.            *)
THEOREM TitlesReproducedOnce == Spec => []OneReproPerTitle
<1>1. LoopInv => OneReproPerTitle
  <2> SUFFICES ASSUME LoopInv PROVE OneReproPerTitle
    OBVIOUS
  <2> DEFINE q == reproQueue
             n == Len(q)
             f == [z \in Running |-> repro[z].crash.title]
             g == [i \in 1 .. n |-> q[i].title]
             A == {f[z] : z \in DOMAIN f}
             B == {g[i] : i \in DOMAIN g}
  <2>1. q \in Seq(Wanted) /\ n \in Nat /\ DOMAIN q = 1 .. n
    BY DEF LoopInv, Types
  <2>2. Titles
    BY DEF LoopInv
  <2>3. IsFiniteSet(A) /\ Cardinality(A) = Cardinality(Running)
    <3>1. DOMAIN f = Running /\ f = [x \in DOMAIN f |-> f[x]] /\ IsFiniteSet(DOMAIN f)
      BY RunningFinite
    <3>2. \A x, y \in DOMAIN f : f[x] = f[y] => x = y
      BY <2>2 DEF Titles
    <3> HIDE DEF f
    <3> QED BY <3>1, <3>2, ImageSize
  <2>4. IsFiniteSet(B) /\ Cardinality(B) = n
    <3>1. DOMAIN g = 1 .. n /\ g = [x \in DOMAIN g |-> g[x]] /\ IsFiniteSet(1 .. n) /\ Cardinality(1 .. n) = n
      BY <2>1, FS_Interval
    <3>2. \A x, y \in DOMAIN g : g[x] = g[y] => x = y
      BY <2>1, <2>2 DEF Titles
    <3> HIDE DEF g, n
    <3> QED BY <3>1, <3>2, ImageSize, Zenon
  <2>5. A \cap B = {} /\ reproducing = A \cup B
    BY <2>1, <2>2 DEF Titles
  <2>6. Cardinality(A \cup B) = Cardinality(A) + Cardinality(B)
    <3> HIDE DEF A, B
    <3>1. Cardinality(A \cup B) = Cardinality(A) + Cardinality(B) - Cardinality(A \cap B)
      BY <2>3, <2>4, FS_Union
    <3>2. Cardinality(A \cap B) = 0
      BY <2>5, FS_EmptySet
    <3>3. Cardinality(A) \in Nat /\ Cardinality(B) \in Nat
      BY <2>3, <2>4, FS_CardinalityType
    <3> QED BY <3>1, <3>2, <3>3
  <2>7. Cardinality(reproducing) = Cardinality(Running) + Len(reproQueue)
    <3> HIDE DEF A, B
    <3> QED BY <2>3, <2>4, <2>5, <2>6
  <2> QED BY <2>2, <2>7 DEF Titles, OneReproPerTitle
<1> QED BY <1>1, LoopInvariant, PTL

(* Without a dashboard no crash is reproduced, or waits to be, once        *)
(* maxReproAttempts attempts at its title were in vain.                    *)
THEOREM AttemptsAreWorthIt == Spec => []WorthTrying
<1>1. LoopInv => WorthTrying
  BY DEF LoopInv
<1> QED BY <1>1, LoopInvariant, PTL
=============================================================================
