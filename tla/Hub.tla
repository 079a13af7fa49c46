-------------------------------- MODULE Hub --------------------------------
(***************************************************************************)
(* syz-hub, through which managers exchange programs and reproducers       *)
(* (syz-hub/hub.go and state/state.go), and the HubConnector of every      *)
(* manager (syz-manager/hub.go).  Calls and replies get lost, managers and *)
(* the hub crash and start again, the hub in the middle of a call as well. *)
(* The hub is one record, and a handler is the sequence of the records     *)
(* that its writes to disk go through: a crash leaves one of them, or one  *)
(* between two of them, without what is only in memory.                    *)
(***************************************************************************)
EXTENDS Integers, Sequences, FiniteSets, FiniteSetsExt

CONSTANTS
  NMgr, Prog, Repro,
  Supports,     \* what all calls of are enabled in a manager: programs and repros
  Refused,      \* programs of more than MaxCalls calls
  MaxRecords,   \* bound: 100 in pendingInputs
  MaxSeq,       \* bound: corpusSeq at which nothing is added any more
  MaxFaults     \* bound: crashes, restarts and calls that fail

Mgr == 1 .. NMgr   \* the order of their names

ASSUME HubAssumption ==
  /\ NMgr \in Nat /\ IsFiniteSet(Prog) /\ IsFiniteSet(Repro)
  /\ Supports \in [Mgr -> SUBSET (Prog \cup Repro)]
  /\ MaxRecords \in Nat

VARIABLES
  hub,        \* State and its Managers
  link,       \* where the loop of a HubConnector is
  hubCorpus,  \* what a HubConnector believes the hub to have from it
  newRepros, fresh,
  faults      \* auxiliary: how many there have been

vars == <<hub, link, hubCorpus, newRepros, fresh, faults>>

(* Make, without files.  0 is the sequence number of what is not there;    *)
(* passed and given are auxiliary: the programs that a manager had or was  *)
(* sent since they were stored, and how often it was given a repro.        *)
Empty ==
  [corpus |-> [p \in Prog |-> 0], repros |-> [r \in Repro |-> 0], corpusSeq |-> 0, reproSeq |-> 0,
   managers |-> {}, connected |-> {}, mgrCorpus |-> [m \in Mgr |-> {}], mgrCorpusSeq |-> [m \in Mgr |-> 0],
   mgrReproSeq |-> [m \in Mgr |-> 0], reproSeqFile |-> [m \in Mgr |-> 0], ownRepros |-> [m \in Mgr |-> {}],
   passed |-> [m \in Mgr |-> {}], given |-> [m \in Mgr |-> [r \in Repro |-> 0]]]

Stored(h) == {p \in Prog : h.corpus[p] # 0}

Init ==
  /\ hub = Empty
  /\ link = [m \in Mgr |-> "none"]
  /\ hubCorpus = [m \in Mgr |-> {}]
  /\ newRepros = [m \in Mgr |-> {}]
  /\ fresh \in [Mgr -> BOOLEAN]
  /\ faults = 0

-----------------------------------------------------------------------------
(* Mutant: only the corpus of the manager that called counts as used. *)
Purge_OneManager(h) ==
  LET used == h.mgrCorpus[1]
  IN [h EXCEPT !.corpus = [p \in Prog |-> IF p \in used THEN @[p] ELSE 0],
               !.passed = [m \in Mgr |-> @[m] \cap used]]

(* purgeCorpus: programs that no manager has any more. *)
Purge(h) ==
  LET used == UNION {h.mgrCorpus[m] : m \in Mgr}
  IN [h EXCEPT !.corpus = [p \in Prog |-> IF p \in used THEN @[p] ELSE 0],
               !.passed = [m \in Mgr |-> @[m] \cap used]]

(* addInputs: a number for all of them, ...                                *)
NewSeq(h, add) == IF add = {} THEN h ELSE [h EXCEPT !.corpusSeq = @ + 1]

(* ... the manager's corpus, flushed first, and the corpus of the hub. *)
AddToManager(h, m, add) ==
  [h EXCEPT !.mgrCorpus[m] = @ \cup (add \ Refused), !.passed[m] = @ \cup (add \ Refused)]

AddToHub(h, add) ==
  [h EXCEPT !.corpus = [p \in Prog |-> IF p \in add \ Refused /\ @[p] = 0 THEN h.corpusSeq ELSE @[p]]]

(* Mutant: the files with the numbers for repros are not read. *)
Made_NoReproFile(h) ==
  LET corpusSeq == Max({h.corpus[p] : p \in Prog} \cup {h.mgrCorpusSeq[m] : m \in h.managers} \cup {0})
      reproSeq  == Max({h.repros[r] : r \in Repro} \cup {h.reproSeqFile[m] : m \in h.managers} \cup {0})
  IN Purge([h EXCEPT !.corpusSeq = corpusSeq, !.reproSeq = reproSeq, !.connected = {},
                     !.ownRepros = [m \in Mgr |-> {}], !.mgrReproSeq = [m \in Mgr |-> reproSeq]])

(* Make, from what is on disk: createManager for every directory. *)
Made(h) ==
  LET corpusSeq == Max({h.corpus[p] : p \in Prog} \cup {h.mgrCorpusSeq[m] : m \in h.managers} \cup {0})
      reproSeq(ms) == Max({h.repros[r] : r \in Repro} \cup {h.reproSeqFile[m] : m \in ms} \cup {0})
      before(m) == {n \in h.managers : n < m}
  IN Purge([h EXCEPT !.corpusSeq = corpusSeq, !.reproSeq = reproSeq(h.managers),
                     !.connected = {}, !.ownRepros = [m \in Mgr |-> {}],
                     !.mgrReproSeq = [m \in Mgr |->
                        IF m \in h.managers /\ h.reproSeqFile[m] = 0 THEN reproSeq(before(m)) ELSE h.reproSeqFile[m]]])

(* Mutant: the corpus of an earlier connection is not removed. *)
ConnectSteps_KeepsOld(h, m, isFresh, corpus) ==
  LET h1 == [h EXCEPT !.managers = @ \cup {m}, !.connected = @ \cup {m}]
      h2 == AddToHub(AddToManager(NewSeq(h1, corpus), m, corpus), corpus)
  IN <<h, h2, Purge(h2)>>

(* State.Connect: the hub after each of its writes. *)
ConnectSteps(h, m, isFresh, corpus) ==
  LET h1 == IF m \in h.managers THEN h
            ELSE [h EXCEPT !.managers = @ \cup {m}, !.mgrReproSeq[m] = h.reproSeq]
      h2 == [h1 EXCEPT !.connected = @ \cup {m}, !.mgrCorpusSeq[m] = IF isFresh THEN 0 ELSE @]
      h3 == LET seq == IF isFresh THEN h.reproSeq ELSE h2.mgrReproSeq[m]
            IN [h2 EXCEPT !.mgrReproSeq[m] = seq, !.reproSeqFile[m] = seq]
      h4 == NewSeq([h3 EXCEPT !.mgrCorpus[m] = {}], corpus)
      h5 == AddToManager(h4, m, corpus)
      h6 == AddToHub(h5, corpus)
  IN <<h, h1, h2, h3, h4, h5, h6, Purge(h6)>>

(* pendingInputs: all that the manager has not got or, if there are too    *)
(* many, the lowest numbers, and all programs of the last of them.         *)
Pending(h, m) ==
  {p \in Prog : h.corpus[p] > h.mgrCorpusSeq[m] /\ p \notin h.mgrCorpus[m] /\ p \in Supports[m]}

(* Mutant: programs of the last number are cut off with the batch. *)
UpTo_Cut(h, ps, n) ==
  LET below == {p \in ps : h.corpus[p] < n}
      at    == {p \in ps : h.corpus[p] = n}
  IN below \cup (IF at = {} THEN {} ELSE {CHOOSE p \in at : TRUE})

UpTo(h, ps, n) == {p \in ps : h.corpus[p] <= n}

LastSeq(h, m) ==
  LET ps == Pending(h, m)
  IN IF Cardinality(ps) <= MaxRecords THEN h.corpusSeq
     ELSE CHOOSE n \in {h.corpus[p] : p \in ps} :
            Cardinality(UpTo(h, ps, n)) > MaxRecords /\ Cardinality(UpTo(h, ps, n - 1)) <= MaxRecords

Inputs(h, m) == UpTo(h, Pending(h, m), LastSeq(h, m))

PendingInputs(h, m) ==
  [h EXCEPT !.mgrCorpusSeq[m] = LastSeq(h, m), !.passed[m] = @ \cup Inputs(h, m)]

(* AddRepro, of a manager that has seen all the others: it does not get    *)
(* its own one back.                                                       *)
OwnRepro(h, m, r) ==
  LET skip == IF h.mgrReproSeq[m] = h.reproSeq THEN h.reproSeq + 1 ELSE h.mgrReproSeq[m]
  IN [h EXCEPT !.ownRepros[m] = @ \cup {r}, !.mgrReproSeq[m] = skip,
               !.reproSeqFile[m] = IF skip = h.mgrReproSeq[m] THEN @ ELSE skip]

AddRepro(h, r) == [h EXCEPT !.reproSeq = @ + 1, !.repros[r] = h.reproSeq + 1]

(* Mutant: the number of a repro given to a manager is not saved. *)
PendingRepro_NotSaved(h, m) ==
  LET rs == {r \in Repro : h.repros[r] > h.mgrReproSeq[m] /\ r \notin h.ownRepros[m] /\ r \in Supports[m]}
      r  == CHOOSE r \in rs : \A s \in rs : h.repros[r] <= h.repros[s]
  IN IF rs = {} THEN [h EXCEPT !.mgrReproSeq[m] = h.reproSeq]
     ELSE [h EXCEPT !.mgrReproSeq[m] = h.repros[r], !.given[m][r] = @ + 1]

(* PendingRepro: the oldest that the manager has not got. *)
PendingRepros(h, m) ==
  {r \in Repro : h.repros[r] > h.mgrReproSeq[m] /\ r \notin h.ownRepros[m] /\ r \in Supports[m]}

PendingRepro(h, m) ==
  LET rs == PendingRepros(h, m)
      r  == CHOOSE r \in rs : \A s \in rs : h.repros[r] <= h.repros[s]
      n  == IF rs = {} THEN h.reproSeq ELSE h.repros[r]
  IN IF h.mgrReproSeq[m] = h.reproSeq THEN h
     ELSE [h EXCEPT !.mgrReproSeq[m] = n, !.reproSeqFile[m] = n,
                    !.given[m] = [s \in Repro |-> IF rs # {} /\ s = r THEN @[s] + 1 ELSE @[s]]]

(* Hub.Sync of a connected manager. *)
SyncSteps(h, m, add, del, repros, need) ==
  LET h1 == [h EXCEPT !.mgrCorpus[m] = @ \ del]
      h2 == IF del = {} THEN h1 ELSE Purge(h1)
      h3 == NewSeq(h2, add)
      h4 == AddToManager(h3, m, add)
      h5 == AddToHub(h4, add)
      h6 == PendingInputs(h5, m)
      new == {r \in repros : h.repros[r] = 0}
      h7 == IF new = {} THEN h6 ELSE OwnRepro(h6, m, CHOOSE r \in new : TRUE)
      h8 == IF new = {} THEN h7 ELSE AddRepro(h7, CHOOSE r \in new : TRUE)
      h9 == IF need THEN PendingRepro(h8, m) ELSE h8
  IN <<h, h1, h2, h3, h4, h5, h6, h7, h8, h9>>

(* A crash between two writes, or in a flush, which has then written some  *)
(* of the records (DB).                                                    *)
Torn(g, h, ps) ==
  [g EXCEPT !.corpus = [p \in Prog |-> IF p \in ps THEN h.corpus[p] ELSE @[p]],
            !.mgrCorpus = [m \in Mgr |-> (@[m] \ ps) \cup (h.mgrCorpus[m] \cap ps)]]

Crashes(steps) ==
  {Made(h) : h \in {Torn(steps[i], steps[i + 1], ps) : i \in 1 .. Len(steps) - 1, ps \in SUBSET Prog}}

-----------------------------------------------------------------------------
Faultless == UNCHANGED faults
Fault == faults < MaxFaults /\ faults' = faults + 1

(* HubConnector.loop, with what getMinimizedCorpus returned, and connect.  *)
(* The hub gets the call or not; the reply, or the connection for the      *)
(* calls of Sync, can still fail.                                          *)
Found(m, repros) == IF newRepros[m] = {} THEN repros ELSE newRepros[m]

Connect(m, corpus, repros) ==
  LET steps == ConnectSteps(hub, m, fresh[m], corpus)
  IN /\ link[m] = "none" /\ (corpus # {} => hub.corpusSeq < MaxSeq)
     /\ newRepros' = [newRepros EXCEPT ![m] = Found(m, repros)]
     /\ \/ /\ Faultless
           /\ hub' = steps[Len(steps)]
           /\ link' = [link EXCEPT ![m] = "connected"]
           /\ hubCorpus' = [hubCorpus EXCEPT ![m] = corpus]
           /\ fresh' = [fresh EXCEPT ![m] = FALSE]
        \/ /\ Fault
           /\ hub' \in {steps[Len(steps)]} \cup Crashes(steps)
           /\ UNCHANGED <<link, hubCorpus, fresh>>

(* A call of Hub.Sync with its answer, if it gets one. *)
CallSync(m, add, del, repros, need) ==
  LET steps == SyncSteps(hub, m, add, del, repros, need)
      h5    == steps[6]
  IN \/ /\ Faultless
        /\ m \in hub.connected
        /\ hub' = steps[Len(steps)]
        /\ link' = [link EXCEPT ![m] = IF h5.mgrCorpusSeq[m] = h5.corpusSeq \/ Pending(h5, m) = {}
                                       THEN "idle" ELSE "more"]
        /\ newRepros' = [newRepros EXCEPT ![m] = {}]
     \/ /\ \/ Fault /\ m \in hub.connected /\ hub' \in {hub, steps[Len(steps)]} \cup Crashes(steps)
           \/ Faultless /\ m \notin hub.connected /\ UNCHANGED hub
        /\ link' = [link EXCEPT ![m] = "none"]
        /\ newRepros' = [newRepros EXCEPT ![m] = repros]

(* HubConnector.sync: right after connect, with the same corpus, or in     *)
(* another round of loop.                                                  *)
Sync(m, corpus, repros, need) ==
  /\ \/ link[m] = "connected" /\ corpus = hubCorpus[m] /\ repros = newRepros[m]
     \/ link[m] = "idle" /\ repros = Found(m, repros)
  /\ corpus \ hubCorpus[m] # {} => hub.corpusSeq < MaxSeq
  /\ hubCorpus' = [hubCorpus EXCEPT ![m] = corpus]
  /\ CallSync(m, corpus \ hubCorpus[m], hubCorpus[m] \ corpus, repros, need)
  /\ UNCHANGED fresh

SyncMore(m) ==
  /\ link[m] = "more"
  /\ CallSync(m, {}, {}, {}, FALSE)
  /\ UNCHANGED <<hubCorpus, fresh>>

(* The manager is started again, with its corpus.db or without. *)
RestartManager(m) ==
  /\ Fault
  /\ link' = [link EXCEPT ![m] = "none"]
  /\ hubCorpus' = [hubCorpus EXCEPT ![m] = {}]
  /\ newRepros' = [newRepros EXCEPT ![m] = {}]
  /\ \E b \in BOOLEAN : fresh' = [fresh EXCEPT ![m] = b]
  /\ UNCHANGED hub

(* The hub is started again. *)
RestartHub ==
  /\ Fault
  /\ hub' = Made(hub)
  /\ UNCHANGED <<link, hubCorpus, newRepros, fresh>>

ManagerStep(m) ==
  \/ \E corpus \in SUBSET (Prog \cap Supports[m]) : \E repros \in {{}} \cup {{r} : r \in Repro \cap Supports[m]} :
       Connect(m, corpus, repros) \/ \E need \in BOOLEAN : Sync(m, corpus, repros, need)
  \/ SyncMore(m) \/ RestartManager(m)

Next == (\E m \in Mgr : ManagerStep(m)) \/ RestartHub

Spec == Init /\ [][Next]_vars

-----------------------------------------------------------------------------
TypeOK ==
  /\ hub.corpus \in [Prog -> 0 .. hub.corpusSeq] /\ hub.repros \in [Repro -> 0 .. hub.reproSeq]
  /\ hub.mgrCorpusSeq \in [Mgr -> 0 .. hub.corpusSeq] /\ hub.mgrReproSeq \in [Mgr -> 0 .. hub.reproSeq]
  /\ hub.connected \subseteq hub.managers /\ hub.managers \subseteq Mgr
  /\ hub.mgrCorpus \in [Mgr -> SUBSET Prog]
  /\ link \in [Mgr -> {"none", "connected", "idle", "more"}]
  /\ hubCorpus \in [Mgr -> SUBSET Prog] /\ newRepros \in [Mgr -> SUBSET Repro] /\ fresh \in [Mgr -> BOOLEAN]

(* What a manager believes the hub to have from it is what the hub has, so *)
(* that the differences it sends are the right ones: an error at any place *)
(* of a call makes it connect again and send all.                          *)
Mirrored == \A m \in hub.connected : link[m] # "none" => hub.mgrCorpus[m] = hubCorpus[m] \ Refused

(* The hub has the programs of the connected managers, and none that no    *)
(* manager has, whenever it crashed.                                       *)
HubExact ==
  /\ \A m \in hub.connected : hub.mgrCorpus[m] \subseteq Stored(hub)
  /\ Stored(hub) \subseteq UNION {hub.mgrCorpus[m] : m \in Mgr}

(* A manager's number has passed only programs that were sent to it, or    *)
(* that it had: no program falls between two batches, or is stored under   *)
(* a number that a manager has already passed, not even after a crash.     *)
NothingSkipped ==
  \A m \in hub.managers : \A p \in Stored(hub) \cap Supports[m] :
    hub.corpus[p] <= hub.mgrCorpusSeq[m] => p \in hub.passed[m]

(* A repro is given to a manager at most once. *)
ReproOnce == \A m \in Mgr, r \in Repro : hub.given[m][r] <= 1

(* A repro that waits for a manager stays until it is given to it, through *)
(* every crash, unless the manager starts afresh.  A manager whose file    *)
(* says 0 is left out: createManager takes 0 for a missing file and skips  *)
(* all that waits for it.                                                  *)
ReproKept ==
  [][\A m \in hub.managers : hub.reproSeqFile[m] # 0 /\ ~fresh[m] =>
       \A r \in PendingRepros(hub, m) : r \in PendingRepros(hub', m) \/ hub'.given[m][r] > 0]_vars
=============================================================================
