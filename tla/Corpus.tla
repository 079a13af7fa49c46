------------------------------- MODULE Corpus -------------------------------
(***************************************************************************)
(* The corpus of syz-manager: its RPC server (rpc.go) and the fuzzers in   *)
(* the VMs that call it, the candidates, phases and minimization of the    *)
(* manager (manager.go), and the database file (DB) that must survive a    *)
(* crash of the manager.  Signal is in canonical addresses and without     *)
(* priorities; an RPC handler and the use of its reply are one step, since *)
(* a fuzzer that has died in between loses all it had.                     *)
(***************************************************************************)
EXTENDS Integers, Sequences, FiniteSets

CONSTANTS
  VM,
  Finder,             \* bound: the VMs whose fuzzer needs candidates, finds signal and may die
  Prog, Signal,
  SignalOf,           \* the signals that a run of a program can give
  Bad, Disabled,      \* programs that checkProgram refuses
  PreserveCorpus, HubClient,   \* mgrconfig
  Leftover,           \* programLeftover of the disabled programs
  InitialFiles,       \* what corpus.db holds when the manager is first started
  BatchSize,          \* programs in one reply
  RotateShare,        \* bound: 10 in selectInputs
  SaturateAt,         \* bound: inputs that saturate a call
  HubProgs, MaxHub,   \* bound: what the hub can send, and candidates when it still may
  CompactUnit, CompactKeep

INSTANCE DB WITH Key <- Prog

ASSUME CorpusAssumption ==
  /\ Finder \subseteq VM /\ IsFiniteSet(Prog) /\ IsFiniteSet(Signal)
  /\ SignalOf \in [Prog -> SUBSET ((SUBSET Signal) \ {{}})]
  /\ HubProgs \subseteq Prog \ (Bad \cup Disabled)
  /\ Bad \subseteq Prog /\ Disabled \subseteq Prog \ Bad
  /\ Leftover \in [Disabled -> Prog \ (Bad \cup Disabled)]
  /\ BatchSize \in Nat \ {0} /\ RotateShare \in Nat \ {0} /\ CompactUnit \in Nat \ {0}
  /\ \A file \in InitialFiles : file \in [version : Nat, entries : Seq([key : Prog, seq : {seqDeleted, 0}])]

VARIABLES
  phase, candidates,
  corpus,          \* the signal of an input; {} if it is not in the corpus
  lastMinCorpus,
  saturated,       \* saturatedCalls: the programs are of one call
  db,
  checked,         \* checkResult is set
  maxSignal, corpusSignal,
  fuzzers, rotated,   \* the VMs in serv.fuzzers, and those of them that are rotated
  inputs, newMaxSignal, rotatedSignal,   \* their Fuzzer records
  vm,              \* where the fuzzer in a VM is
  vmMax, vmCorpus, \* its max signal and corpus signal
  todo,            \* candidates it has and has not triaged
  missed           \* auxiliary: signal accepted between the two halves of its Connect

mgrVars == <<phase, candidates, corpus, lastMinCorpus, saturated, db, checked>>
servVars == <<maxSignal, corpusSignal, fuzzers, rotated, inputs, newMaxSignal, rotatedSignal>>
vmVars == <<vm, vmMax, vmCorpus, todo, missed>>
vars == <<mgrVars, servVars, vmVars>>

phaseInit == 0
phaseLoadedCorpus == 1
phaseTriagedCorpus == 2
phaseQueriedHub == 3
phaseTriagedHub == 4
currentDBVersion == 4

NoInputs == [p \in Prog |-> {}]
Held(ins) == {p \in Prog : ins[p] # {}}
SignalOfAll(ins) == UNION {ins[p] : p \in Prog}

(* The manager starts: preloadCorpus, with no fuzzer. *)
Started(file) ==
  /\ phase = phaseInit
  /\ candidates = <<>>
  /\ corpus = NoInputs
  /\ lastMinCorpus = 0
  /\ saturated = FALSE
  /\ db = Open(file)
  /\ checked = FALSE
  /\ maxSignal = {} /\ corpusSignal = {}
  /\ fuzzers = {} /\ rotated = {}
  /\ inputs = [f \in VM |-> NoInputs]
  /\ newMaxSignal = [f \in VM |-> {}] /\ rotatedSignal = [f \in VM |-> {}]
  /\ vm = [f \in VM |-> "off"]
  /\ vmMax = [f \in VM |-> {}] /\ vmCorpus = [f \in VM |-> {}]
  /\ todo = [f \in VM |-> {}] /\ missed = [f \in VM |-> {}]

Init == \E file \in InitialFiles : Started(file)

-----------------------------------------------------------------------------
(* Mutant: an input is kept only if all of its signal is new. *)
Kept_AllNew(order) ==
  {order[i] : i \in {i \in DOMAIN order :
     \A e \in corpus[order[i]] : \A j \in 1 .. i - 1 : e \notin corpus[order[j]]}}

(* signal.Minimize keeps, for each signal, the first input that has it, in *)
(* the order the map gives.                                                *)
Kept(order) ==
  {order[i] : i \in {i \in DOMAIN order :
     \E e \in corpus[order[i]] : \A j \in 1 .. i - 1 : e \notin corpus[order[j]]}}

disabledHashes == IF PreserveCorpus THEN Disabled ELSE {}

(* Mutant: the test of the phase is dropped. *)
MinimizedDB_AnyPhase(kept) ==
  BumpVersion(DeleteAll(db, Prog \ (kept \cup disabledHashes)), currentDBVersion)

(* minimizeCorpus after the phase test: the inputs that are not needed     *)
(* leave the corpus and, once the corpus is triaged, the database.         *)
MinimizedDB(kept) ==
  IF phase < phaseTriagedCorpus THEN db
  ELSE BumpVersion(DeleteAll(db, Prog \ (kept \cup disabledHashes)), currentDBVersion)

MinimizeCorpus ==
  IF phase < phaseLoadedCorpus \/ Cardinality(Held(corpus)) <= (lastMinCorpus * 103) \div 100
  THEN UNCHANGED <<corpus, lastMinCorpus, saturated, db>>
  ELSE \E order \in Orders(Held(corpus)) :
         LET kept == Kept(order)
         IN /\ corpus' = [p \in Prog |-> IF p \in kept THEN corpus[p] ELSE {}]
            /\ lastMinCorpus' = Cardinality(kept)
            /\ saturated' = (saturated \/ Cardinality(kept) >= SaturateAt)
            /\ db' = MinimizedDB(kept)

(* The first half of Connect, fuzzerConnect: what the corpus is now. *)
FuzzerConnect(f) ==
  /\ vm[f] \in {"off", "gone"}
  /\ vm' = [vm EXCEPT ![f] = "connecting"]
  /\ MinimizeCorpus
  /\ inputs' = [inputs EXCEPT ![f] = corpus']
  /\ UNCHANGED <<phase, candidates, checked, maxSignal, corpusSignal, fuzzers, rotated, newMaxSignal,
                 rotatedSignal, vmMax, vmCorpus, todo, missed>>

(* What signal.Split(n) can take out of s; n = 0 takes all. *)
Splits(s, n) == IF n = 0 THEN {s} ELSE {c \in SUBSET s : Cardinality(c) = n}

(* The second half, with the server locked: the fuzzer gets everything ... *)
Connect(f) ==
  /\ vm[f] = "connecting"
  /\ fuzzers' = fuzzers \cup {f}
  /\ newMaxSignal' = [newMaxSignal EXCEPT ![f] = maxSignal]
  /\ vm' = [vm EXCEPT ![f] = IF checked THEN "on" ELSE "checking"]
  /\ UNCHANGED <<mgrVars, maxSignal, corpusSignal, rotated, inputs, rotatedSignal, vmMax, vmCorpus, todo, missed>>

(* ... or is rotated: some inputs are dropped with their signal, and a     *)
(* share of the signal that is left.                                       *)
ConnectRotated(f) ==
  /\ vm[f] = "connecting" /\ phase = phaseTriagedHub
  /\ fuzzers' = fuzzers \cup {f} /\ rotated' = rotated \cup {f}
  /\ \E drop \in SUBSET Held(inputs[f]) :
       LET left == maxSignal \ UNION {inputs[f][p] : p \in drop}
       IN /\ inputs' = [inputs EXCEPT ![f] = [p \in Prog |-> IF p \in drop THEN {} ELSE @[p]]]
          /\ \E cut \in Splits(left, Cardinality(left) \div RotateShare) :
               /\ newMaxSignal' = [newMaxSignal EXCEPT ![f] = left \ cut]
               /\ rotatedSignal' = [rotatedSignal EXCEPT ![f] = corpusSignal \cap (left \ cut)]
  /\ vm' = [vm EXCEPT ![f] = "on"]
  /\ UNCHANGED <<mgrVars, maxSignal, corpusSignal, vmMax, vmCorpus, todo, missed>>

(* loadCorpus: every program that can run, in the order of the map, and    *)
(* the same once more in a random order.                                   *)
Loaded ==
  LET keys == Keys(db.records) \ Bad
  IN (keys \ Disabled) \cup (IF PreserveCorpus THEN {} ELSE {Leftover[p] : p \in keys \cap Disabled})

(* The broken programs leave the records; the file follows later. *)
LoadCorpus ==
  /\ db' = DeleteAll(db, Bad)
  /\ \E once, again \in Orders(Loaded) : candidates' = once \o again
  /\ phase' = phaseLoadedCorpus

MachineChecked == checked' = TRUE /\ LoadCorpus /\ UNCHANGED <<corpus, lastMinCorpus, saturated>>

(* Check: the first result makes the manager load the corpus; a machine    *)
(* that fails the check is given up.                                       *)
Check(f) ==
  /\ vm[f] = "checking"
  /\ IF checked THEN UNCHANGED mgrVars ELSE MachineChecked
  /\ vm' = [vm EXCEPT ![f] = "on"]
  /\ UNCHANGED <<servVars, vmMax, vmCorpus, todo, missed>>

-----------------------------------------------------------------------------
(* The fuzzer in the VM runs a program and sees signal that is new to it. *)
Run(f, p) ==
  /\ vm[f] = "on" /\ f \in Finder /\ p \notin Bad \cup Disabled
  /\ \E s \in SignalOf[p] :
       /\ ~(s \subseteq vmMax[f])
       /\ vmMax' = [vmMax EXCEPT ![f] = @ \cup s]
  /\ UNCHANGED <<mgrVars, servVars, vm, vmCorpus, todo, missed>>

(* A candidate that gives no input: nothing new in it, or flaky. *)
TriageNothing(f, p) ==
  /\ vm[f] = "on" /\ p \in todo[f]
  /\ todo' = [todo EXCEPT ![f] = @ \ {p}]
  /\ UNCHANGED <<mgrVars, servVars, vm, vmMax, vmCorpus, missed>>

(* Mutant: the test for rotation is inverted. *)
Others_Rotated(from) == rotated \ from

(* The other fuzzers that get the input: not the sender, not rotated ones. *)
Others(from) == (fuzzers \ rotated) \ from

(* Mutant: the input is not flushed. *)
AddInput_NotFlushed(p, s) ==
  /\ corpus' = [corpus EXCEPT ![p] = @ \cup s]
  /\ db' = IF corpus[p] # {} THEN db ELSE Save(db, p, 0)
  /\ UNCHANGED <<phase, candidates, lastMinCorpus, saturated, checked>>

(* The program becomes an input or has more signal; a new one is saved.    *)
AddInput(p, s) ==
  /\ corpus' = [corpus EXCEPT ![p] = @ \cup s]
  /\ db' = IF corpus[p] # {} THEN db ELSE Flush(Save(db, p, 0))
  /\ UNCHANGED <<phase, candidates, lastMinCorpus, saturated, checked>>

(* The handler NewInput.  from is the sender, {} if it is no longer known. *)
NewInput(from, p, s) ==
  LET genuine == ~(s \subseteq corpusSignal)
      fresh   == {f \in from \cap rotated : ~(s \subseteq rotatedSignal[f])}
  IN IF saturated \/ (~genuine /\ fresh = {}) THEN UNCHANGED <<mgrVars, servVars, missed>>
     ELSE /\ AddInput(p, s)
          /\ rotatedSignal' = [f \in VM |-> rotatedSignal[f] \cup (IF f \in from \cap rotated THEN s ELSE {})]
          /\ corpusSignal' = corpusSignal \cup s
          /\ inputs' = [f \in VM |->
               IF genuine /\ f \in Others(from) THEN [inputs[f] EXCEPT ![p] = @ \cup s] ELSE inputs[f]]
          /\ missed' = [f \in VM |-> missed[f] \cup (IF vm[f] = "connecting" THEN s ELSE {})]
          /\ UNCHANGED <<maxSignal, fuzzers, rotated, newMaxSignal>>

(* Triage has saved an input in the fuzzer's corpus and a worker sends it. *)
SendInput(f, p) ==
  /\ vm[f] = "on" /\ f \in Finder /\ p \notin Bad \cup Disabled
  /\ \E s \in SignalOf[p] :
       /\ s \subseteq vmMax[f]
       /\ NewInput({f}, p, s)
       /\ vmCorpus' = [vmCorpus EXCEPT ![f] = @ \cup s]
  /\ todo' = [todo EXCEPT ![f] = @ \ {p}]
  /\ UNCHANGED <<vm, vmMax>>

(* A call of a VM that has been shut down since is still handled. *)
LateInput(f, p) ==
  /\ vm[f] = "gone" /\ f \in Finder /\ p \notin Bad \cup Disabled
  /\ \E s \in SignalOf[p] : NewInput({}, p, s)
  /\ UNCHANGED <<vm, vmMax, vmCorpus, todo>>

-----------------------------------------------------------------------------
(* candidateBatch: the last ones of the slice; the phase moves on when     *)
(* there is none left.                                                     *)
PhaseWhenEmpty ==
  CASE phase = phaseLoadedCorpus -> IF HubClient THEN phaseTriagedCorpus ELSE phaseTriagedHub
    [] phase = phaseQueriedHub -> phaseTriagedHub
    [] OTHER -> phase

CandidateBatch(need) ==
  LET n == IF ~need THEN 0 ELSE IF BatchSize < Len(candidates) THEN BatchSize ELSE Len(candidates)
  IN SubSeq(candidates, Len(candidates) - n + 1, Len(candidates))

(* Mutant: the signal is merged and not sent on. *)
MergeMaxSignal_NotSent(f) ==
  /\ maxSignal' = maxSignal \cup vmMax[f]
  /\ newMaxSignal' = [newMaxSignal EXCEPT ![f] = IF f \in rotated THEN @ ELSE {}]

(* The signal a fuzzer reports is sent to the others that are not rotated. *)
(* It reports what it has found; the rest of what it has seen came from    *)
(* the server.                                                             *)
MergeMaxSignal(f) ==
  LET new == vmMax[f] \ maxSignal
  IN /\ maxSignal' = maxSignal \cup new
     /\ newMaxSignal' = [g \in VM |->
          IF g = f THEN IF f \in rotated THEN newMaxSignal[f] ELSE {}
          ELSE newMaxSignal[g] \cup (IF g \in Others({f}) THEN new ELSE {})]

(* Poll of a rotated fuzzer: it is sent nothing. *)
PollRotated(f) ==
  /\ vm[f] = "on" /\ f \in rotated
  /\ MergeMaxSignal(f)
  /\ UNCHANGED <<mgrVars, corpusSignal, fuzzers, rotated, inputs, rotatedSignal, vmVars>>

(* Poll of the others: the signal and, if there are no candidates for it,  *)
(* inputs: a batch, or up to 50 on the first poll.                         *)
Poll(f, need) ==
  LET batch == CandidateBatch(need)
  IN /\ vm[f] = "on" /\ f \in fuzzers \ rotated
     /\ MergeMaxSignal(f)
     /\ \E take \in IF batch # <<>> THEN {{}} ELSE {Held(inputs[f])} \cup
                    {t \in SUBSET Held(inputs[f]) : Cardinality(t) = BatchSize} :
          LET got == UNION {inputs[f][p] : p \in take}
          IN /\ inputs' = [inputs EXCEPT ![f] = [p \in Prog |-> IF p \in take THEN {} ELSE @[p]]]
             /\ vmMax' = [vmMax EXCEPT ![f] = @ \cup newMaxSignal[f] \cup got]
             /\ vmCorpus' = [vmCorpus EXCEPT ![f] = @ \cup got]
     /\ todo' = [todo EXCEPT ![f] = @ \cup {batch[i] : i \in DOMAIN batch}]
     /\ candidates' = SubSeq(candidates, 1, Len(candidates) - Len(batch))
     /\ phase' = IF need /\ candidates' = <<>> THEN PhaseWhenEmpty ELSE phase
     /\ UNCHANGED <<corpus, lastMinCorpus, saturated, db, checked, corpusSignal, fuzzers, rotated, rotatedSignal, vm, missed>>

-----------------------------------------------------------------------------
(* The fuzzer dies with its VM, or fails its machine check. *)
VMCrash(f) ==
  /\ vm[f] \in {"checking", "on"} /\ f \in Finder
  /\ vm' = [vm EXCEPT ![f] = "crashed"]
  /\ vmMax' = [vmMax EXCEPT ![f] = {}]
  /\ vmCorpus' = [vmCorpus EXCEPT ![f] = {}] /\ todo' = [todo EXCEPT ![f] = {}]
  /\ missed' = [missed EXCEPT ![f] = {}]
  /\ UNCHANGED <<mgrVars, servVars>>

ShutdownInstance(f) ==
  /\ vm[f] = "crashed"
  /\ vm' = [vm EXCEPT ![f] = "gone"]
  /\ fuzzers' = fuzzers \ {f} /\ rotated' = rotated \ {f}
  /\ inputs' = [inputs EXCEPT ![f] = NoInputs]
  /\ newMaxSignal' = [newMaxSignal EXCEPT ![f] = {}] /\ rotatedSignal' = [rotatedSignal EXCEPT ![f] = {}]
  /\ UNCHANGED <<mgrVars, maxSignal, corpusSignal, vmMax, vmCorpus, todo, missed>>

(* getMinimizedCorpus, for the hub. *)
GetMinimizedCorpus ==
  /\ HubClient /\ phase >= phaseTriagedCorpus
  /\ MinimizeCorpus
  /\ UNCHANGED <<phase, candidates, checked, servVars, vmVars>>

(* addNewCandidates: the programs of a reply of the hub, perhaps none. *)
AddNewCandidates ==
  /\ HubClient /\ phase >= phaseTriagedCorpus /\ Len(candidates) < MaxHub
  /\ \E new \in {<<>>} \cup {<<p>> : p \in HubProgs} : candidates' = candidates \o new
  /\ phase' = IF phase = phaseTriagedCorpus THEN phaseQueriedHub ELSE phase
  /\ UNCHANGED <<corpus, lastMinCorpus, saturated, db, checked, servVars, vmVars>>

HubIsUnreachable ==
  /\ phase = phaseTriagedCorpus
  /\ phase' = phaseTriagedHub
  /\ UNCHANGED <<candidates, corpus, lastMinCorpus, saturated, db, checked, servVars, vmVars>>

(* The next manager is Started with the file. *)
Restarted(file) ==
  /\ phase' = phaseInit
  /\ candidates' = <<>>
  /\ corpus' = NoInputs
  /\ lastMinCorpus' = 0
  /\ saturated' = FALSE
  /\ db' = Open(file)
  /\ checked' = FALSE
  /\ maxSignal' = {} /\ corpusSignal' = {}
  /\ fuzzers' = {} /\ rotated' = {}
  /\ inputs' = [f \in VM |-> NoInputs]
  /\ newMaxSignal' = [f \in VM |-> {}] /\ rotatedSignal' = [f \in VM |-> {}]
  /\ vm' = [f \in VM |-> "off"]
  /\ vmMax' = [f \in VM |-> {}] /\ vmCorpus' = [f \in VM |-> {}]
  /\ todo' = [f \in VM |-> {}] /\ missed' = [f \in VM |-> {}]

(* The manager crashes, between handlers or while it flushes an input, and *)
(* is started again; its VMs end with it.                                  *)
Restart ==
  \E file \in {db.file} \cup
       (IF checked THEN UNION {FlushCrash(Save(db, p, 0)) : p \in Prog \ (Bad \cup Disabled)} ELSE {}) :
    Restarted(file)

VMStep(f) ==
  \/ FuzzerConnect(f) \/ Connect(f) \/ ConnectRotated(f) \/ Check(f)
  \/ PollRotated(f) \/ (\E need \in BOOLEAN : (need => f \in Finder) /\ Poll(f, need))
  \/ \E p \in Prog : Run(f, p) \/ TriageNothing(f, p) \/ SendInput(f, p) \/ LateInput(f, p)
  \/ VMCrash(f) \/ ShutdownInstance(f)

Next ==
  \/ \E f \in VM : VMStep(f)
  \/ GetMinimizedCorpus \/ AddNewCandidates \/ HubIsUnreachable \/ Restart

Spec == Init /\ [][Next]_vars

-----------------------------------------------------------------------------
TypeOK ==
  /\ phase \in phaseInit .. phaseTriagedHub
  /\ candidates \in Seq(Prog \ (Bad \cup Disabled))
  /\ corpus \in [Prog -> SUBSET Signal]
  /\ lastMinCorpus \in Nat /\ saturated \in BOOLEAN /\ checked \in BOOLEAN
  /\ db.records \in [Prog -> {seqDeleted, 0}] /\ db.uncompacted \in Nat
  /\ maxSignal \subseteq Signal /\ corpusSignal \subseteq Signal
  /\ rotated \subseteq fuzzers /\ fuzzers \subseteq VM
  /\ inputs \in [VM -> [Prog -> SUBSET Signal]]
  /\ newMaxSignal \in [VM -> SUBSET Signal] /\ rotatedSignal \in [VM -> SUBSET Signal]
  /\ vm \in [VM -> {"off", "connecting", "checking", "on", "crashed", "gone"}]
  /\ vmMax \in [VM -> SUBSET Signal] /\ vmCorpus \in [VM -> SUBSET Signal]
  /\ todo \in [VM -> SUBSET Prog] /\ missed \in [VM -> SUBSET Signal]

(* The corpus has all the signal the server believes it has: no input that *)
(* is refused, merged into another or minimized away takes signal with it. *)
CorpusCovers == corpusSignal = SignalOfAll(corpus)

(* Every input of the corpus can be read back from the file, whatever the  *)
(* manager is doing when it crashes.                                       *)
Durable == Held(corpus) \subseteq OnDisk(db)

(* The file followed by what is pending for it gives the records in memory. *)
FileReplays == Deserialize(db.file.entries \o db.pending) = db.records

(* A fuzzer that is not rotated has, or is owed, all the signal that any   *)
(* fuzzer has reported, so that it is not chased twice.                    *)
MaxSignalDistributed ==
  \A f \in fuzzers \ rotated : vm[f] # "crashed" => maxSignal \subseteq vmMax[f] \cup newMaxSignal[f]

(* Such a fuzzer has, or is owed, inputs for all the signal of the corpus, *)
(* except for those accepted between the two halves of its Connect.        *)
InputsDistributed ==
  \A f \in fuzzers \ rotated : vm[f] # "crashed" =>
    corpusSignal \subseteq vmCorpus[f] \cup SignalOfAll(inputs[f]) \cup missed[f]

(* A program is deleted from the file only if it cannot be run or, once    *)
(* the corpus is loaded, handed out and minimized, if it is not needed.    *)
OnlyRedundantDeleted ==
  [][db.file' = db.file \/ \A p \in OnDisk(db) \ OnDisk(db)' :
       p \in Bad \/ (phase >= phaseTriagedCorpus /\ p \notin Held(corpus)' /\ p \notin disabledHashes)]_vars

(* "Don't minimize persistent corpus until fuzzers have triaged all inputs *)
(* from it": what is deleted is not waiting for its triage.                *)
DeletedAfterTriage ==
  [][\A p \in OnDisk(db) \ OnDisk(db)' : \A f \in VM : p \notin todo[f]]_vars
=============================================================================
