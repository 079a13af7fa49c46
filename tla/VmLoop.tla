------------------------------- MODULE VmLoop -------------------------------
(***************************************************************************)
(* The main loop of syz-manager (vmLoop in manager.go): it divides the VMs *)
(* between fuzzing and the reproduction of crashes.  The pool of VMs, the  *)
(* goroutines that run an instance (runInstance) or a reproduction         *)
(* (runRepro and the boot requests of pkg/repro), and what is saved of     *)
(* crashes and reproducers.  A channel on which several goroutines send is *)
(* the set of those that are ready to.                                     *)
(***************************************************************************)
EXTENDS Integers, Sequences, FiniteSets, SequencesExt

CONSTANTS
  vmCount,
  Local,              \* the titles of the crashes found here
  MaxAttempts,        \* bound: maxReproAttempts is 3
  Strace              \* mgrconfig: StraceBin is set

VM == 0 .. vmCount - 1
Slot == 1 .. vmCount
Title == Local \cup {"external repro"}

ASSUME VmLoopAssumption == vmCount \in Nat \ {0} /\ MaxAttempts \in Nat \ {0}

VARIABLES
  loop,         \* where vmLoop is
  pool, freed,  \* ResourcePool: ids, and whether there is something in Freed
  booting,      \* VMs that SequentialResourcePool has not put into the pool yet
  inst,         \* the instances that fuzz: not there, running, or done with a crash or without
  pendingRepro, reproducing, reproQueue, numReproducing,
  stopPending,
  shutdown,     \* the loop has seen Shutdown
  Shutdown,     \* vm.Shutdown is closed
  phase, loopPhase,   \* phaseTriagedHub is reached; what the loop has read of it
  repro,        \* the goroutines of runRepro
  FuzzingVMs, dash,   \* mgrconfig: VMs that only fuzz; there is a dashboard
  hasRepro, failed    \* on disk, by title: repro.prog, and the number of repro<i>

loopVars == <<pendingRepro, reproducing, reproQueue, numReproducing, stopPending, shutdown, loopPhase>>
poolVars == <<pool, freed, booting>>
diskVars == <<hasRepro, failed>>
config == <<FuzzingVMs, dash>>
vars == <<loop, poolVars, inst, loopVars, Shutdown, phase, repro, config, diskVars>>

Crash(title, fromHub) == [title |-> title, fromHub |-> fromHub]
NoCrash == Crash("no crash", FALSE)
Crashes == {NoCrash} \cup {Crash(t, FALSE) : t \in Local}
NoInstance == [at |-> "none", crash |-> NoCrash]
(* A reproduction: its VMs, those of them that boot and those that are ready. *)
NoRepro == [at |-> "none", crash |-> NoCrash, vms |-> <<>>, boots |-> {}, ready |-> {}, result |-> "none"]

Init ==
  /\ loop = "top"
  /\ pool = <<>> /\ freed = FALSE /\ booting = VM
  /\ inst = [v \in VM |-> NoInstance]
  /\ pendingRepro = {} /\ reproducing = {} /\ reproQueue = <<>> /\ numReproducing = 0
  /\ stopPending = FALSE
  /\ shutdown = FALSE /\ Shutdown = FALSE
  /\ phase = FALSE /\ loopPhase = FALSE
  /\ repro = [s \in Slot |-> NoRepro]
  /\ FuzzingVMs \in 0 .. vmCount /\ dash \in BOOLEAN
  /\ hasRepro = {} /\ failed = [t \in Title |-> 0]

-----------------------------------------------------------------------------
(* Mutant: the listener is told only by the loop itself. *)
Put_NoNotice(vs) == pool' = pool \o vs /\ freed' = freed

(* ResourcePool.Put; a second notice is dropped. *)
Put(vs) == pool' = pool \o vs /\ freed' = TRUE

(* ResourcePool.Take: the last ones. *)
Taken(n) == SubSeq(pool, Len(pool) - n + 1, Len(pool))
Rest(n) == SubSeq(pool, 1, Len(pool) - n)

maxReproVMs == vmCount - FuzzingVMs
instancesPerRepro == IF 3 > maxReproVMs /\ maxReproVMs > 0 THEN maxReproVMs ELSE 3

(* Mutant: the reproduction that is about to start is not counted. *)
canRepro_NotCounted == loopPhase /\ reproQueue # <<>> /\ numReproducing * instancesPerRepro <= maxReproVMs

canRepro ==
  loopPhase /\ reproQueue # <<>> /\ (numReproducing + 1) * instancesPerRepro <= maxReproVMs

(* needLocalRepro, and the answers that needRepro can give: those of the   *)
(* dashboard are arbitrary.                                                *)
needLocalRepro(crash) == crash.title \notin hasRepro /\ failed[crash.title] < MaxAttempts

needRepro(crash) ==
  CASE crash.fromHub -> {TRUE} [] dash -> BOOLEAN [] OTHER -> {needLocalRepro(crash)}

(* saveCrash: the dashboard, or the files of the title, say whether a      *)
(* reproduction is needed.                                                 *)
saveCrash(crash) == IF dash THEN BOOLEAN ELSE {needLocalRepro(crash)}

(* saveRepro, under the title that was reproduced, and saveFailedRepro,    *)
(* which has nothing to write after an error.  They tell the dashboard if  *)
(* there is one.                                                           *)
saveRepro(r) == hasRepro' = IF dash THEN hasRepro ELSE hasRepro \cup ({r.result} \cap Local)

saveFailedRepro(r) ==
  failed' = IF dash \/ r.result # "none" \/ r.crash.fromHub THEN failed
            ELSE [failed EXCEPT ![r.crash.title] = IF @ < MaxAttempts THEN @ + 1 ELSE @]

(* Mutant: reproducing is not consulted. *)
Waiting_All == pendingRepro

Waiting == {c \in pendingRepro : c.title \notin reproducing}

(* Mutant: saveCrash has said that it needs a reproduction. *)
QueueRepro_Unchecked(crash) ==
  /\ loop = "top" /\ crash \in Waiting
  /\ pendingRepro' = pendingRepro \ {crash}
  /\ reproducing' = reproducing \cup {crash.title} /\ reproQueue' = Append(reproQueue, crash)
  /\ UNCHANGED <<loop, poolVars, inst, numReproducing, stopPending, shutdown, loopPhase, Shutdown, phase, repro, config, diskVars>>

(* One crash of the range over pendingRepro. *)
QueueRepro(crash) ==
  /\ loop = "top" /\ crash \in Waiting
  /\ pendingRepro' = pendingRepro \ {crash}
  /\ \E need \in needRepro(crash) :
       IF need THEN reproducing' = reproducing \cup {crash.title} /\ reproQueue' = Append(reproQueue, crash)
       ELSE UNCHANGED <<reproducing, reproQueue>>
  /\ UNCHANGED <<loop, poolVars, inst, numReproducing, stopPending, shutdown, loopPhase, Shutdown, phase, repro, config, diskVars>>

StartRepro(s) ==
  LET vms == Taken(instancesPerRepro)
  IN /\ loop = "top" /\ Waiting = {} /\ ~shutdown /\ canRepro /\ Len(pool) >= instancesPerRepro
     /\ repro[s].at = "none" /\ \A i \in 1 .. s - 1 : repro[i].at # "none"
     /\ pool' = Rest(instancesPerRepro)
     /\ repro' = [repro EXCEPT ![s] = [NoRepro EXCEPT !.at = "test", !.crash = Last(reproQueue),
                                                      !.vms = vms, !.boots = {vms[i] : i \in DOMAIN vms}]]
     /\ reproQueue' = Front(reproQueue)
     /\ numReproducing' = numReproducing + 1
     /\ UNCHANGED <<loop, freed, booting, inst, pendingRepro, reproducing, stopPending, shutdown, loopPhase,
                    Shutdown, phase, config, diskVars>>

(* Mutant: VMs are not kept for a reproduction that waits for more. *)
StartInstance_Eager ==
  /\ loop = "top" /\ Waiting = {} /\ ~shutdown /\ pool # <<>>
  /\ pool' = Rest(1)
  /\ inst' = [inst EXCEPT ![Last(pool)] = [NoInstance EXCEPT !.at = "run"]]
  /\ UNCHANGED <<loop, freed, booting, loopVars, Shutdown, phase, repro, config, diskVars>>

StartInstance ==
  /\ loop = "top" /\ Waiting = {} /\ ~shutdown /\ ~canRepro /\ pool # <<>>
  /\ pool' = Rest(1)
  /\ inst' = [inst EXCEPT ![Last(pool)] = [NoInstance EXCEPT !.at = "run"]]
  /\ UNCHANGED <<loop, freed, booting, loopVars, Shutdown, phase, repro, config, diskVars>>

Wait ==
  /\ loop = "top" /\ Waiting = {}
  /\ shutdown \/ (canRepro /\ Len(pool) < instancesPerRepro) \/ (~canRepro /\ pool = <<>>)
  /\ loop' = "wait"
  /\ UNCHANGED <<poolVars, inst, loopVars, Shutdown, phase, repro, config, diskVars>>

-----------------------------------------------------------------------------
(* The cases of the select statement; after them the loop goes around.     *)
Around ==
  /\ loop' = IF shutdown' /\ Len(pool') = vmCount THEN "exit" ELSE "top"
  /\ loopPhase' = phase

Freed ==
  /\ loop = "wait" /\ freed /\ freed' = FALSE
  /\ UNCHANGED <<pool, booting, inst, pendingRepro, reproducing, reproQueue, numReproducing, stopPending, shutdown,
                 Shutdown, phase, repro, config, diskVars>>
  /\ Around

InstanceDone(v) == \E crash \in Crashes : inst' = [inst EXCEPT ![v] = [at |-> "done", crash |-> crash]]

(* One of the instances gets the stop request and ends, perhaps with a     *)
(* crash that was already there.                                           *)
StopRequest(v) ==
  /\ loop = "wait" /\ ~stopPending /\ canRepro /\ inst[v].at = "run"
  /\ stopPending' = TRUE
  /\ InstanceDone(v)
  /\ UNCHANGED <<poolVars, pendingRepro, reproducing, reproQueue, numReproducing, shutdown, Shutdown,
                 phase, repro, config, diskVars>>
  /\ Around

(* runDone: the VM is free again, and a crash may wait for a reproduction. *)
RunDone(v) ==
  /\ loop = "wait" /\ inst[v].at = "done"
  /\ stopPending' = FALSE
  /\ Put(<<v>>)
  /\ inst' = [inst EXCEPT ![v] = NoInstance]
  /\ LET crash == inst[v].crash
     IN \E need \in IF shutdown \/ crash = NoCrash THEN {FALSE} ELSE saveCrash(crash) :
          pendingRepro' = IF need THEN pendingRepro \cup {crash} ELSE pendingRepro
  /\ UNCHANGED <<booting, reproducing, reproQueue, numReproducing, shutdown, Shutdown, phase, repro,
                 config, diskVars>>
  /\ Around

(* reproDone: a title can be reproduced again. *)
ReproDone(s) ==
  LET r == repro[s]
  IN /\ loop = "wait" /\ r.at = "sent"
     /\ numReproducing' = numReproducing - 1
     /\ reproducing' = reproducing \ {r.crash.title}
     /\ saveRepro(r) /\ saveFailedRepro(r)
     /\ repro' = [repro EXCEPT ![s] = NoRepro]
     /\ UNCHANGED <<poolVars, inst, pendingRepro, reproQueue, stopPending, shutdown, Shutdown, phase, config>>
     /\ Around

ShutdownSeen ==
  /\ loop = "wait" /\ Shutdown /\ ~shutdown /\ shutdown' = TRUE
  /\ UNCHANGED <<poolVars, inst, pendingRepro, reproducing, reproQueue, numReproducing, stopPending,
                 Shutdown, phase, repro, config, diskVars>>
  /\ Around

(* externalReproQueue: the hub is asked for repros if there is a dashboard. *)
ExternalRepro ==
  /\ loop = "wait" /\ dash
  /\ pendingRepro' = pendingRepro \cup {Crash("external repro", TRUE)}
  /\ UNCHANGED <<poolVars, inst, reproducing, reproQueue, numReproducing, stopPending, shutdown, Shutdown,
                 phase, repro, config, diskVars>>
  /\ Around

-----------------------------------------------------------------------------
(* SequentialResourcePool. *)
AddVM(v) ==
  /\ v \in booting /\ \A w \in booting : v <= w
  /\ booting' = booting \ {v}
  /\ Put(<<v>>)
  /\ UNCHANGED <<loop, inst, loopVars, Shutdown, phase, repro, config, diskVars>>

(* runInstance: it cannot be created, its time is over, the system is shut *)
(* down, or it crashes.                                                    *)
InstanceEnds(v) ==
  /\ inst[v].at = "run"
  /\ InstanceDone(v)
  /\ UNCHANGED <<loop, poolVars, loopVars, Shutdown, phase, repro, config, diskVars>>

(* A boot request of pkg/repro: the VM boots, or Shutdown is noticed. *)
BootVM(s, v) ==
  /\ v \in repro[s].boots
  /\ \/ repro' = [repro EXCEPT ![s].boots = @ \ {v}, ![s].ready = @ \cup {v}]
     \/ Shutdown /\ repro' = [repro EXCEPT ![s].boots = @ \ {v}]
  /\ UNCHANGED <<loop, poolVars, inst, loopVars, Shutdown, phase, config, diskVars>>

(* runOnInstance: a VM is taken, used for a test and boots anew.  After    *)
(* the last test no more VMs are wanted; the crash can have another title. *)
TestProg(s, v) ==
  /\ repro[s].at = "test" /\ v \in repro[s].ready
  /\ \E at \in {"test", "close"} : \E result \in {"none", "error", "other title"} \cup Local :
       /\ at = "test" => result = "none"
       /\ repro' = [repro EXCEPT ![s].ready = @ \ {v}, ![s].boots = IF Shutdown THEN @ ELSE @ \cup {v},
                                 ![s].at = at, ![s].result = result]
  /\ UNCHANGED <<loop, poolVars, inst, loopVars, Shutdown, phase, config, diskVars>>

(* There is nothing to reproduce from: ErrNoPrograms. *)
NoPrograms(s) ==
  /\ repro[s].at = "test" /\ repro[s].ready = {} /\ repro[s].boots = {repro[s].vms[i] : i \in DOMAIN repro[s].vms}
  /\ repro' = [repro EXCEPT ![s].at = "close", ![s].boots = {}, ![s].result = "error"]
  /\ UNCHANGED <<loop, poolVars, inst, loopVars, Shutdown, phase, config, diskVars>>

(* Mutant: repro.Run does not wait for the VMs that still boot. *)
ReproRuns_NoWait(s) ==
  LET r == repro[s]
  IN /\ r.at = "close"
     /\ Put(r.vms) /\ repro' = [repro EXCEPT ![s].at = "sent", ![s].vms = <<>>, ![s].ready = {}]
     /\ UNCHANGED <<loop, booting, inst, loopVars, Shutdown, phase, config, diskVars>>

(* repro.Run returns when no VM boots any more; one VM is kept for strace. *)
ReproRuns(s) ==
  LET r == repro[s]
  IN /\ r.at = "close" /\ r.boots = {}
     /\ IF Strace /\ r.result \notin {"none", "error"}
        THEN Put(Tail(r.vms)) /\ repro' = [repro EXCEPT ![s].at = "strace", ![s].vms = <<Head(@)>>, ![s].ready = {}]
        ELSE Put(r.vms) /\ repro' = [repro EXCEPT ![s].at = "sent", ![s].vms = <<>>, ![s].ready = {}]
     /\ UNCHANGED <<loop, booting, inst, loopVars, Shutdown, phase, config, diskVars>>

RunStrace(s) ==
  /\ repro[s].at = "strace"
  /\ Put(repro[s].vms)
  /\ repro' = [repro EXCEPT ![s].at = "sent", ![s].vms = <<>>]
  /\ UNCHANGED <<loop, booting, inst, loopVars, Shutdown, phase, config, diskVars>>

TriagedHub ==
  /\ ~phase /\ phase' = TRUE
  /\ UNCHANGED <<loop, poolVars, inst, loopVars, Shutdown, repro, config, diskVars>>

Interrupt ==
  /\ ~Shutdown /\ Shutdown' = TRUE
  /\ UNCHANGED <<loop, poolVars, inst, loopVars, phase, repro, config, diskVars>>

LoopStep ==
  \/ \E c \in pendingRepro : QueueRepro(c)
  \/ (\E s \in Slot : StartRepro(s)) \/ StartInstance \/ Wait

Select ==
  \/ Freed \/ ShutdownSeen \/ ExternalRepro
  \/ \E v \in VM : StopRequest(v) \/ RunDone(v)
  \/ \E s \in Slot : ReproDone(s)

ReproStep(s) == (\E v \in VM : BootVM(s, v) \/ TestProg(s, v)) \/ NoPrograms(s) \/ ReproRuns(s) \/ RunStrace(s)

Next ==
  /\ loop # "exit"
  /\ \/ LoopStep \/ Select
     \/ \E v \in VM : AddVM(v) \/ InstanceEnds(v)
     \/ \E s \in Slot : ReproStep(s)
     \/ TriagedHub \/ Interrupt

Spec == Init /\ [][Next]_vars

(* A select statement picks one of the cases that are ready at random; an  *)
(* instance ends at the latest after VMRunningTime; VMs boot, and a        *)
(* reproduction that gets its VMs is over at some time.                    *)
Fairness ==
  /\ WF_vars(LoopStep) /\ SF_vars(Freed) /\ SF_vars(ShutdownSeen)
  /\ \A v \in VM : WF_vars(AddVM(v)) /\ WF_vars(InstanceEnds(v)) /\ SF_vars(RunDone(v))
  /\ \A s \in Slot : WF_vars(ReproStep(s)) /\ SF_vars(ReproDone(s))

FairSpec == Spec /\ Fairness

-----------------------------------------------------------------------------
InstancesFuzzing == {v \in VM : inst[v].at # "none"}
ReproVMs(s) == {repro[s].vms[i] : i \in DOMAIN repro[s].vms} \cup repro[s].boots \cup repro[s].ready

TypeOK ==
  /\ loop \in {"top", "wait", "exit"}
  /\ pool \in Seq(VM) /\ Len(pool) <= vmCount /\ booting \subseteq VM
  /\ reproducing \subseteq Title /\ numReproducing \in 0 .. vmCount
  /\ inst \in [VM -> [at : {"none", "run", "done"}, crash : Crashes]]
  /\ \A s \in Slot : repro[s].at \in {"none", "test", "close", "strace", "sent"}

(* A VM is used for one thing at a time: no instance is created on a VM    *)
(* that is still in use.                                                   *)
VMUsedOnce ==
  /\ \A i, j \in DOMAIN pool : pool[i] = pool[j] => i = j
  /\ \A i \in DOMAIN pool : pool[i] \notin booting \cup InstancesFuzzing \cup UNION {ReproVMs(s) : s \in Slot}
  /\ \A s \in Slot : ReproVMs(s) \cap (booting \cup InstancesFuzzing \cup UNION {ReproVMs(r) : r \in Slot \ {s}}) = {}
  /\ booting \cap InstancesFuzzing = {}

(* Reproduction leaves the VMs that are meant for fuzzing alone. *)
FuzzingGoesOn == Cardinality(UNION {ReproVMs(s) : s \in Slot}) + FuzzingVMs <= vmCount

(* One reproduction per title, and reproducing says which there are. *)
Running == {s \in Slot : repro[s].at # "none"}
OneReproPerTitle ==
  /\ \A s, r \in Running : repro[s].crash.title = repro[r].crash.title => s = r
  /\ \A i, j \in DOMAIN reproQueue : reproQueue[i].title = reproQueue[j].title => i = j
  /\ reproducing = {repro[s].crash.title : s \in Running} \cup {reproQueue[i].title : i \in DOMAIN reproQueue}
  /\ Cardinality(reproducing) = Cardinality(Running) + Len(reproQueue)

(* A crash is not reproduced again after MaxAttempts attempts in vain,     *)
(* however many of its kind came in while one was running.                 *)
WorthTrying ==
  ~dash => /\ \A s \in Running : failed[repro[s].crash.title] < MaxAttempts
           /\ \A i \in DOMAIN reproQueue : failed[reproQueue[i].title] < MaxAttempts

(* A VM in the pool is used: the notices of the pool are not lost.         *)
VMsUsed ==
  \A v \in VM : (\E i \in DOMAIN pool : pool[i] = v) ~> (shutdown \/ \A i \in DOMAIN pool : pool[i] # v)

(* A reproduction that is queued, and for which there are VMs besides      *)
(* those meant for fuzzing, gets them.                                     *)
ReprosStart == canRepro ~> (shutdown \/ ~canRepro)

(* "This error [ErrNoVMs] is to be expected if we're shutting down": a     *)
(* reproduction whose VMs do not boot any more ends, and so does the loop. *)
ShutdownEnds == Shutdown ~> (loop = "exit")
=============================================================================
