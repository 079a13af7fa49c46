------------------------------- MODULE Fuzzer -------------------------------
(***************************************************************************)
(* pkg/fuzzer, the engine inside syz-fuzzer: the priority queue of         *)
(* requests, the processes that run them (syz-fuzzer/proc.go), the triage, *)
(* smash and hints jobs that wait for their results, the fuzzer's corpus   *)
(* and signal, and the loop that polls the manager for candidates          *)
(* (syz-fuzzer/fuzzer.go).  A program is abstracted to what its runs       *)
(* return: the signal of its calls, and for the job that waits for the run *)
(* the signal of the call it is about, {} when reexecutionSuccess says no. *)
(***************************************************************************)
EXTENDS Integers, FiniteSets

CONSTANTS
  Proc,            \* the processes
  Signal,          \* the signal the kernel can give
  CandidateFlags,  \* the flags a candidate of the manager may have
  MinCandidates,   \* Config.MinCandidates
  MaxCandidates,   \* bound: candidates the manager has in total
  Comparisons, Collide, FaultInjection,   \* Config
  SmashIters,      \* bound: mutations of a smash job (100 in the code)
  LoopMax,         \* bound: runs of a minimisation, of hints, of fault injection
  CollideIters     \* bound: runs of a collided clone (50 in the code)

ASSUME FuzzerAssumption ==
  /\ IsFiniteSet(Proc) /\ IsFiniteSet(Signal)
  /\ CandidateFlags \subseteq SUBSET {"ProgCandidate", "ProgMinimized", "ProgSmashed"}
  /\ {MinCandidates, MaxCandidates, SmashIters, LoopMax, CollideIters} \subseteq Nat

VARIABLES
  job,         \* the jobs, by number in the order they were started
  nextJobID,
  queue,       \* nextExec: the numbers of the jobs that have a request in it
  candidates,  \* nextExec: the candidate requests in it
  resultC,     \* the results in the job's channel
  proc,        \* the request a process runs
  queuedCandidates, candidatesRequested,
  needCandidates,  \* the channel NeedCandidates holds a message
  poll,        \* the poll loop: idle, call (the RPC is out), push (AddCandidates)
  toPush,      \* candidates that AddCandidates has counted and not pushed yet
  grabbed,     \* the signal a poll call carries
  supply,      \* candidates the manager still has
  maxSignal, newSignal,   \* Corpus
  managerSignal  \* the signal the manager knows of

jobVars == <<job, nextJobID, queue, resultC>>
candVars == <<candidates, queuedCandidates, candidatesRequested, needCandidates, toPush, supply>>
signalVars == <<maxSignal, newSignal, managerSignal>>
vars == <<jobVars, candVars, signalVars, proc, poll, grabbed>>

(* A triage job starts at most one smash job, and that one hints job; each *)
(* triage job is started for signal nobody has seen before.                *)
JobID == 1 .. 3 * Cardinality(Signal)

NoJob == [kind |-> "none"]
Idle == [job |-> 0, stat |-> "idle"]

Running(kind) == {j \in JobID : job[j].kind = kind}

(* The position in its run() that a job waits at for a result. *)
Triage(flags, new) ==
  [kind |-> "triage", pc |-> "start", i |-> 0, notExecuted |-> 0,
   flags |-> flags, newSignal |-> new, stable |-> {}, newStable |-> {}]
Smash == [kind |-> "smash", pc |-> "start", i |-> 0]
Hints == [kind |-> "hints", pc |-> "start", i |-> 0]

(* Where main has polled the manager until it had nothing more to say. *)
Init ==
  /\ job = [j \in JobID |-> NoJob]
  /\ nextJobID = 1
  /\ queue = {}
  /\ candidates \in 0 .. MaxCandidates
  /\ resultC = [j \in JobID |-> {}]
  /\ proc = [p \in Proc |-> Idle]
  /\ queuedCandidates = candidates
  /\ candidatesRequested = FALSE
  /\ needCandidates = FALSE
  /\ poll = "idle"
  /\ toPush = 0
  /\ grabbed = {}
  /\ supply = MaxCandidates - candidates
  /\ maxSignal = {}
  /\ newSignal = {}
  /\ managerSignal = {}

-----------------------------------------------------------------------------
(* The priority queue (prio_queue.go): of two jobs of the same base        *)
(* priority the one that was started first is served first.                *)
candidatePrio == 4

BasePrio(r) ==
  CASE r.kind = "triage" -> IF "ProgCandidate" \in r.flags THEN 5 ELSE 3
    [] r.kind = "smash"  -> 1
    [] r.kind = "hints"  -> 1

GreaterThan(j, k) ==
  BasePrio(job[j]) > BasePrio(job[k]) \/ (BasePrio(job[j]) = BasePrio(job[k]) /\ j < k)

FirstJobs == {j \in queue : \A k \in queue \ {j} : GreaterThan(j, k)}

(* The request of job j, by the place in its code where it waits. *)
NeedSignal(j) == job[j].pc \notin {"collide", "fault", "seed"}

NeedCandidatesNow == queuedCandidates < MinCandidates

-----------------------------------------------------------------------------
(* NextInput from a given request on: the test of NeedCandidatesNow        *)
(* decides whether candidatesRequested is looked at.                       *)
Requested(j, sig, flags, count) ==
  [job |-> j, stat |-> IF count < MinCandidates THEN "need" ELSE "run", sig |-> sig, flags |-> flags, left |-> 0]

(* nextInput pops the request of a job, the first in the queue ... *)
PopJob(p) ==
  /\ proc[p].stat = "idle"
  /\ \E j \in FirstJobs :
       /\ candidates > 0 => BasePrio(job[j]) > candidatePrio
       /\ queue' = queue \ {j}
       /\ proc' = [proc EXCEPT ![p] = Requested(j, NeedSignal(j), {}, queuedCandidates)]
  /\ UNCHANGED <<job, nextJobID, resultC, candVars, signalVars, poll, grabbed>>

(* ... or makes one when the queue is empty ... *)
Generate(p) ==
  /\ proc[p].stat = "idle"
  /\ queue = {} /\ candidates = 0
  /\ proc' = [proc EXCEPT ![p] = Requested(0, TRUE, {}, queuedCandidates)]
  /\ UNCHANGED <<jobVars, candVars, signalVars, poll, grabbed>>

(* ... or pops a candidate, which is counted off in a step of its own. *)
PopCandidate(p) ==
  /\ proc[p].stat = "idle"
  /\ candidates > 0
  /\ \A j \in queue : BasePrio(job[j]) < candidatePrio
  /\ candidates' = candidates - 1
  /\ \E f \in CandidateFlags : proc' = [proc EXCEPT ![p] = [Requested(0, TRUE, f, 0) EXCEPT !.stat = "candidate"]]
  /\ UNCHANGED <<queuedCandidates, candidatesRequested, needCandidates, toPush, supply,
                 jobVars, signalVars, poll, grabbed>>

(* Mutant: a candidate is not counted off. *)
CountOff_Kept(p) ==
  /\ proc[p].stat = "candidate"
  /\ proc' = [proc EXCEPT ![p] = Requested(0, TRUE, proc[p].flags, queuedCandidates)]
  /\ UNCHANGED <<candVars, jobVars, signalVars, poll, grabbed>>

CountOff(p) ==
  /\ proc[p].stat = "candidate"
  /\ queuedCandidates' = queuedCandidates - 1
  /\ proc' = [proc EXCEPT ![p] = Requested(0, TRUE, proc[p].flags, queuedCandidates')]
  /\ UNCHANGED <<candidates, candidatesRequested, needCandidates, toPush, supply,
                 jobVars, signalVars, poll, grabbed>>

(* The CompareAndSwap, and the message unless it has swapped. *)
Signalled(p) ==
  /\ proc[p].stat = "need"
  /\ candidatesRequested' = TRUE
  /\ needCandidates' = (needCandidates \/ candidatesRequested)
  /\ proc' = [proc EXCEPT ![p].stat = "run"]
  /\ UNCHANGED <<candidates, queuedCandidates, toPush, supply, jobVars, signalVars, poll, grabbed>>

(* The fuzzer's Corpus: signal that was found here waits for the next poll, *)
(* signal of other fuzzers and of saved inputs does not.                   *)
AddRawMaxSignal(diff) ==
  /\ maxSignal' = maxSignal \cup diff
  /\ newSignal' = newSignal \cup diff

AddMaxSignal(sign) == maxSignal' = maxSignal \cup sign
CorpusSave(sign) == maxSignal' = maxSignal \cup sign
GrabNewSignal == grabbed' = newSignal /\ newSignal' = {}

(* startJob: the job gets the next number; its goroutine runs later. *)
StartJob(jobs, r) == [jobs EXCEPT ![nextJobID] = r]

(* One call of triageProgCall that finds something in the calls of a run   *)
(* that has ended: AddRawMaxSignal, and a triage job for signal nobody has *)
(* seen.  A call without new signal changes nothing.                       *)
TriageProgCall(p) ==
  /\ proc[p].stat = "run" /\ proc[p].sig
  /\ \E info \in SUBSET Signal :
       LET newMaxSignal == info \ maxSignal
       IN /\ newMaxSignal # {}
          /\ AddRawMaxSignal(newMaxSignal)
          /\ job' = StartJob(job, Triage(proc[p].flags, newMaxSignal))
          /\ nextJobID' = nextJobID + 1
  /\ UNCHANGED <<queue, resultC, candVars, managerSignal, proc, poll, grabbed>>

(* Mutant: the clone keeps the channel of the request. *)
Clone_KeepsResultC(r) == [r EXCEPT !.left = CollideIters]

(* Request.Clone for a collided batch: nobody waits for its results. *)
Clone(r) == [r EXCEPT !.job = 0, !.left = CollideIters]

(* What a process does after Done: the next run of a collided batch, a new *)
(* batch of a request that is not a clone, or NextInput.                   *)
AfterDone(r) ==
  IF r.left > 0 THEN {IF r.left = 1 THEN Idle ELSE [r EXCEPT !.left = r.left - 1]}
  ELSE {Idle} \cup (IF Collide THEN {Clone(r)} ELSE {})

(* Done has triaged the calls: it wakes the job that waits for the result  *)
(* and the process goes on.                                                *)
Done(p) ==
  /\ proc[p].stat = "run"
  /\ \E info \in SUBSET (IF proc[p].sig THEN maxSignal ELSE {}) :
       resultC' = IF proc[p].job = 0 THEN resultC ELSE [resultC EXCEPT ![proc[p].job] = @ \cup {info}]
  /\ \E r \in AfterDone(proc[p]) : proc' = [proc EXCEPT ![p] = r]
  /\ UNCHANGED <<job, nextJobID, queue, candVars, signalVars, poll, grabbed>>

-----------------------------------------------------------------------------
(* A job goes on until its next exec: the request is pushed and the job    *)
(* waits on resultC.                                                       *)
Exec(j, r) ==
  /\ job' = [job EXCEPT ![j] = r]
  /\ queue' = queue \cup {j}
  /\ resultC' = [resultC EXCEPT ![j] = {}]
  /\ UNCHANGED nextJobID

Ends(j) ==
  /\ job' = [job EXCEPT ![j] = NoJob]
  /\ resultC' = [resultC EXCEPT ![j] = {}]
  /\ UNCHANGED <<queue, nextJobID>>

(* The job goes on without an exec. *)
Goes(j, r) ==
  /\ job' = [job EXCEPT ![j] = r]
  /\ resultC' = [resultC EXCEPT ![j] = {}]
  /\ UNCHANGED <<queue, nextJobID>>

JobFrame == UNCHANGED <<candVars, signalVars, proc, poll, grabbed>>

TriageStart(j) ==
  /\ job[j].kind = "triage" /\ job[j].pc = "start"
  /\ Exec(j, [job[j] EXCEPT !.pc = "deflake"])
  /\ JobFrame

signalRuns == 3

(* Mutant: deflake gives up only when every run has failed. *)
GiveUpAt_AllRuns == signalRuns

(* The number of failed runs at which deflake gives up. *)
GiveUpAt == signalRuns \div 2 + 1

(* The signal that a run of deflake leaves. *)
Deflaked(r, info) ==
  [r EXCEPT !.i = r.i + 1,
            !.stable = IF r.i = 0 THEN info ELSE r.stable \cap info,
            !.newStable = (IF r.i = 0 THEN r.newSignal ELSE r.newStable) \cap info]

(* The end of deflake and what follows: no new signal is left, the program *)
(* is minimized already or has nothing to take away, or minimize runs it.  *)
AfterDeflake(j, r) ==
  \/ r.newStable = {} /\ Ends(j)
  \/ r.newStable # {} /\ Goes(j, [r EXCEPT !.pc = "save"])
  \/ r.newStable # {} /\ "ProgMinimized" \notin r.flags /\ Exec(j, [r EXCEPT !.pc = "minimize", !.i = 0])

(* The run has executed the call, and it gave signal. *)
reexecutionSuccess(info) == info # {}

(* deflake after a run: a run without the call's signal is skipped, too    *)
(* many of them or no new signal left end the job.                         *)
Deflake(j) ==
  /\ job[j].kind = "triage" /\ job[j].pc = "deflake"
  /\ \E info \in resultC[j] :
       LET failed == [job[j] EXCEPT !.i = @ + 1, !.notExecuted = @ + 1]
           again  == reexecutionSuccess(info)
           r      == IF again THEN Deflaked(job[j], info) ELSE failed
           giveUp == IF again THEN r.newStable = {} ELSE r.notExecuted >= GiveUpAt
       IN IF giveUp THEN Ends(j)
          ELSE IF r.i < signalRuns THEN Exec(j, r)
          ELSE AfterDeflake(j, r)
  /\ JobFrame

(* minimize: the predicate runs the program a few more times. *)
Minimize(j) ==
  /\ job[j].kind = "triage" /\ job[j].pc = "minimize" /\ resultC[j] # {}
  /\ \/ Goes(j, [job[j] EXCEPT !.pc = "save"])
     \/ job[j].i < LoopMax /\ Exec(j, [job[j] EXCEPT !.i = @ + 1])
  /\ JobFrame

(* The end of triageJob.run: a smash job, and the input in the corpus. *)
Save(j) ==
  /\ job[j].kind = "triage" /\ job[j].pc = "save"
  /\ LET r == [job[j] EXCEPT !.pc = "send"]
     IN IF "ProgSmashed" \in job[j].flags
        THEN job' = [job EXCEPT ![j] = r] /\ UNCHANGED nextJobID
        ELSE job' = StartJob([job EXCEPT ![j] = r], Smash) /\ nextJobID' = nextJobID + 1
  /\ CorpusSave(job[j].stable)
  /\ UNCHANGED <<queue, resultC, newSignal, managerSignal, candVars, proc, poll, grabbed>>

(* A sendInputsWorker, once one is free, takes the input; the job is over. *)
SendInput(j) ==
  /\ job[j].kind = "triage" /\ job[j].pc = "send"
  /\ Ends(j)
  /\ JobFrame

(* smashJob.run starts a hints job, if it is about a call, and runs the    *)
(* first mutation.                                                         *)
SmashStart(j) ==
  LET r == [job[j] EXCEPT !.pc = "mutate"]
  IN /\ job[j].kind = "smash" /\ job[j].pc = "start"
     /\ \/ job' = [job EXCEPT ![j] = r] /\ UNCHANGED nextJobID
        \/ Comparisons /\ job' = StartJob([job EXCEPT ![j] = r], Hints) /\ nextJobID' = nextJobID + 1
     /\ queue' = queue \cup {j}
     /\ UNCHANGED resultC
     /\ JobFrame

(* Each mutation is run, then collided; then faults are injected. *)
SmashStep(j) ==
  LET r      == job[j]
      again  == IF r.pc = "mutate" /\ Collide THEN [r EXCEPT !.pc = "collide"]
                ELSE [r EXCEPT !.pc = "mutate", !.i = @ + 1]
  IN /\ r.kind = "smash" /\ r.pc # "start" /\ resultC[j] # {}
     /\ \/ r.pc # "fault" /\ again.i < SmashIters /\ Exec(j, again)
        \/ r.pc # "fault" /\ again.i = SmashIters /\ FaultInjection /\ Exec(j, [r EXCEPT !.pc = "fault", !.i = 1])
        \/ r.pc = "fault" /\ r.i < LoopMax /\ Exec(j, [r EXCEPT !.i = @ + 1])
        \/ (r.pc = "fault" \/ again.i = SmashIters) /\ Ends(j)
     /\ JobFrame

(* hintsJob.run: a run that collects comparisons, then one per match. *)
HintsStep(j) ==
  /\ job[j].kind = "hints"
  /\ \/ job[j].pc = "start" /\ Exec(j, [job[j] EXCEPT !.pc = "seed"])
     \/ job[j].pc # "start" /\ resultC[j] # {} /\ Ends(j)
     \/ /\ job[j].pc # "start" /\ resultC[j] # {} /\ job[j].i < LoopMax
        /\ Exec(j, [job[j] EXCEPT !.pc = "hint", !.i = @ + 1])
  /\ JobFrame

-----------------------------------------------------------------------------
(* pollLoop and poll, by a tick or a message: the new signal is taken and  *)
(* sent, with NeedCandidatesNow as it is now.                              *)
PollStart ==
  /\ poll = "idle"
  /\ needCandidates' \in {needCandidates, FALSE}
  /\ poll' = IF NeedCandidatesNow THEN "callNeed" ELSE "call"
  /\ GrabNewSignal
  /\ UNCHANGED <<candidates, queuedCandidates, candidatesRequested, toPush, supply,
                 maxSignal, managerSignal, jobVars, proc>>

(* Mutant: the reply, and not the call, marks the new signal as sent. *)
PollReply_ClearsNew ==
  /\ poll \in {"call", "callNeed"}
  /\ \E seen \in SUBSET Signal :
       /\ managerSignal' = managerSignal \cup grabbed \cup seen
       /\ maxSignal' = maxSignal \cup seen
  /\ grabbed' = {} /\ newSignal' = {}
  /\ \E n \in 0 .. (IF poll = "callNeed" THEN supply ELSE 0) :
       /\ supply' = supply - n
       /\ toPush' = n
       /\ queuedCandidates' = queuedCandidates + n
       /\ poll' = IF n = 0 THEN "idle" ELSE "push"
  /\ UNCHANGED <<candidates, candidatesRequested, needCandidates, jobVars, proc>>

(* The manager answers with signal and inputs of other fuzzers, and with   *)
(* candidates if asked; AddCandidates counts them first.                   *)
PollReply ==
  /\ poll \in {"call", "callNeed"}
  /\ \E seen \in SUBSET Signal :
       /\ managerSignal' = managerSignal \cup grabbed \cup seen
       /\ AddMaxSignal(seen)
  /\ grabbed' = {}
  /\ \E n \in 0 .. (IF poll = "callNeed" THEN supply ELSE 0) :
       /\ supply' = supply - n
       /\ toPush' = n
       /\ queuedCandidates' = queuedCandidates + n
       /\ poll' = IF n = 0 THEN "idle" ELSE "push"
  /\ UNCHANGED <<newSignal, candidates, candidatesRequested, needCandidates, jobVars, proc>>

(* AddCandidates pushes a candidate, and after the last one clears the request. *)
PollPush ==
  /\ poll = "push"
  /\ candidates' = candidates + 1
  /\ toPush' = toPush - 1
  /\ IF toPush = 1 THEN poll' = "idle" /\ candidatesRequested' = FALSE
                   ELSE UNCHANGED <<poll, candidatesRequested>>
  /\ UNCHANGED <<queuedCandidates, needCandidates, supply, jobVars, signalVars, proc, grabbed>>

-----------------------------------------------------------------------------
ProcStep(p) ==
  PopJob(p) \/ PopCandidate(p) \/ Generate(p) \/ CountOff(p) \/ Signalled(p)
  \/ TriageProgCall(p) \/ Done(p)

JobStep(j) ==
  \/ TriageStart(j) \/ Deflake(j) \/ Minimize(j) \/ Save(j) \/ SendInput(j)
  \/ SmashStart(j) \/ SmashStep(j) \/ HintsStep(j)

PollStep == PollStart \/ PollReply \/ PollPush

Next ==
  \/ \E p \in Proc : ProcStep(p)
  \/ \E j \in JobID : JobStep(j)
  \/ PollStep

Spec == Init /\ [][Next]_vars

-----------------------------------------------------------------------------
JobRecord ==
  {NoJob}
  \cup [kind : {"triage"}, pc : {"start", "deflake", "minimize", "save", "send"},
        i : 0 .. signalRuns + LoopMax, notExecuted : 0 .. signalRuns,
        flags : SUBSET {"ProgCandidate", "ProgMinimized", "ProgSmashed"},
        newSignal : SUBSET Signal, stable : SUBSET Signal, newStable : SUBSET Signal]
  \cup [kind : {"smash"}, pc : {"start", "mutate", "collide", "fault"}, i : 0 .. SmashIters + LoopMax]
  \cup [kind : {"hints"}, pc : {"start", "seed", "hint"}, i : 0 .. LoopMax]

ProcRecord ==
  {Idle} \cup [job : {0} \cup JobID, stat : {"candidate", "need", "run"}, sig : BOOLEAN,
              flags : SUBSET {"ProgCandidate", "ProgMinimized", "ProgSmashed"}, left : 0 .. CollideIters]

TypeOK ==
  /\ job \in [JobID -> JobRecord]
  /\ nextJobID \in 1 .. Cardinality(JobID) + 1
  /\ queue \subseteq JobID
  /\ candidates \in 0 .. MaxCandidates
  /\ resultC \in [JobID -> SUBSET SUBSET Signal]
  /\ proc \in [Proc -> ProcRecord]
  /\ queuedCandidates \in 0 .. MaxCandidates
  /\ candidatesRequested \in BOOLEAN /\ needCandidates \in BOOLEAN
  /\ poll \in {"idle", "call", "callNeed", "push"}
  /\ toPush \in 0 .. MaxCandidates /\ supply \in 0 .. MaxCandidates
  /\ {grabbed, maxSignal, newSignal, managerSignal} \subseteq SUBSET Signal

(* The panic "queuedCandidates is out of sync" of NextInput is unreachable *)
(* although the counter and the queue are updated in different steps: the  *)
(* counter is the candidates queued, about to be pushed, or popped and not *)
(* yet counted off.                                                        *)
CandidatesCounted ==
  queuedCandidates =
    candidates + toPush + Cardinality({p \in Proc : proc[p].stat = "candidate"})

(* A job between its exec and its resumption has its request in exactly    *)
(* one place: the queue, one process, or its answer in resultC; no other   *)
(* job has one (nothing is lost, and no second answer meets a channel that *)
(* exec has closed).                                                       *)
OneAnswer ==
  \A j \in JobID :
    LET waits == job[j].kind # "none" /\ job[j].pc \notin {"start", "save", "send"}
    IN Cardinality(queue \cap {j}) + Cardinality({p \in Proc : proc[p].job = j}) + Cardinality(resultC[j])
       = IF waits THEN 1 ELSE 0

(* Two triage jobs never chase the same signal: processes that see it at   *)
(* the same time are told apart by AddRawMaxSignal.                        *)
ChasedOnce ==
  \A j, k \in Running("triage") : j # k => job[j].newSignal \cap job[k].newSignal = {}

(* No signal this fuzzer has found is forgotten on its way to the manager: *)
(* it is waiting for the next poll, in a call, or known there.             *)
SignalReported == maxSignal \subseteq newSignal \cup grabbed \cup managerSignal

(* An input enters the corpus, and goes to the manager, only with new      *)
(* signal that every run of deflake that counts has shown, and most of the *)
(* runs count.                                                             *)
CorpusIsStable ==
  \A j \in Running("triage") : job[j].pc \in {"minimize", "save", "send"} =>
    /\ job[j].newStable # {} /\ job[j].newStable \subseteq job[j].stable \cap job[j].newSignal
    /\ signalRuns - job[j].notExecuted > job[j].notExecuted
=============================================================================
