---------------------------- MODULE FuzzerProofs ----------------------------
(***************************************************************************)
(* Proofs about Fuzzer, for any number of processes, any signal and any    *)
(* bounds: signal is chased once and not forgotten, inputs of the corpus   *)
(* are stable, the candidates are counted, and a request has one answer.   *)
(***************************************************************************)
EXTENDS Fuzzer, FiniteSetTheorems, TLAPS

USE SMT, Zenon, SMTT(30)    \* the provers of a step that names none, in this order

Flags == {"ProgCandidate", "ProgMinimized", "ProgSmashed"}

(* The records that jobs and processes can have.  A run of deflake fails   *)
(* at most once in a job that goes on.                                     *)
TriageRec ==
  [kind : {"triage"}, pc : {"start", "deflake", "minimize", "save", "send"}, i : Nat, notExecuted : {0, 1},
   flags : SUBSET Flags, newSignal : SUBSET Signal, stable : SUBSET Signal, newStable : SUBSET Signal]
SmashRec == [kind : {"smash"}, pc : {"start", "mutate", "collide", "fault"}, i : Nat]
HintsRec == [kind : {"hints"}, pc : {"start", "seed", "hint"}, i : Nat]

ProcRec ==
  {Idle} \cup [job : {0} \cup JobID, stat : {"candidate", "need", "run"}, sig : BOOLEAN,
              flags : SUBSET Flags, left : Nat]

(* What the signal of a triage job is, when max is the max signal. *)
GoodTriage(max) ==
  {r \in TriageRec :
     /\ r.newStable \subseteq r.stable \cap r.newSignal
     /\ r.stable \subseteq max /\ r.newSignal \subseteq max
     /\ r.pc \in {"minimize", "save", "send"} => r.newStable # {}}

GoodJobs(max) == {NoJob} \cup SmashRec \cup HintsRec \cup GoodTriage(max)

JobsInv ==
  /\ maxSignal \in SUBSET Signal
  /\ nextJobID \in Nat
  /\ queue \in SUBSET JobID
  /\ job \in [JobID -> GoodJobs(maxSignal)]
  /\ resultC \in [JobID -> SUBSET SUBSET maxSignal]
  /\ proc \in [Proc -> ProcRec]

-----------------------------------------------------------------------------
(* Jobs stay good when the max signal grows. *)
LEMMA GoodGrows ==
  ASSUME NEW max, NEW more, max \subseteq more
  PROVE  GoodJobs(max) \subseteq GoodJobs(more)
BY DEF GoodJobs, GoodTriage

LEMMA TriageIsGood ==
  ASSUME NEW max \in SUBSET Signal, NEW flags \in SUBSET Flags, NEW new \in SUBSET max
  PROVE  Triage(flags, new) \in GoodJobs(max)
<1> DEFINE r == Triage(flags, new)
<1>1. r \in TriageRec BY DEF Triage, TriageRec
<1>2. r.newStable = {} /\ r.stable = {} /\ r.newSignal = new /\ r.pc = "start" BY DEF Triage
<1> QED BY <1>1, <1>2 DEF GoodJobs, GoodTriage

LEMMA SmashIsGood == ASSUME NEW max PROVE Smash \in GoodJobs(max) /\ Hints \in GoodJobs(max)
BY DEF Smash, Hints, GoodJobs, SmashRec, HintsRec

LEMMA JobKinds ==
  ASSUME NEW max, NEW r \in GoodJobs(max)
  PROVE  /\ r.kind = "triage" => r \in GoodTriage(max)
         /\ r.kind = "smash" => r \in SmashRec
         /\ r.kind = "hints" => r \in HintsRec
         /\ r.kind = "none" => r = NoJob
BY DEF GoodJobs, GoodTriage, TriageRec, SmashRec, HintsRec, NoJob

(* A job that goes on (Exec, Goes, Ends), with a good record. *)
LEMMA JobGoesOn ==
  ASSUME JobsInv, NEW j \in JobID, NEW r \in GoodJobs(maxSignal),
         job' = [job EXCEPT ![j] = r],
         resultC' = [resultC EXCEPT ![j] = {}],
         queue' \in SUBSET JobID,
         UNCHANGED <<maxSignal, proc, nextJobID>>
  PROVE  JobsInv'
BY DEF JobsInv

(* A new job next to one that goes on. *)
LEMMA JobStarts ==
  ASSUME JobsInv, NEW j \in JobID, NEW r \in GoodJobs(maxSignal), NEW s \in GoodJobs(maxSignal),
         job' = StartJob([job EXCEPT ![j] = r], s),
         resultC' = resultC,
         nextJobID' = nextJobID + 1,
         queue' \in SUBSET JobID,
         UNCHANGED <<maxSignal, proc>>
  PROVE  JobsInv'
<1> DEFINE jobs == [job EXCEPT ![j] = r]
<1>1. jobs \in [JobID -> GoodJobs(maxSignal)] BY DEF JobsInv
<1> HIDE DEF jobs
<1>2. [jobs EXCEPT ![nextJobID] = s] \in [JobID -> GoodJobs(maxSignal)] BY <1>1
<1>3. job' \in [JobID -> GoodJobs(maxSignal)] BY <1>2 DEF StartJob, jobs
<1>4. nextJobID' \in Nat BY DEF JobsInv
<1>5. maxSignal' \in SUBSET Signal /\ resultC' \in [JobID -> SUBSET SUBSET maxSignal'] /\ proc' \in [Proc -> ProcRec]
  BY DEF JobsInv
<1>6. job' \in [JobID -> GoodJobs(maxSignal')] BY <1>3
<1> QED BY <1>4, <1>5, <1>6 DEF JobsInv

-----------------------------------------------------------------------------
(* The steps of a triage job. *)
LEMMA GoodNext ==
  ASSUME NEW max \in SUBSET Signal, NEW r \in GoodTriage(max), NEW i \in Nat
  PROVE  /\ [r EXCEPT !.pc = "deflake"] \in GoodJobs(max)
         /\ [r EXCEPT !.i = i] \in GoodJobs(max)
         /\ r.newStable # {} => /\ [r EXCEPT !.pc = "save"] \in GoodJobs(max)
                                /\ [r EXCEPT !.pc = "send"] \in GoodJobs(max)
                                /\ [r EXCEPT !.pc = "minimize", !.i = 0] \in GoodJobs(max)
         /\ NoJob \in GoodJobs(max)
<1> USE DEF GoodTriage, TriageRec
<1>1. [r EXCEPT !.pc = "deflake"] \in GoodTriage(max) OBVIOUS
<1>2. [r EXCEPT !.i = i] \in GoodTriage(max) OBVIOUS
<1>3. ASSUME r.newStable # {} PROVE [r EXCEPT !.pc = "save"] \in GoodTriage(max) BY <1>3
<1>4. ASSUME r.newStable # {} PROVE [r EXCEPT !.pc = "send"] \in GoodTriage(max) BY <1>4
<1>5. ASSUME r.newStable # {} PROVE [r EXCEPT !.pc = "minimize", !.i = 0] \in GoodTriage(max) BY <1>5
<1> QED BY <1>1, <1>2, <1>3, <1>4, <1>5 DEF GoodJobs

LEMMA DeflakedIsGood ==
  ASSUME NEW max \in SUBSET Signal, NEW r \in GoodTriage(max), r.pc = "deflake", NEW info \in SUBSET max
  PROVE  /\ Deflaked(r, info) \in GoodTriage(max) /\ Deflaked(r, info).newSignal = r.newSignal
         /\ Deflaked(r, info).pc = "deflake" /\ Deflaked(r, info).kind = "triage"
<1> DEFINE stable == IF r.i = 0 THEN info ELSE r.stable \cap info
           newStable == (IF r.i = 0 THEN r.newSignal ELSE r.newStable) \cap info
<1>1. stable \in SUBSET max /\ stable \in SUBSET Signal BY DEF GoodTriage
<1>2. newStable \subseteq stable \cap r.newSignal BY DEF GoodTriage
<1>3. newStable \in SUBSET Signal BY DEF GoodTriage, TriageRec
<1>i. r.i + 1 \in Nat BY DEF GoodTriage, TriageRec
<1> HIDE DEF stable, newStable
<1>4. [r EXCEPT !.i = r.i + 1, !.stable = stable, !.newStable = newStable] \in GoodTriage(max)
  BY <1>1, <1>2, <1>3, <1>i DEF GoodTriage, TriageRec
<1>5. Deflaked(r, info) = [r EXCEPT !.i = r.i + 1, !.stable = stable, !.newStable = newStable]
  BY DEF Deflaked, stable, newStable
<1> QED BY <1>4, <1>5 DEF GoodTriage, TriageRec

LEMMA FailedIsGood ==
  ASSUME NEW max \in SUBSET Signal, NEW r \in GoodTriage(max), ~(r.notExecuted + 1 >= GiveUpAt)
  PROVE  [r EXCEPT !.i = @ + 1, !.notExecuted = @ + 1] \in GoodTriage(max)
<1>1. GiveUpAt = 2 BY DEF GiveUpAt, signalRuns
<1>2. r.notExecuted + 1 \in {0, 1} BY <1>1 DEF GoodTriage, TriageRec
<1> DEFINE i == r.i + 1
           k == r.notExecuted + 1
<1>i. i \in Nat BY DEF GoodTriage, TriageRec
<1> HIDE DEF i, k
<1>3. [r EXCEPT !.i = i, !.notExecuted = k] \in GoodTriage(max)
  BY <1>2, <1>i DEF GoodTriage, TriageRec, k
<1> QED BY <1>3 DEF i, k

-----------------------------------------------------------------------------
(* The steps of processes and of the poll loop. *)
LEMMA RequestedIsProc ==
  ASSUME NEW j \in {0} \cup JobID, NEW sig \in BOOLEAN, NEW flags \in SUBSET Flags, NEW count
  PROVE  /\ Requested(j, sig, flags, count) \in ProcRec
         /\ [Requested(j, sig, flags, count) EXCEPT !.stat = "candidate"] \in ProcRec
BY DEF Requested, ProcRec

LEMMA ProcSame ==
  ASSUME JobsInv, NEW p \in Proc, NEW r \in ProcRec, proc' = [proc EXCEPT ![p] = r],
         queue' \in SUBSET JobID,
         UNCHANGED <<maxSignal, nextJobID, job, resultC>>
  PROVE  JobsInv'
BY DEF JobsInv

LEMMA BusyProc ==
  ASSUME JobsInv, NEW p \in Proc, proc[p].stat # "idle"
  PROVE  proc[p] \in [job : {0} \cup JobID, stat : {"candidate", "need", "run"}, sig : BOOLEAN,
                      flags : SUBSET Flags, left : Nat]
BY DEF JobsInv, ProcRec, Idle

LEMMA AfterDoneIsProc ==
  ASSUME JobsInv, NEW p \in Proc, proc[p].stat = "run", NEW r \in AfterDone(proc[p])
  PROVE  r \in ProcRec
<1> DEFINE q == proc[p]
<1>1. q \in [job : {0} \cup JobID, stat : {"candidate", "need", "run"}, sig : BOOLEAN,
             flags : SUBSET Flags, left : Nat]
  BY BusyProc
<1> HIDE DEF q
<1>2. CASE q.left > 0
  <2>1. q.left - 1 \in Nat BY <1>1, <1>2
  <2>2. [q EXCEPT !.left = q.left - 1] \in ProcRec BY <1>1, <2>1 DEF ProcRec
  <2>3. r \in {Idle, [q EXCEPT !.left = q.left - 1]} BY <1>2 DEF AfterDone, q
  <2> QED BY <2>2, <2>3 DEF ProcRec
<1>3. CASE ~(q.left > 0)
  <2>1. CollideIters \in Nat BY FuzzerAssumption
  <2>2. Clone(q) \in ProcRec BY <1>1, <2>1 DEF Clone, ProcRec
  <2>3. r \in {Idle, Clone(q)} BY <1>3 DEF AfterDone, q
  <2> QED BY <2>2, <2>3 DEF ProcRec
<1> QED BY <1>2, <1>3

LEMMA ProcStepJobs == ASSUME JobsInv, NEW p \in Proc, ProcStep(p) PROVE JobsInv'
<1>q. queue \in SUBSET JobID BY DEF JobsInv
<1>1. CASE PopJob(p)
  <2>1. PICK j \in FirstJobs :
          /\ queue' = queue \ {j}
          /\ proc' = [proc EXCEPT ![p] = Requested(j, NeedSignal(j), {}, queuedCandidates)]
    BY <1>1 DEF PopJob
  <2>2. j \in JobID BY <1>q DEF FirstJobs
  <2>3. NeedSignal(j) \in BOOLEAN BY DEF NeedSignal
  <2>4. Requested(j, NeedSignal(j), {}, queuedCandidates) \in ProcRec BY <2>2, <2>3, RequestedIsProc
  <2>5. UNCHANGED <<maxSignal, nextJobID, job, resultC>> BY <1>1 DEF PopJob, signalVars
  <2>6. queue' \in SUBSET JobID BY <1>q, <2>1
  <2> QED BY <2>1, <2>4, <2>5, <2>6, ProcSame
<1>2. CASE PopCandidate(p)
  <2>1. PICK f \in CandidateFlags : proc' = [proc EXCEPT ![p] = [Requested(0, TRUE, f, 0) EXCEPT !.stat = "candidate"]]
    BY <1>2 DEF PopCandidate
  <2>2. f \in SUBSET Flags BY FuzzerAssumption DEF Flags
  <2>3. [Requested(0, TRUE, f, 0) EXCEPT !.stat = "candidate"] \in ProcRec BY <2>2, RequestedIsProc
  <2>4. UNCHANGED <<maxSignal, nextJobID, job, resultC, queue>> BY <1>2 DEF PopCandidate, signalVars, jobVars
  <2> QED BY <1>q, <2>1, <2>3, <2>4, ProcSame
<1>3. CASE Generate(p)
  <2>1. Requested(0, TRUE, {}, queuedCandidates) \in ProcRec BY RequestedIsProc
  <2>2. UNCHANGED <<maxSignal, nextJobID, job, resultC, queue>> BY <1>3 DEF Generate, signalVars, jobVars
  <2> QED BY <1>q, <1>3, <2>1, <2>2, ProcSame DEF Generate
<1>4. CASE CountOff(p)
  <2>1. proc[p].flags \in SUBSET Flags BY <1>4, BusyProc DEF CountOff
  <2>2. Requested(0, TRUE, proc[p].flags, queuedCandidates') \in ProcRec BY <2>1, RequestedIsProc
  <2>3. UNCHANGED <<maxSignal, nextJobID, job, resultC, queue>> BY <1>4 DEF CountOff, signalVars, jobVars
  <2> QED BY <1>q, <1>4, <2>2, <2>3, ProcSame DEF CountOff
<1>5. CASE Signalled(p)
  <2>1. [proc[p] EXCEPT !.stat = "run"] \in ProcRec BY <1>5, BusyProc DEF Signalled, ProcRec
  <2>2. proc' = [proc EXCEPT ![p] = [proc[p] EXCEPT !.stat = "run"]] BY <1>5 DEF Signalled, JobsInv
  <2>3. UNCHANGED <<maxSignal, nextJobID, job, resultC, queue>> BY <1>5 DEF Signalled, signalVars, jobVars
  <2> QED BY <1>q, <2>1, <2>2, <2>3, ProcSame
<1>6. CASE TriageProgCall(p)
  <2>1. PICK info \in SUBSET Signal :
          /\ maxSignal' = maxSignal \cup (info \ maxSignal)
          /\ job' = StartJob(job, Triage(proc[p].flags, info \ maxSignal))
          /\ nextJobID' = nextJobID + 1
    BY <1>6 DEF TriageProgCall, AddRawMaxSignal
  <2>2. UNCHANGED <<queue, resultC, proc>> BY <1>6 DEF TriageProgCall
  <2>3. maxSignal' \in SUBSET Signal /\ maxSignal \subseteq maxSignal' BY <2>1 DEF JobsInv
  <2>4. proc[p].flags \in SUBSET Flags BY <1>6, BusyProc DEF TriageProgCall
  <2>5. Triage(proc[p].flags, info \ maxSignal) \in GoodJobs(maxSignal') BY <2>1, <2>3, <2>4, TriageIsGood
  <2>6. job \in [JobID -> GoodJobs(maxSignal')] BY <2>3, GoodGrows DEF JobsInv
  <2>7. job' \in [JobID -> GoodJobs(maxSignal')] BY <2>1, <2>5, <2>6 DEF StartJob
  <2>8. resultC' \in [JobID -> SUBSET SUBSET maxSignal'] BY <2>2, <2>3 DEF JobsInv
  <2>9. nextJobID' \in Nat BY <2>1 DEF JobsInv
  <2> QED BY <1>q, <2>2, <2>3, <2>7, <2>8, <2>9 DEF JobsInv
<1>7. CASE Done(p)
  <2>1. PICK info \in SUBSET (IF proc[p].sig THEN maxSignal ELSE {}) :
          resultC' = IF proc[p].job = 0 THEN resultC ELSE [resultC EXCEPT ![proc[p].job] = @ \cup {info}]
    BY <1>7 DEF Done
  <2>2. info \in SUBSET maxSignal BY <2>1
  <2>3. resultC' \in [JobID -> SUBSET SUBSET maxSignal] BY <2>1, <2>2 DEF JobsInv
  <2>4. PICK r \in AfterDone(proc[p]) : proc' = [proc EXCEPT ![p] = r] BY <1>7 DEF Done
  <2>5. r \in ProcRec BY <1>7, AfterDoneIsProc DEF Done
  <2>6. UNCHANGED <<maxSignal, nextJobID, job, queue>> BY <1>7 DEF Done, signalVars
  <2> QED BY <2>3, <2>4, <2>5, <2>6 DEF JobsInv
<1> QED BY <1>1, <1>2, <1>3, <1>4, <1>5, <1>6, <1>7 DEF ProcStep

LEMMA PollStepJobs == ASSUME JobsInv, PollStep PROVE JobsInv'
<1>1. UNCHANGED <<nextJobID, job, queue, resultC, proc>>
  BY DEF PollStep, PollStart, PollReply, PollPush, jobVars
<1>2. maxSignal' \in SUBSET Signal /\ maxSignal \subseteq maxSignal'
  BY DEF PollStep, PollStart, PollReply, PollPush, signalVars, AddMaxSignal, JobsInv
<1>3. job' \in [JobID -> GoodJobs(maxSignal')] BY <1>1, <1>2, GoodGrows DEF JobsInv
<1>4. resultC' \in [JobID -> SUBSET SUBSET maxSignal'] BY <1>1, <1>2 DEF JobsInv
<1> QED BY <1>1, <1>2, <1>3, <1>4 DEF JobsInv

-----------------------------------------------------------------------------
(* The steps of jobs. *)
LEMMA ExecJobs ==
  ASSUME JobsInv, NEW j \in JobID, NEW r \in GoodJobs(maxSignal),
         Exec(j, r) \/ Goes(j, r), UNCHANGED <<maxSignal, proc>>
  PROVE  JobsInv'
<1>1. queue' \in SUBSET JobID BY DEF JobsInv, Exec, Goes
<1> QED BY <1>1, JobGoesOn DEF Exec, Goes

LEMMA EndsJobs ==
  ASSUME JobsInv, NEW j \in JobID, Ends(j), UNCHANGED <<maxSignal, proc>>
  PROVE  JobsInv'
<1>1. queue' \in SUBSET JobID BY DEF JobsInv, Ends
<1>2. NoJob \in GoodJobs(maxSignal) BY DEF GoodJobs
<1> QED BY <1>1, <1>2, JobGoesOn DEF Ends

LEMMA TriageStepJobs ==
  ASSUME JobsInv, NEW j \in JobID,
         TriageStart(j) \/ Deflake(j) \/ Minimize(j) \/ Save(j) \/ SendInput(j)
  PROVE  JobsInv'
<1>t. job[j] \in GoodTriage(maxSignal) /\ maxSignal \in SUBSET Signal
  BY JobKinds DEF JobsInv, TriageStart, Deflake, Minimize, Save, SendInput
<1>1. CASE TriageStart(j)
  <2>1. [job[j] EXCEPT !.pc = "deflake"] \in GoodJobs(maxSignal) BY <1>t, GoodNext
  <2>2. UNCHANGED <<maxSignal, proc>> BY <1>1 DEF TriageStart, JobFrame, signalVars
  <2> QED BY <1>1, <2>1, <2>2, ExecJobs DEF TriageStart
<1>2. CASE Deflake(j)
  <2>1. UNCHANGED <<maxSignal, proc>> BY <1>2 DEF Deflake, JobFrame, signalVars
  <2> DEFINE failed == [job[j] EXCEPT !.i = @ + 1, !.notExecuted = @ + 1]
             r(info) == IF reexecutionSuccess(info) THEN Deflaked(job[j], info) ELSE failed
             giveUp(info) == IF reexecutionSuccess(info) THEN r(info).newStable = {} ELSE r(info).notExecuted >= GiveUpAt
  <2>2. PICK info \in resultC[j] :
          IF giveUp(info) THEN Ends(j)
          ELSE IF r(info).i < signalRuns THEN Exec(j, r(info)) ELSE AfterDeflake(j, r(info))
    BY <1>2 DEF Deflake
  <2>3. info \in SUBSET maxSignal BY DEF JobsInv
  <2>4. CASE giveUp(info) BY <2>1, <2>2, <2>4, EndsJobs
  <2>5. CASE ~giveUp(info)
    <3>1. r(info) \in GoodTriage(maxSignal)
      <4>1. CASE reexecutionSuccess(info)
        BY <1>t, <1>2, <2>3, <4>1, DeflakedIsGood DEF Deflake
      <4>2. CASE ~reexecutionSuccess(info)
        <5>1. failed.notExecuted = job[j].notExecuted + 1 BY <1>t DEF GoodTriage, TriageRec
        <5>2. ~(job[j].notExecuted + 1 >= GiveUpAt) BY <2>5, <4>2, <5>1
        <5> QED BY <1>t, <4>2, <5>2, FailedIsGood
      <4> QED BY <4>1, <4>2
    <3> HIDE DEF r, giveUp
    <3>2. r(info) \in GoodJobs(maxSignal) BY <3>1 DEF GoodJobs
    <3>3. CASE r(info).i < signalRuns BY <2>1, <2>2, <2>5, <3>2, <3>3, ExecJobs
    <3>4. CASE ~(r(info).i < signalRuns)
      <4>1. AfterDeflake(j, r(info)) BY <2>2, <2>5, <3>4
      <4>2. r(info).newStable # {} => /\ [r(info) EXCEPT !.pc = "save"] \in GoodJobs(maxSignal)
                                      /\ [r(info) EXCEPT !.pc = "minimize", !.i = 0] \in GoodJobs(maxSignal)
        BY <1>t, <3>1, GoodNext
      <4> QED BY <2>1, <4>1, <4>2, EndsJobs, ExecJobs DEF AfterDeflake
    <3> QED BY <3>3, <3>4
  <2> QED BY <2>4, <2>5
<1>3. CASE Minimize(j)
  <2>1. UNCHANGED <<maxSignal, proc>> BY <1>3 DEF Minimize, JobFrame, signalVars
  <2>2. job[j].newStable # {} BY <1>t, <1>3 DEF Minimize, GoodTriage
  <2>3. [job[j] EXCEPT !.pc = "save"] \in GoodJobs(maxSignal) BY <1>t, <2>2, GoodNext
  <2>4. job[j].i + 1 \in Nat BY <1>t DEF GoodTriage, TriageRec
  <2>5. [job[j] EXCEPT !.i = job[j].i + 1] \in GoodJobs(maxSignal) BY <1>t, <2>4, GoodNext
  <2>6. [job[j] EXCEPT !.i = @ + 1] \in GoodJobs(maxSignal) BY <2>5
  <2> QED BY <1>3, <2>1, <2>3, <2>6, ExecJobs DEF Minimize
<1>4. CASE Save(j)
  <2> DEFINE r == [job[j] EXCEPT !.pc = "send"]
  <2>1. job[j].newStable # {} BY <1>t, <1>4 DEF Save, GoodTriage
  <2>2. r \in GoodJobs(maxSignal) BY <1>t, <2>1, GoodNext
  <2>3. UNCHANGED <<maxSignal, proc, queue, resultC>> BY <1>t, <1>4 DEF Save, CorpusSave, GoodTriage
  <2>4. queue' \in SUBSET JobID BY <2>3 DEF JobsInv
  <2> HIDE DEF r
  <2>5. CASE job' = [job EXCEPT ![j] = r] /\ UNCHANGED nextJobID BY <2>2, <2>3, <2>5 DEF JobsInv
  <2>6. CASE job' = StartJob([job EXCEPT ![j] = r], Smash) /\ nextJobID' = nextJobID + 1
    BY <2>2, <2>3, <2>4, <2>6, SmashIsGood, JobStarts
  <2> QED BY <1>4, <2>5, <2>6 DEF Save, r
<1>5. CASE SendInput(j)
  <2>1. UNCHANGED <<maxSignal, proc>> BY <1>5 DEF SendInput, JobFrame, signalVars
  <2> QED BY <1>5, <2>1, EndsJobs DEF SendInput
<1> QED BY <1>1, <1>2, <1>3, <1>4, <1>5

LEMMA SmashStepJobs ==
  ASSUME JobsInv, NEW j \in JobID, SmashStart(j) \/ SmashStep(j) \/ HintsStep(j)
  PROVE  JobsInv'
<1>f. UNCHANGED <<maxSignal, proc>> BY DEF SmashStart, SmashStep, HintsStep, JobFrame, signalVars
<1>1. CASE SmashStart(j)
  <2> DEFINE r == [job[j] EXCEPT !.pc = "mutate"]
  <2>1. job[j] \in SmashRec BY <1>1, JobKinds DEF SmashStart, JobsInv
  <2>2. r \in GoodJobs(maxSignal) BY <2>1 DEF SmashRec, GoodJobs
  <2>3. UNCHANGED resultC /\ queue' \in SUBSET JobID BY <1>1 DEF SmashStart, JobsInv
  <2> HIDE DEF r
  <2>4. CASE job' = [job EXCEPT ![j] = r] /\ UNCHANGED nextJobID BY <1>f, <2>2, <2>3, <2>4 DEF JobsInv
  <2>5. CASE job' = StartJob([job EXCEPT ![j] = r], Hints) /\ nextJobID' = nextJobID + 1
    BY <1>f, <2>2, <2>3, <2>5, SmashIsGood, JobStarts
  <2> QED BY <1>1, <2>4, <2>5 DEF SmashStart, r
<1>2. CASE SmashStep(j)
  <2> DEFINE r == job[j]
             again == IF r.pc = "mutate" /\ Collide THEN [r EXCEPT !.pc = "collide"]
                      ELSE [r EXCEPT !.pc = "mutate", !.i = @ + 1]
  <2>1. r \in SmashRec BY <1>2, JobKinds DEF SmashStep, JobsInv
  <2>2. r.i + 1 \in Nat BY <2>1 DEF SmashRec
  <2>3. again \in SmashRec BY <2>1, <2>2 DEF SmashRec
  <2>4. [r EXCEPT !.pc = "fault", !.i = 1] \in SmashRec BY <2>1 DEF SmashRec
  <2>5. [r EXCEPT !.i = @ + 1] \in SmashRec BY <2>1, <2>2 DEF SmashRec
  <2>6. \/ Exec(j, again) \/ Exec(j, [r EXCEPT !.pc = "fault", !.i = 1]) \/ Exec(j, [r EXCEPT !.i = @ + 1])
        \/ Ends(j)
    BY <1>2 DEF SmashStep
  <2> HIDE DEF again
  <2> QED BY <1>f, <2>3, <2>4, <2>5, <2>6, ExecJobs, EndsJobs DEF GoodJobs
<1>3. CASE HintsStep(j)
  <2>1. job[j] \in HintsRec BY <1>3, JobKinds DEF HintsStep, JobsInv
  <2>2. job[j].i + 1 \in Nat BY <2>1 DEF HintsRec
  <2>3. [job[j] EXCEPT !.pc = "seed"] \in HintsRec BY <2>1 DEF HintsRec
  <2>4. [job[j] EXCEPT !.pc = "hint", !.i = @ + 1] \in HintsRec BY <2>1, <2>2 DEF HintsRec
  <2> QED BY <1>3, <1>f, <2>3, <2>4, ExecJobs, EndsJobs DEF HintsStep, GoodJobs
<1> QED BY <1>1, <1>2, <1>3

LEMMA JobsStep == ASSUME JobsInv, [Next]_vars PROVE JobsInv'
<1>1. CASE UNCHANGED vars BY <1>1 DEF JobsInv, vars, jobVars, signalVars
<1> QED BY <1>1, ProcStepJobs, PollStepJobs, TriageStepJobs, SmashStepJobs DEF Next, JobStep

LEMMA JobsInit == Init => JobsInv
<1> SUFFICES ASSUME Init PROVE JobsInv OBVIOUS
<1>1. NoJob \in GoodJobs(maxSignal) BY DEF GoodJobs
<1> QED BY <1>1 DEF Init, JobsInv, ProcRec

LEMMA JobsInvariant == Spec => []JobsInv
BY JobsInit, JobsStep, PTL DEF Spec

(* triageJob.run saves and sends an input only with new signal that every  *)
(* run that counts has shown, and at most one run of three did not count:  *)
(* for any interleaving of processes, jobs and polls.                      *)
THEOREM CorpusStable == Spec => []CorpusIsStable
<1>1. JobsInv => CorpusIsStable
  <2> SUFFICES ASSUME JobsInv, NEW j \in JobID, job[j].kind = "triage", job[j].pc \in {"minimize", "save", "send"}
               PROVE  /\ job[j].newStable # {} /\ job[j].newStable \subseteq job[j].stable \cap job[j].newSignal
                      /\ signalRuns - job[j].notExecuted > job[j].notExecuted
    BY DEF CorpusIsStable, Running
  <2>1. job[j] \in GoodTriage(maxSignal) BY JobKinds DEF JobsInv
  <2>2. job[j].notExecuted \in {0, 1} BY <2>1 DEF GoodTriage, TriageRec
  <2> QED BY <2>1, <2>2 DEF GoodTriage, signalRuns
<1> QED BY <1>1, JobsInvariant, PTL

-----------------------------------------------------------------------------
(* Only TriageProgCall starts a triage job or changes what one chases. *)
ChasesNothingNew ==
  \A j \in JobID : job'[j].kind = "triage" => job[j].kind = "triage" /\ job'[j].newSignal = job[j].newSignal

LEMMA SameChase == ASSUME ChasedOnce, ChasesNothingNew PROVE ChasedOnce'
BY DEF ChasedOnce, ChasesNothingNew, Running

(* A job becomes another record of its kind, and perhaps starts one that   *)
(* is no triage job.                                                       *)
LEMMA ChaseFrame ==
  ASSUME JobsInv, NEW j \in JobID, NEW r, NEW s,
         r.kind = "triage" => job[j].kind = "triage" /\ r.newSignal = job[j].newSignal,
         s.kind # "triage",
         job' = [job EXCEPT ![j] = r] \/ job' = StartJob([job EXCEPT ![j] = r], s)
  PROVE  ChasesNothingNew
<1>1. job = [i \in JobID |-> job[i]] BY DEF JobsInv
<1>2. CASE job' = [job EXCEPT ![j] = r] BY <1>1, <1>2 DEF ChasesNothingNew
<1>3. CASE job' = StartJob([job EXCEPT ![j] = r], s)
  <2>1. \A i \in JobID : job'[i] = IF i = nextJobID THEN s ELSE IF i = j THEN r ELSE job[i]
    BY <1>1, <1>3 DEF StartJob
  <2> QED BY <2>1 DEF ChasesNothingNew
<1> QED BY <1>2, <1>3

(* The record after a run of deflake, and after the last one, chases what r does. *)
SameSignal(q, r) ==
  /\ q.newSignal = r.newSignal
  /\ [q EXCEPT !.pc = "save"].newSignal = r.newSignal
  /\ [q EXCEPT !.pc = "minimize", !.i = 0].newSignal = r.newSignal

LEMMA JobStepChase == ASSUME JobsInv, NEW j \in JobID, JobStep(j) PROVE ChasesNothingNew
<1>s. Smash.kind # "triage" /\ Hints.kind # "triage" /\ NoJob.kind # "triage" BY DEF Smash, Hints, NoJob
<1>j. job[j] \in GoodJobs(maxSignal) BY DEF JobsInv
<1>e. ASSUME Ends(j) PROVE ChasesNothingNew
  <2>1. job' = [job EXCEPT ![j] = NoJob] BY <1>e DEF Ends
  <2> QED BY <1>s, <2>1, ChaseFrame
<1>g. ASSUME NEW r, Exec(j, r) \/ Goes(j, r),
             r.kind = "triage" => job[j].kind = "triage" /\ r.newSignal = job[j].newSignal
      PROVE  ChasesNothingNew
  <2>1. job' = [job EXCEPT ![j] = r] BY <1>g DEF Exec, Goes
  <2> QED BY <1>s, <1>g, <2>1, ChaseFrame
<1>1. CASE job[j].kind = "triage" /\ (TriageStart(j) \/ Minimize(j) \/ SendInput(j))
  <2>1. job[j] \in TriageRec BY <1>1, <1>j, JobKinds DEF GoodTriage
  <2>2. [job[j] EXCEPT !.pc = "deflake"].newSignal = job[j].newSignal BY <2>1 DEF TriageRec
  <2>3. [job[j] EXCEPT !.pc = "save"].newSignal = job[j].newSignal BY <2>1 DEF TriageRec
  <2>4. [job[j] EXCEPT !.i = @ + 1].newSignal = job[j].newSignal BY <2>1 DEF TriageRec
  <2> QED BY <1>1, <1>e, <1>g, <2>2, <2>3, <2>4 DEF TriageStart, Minimize, SendInput
<1>2. CASE Deflake(j)
  <2> DEFINE failed == [job[j] EXCEPT !.i = @ + 1, !.notExecuted = @ + 1]
             r(info) == IF reexecutionSuccess(info) THEN Deflaked(job[j], info) ELSE failed
  <2>1. job[j] \in TriageRec /\ job[j].kind = "triage" BY <1>2, <1>j, JobKinds DEF Deflake, GoodTriage
  <2>2. PICK info \in resultC[j] : Ends(j) \/ Exec(j, r(info)) \/ AfterDeflake(j, r(info))
    BY <1>2 DEF Deflake
  <2>3. CASE reexecutionSuccess(info)
    <3> DEFINE stable == IF job[j].i = 0 THEN info ELSE job[j].stable \cap info
               newStable == (IF job[j].i = 0 THEN job[j].newSignal ELSE job[j].newStable) \cap info
    <3>1. r(info) = [job[j] EXCEPT !.i = job[j].i + 1, !.stable = stable, !.newStable = newStable]
      BY <2>3 DEF Deflaked
    <3> HIDE DEF r, stable, newStable
    <3>2. SameSignal(r(info), job[j]) BY <2>1, <3>1 DEF SameSignal, TriageRec
    <3> QED BY <1>e, <1>g, <2>1, <2>2, <3>2 DEF AfterDeflake, SameSignal
  <2>4. CASE ~reexecutionSuccess(info)
    <3>1. r(info) = [job[j] EXCEPT !.i = job[j].i + 1, !.notExecuted = job[j].notExecuted + 1] BY <2>4
    <3> HIDE DEF r
    <3>2. SameSignal(r(info), job[j]) BY <2>1, <3>1 DEF SameSignal, TriageRec
    <3> QED BY <1>e, <1>g, <2>1, <2>2, <3>2 DEF AfterDeflake, SameSignal
  <2> QED BY <2>3, <2>4
<1>3. CASE Save(j)
  <2>1. job[j] \in TriageRec /\ job[j].kind = "triage" BY <1>3, <1>j, JobKinds DEF Save, GoodTriage
  <2> DEFINE r == [job[j] EXCEPT !.pc = "send"]
  <2>2. r.newSignal = job[j].newSignal BY <2>1 DEF TriageRec
  <2>3. job' = [job EXCEPT ![j] = r] \/ job' = StartJob([job EXCEPT ![j] = r], Smash) BY <1>3 DEF Save
  <2> HIDE DEF r
  <2> QED BY <1>s, <2>1, <2>2, <2>3, ChaseFrame
<1>4. CASE job[j].kind \in {"smash", "hints"} /\ (SmashStart(j) \/ SmashStep(j) \/ HintsStep(j))
  <2>1. job[j] \in SmashRec \cup HintsRec BY <1>4, <1>j, JobKinds
  <2>2. [job[j] EXCEPT !.pc = "mutate"].kind # "triage" BY <2>1 DEF SmashRec, HintsRec
  <2>3. [job[j] EXCEPT !.pc = "collide"].kind # "triage" BY <2>1 DEF SmashRec, HintsRec
  <2>4. [job[j] EXCEPT !.pc = "mutate", !.i = @ + 1].kind # "triage" BY <2>1 DEF SmashRec, HintsRec
  <2>5. [job[j] EXCEPT !.pc = "fault", !.i = 1].kind # "triage" BY <2>1 DEF SmashRec, HintsRec
  <2>6. [job[j] EXCEPT !.i = @ + 1].kind # "triage" BY <2>1 DEF SmashRec, HintsRec
  <2>7. [job[j] EXCEPT !.pc = "seed"].kind # "triage" BY <2>1 DEF SmashRec, HintsRec
  <2>8. [job[j] EXCEPT !.pc = "hint", !.i = @ + 1].kind # "triage" BY <2>1 DEF SmashRec, HintsRec
  <2>9. CASE SmashStart(j)
    <3>1. \/ job' = [job EXCEPT ![j] = [job[j] EXCEPT !.pc = "mutate"]]
          \/ job' = StartJob([job EXCEPT ![j] = [job[j] EXCEPT !.pc = "mutate"]], Hints)
      BY <2>9 DEF SmashStart
    <3> QED BY <1>s, <2>2, <3>1, ChaseFrame
  <2>10. CASE SmashStep(j) BY <1>e, <1>g, <2>3, <2>4, <2>5, <2>6, <2>10 DEF SmashStep
  <2>11. CASE HintsStep(j) BY <1>e, <1>g, <2>7, <2>8, <2>11 DEF HintsStep
  <2> QED BY <1>4, <2>9, <2>10, <2>11
<1> QED
  BY <1>1, <1>2, <1>3, <1>4 DEF JobStep, TriageStart, Minimize, SendInput, SmashStart, SmashStep, HintsStep

LEMMA TriageCallChase ==
  ASSUME JobsInv, ChasedOnce, NEW p \in Proc, TriageProgCall(p) PROVE ChasedOnce'
<1>1. PICK info \in SUBSET Signal : job' = StartJob(job, Triage(proc[p].flags, info \ maxSignal))
  BY DEF TriageProgCall
<1> DEFINE new == info \ maxSignal
           r == Triage(proc[p].flags, new)
<1>2. r.newSignal = new /\ new \cap maxSignal = {} BY DEF Triage
<1> HIDE DEF new, r
<1>3. \A j \in JobID : job'[j] = IF j = nextJobID THEN r ELSE job[j]
  BY <1>1 DEF StartJob, JobsInv, r, new
<1>4. \A j \in Running("triage") : job[j].newSignal \subseteq maxSignal
  BY JobKinds DEF JobsInv, Running, GoodTriage
<1> SUFFICES ASSUME NEW j \in JobID, NEW k \in JobID, j # k, job'[j].kind = "triage", job'[k].kind = "triage"
             PROVE  job'[j].newSignal \cap job'[k].newSignal = {}
  BY DEF ChasedOnce, Running
<1>5. CASE j = nextJobID
  <2>1. k \in Running("triage") /\ job'[k] = job[k] /\ job'[j] = r BY <1>3, <1>5 DEF Running
  <2> QED BY <1>2, <1>4, <2>1
<1>6. CASE k = nextJobID
  <2>1. j \in Running("triage") /\ job'[j] = job[j] /\ job'[k] = r BY <1>3, <1>6 DEF Running
  <2> QED BY <1>2, <1>4, <2>1
<1>7. CASE j # nextJobID /\ k # nextJobID BY <1>3, <1>7 DEF ChasedOnce, Running
<1> QED BY <1>5, <1>6, <1>7

(* Of the processes that see the same new signal at the same time only one *)
(* starts a triage job for it: AddRawMaxSignal takes the difference and    *)
(* merges it under one lock.                                               *)
THEOREM NewSignalChasedOnce == Spec => []ChasedOnce
<1>1. Init => ChasedOnce BY DEF Init, ChasedOnce, Running, NoJob
<1>2. ASSUME JobsInv, ChasedOnce, [Next]_vars PROVE ChasedOnce'
  <2>0. UNCHANGED job => ChasesNothingNew BY DEF ChasesNothingNew
  <2>1. ASSUME NEW p \in Proc, ProcStep(p) PROVE ChasedOnce'
    <3>1. TriageProgCall(p) \/ UNCHANGED job
      BY <2>1 DEF ProcStep, PopJob, PopCandidate, Generate, CountOff, Signalled, Done, jobVars
    <3> QED BY <1>2, <2>0, <3>1, TriageCallChase, SameChase
  <2>2. ASSUME NEW j \in JobID, JobStep(j) PROVE ChasedOnce' BY <1>2, <2>2, JobStepChase, SameChase
  <2>3. CASE PollStep
    BY <1>2, <2>0, <2>3, SameChase DEF PollStep, PollStart, PollReply, PollPush, jobVars
  <2>4. CASE UNCHANGED vars BY <1>2, <2>0, <2>4, SameChase DEF vars, jobVars
  <2> QED BY <1>2, <2>1, <2>2, <2>3, <2>4 DEF Next
<1> QED BY <1>1, <1>2, JobsInvariant, PTL DEF Spec

-----------------------------------------------------------------------------
(* What the poll loop carries: new signal only in a call, candidates that  *)
(* are counted and not pushed only while AddCandidates pushes them.        *)
PollInv ==
  /\ poll \notin {"call", "callNeed"} => grabbed = {}
  /\ poll # "push" => toPush = 0
  /\ candidates \in Int /\ toPush \in Int /\ queuedCandidates \in Int

LEMMA PollInvariant == Spec => []PollInv
<1>1. Init => PollInv
  <2>1. MaxCandidates \in Nat BY FuzzerAssumption
  <2> QED BY <2>1 DEF Init, PollInv
<1>2. ASSUME PollInv, [Next]_vars PROVE PollInv'
  <2>1. ASSUME NEW p \in Proc, ProcStep(p) PROVE PollInv'
    <3>1. CASE PopCandidate(p) BY <1>2, <3>1 DEF PopCandidate, PollInv
    <3>2. CASE CountOff(p) BY <1>2, <3>2 DEF CountOff, PollInv
    <3>3. CASE PopJob(p) \/ Generate(p) \/ Signalled(p) \/ TriageProgCall(p) \/ Done(p)
      BY <1>2, <3>3 DEF PopJob, Generate, Signalled, TriageProgCall, Done, PollInv, candVars
    <3> QED BY <2>1, <3>1, <3>2, <3>3 DEF ProcStep
  <2>2. ASSUME NEW j \in JobID, JobStep(j) PROVE PollInv'
    <3>1. UNCHANGED <<candVars, poll, grabbed>>
      BY <2>2 DEF JobStep, TriageStart, Deflake, Minimize, Save, SendInput, SmashStart, SmashStep, HintsStep, JobFrame
    <3> QED BY <1>2, <3>1 DEF PollInv, candVars
  <2>3. CASE PollStart BY <1>2, <2>3 DEF PollStart, PollInv
  <2>4. CASE PollReply
    <3>1. PICK n \in Int : toPush' = n /\ queuedCandidates' = queuedCandidates + n
                           /\ poll' = IF n = 0 THEN "idle" ELSE "push"
      BY <2>4 DEF PollReply
    <3>2. grabbed' = {} /\ candidates' = candidates BY <2>4 DEF PollReply
    <3> QED BY <1>2, <3>1, <3>2 DEF PollInv
  <2>5. CASE PollPush BY <1>2, <2>5 DEF PollPush, PollInv
  <2>6. CASE UNCHANGED vars BY <1>2, <2>6 DEF vars, PollInv, candVars
  <2> QED BY <1>2, <2>1, <2>2, <2>3, <2>4, <2>5, <2>6 DEF Next, PollStep
<1> QED BY <1>1, <1>2, PTL DEF Spec

(* Whatever signal this fuzzer has added to its maximum waits for the next *)
(* poll, is in a call or is known to the manager: GrabNewSignal and the    *)
(* reply never lose any, and a saved input brings none of its own.         *)
THEOREM NoSignalForgotten == Spec => []SignalReported
<1>1. Init => SignalReported BY DEF Init, SignalReported
<1>2. ASSUME JobsInv, PollInv, SignalReported, [Next]_vars PROVE SignalReported'
  <2>0. UNCHANGED <<signalVars, grabbed>> => SignalReported' BY <1>2 DEF SignalReported, signalVars
  <2>1. ASSUME NEW p \in Proc, ProcStep(p) PROVE SignalReported'
    <3>1. CASE TriageProgCall(p) BY <1>2, <3>1 DEF TriageProgCall, AddRawMaxSignal, SignalReported
    <3>2. CASE ~TriageProgCall(p)
      BY <2>0, <2>1, <3>2 DEF ProcStep, PopJob, PopCandidate, Generate, CountOff, Signalled, Done
    <3> QED BY <3>1, <3>2
  <2>2. ASSUME NEW j \in JobID, JobStep(j) PROVE SignalReported'
    <3>1. CASE Save(j)
      <4>1. job[j].stable \subseteq maxSignal BY <1>2, <3>1, JobKinds DEF Save, JobsInv, GoodTriage
      <4>2. UNCHANGED <<signalVars, grabbed>> BY <3>1, <4>1 DEF Save, CorpusSave, signalVars
      <4> QED BY <2>0, <4>2
    <3>2. CASE ~Save(j)
      BY <2>0, <2>2, <3>2 DEF JobStep, TriageStart, Deflake, Minimize, SendInput, SmashStart, SmashStep,
                              HintsStep, JobFrame
    <3> QED BY <3>1, <3>2
  <2>3. CASE PollStep
    <3>1. CASE PollStart BY <1>2, <3>1 DEF PollStart, GrabNewSignal, SignalReported, PollInv
    <3>2. CASE PollReply
      <4>1. PICK seen \in SUBSET Signal :
              managerSignal' = managerSignal \cup grabbed \cup seen /\ maxSignal' = maxSignal \cup seen
        BY <3>2 DEF PollReply, AddMaxSignal
      <4>2. newSignal' = newSignal BY <3>2 DEF PollReply
      <4> QED BY <1>2, <4>1, <4>2 DEF SignalReported
    <3>3. CASE PollPush BY <2>0, <3>3 DEF PollPush
    <3> QED BY <2>3, <3>1, <3>2, <3>3 DEF PollStep
  <2>4. CASE UNCHANGED vars BY <2>0, <2>4 DEF vars
  <2> QED BY <1>2, <2>1, <2>2, <2>3, <2>4 DEF Next
<1> QED BY <1>1, <1>2, JobsInvariant, PollInvariant, PTL DEF Spec

-----------------------------------------------------------------------------
Popped == {p \in Proc : proc[p].stat = "candidate"}

(* The counter that NextInput decrements, and panics about when it is      *)
(* negative, always is the number of candidates queued, about to be pushed *)
(* or popped and not counted off, for any number of processes.             *)
THEOREM CounterInSync == Spec => []CandidatesCounted
<1>f. IsFiniteSet(Popped) /\ Cardinality(Popped) \in Nat
  BY FuzzerAssumption, FS_Subset, FS_CardinalityType DEF Popped
<1>1. Init => CandidatesCounted
  <2> SUFFICES ASSUME Init PROVE CandidatesCounted OBVIOUS
  <2>1. {p \in Proc : proc[p].stat = "candidate"} = {} BY DEF Init, Idle
  <2>2. candidates \in Int BY FuzzerAssumption DEF Init
  <2> QED BY <2>1, <2>2, FS_EmptySet DEF Init, CandidatesCounted
<1>2. ASSUME JobsInv, PollInv, CandidatesCounted, [Next]_vars PROVE CandidatesCounted'
  <2>c. queuedCandidates = candidates + toPush + Cardinality(Popped) BY <1>2 DEF CandidatesCounted, Popped
  <2>d. CandidatesCounted' <=> queuedCandidates' = candidates' + toPush' + Cardinality(Popped')
    BY DEF CandidatesCounted, Popped
  <2>t. proc = [p \in Proc |-> proc[p]] BY <1>2 DEF JobsInv
  <2>0. ASSUME UNCHANGED <<queuedCandidates, candidates, toPush>>, Popped' = Popped PROVE CandidatesCounted'
    BY <2>0, <2>c, <2>d
  <2>1. ASSUME NEW p \in Proc, ProcStep(p) PROVE CandidatesCounted'
    <3>r. \A j, sig, flags, count : Requested(j, sig, flags, count).stat # "candidate" BY DEF Requested
    <3>s. ASSUME NEW r, proc' = [proc EXCEPT ![p] = r], r.stat # "candidate", proc[p].stat # "candidate"
          PROVE  Popped' = Popped
      BY <2>t, <3>s DEF Popped
    <3>1. CASE PopJob(p)
      <4>1. PICK j : proc' = [proc EXCEPT ![p] = Requested(j, NeedSignal(j), {}, queuedCandidates)]
        BY <3>1 DEF PopJob
      <4>2. Requested(j, NeedSignal(j), {}, queuedCandidates).stat # "candidate" BY <3>r
      <4>3. Popped' = Popped BY <3>1, <3>s, <4>1, <4>2 DEF PopJob
      <4> QED BY <2>0, <3>1, <4>3 DEF PopJob, candVars
    <3>2. CASE Generate(p)
      <4>1. Requested(0, TRUE, {}, queuedCandidates).stat # "candidate" BY <3>r
      <4>2. Popped' = Popped BY <3>2, <3>s, <4>1 DEF Generate
      <4> QED BY <2>0, <3>2, <4>2 DEF Generate, candVars
    <3>3. CASE PopCandidate(p)
      <4>1. PICK f : proc' = [proc EXCEPT ![p] = [Requested(0, TRUE, f, 0) EXCEPT !.stat = "candidate"]]
        BY <3>3 DEF PopCandidate
      <4>2. [Requested(0, TRUE, f, 0) EXCEPT !.stat = "candidate"].stat = "candidate" BY DEF Requested
      <4>3. Popped' = Popped \cup {p} BY <2>t, <4>1, <4>2 DEF Popped
      <4>4. p \notin Popped BY <3>3 DEF PopCandidate, Popped
      <4>5. Cardinality(Popped') = Cardinality(Popped) + 1 BY <1>f, <4>3, <4>4, FS_AddElement
      <4>6. candidates' = candidates - 1 /\ UNCHANGED <<queuedCandidates, toPush>> BY <3>3 DEF PopCandidate
      <4> QED BY <1>2, <1>f, <2>c, <2>d, <4>5, <4>6 DEF PollInv
    <3>4. CASE CountOff(p)
      <4>1. proc' = [proc EXCEPT ![p] = Requested(0, TRUE, proc[p].flags, queuedCandidates')] BY <3>4 DEF CountOff
      <4>2. Popped' = Popped \ {p} BY <2>t, <3>r, <4>1 DEF Popped
      <4>3. p \in Popped BY <3>4 DEF CountOff, Popped
      <4>4. Cardinality(Popped') = Cardinality(Popped) - 1 BY <1>f, <4>2, <4>3, FS_RemoveElement
      <4>5. queuedCandidates' = queuedCandidates - 1 /\ UNCHANGED <<candidates, toPush>> BY <3>4 DEF CountOff
      <4> QED BY <1>2, <1>f, <2>c, <2>d, <4>4, <4>5 DEF PollInv
    <3>5. CASE Signalled(p)
      <4>1. proc' = [proc EXCEPT ![p] = [proc[p] EXCEPT !.stat = "run"]] BY <2>t, <3>5 DEF Signalled
      <4>2. proc[p] \in ProcRec BY <1>2 DEF JobsInv
      <4>3. [proc[p] EXCEPT !.stat = "run"].stat = "run" BY <4>2 DEF ProcRec, Idle
      <4>4. Popped' = Popped BY <3>5, <3>s, <4>1, <4>3 DEF Signalled
      <4> QED BY <2>0, <3>5, <4>4 DEF Signalled
    <3>6. CASE TriageProgCall(p)
      <4>1. Popped' = Popped BY <3>6 DEF TriageProgCall, Popped
      <4> QED BY <2>0, <3>6, <4>1 DEF TriageProgCall, candVars
    <3>7. CASE Done(p)
      <4>1. PICK r \in AfterDone(proc[p]) : proc' = [proc EXCEPT ![p] = r] BY <3>7 DEF Done
      <4>2. proc[p] \in ProcRec /\ proc[p].stat = "run" BY <1>2, <3>7 DEF JobsInv, Done
      <4>3. r.stat # "candidate"
        <5>1. proc[p] \in [job : {0} \cup JobID, stat : {"run"}, sig : BOOLEAN, flags : SUBSET Flags, left : Nat]
          BY <4>2 DEF ProcRec, Idle
        <5>2. [proc[p] EXCEPT !.left = proc[p].left - 1].stat = "run" BY <5>1
        <5>3. Clone(proc[p]).stat = "run" BY <5>1 DEF Clone
        <5>4. r \in {Idle, Clone(proc[p]), [proc[p] EXCEPT !.left = proc[p].left - 1]} BY DEF AfterDone
        <5>5. Idle.stat = "idle" BY DEF Idle
        <5> QED BY <5>2, <5>3, <5>4, <5>5
      <4>4. Popped' = Popped BY <3>s, <4>1, <4>2, <4>3
      <4> QED BY <2>0, <3>7, <4>4 DEF Done, candVars
    <3> QED BY <2>1, <3>1, <3>2, <3>3, <3>4, <3>5, <3>6, <3>7 DEF ProcStep
  <2>2. ASSUME NEW j \in JobID, JobStep(j) PROVE CandidatesCounted'
    <3>1. UNCHANGED <<candVars, proc>>
      BY <2>2 DEF JobStep, TriageStart, Deflake, Minimize, Save, SendInput, SmashStart, SmashStep, HintsStep, JobFrame
    <3>2. Popped' = Popped BY <3>1 DEF Popped
    <3> QED BY <2>0, <3>1, <3>2 DEF candVars
  <2>3. CASE PollStep
    <3>1. Popped' = Popped BY <2>3 DEF PollStep, PollStart, PollReply, PollPush, Popped
    <3>2. CASE PollStart BY <2>0, <3>1, <3>2 DEF PollStart
    <3>3. CASE PollReply
      <4>1. toPush' \in Int /\ queuedCandidates' = queuedCandidates + toPush' /\ candidates' = candidates
        BY <3>3 DEF PollReply
      <4>2. toPush = 0 BY <1>2, <3>3 DEF PollReply, PollInv
      <4> QED BY <1>2, <1>f, <2>c, <2>d, <3>1, <4>1, <4>2 DEF PollInv
    <3>4. CASE PollPush
      <4>1. candidates' = candidates + 1 /\ toPush' = toPush - 1 /\ queuedCandidates' = queuedCandidates
        BY <3>4 DEF PollPush
      <4> QED BY <1>2, <1>f, <2>c, <2>d, <3>1, <4>1 DEF PollInv
    <3> QED BY <2>3, <3>2, <3>3, <3>4 DEF PollStep
  <2>4. CASE UNCHANGED vars
    <3>1. Popped' = Popped BY <2>4 DEF vars, Popped
    <3> QED BY <2>0, <2>4, <3>1 DEF vars, candVars
  <2> QED BY <1>2, <2>1, <2>2, <2>3, <2>4 DEF Next
<1> QED BY <1>1, <1>2, JobsInvariant, PollInvariant, PTL DEF Spec

-----------------------------------------------------------------------------
(* Where the request of job j is. *)
Waits(r) == r.kind # "none" /\ r.pc \notin {"start", "save", "send"}
Holders(j) == {p \in Proc : proc[p].job = j}

InQueue(j) == j \in queue /\ Holders(j) = {} /\ resultC[j] = {}
InProc(j) == j \notin queue /\ (\E p \in Proc : Holders(j) = {p}) /\ resultC[j] = {}
Answered(j) == j \notin queue /\ Holders(j) = {} /\ \E info : resultC[j] = {info}
Nowhere(j) == j \notin queue /\ Holders(j) = {} /\ resultC[j] = {}

(* The strengthening of OneAnswer: what is said of a job's request, that   *)
(* no number is used before its turn, and that neither a clone nor a       *)
(* popped candidate holds the request of a job.                            *)
AnswerInv ==
  /\ \A j \in JobID : IF Waits(job[j]) THEN InQueue(j) \/ InProc(j) \/ Answered(j) ELSE Nowhere(j)
  /\ \A j \in JobID : j >= nextJobID => job[j] = NoJob
  /\ \A p \in Proc : proc[p].job # 0 => proc[p].stat # "candidate" /\ proc[p].left = 0

LEMMA AnswerIsOne == ASSUME AnswerInv, JobsInv PROVE OneAnswer
<1> SUFFICES ASSUME NEW j \in JobID
             PROVE  Cardinality(queue \cap {j}) + Cardinality(Holders(j)) + Cardinality(resultC[j])
                    = IF Waits(job[j]) THEN 1 ELSE 0
  BY DEF OneAnswer, Waits, Holders
<1>0. Cardinality({}) = 0 BY FS_EmptySet
<1>1. \A x : Cardinality({x}) = 1 BY FS_Singleton
<1>2. j \in queue => queue \cap {j} = {j} OBVIOUS
<1>3. j \notin queue => queue \cap {j} = {} OBVIOUS
<1>4. CASE Waits(job[j])
  <2>1. CASE InQueue(j) BY <1>0, <1>1, <1>2, <1>4, <2>1 DEF InQueue
  <2>2. CASE InProc(j)
    <3>1. Cardinality(Holders(j)) = 1 BY <1>1, <2>2 DEF InProc
    <3> QED BY <1>0, <1>3, <1>4, <2>2, <3>1 DEF InProc
  <2>3. CASE Answered(j)
    <3>1. Cardinality(resultC[j]) = 1 BY <1>1, <2>3 DEF Answered
    <3> QED BY <1>0, <1>3, <1>4, <2>3, <3>1 DEF Answered
  <2> QED BY <1>4, <2>1, <2>2, <2>3 DEF AnswerInv
<1>5. CASE ~Waits(job[j])
  <2>1. Nowhere(j) BY <1>5 DEF AnswerInv
  <2> QED BY <1>0, <1>3, <1>5, <2>1 DEF Nowhere
<1> QED BY <1>4, <1>5

(* Nothing is said anew of a job whose own part of the state has not changed. *)
LEMMA AnswerSame ==
  ASSUME AnswerInv, NEW j \in JobID, Waits(job'[j]) <=> Waits(job[j]),
         j \in queue' <=> j \in queue, Holders(j)' = Holders(j), resultC'[j] = resultC[j]
  PROVE  IF Waits(job'[j]) THEN InQueue(j)' \/ InProc(j)' \/ Answered(j)' ELSE Nowhere(j)'
BY DEF AnswerInv, InQueue, InProc, Answered, Nowhere

LEMMA HoldersStep ==
  ASSUME JobsInv, NEW p \in Proc, NEW r, proc' = [proc EXCEPT ![p] = r], NEW j \in JobID
  PROVE  Holders(j)' = IF r.job = j THEN Holders(j) \cup {p} ELSE Holders(j) \ {p}
<1>1. proc = [q \in Proc |-> proc[q]] BY DEF JobsInv
<1>2. \A q \in Proc : proc'[q] = IF q = p THEN r ELSE proc[q] BY <1>1
<1> QED BY <1>2 DEF Holders

(* A process takes up, or gives up, nothing that a job waits for. *)
LEMMA ProcAnswerSame ==
  ASSUME AnswerInv, JobsInv, NEW p \in Proc, NEW r, proc' = [proc EXCEPT ![p] = r],
         r.job = proc[p].job, r.job # 0 => r.stat # "candidate" /\ r.left = 0,
         UNCHANGED <<job, nextJobID, queue, resultC>>
  PROVE  AnswerInv'
<1>1. proc = [q \in Proc |-> proc[q]] BY DEF JobsInv
<1>2. \A q \in Proc : proc'[q] = IF q = p THEN r ELSE proc[q] BY <1>1
<1>3. \A j : Holders(j)' = Holders(j) BY <1>2 DEF Holders
<1>4. \A q \in Proc : proc'[q].job # 0 => proc'[q].stat # "candidate" /\ proc'[q].left = 0
  BY <1>2 DEF AnswerInv
<1>5. \A j \in JobID : IF Waits(job'[j]) THEN InQueue(j)' \/ InProc(j)' \/ Answered(j)' ELSE Nowhere(j)'
  <2> SUFFICES ASSUME NEW j \in JobID
               PROVE  IF Waits(job'[j]) THEN InQueue(j)' \/ InProc(j)' \/ Answered(j)' ELSE Nowhere(j)'
    OBVIOUS
  <2> QED BY <1>3, AnswerSame
<1> QED BY <1>4, <1>5 DEF AnswerInv

LEMMA PopJobAnswer == ASSUME AnswerInv, JobsInv, NEW p \in Proc, PopJob(p) PROVE AnswerInv'
<1>1. PICK k \in FirstJobs :
        /\ queue' = queue \ {k}
        /\ proc' = [proc EXCEPT ![p] = Requested(k, NeedSignal(k), {}, queuedCandidates)]
  BY DEF PopJob
<1> DEFINE r == Requested(k, NeedSignal(k), {}, queuedCandidates)
<1>2. r.job = k /\ r.stat # "candidate" /\ r.left = 0 BY DEF Requested
<1>3. k \in queue /\ k \in JobID BY DEF FirstJobs, JobsInv
<1>4. UNCHANGED <<job, nextJobID, resultC>> BY DEF PopJob
<1>5. proc[p].job = 0
  <2>1. proc[p] = Idle BY DEF PopJob, JobsInv, ProcRec
  <2> QED BY <2>1 DEF Idle
<1> HIDE DEF r
<1>6. \A q \in Proc : proc'[q] = IF q = p THEN r ELSE proc[q] BY <1>1 DEF r, JobsInv
<1>7. \A j \in JobID : Holders(j)' = IF j = k THEN Holders(j) \cup {p} ELSE Holders(j)
  <2> SUFFICES ASSUME NEW j \in JobID PROVE Holders(j)' = IF j = k THEN Holders(j) \cup {p} ELSE Holders(j)
    OBVIOUS
  <2>1. j # 0 BY DEF JobID
  <2> QED BY <1>2, <1>5, <1>6, <2>1 DEF Holders
<1>8. ASSUME NEW j \in JobID
      PROVE  IF Waits(job'[j]) THEN InQueue(j)' \/ InProc(j)' \/ Answered(j)' ELSE Nowhere(j)'
  <2>1. CASE j = k
    <3>1. Waits(job[j]) /\ InQueue(j) BY <1>3, <2>1 DEF AnswerInv, Nowhere, InQueue, InProc, Answered
    <3>2. j \notin queue' /\ Holders(j)' = {p} /\ resultC'[j] = {} BY <1>1, <1>4, <1>7, <2>1, <3>1 DEF InQueue
    <3> QED BY <1>4, <3>1, <3>2 DEF InProc
  <2>2. CASE j # k
    <3>1. Holders(j)' = Holders(j) /\ (j \in queue' <=> j \in queue) BY <1>1, <1>7, <2>2
    <3> QED BY <1>4, <3>1, AnswerSame
  <2> QED BY <2>1, <2>2
<1>9. \A q \in Proc : proc'[q].job # 0 => proc'[q].stat # "candidate" /\ proc'[q].left = 0
  BY <1>2, <1>6 DEF AnswerInv
<1> QED BY <1>4, <1>8, <1>9 DEF AnswerInv

(* The record a process goes on with holds no request of a job. *)
LEMMA AfterDoneHolds ==
  ASSUME AnswerInv, JobsInv, NEW p \in Proc, proc[p].stat = "run", NEW r \in AfterDone(proc[p])
  PROVE  r.job = 0
<1>1. proc[p] \in [job : {0} \cup JobID, stat : {"candidate", "need", "run"}, sig : BOOLEAN,
                   flags : SUBSET Flags, left : Nat]
  BY BusyProc
<1>2. Idle.job = 0 BY DEF Idle
<1>3. Clone(proc[p]).job = 0 BY <1>1 DEF Clone
<1>4. CASE proc[p].left > 0
  <2>1. r \in {Idle, [proc[p] EXCEPT !.left = proc[p].left - 1]} BY <1>4 DEF AfterDone
  <2>2. proc[p].job = 0 BY <1>4 DEF AnswerInv
  <2>3. [proc[p] EXCEPT !.left = proc[p].left - 1].job = 0 BY <1>1, <2>2
  <2> QED BY <1>2, <2>1, <2>3
<1>5. CASE ~(proc[p].left > 0)
  <2>1. r \in {Idle, Clone(proc[p])} BY <1>5 DEF AfterDone
  <2> QED BY <1>2, <1>3, <2>1
<1> QED BY <1>4, <1>5

LEMMA DoneAnswer == ASSUME AnswerInv, JobsInv, NEW p \in Proc, Done(p) PROVE AnswerInv'
<1>1. PICK r \in AfterDone(proc[p]) : proc' = [proc EXCEPT ![p] = r] BY DEF Done
<1>2. r.job = 0 BY AfterDoneHolds DEF Done
<1>3. PICK info : resultC' = IF proc[p].job = 0 THEN resultC ELSE [resultC EXCEPT ![proc[p].job] = @ \cup {info}]
  BY DEF Done
<1>4. UNCHANGED <<job, nextJobID, queue>> BY DEF Done
<1>6. \A q \in Proc : proc'[q] = IF q = p THEN r ELSE proc[q] BY <1>1 DEF JobsInv
<1>7. \A j \in JobID : Holders(j)' = Holders(j) \ {p}
  <2> SUFFICES ASSUME NEW j \in JobID PROVE Holders(j)' = Holders(j) \ {p} OBVIOUS
  <2>1. j # 0 BY DEF JobID
  <2> QED BY <1>2, <1>6, <2>1 DEF Holders
<1>8. ASSUME NEW j \in JobID
      PROVE  IF Waits(job'[j]) THEN InQueue(j)' \/ InProc(j)' \/ Answered(j)' ELSE Nowhere(j)'
  <2>0. j # 0 BY DEF JobID
  <2>1. CASE j = proc[p].job
    <3>1. p \in Holders(j) BY <2>1 DEF Holders
    <3>2. Waits(job[j]) /\ InProc(j) BY <3>1 DEF AnswerInv, Nowhere, InQueue, InProc, Answered
    <3>3. Holders(j)' = {} BY <1>7, <3>1, <3>2 DEF InProc
    <3>4. resultC'[j] = {info} BY <1>3, <2>0, <2>1, <3>2 DEF InProc, JobsInv
    <3> QED BY <1>4, <3>2, <3>3, <3>4 DEF InProc, Answered
  <2>2. CASE j # proc[p].job
    <3>1. Holders(j)' = Holders(j) BY <1>7, <2>2 DEF Holders
    <3>2. resultC'[j] = resultC[j] BY <1>3, <2>2 DEF JobsInv
    <3> QED BY <1>4, <3>1, <3>2, AnswerSame
  <2> QED BY <2>1, <2>2
<1>9. \A q \in Proc : proc'[q].job # 0 => proc'[q].stat # "candidate" /\ proc'[q].left = 0
  BY <1>2, <1>6 DEF AnswerInv
<1> QED BY <1>4, <1>8, <1>9 DEF AnswerInv

(* A job that is not waiting, or has its answer, goes on as r and perhaps  *)
(* starts the job s.                                                       *)
Resumes(j, r) ==
  /\ job[j].kind # "none" /\ (~Waits(job[j]) \/ resultC[j] # {})
  /\ \/ job' = [job EXCEPT ![j] = r] /\ nextJobID' = nextJobID
     \/ \E s \in {Smash, Hints} : job' = StartJob([job EXCEPT ![j] = r], s) /\ nextJobID' = nextJobID + 1
  /\ queue' = IF Waits(r) THEN queue \cup {j} ELSE queue
  /\ \A i \in JobID : resultC'[i] = IF i = j THEN {} ELSE resultC[i]
  /\ UNCHANGED proc

LEMMA ResumesAnswer == ASSUME AnswerInv, JobsInv, NEW j \in JobID, NEW r, Resumes(j, r) PROVE AnswerInv'
<1>1. j \notin queue /\ Holders(j) = {}
  BY DEF Resumes, AnswerInv, InQueue, InProc, Answered, Nowhere
<1>2. \A i \in JobID : Holders(i)' = Holders(i) BY DEF Resumes, Holders
<1>3. nextJobID \in Nat /\ ~(j >= nextJobID) BY DEF Resumes, AnswerInv, JobsInv, NoJob, JobID
<1>4. job = [i \in JobID |-> job[i]] BY DEF JobsInv
<1>s. ~Waits(Smash) /\ ~Waits(Hints) BY DEF Waits, Smash, Hints
<1>5. /\ job'[j] = r
      /\ \A i \in JobID \ {j} : job'[i] = job[i] \/ (i = nextJobID /\ nextJobID' = nextJobID + 1 /\ ~Waits(job'[i]))
  <2>1. CASE job' = [job EXCEPT ![j] = r] BY <1>4, <2>1
  <2>2. ASSUME NEW s \in {Smash, Hints}, job' = StartJob([job EXCEPT ![j] = r], s), nextJobID' = nextJobID + 1
        PROVE  /\ job'[j] = r
               /\ \A i \in JobID \ {j} :
                    job'[i] = job[i] \/ (i = nextJobID /\ nextJobID' = nextJobID + 1 /\ ~Waits(job'[i]))
    <3>1. \A i \in JobID : job'[i] = IF i = nextJobID THEN s ELSE IF i = j THEN r ELSE job[i]
      BY <1>4, <2>2 DEF StartJob
    <3>2. j # nextJobID /\ ~Waits(s) BY <1>3, <1>s, <2>2 DEF JobID
    <3> QED BY <2>2, <3>1, <3>2
  <2> QED BY <2>1, <2>2 DEF Resumes
<1>6. \A i \in JobID : i >= nextJobID' => job'[i] = NoJob
  <2> SUFFICES ASSUME NEW i \in JobID, i >= nextJobID' PROVE job'[i] = NoJob OBVIOUS
  <2>1. nextJobID' \in {nextJobID, nextJobID + 1} BY DEF Resumes
  <2>2. i \in Int /\ i >= nextJobID BY <1>3, <2>1 DEF JobID
  <2>3. i # j BY <1>3, <2>2
  <2>4. job'[i] = job[i] BY <1>3, <1>5, <2>2, <2>3
  <2> QED BY <2>2, <2>4 DEF AnswerInv
<1>7. ASSUME NEW i \in JobID
      PROVE  IF Waits(job'[i]) THEN InQueue(i)' \/ InProc(i)' \/ Answered(i)' ELSE Nowhere(i)'
  <2>1. CASE i = j
    <3>1. job'[i] = r /\ resultC'[i] = {} /\ Holders(i)' = {} BY <1>1, <1>2, <1>5, <2>1 DEF Resumes
    <3>2. i \in queue' <=> Waits(r) BY <1>1, <2>1 DEF Resumes
    <3> QED BY <3>1, <3>2 DEF InQueue, Nowhere
  <2>2. CASE i # j
    <3>1. Waits(job'[i]) <=> Waits(job[i])
      <4>1. CASE job'[i] = job[i] BY <4>1
      <4>2. CASE i = nextJobID /\ ~Waits(job'[i])
        <5>1. job[i] = NoJob BY <1>3, <4>2 DEF AnswerInv
        <5> QED BY <4>2, <5>1 DEF Waits, NoJob
      <4> QED BY <1>5, <2>2, <4>1, <4>2
    <3>2. (i \in queue' <=> i \in queue) /\ resultC'[i] = resultC[i] BY <2>2 DEF Resumes
    <3> QED BY <1>2, <3>1, <3>2, AnswerSame
  <2> QED BY <2>1, <2>2
<1>8. \A q \in Proc : proc'[q].job # 0 => proc'[q].stat # "candidate" /\ proc'[q].left = 0
  BY DEF AnswerInv, Resumes
<1> QED BY <1>6, <1>7, <1>8 DEF AnswerInv

LEMMA JobStepAnswer == ASSUME AnswerInv, JobsInv, NEW j \in JobID, JobStep(j) PROVE AnswerInv'
<1>c. resultC = [i \in JobID |-> resultC[i]] BY DEF JobsInv
<1>n. ~Waits(job[j]) => resultC[j] = {} BY DEF AnswerInv, Nowhere
<1>j. job[j] \in GoodJobs(maxSignal) /\ maxSignal \in SUBSET Signal BY DEF JobsInv
<1>a. UNCHANGED proc
  BY DEF JobStep, TriageStart, Deflake, Minimize, Save, SendInput, SmashStart, SmashStep, HintsStep, JobFrame
<1> DEFINE Ready == job[j].kind # "none" /\ (~Waits(job[j]) \/ resultC[j] # {})
<1>e. ASSUME Ready, NEW r, \/ Exec(j, r) /\ Waits(r)
                           \/ Goes(j, r) /\ ~Waits(r)
                           \/ Ends(j) /\ r = NoJob
      PROVE  AnswerInv'
  <2>1. \A i \in JobID : resultC'[i] = IF i = j THEN {} ELSE resultC[i] BY <1>c, <1>e DEF Exec, Goes, Ends
  <2>2. ~Waits(NoJob) BY DEF Waits, NoJob
  <2>3. Resumes(j, r) BY <1>a, <1>e, <2>1, <2>2 DEF Resumes, Exec, Goes, Ends
  <2> QED BY <2>3, ResumesAnswer
<1>x. ASSUME Ready, Ends(j) PROVE AnswerInv' BY <1>e, <1>x
<1> HIDE DEF Ready
<1>1. CASE TriageStart(j)
  <2>1. job[j] \in TriageRec BY <1>1, <1>j, JobKinds DEF TriageStart, GoodTriage
  <2>2. Waits([job[j] EXCEPT !.pc = "deflake"]) BY <2>1 DEF TriageRec, Waits
  <2>3. Ready BY <1>1 DEF Ready, TriageStart, Waits
  <2> QED BY <1>1, <1>e, <2>2, <2>3 DEF TriageStart
<1>2. CASE Deflake(j)
  <2> DEFINE failed == [job[j] EXCEPT !.i = @ + 1, !.notExecuted = @ + 1]
             r(info) == IF reexecutionSuccess(info) THEN Deflaked(job[j], info) ELSE failed
             Next3(q) == /\ Waits(q)
                         /\ ~Waits([q EXCEPT !.pc = "save"])
                         /\ Waits([q EXCEPT !.pc = "minimize", !.i = 0])
  <2>1. job[j] \in TriageRec /\ job[j].pc = "deflake" BY <1>2, <1>j, JobKinds DEF Deflake, GoodTriage
  <2>2. PICK info \in resultC[j] : Ends(j) \/ Exec(j, r(info)) \/ AfterDeflake(j, r(info))
    BY <1>2 DEF Deflake
  <2>3. Ready BY <1>2 DEF Deflake, Ready
  <2>4. Next3(r(info))
    <3>1. CASE reexecutionSuccess(info)
      <4> DEFINE stable == IF job[j].i = 0 THEN info ELSE job[j].stable \cap info
                 newStable == (IF job[j].i = 0 THEN job[j].newSignal ELSE job[j].newStable) \cap info
      <4>1. r(info) = [job[j] EXCEPT !.i = job[j].i + 1, !.stable = stable, !.newStable = newStable]
        BY <3>1 DEF Deflaked
      <4> HIDE DEF r, stable, newStable
      <4> QED BY <2>1, <4>1 DEF TriageRec, Waits
    <3>2. CASE ~reexecutionSuccess(info)
      <4>1. r(info) = [job[j] EXCEPT !.i = job[j].i + 1, !.notExecuted = job[j].notExecuted + 1] BY <3>2
      <4> HIDE DEF r
      <4> QED BY <2>1, <4>1 DEF TriageRec, Waits
    <3> QED BY <3>1, <3>2
  <2> HIDE DEF r
  <2> QED BY <1>e, <1>x, <2>2, <2>3, <2>4 DEF AfterDeflake
<1>3. CASE Minimize(j)
  <2>1. job[j] \in TriageRec /\ job[j].pc = "minimize" BY <1>3, <1>j, JobKinds DEF Minimize, GoodTriage
  <2>2. ~Waits([job[j] EXCEPT !.pc = "save"]) BY <2>1 DEF TriageRec, Waits
  <2>3. Waits([job[j] EXCEPT !.i = @ + 1]) BY <2>1 DEF TriageRec, Waits
  <2>4. Ready BY <1>3 DEF Ready, Minimize
  <2> QED BY <1>3, <1>e, <2>2, <2>3, <2>4 DEF Minimize
<1>4. CASE Save(j)
  <2> DEFINE r == [job[j] EXCEPT !.pc = "send"]
  <2>1. job[j] \in TriageRec BY <1>4, <1>j, JobKinds DEF Save, GoodTriage
  <2>2. ~Waits(r) BY <2>1 DEF TriageRec, Waits
  <2>3. job[j].kind # "none" /\ ~Waits(job[j]) BY <1>4 DEF Waits, Save
  <2>4. \/ job' = [job EXCEPT ![j] = r] /\ nextJobID' = nextJobID
        \/ job' = StartJob([job EXCEPT ![j] = r], Smash) /\ nextJobID' = nextJobID + 1
    BY <1>4 DEF Save
  <2>5. queue' = queue /\ resultC' = resultC BY <1>4 DEF Save
  <2> HIDE DEF r
  <2>6. Resumes(j, r) BY <1>a, <1>n, <2>2, <2>3, <2>4, <2>5 DEF Resumes
  <2> QED BY <2>6, ResumesAnswer
<1>5. CASE SendInput(j)
  <2>1. Ready BY <1>5 DEF Ready, SendInput, Waits
  <2> QED BY <1>5, <1>x, <2>1 DEF SendInput
<1>6. CASE SmashStart(j)
  <2> DEFINE r == [job[j] EXCEPT !.pc = "mutate"]
  <2>1. job[j] \in SmashRec BY <1>6, <1>j, JobKinds DEF SmashStart
  <2>2. Waits(r) BY <2>1 DEF SmashRec, Waits
  <2>3. job[j].kind # "none" /\ ~Waits(job[j]) BY <1>6 DEF Waits, SmashStart
  <2>4. \/ job' = [job EXCEPT ![j] = r] /\ nextJobID' = nextJobID
        \/ job' = StartJob([job EXCEPT ![j] = r], Hints) /\ nextJobID' = nextJobID + 1
    BY <1>6 DEF SmashStart
  <2>5. queue' = queue \cup {j} /\ resultC' = resultC BY <1>6 DEF SmashStart
  <2> HIDE DEF r
  <2>6. Resumes(j, r) BY <1>a, <1>n, <2>2, <2>3, <2>4, <2>5 DEF Resumes
  <2> QED BY <2>6, ResumesAnswer
<1>7. CASE SmashStep(j)
  <2>1. job[j] \in SmashRec BY <1>7, <1>j, JobKinds DEF SmashStep
  <2>2. Ready BY <1>7 DEF Ready, SmashStep
  <2>3. /\ Waits([job[j] EXCEPT !.pc = "collide"])
        /\ Waits([job[j] EXCEPT !.pc = "mutate", !.i = @ + 1])
        /\ Waits([job[j] EXCEPT !.pc = "fault", !.i = 1])
    BY <2>1 DEF SmashRec, Waits
  <2>4. job[j].pc = "fault" => Waits([job[j] EXCEPT !.i = @ + 1]) BY <2>1 DEF SmashRec, Waits
  <2> QED BY <1>7, <1>e, <1>x, <2>2, <2>3, <2>4 DEF SmashStep
<1>8. CASE HintsStep(j)
  <2>1. job[j] \in HintsRec BY <1>8, <1>j, JobKinds DEF HintsStep
  <2>2. Ready BY <1>8 DEF Ready, HintsStep, Waits
  <2>3. Waits([job[j] EXCEPT !.pc = "seed"]) /\ Waits([job[j] EXCEPT !.pc = "hint", !.i = @ + 1])
    BY <2>1 DEF HintsRec, Waits
  <2> QED BY <1>8, <1>e, <1>x, <2>2, <2>3 DEF HintsStep
<1> QED BY <1>1, <1>2, <1>3, <1>4, <1>5, <1>6, <1>7, <1>8 DEF JobStep

LEMMA ProcStepAnswer == ASSUME AnswerInv, JobsInv, NEW p \in Proc, ProcStep(p) PROVE AnswerInv'
<1>i. proc[p].stat = "idle" => proc[p].job = 0
  <2>1. proc[p].stat = "idle" => proc[p] = Idle BY DEF JobsInv, ProcRec
  <2> QED BY <2>1 DEF Idle
<1>1. CASE PopJob(p) BY <1>1, PopJobAnswer
<1>2. CASE PopCandidate(p)
  <2>1. PICK f : proc' = [proc EXCEPT ![p] = [Requested(0, TRUE, f, 0) EXCEPT !.stat = "candidate"]]
    BY <1>2 DEF PopCandidate
  <2>2. [Requested(0, TRUE, f, 0) EXCEPT !.stat = "candidate"].job = 0 BY DEF Requested
  <2> QED BY <1>2, <1>i, <2>1, <2>2, ProcAnswerSame DEF PopCandidate, jobVars
<1>3. CASE Generate(p)
  <2>1. Requested(0, TRUE, {}, queuedCandidates).job = 0 BY DEF Requested
  <2> QED BY <1>3, <1>i, <2>1, ProcAnswerSame DEF Generate, jobVars
<1>4. CASE CountOff(p)
  <2>1. Requested(0, TRUE, proc[p].flags, queuedCandidates').job = 0 BY DEF Requested
  <2>2. proc[p].job = 0 BY <1>4 DEF AnswerInv, CountOff
  <2>3. proc' = [proc EXCEPT ![p] = Requested(0, TRUE, proc[p].flags, queuedCandidates')] BY <1>4 DEF CountOff
  <2>4. UNCHANGED <<job, nextJobID, queue, resultC>> BY <1>4 DEF CountOff, jobVars
  <2> DEFINE r == Requested(0, TRUE, proc[p].flags, queuedCandidates')
  <2> HIDE DEF r
  <2>5. r.job = proc[p].job /\ r.job = 0 /\ proc' = [proc EXCEPT ![p] = r] BY <2>1, <2>2, <2>3 DEF r
  <2> QED BY <2>4, <2>5, ProcAnswerSame
<1>5. CASE Signalled(p)
  <2> DEFINE r == [proc[p] EXCEPT !.stat = "run"]
  <2>1. proc' = [proc EXCEPT ![p] = r] BY <1>5 DEF Signalled, JobsInv
  <2>2. r.job = proc[p].job /\ r.stat = "run" /\ r.left = proc[p].left BY <1>5, BusyProc DEF Signalled
  <2>3. r.job # 0 => r.stat # "candidate" /\ r.left = 0 BY <2>2 DEF AnswerInv
  <2>4. UNCHANGED <<job, nextJobID, queue, resultC>> BY <1>5 DEF Signalled, jobVars
  <2> HIDE DEF r
  <2> QED BY <2>1, <2>2, <2>3, <2>4, ProcAnswerSame
<1>6. CASE TriageProgCall(p)
  <2>1. PICK r : r.kind = "triage" /\ r.pc = "start" /\ job' = StartJob(job, r) /\ nextJobID' = nextJobID + 1
    <3>1. \A flags, new : Triage(flags, new).kind = "triage" /\ Triage(flags, new).pc = "start" BY DEF Triage
    <3> QED BY <1>6, <3>1 DEF TriageProgCall
  <2>2. UNCHANGED <<queue, resultC, proc>> BY <1>6 DEF TriageProgCall
  <2>3. \A i \in JobID : job'[i] = IF i = nextJobID THEN r ELSE job[i] BY <2>1 DEF StartJob, JobsInv
  <2>4. nextJobID \in Nat BY DEF JobsInv
  <2>5. \A i \in JobID : i >= nextJobID' => job'[i] = NoJob BY <2>1, <2>3, <2>4 DEF AnswerInv, JobID
  <2>6. ASSUME NEW i \in JobID
        PROVE  IF Waits(job'[i]) THEN InQueue(i)' \/ InProc(i)' \/ Answered(i)' ELSE Nowhere(i)'
    <3>1. i = nextJobID => job[i] = NoJob BY <2>4 DEF AnswerInv, JobID
    <3>2. Waits(job'[i]) <=> Waits(job[i]) BY <2>1, <2>3, <3>1 DEF Waits, NoJob
    <3>3. Holders(i)' = Holders(i) BY <2>2 DEF Holders
    <3> QED BY <2>2, <3>2, <3>3, AnswerSame
  <2>7. \A q \in Proc : proc'[q].job # 0 => proc'[q].stat # "candidate" /\ proc'[q].left = 0
    BY <2>2 DEF AnswerInv
  <2> QED BY <2>5, <2>6, <2>7 DEF AnswerInv
<1>7. CASE Done(p) BY <1>7, DoneAnswer
<1> QED BY <1>1, <1>2, <1>3, <1>4, <1>5, <1>6, <1>7 DEF ProcStep

(* A job that waits in exec has its request in exactly one place, and no   *)
(* other job has one anywhere: a request is never lost and never answered  *)
(* twice on a channel that exec has left, for any number of processes and  *)
(* any kinds of jobs.                                                      *)
THEOREM AnsweredOnce == Spec => []OneAnswer
<1>1. Init => AnswerInv
  <2> SUFFICES ASSUME Init PROVE AnswerInv OBVIOUS
  <2>1. \A j \in JobID : ~Waits(job[j]) /\ job[j] = NoJob BY DEF Init, Waits, NoJob
  <2>2. \A p \in Proc : proc[p].job = 0 BY DEF Init, Idle
  <2>3. \A j \in JobID : Holders(j) = {}
    <3> SUFFICES ASSUME NEW j \in JobID PROVE Holders(j) = {} OBVIOUS
    <3>1. j # 0 BY DEF JobID
    <3> QED BY <2>2, <3>1 DEF Holders
  <2>4. \A j \in JobID : j \notin queue /\ resultC[j] = {} BY DEF Init
  <2> QED BY <2>1, <2>2, <2>3, <2>4 DEF AnswerInv, Nowhere
<1>2. ASSUME JobsInv, AnswerInv, [Next]_vars PROVE AnswerInv'
  <2>0. ASSUME UNCHANGED <<jobVars, proc>> PROVE AnswerInv'
    <3>1. UNCHANGED <<job, nextJobID, queue, resultC, proc>> BY <2>0 DEF jobVars
    <3>2. \A j : Holders(j)' = Holders(j) BY <3>1 DEF Holders
    <3> QED BY <1>2, <3>1, <3>2 DEF AnswerInv, InQueue, InProc, Answered, Nowhere
  <2>1. CASE PollStep BY <2>0, <2>1 DEF PollStep, PollStart, PollReply, PollPush
  <2>2. CASE UNCHANGED vars BY <2>0, <2>2 DEF vars
  <2> QED BY <1>2, <2>1, <2>2, ProcStepAnswer, JobStepAnswer DEF Next
<1>3. JobsInv /\ AnswerInv => OneAnswer BY AnswerIsOne
<1> QED BY <1>1, <1>2, <1>3, JobsInvariant, PTL DEF Spec
=============================================================================
