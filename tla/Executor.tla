------------------------------ MODULE Executor ------------------------------
(***************************************************************************)
(* The processes of syz-fuzzer (syz-fuzzer/proc.go) that run programs in   *)
(* their executors (Env of pkg/ipc/ipc.go), the gate they share, and the   *)
(* leak checker that the gate calls (syz-fuzzer/fuzzer.go).                *)
(***************************************************************************)
EXTENDS Gate, Sequences

CONSTANTS
  MaxTry,        \* executeRaw gives up when try > MaxTry (10 in the code)
  UseForkServer, \* Config.UseForkServer
  Flaky          \* the processes whose executor may fail or be restarted: a bound on the faults

ASSUME ExecutorAssumption == MaxTry \in Nat /\ UseForkServer \in BOOLEAN /\ Flaky \subseteq Proc

VARIABLES
  step,     \* call: an attempt is next, or under way; result: its outcome is
  cmd,      \* env.cmd: nil, a live executor, or one that is dead but not yet noticed
  out,      \* the output memory: clear, written by this attempt, or not touched by it
  err,      \* what the attempt returned
  try,      \* executeRaw's retry counter
  triaged,  \* FuzzerTool.triagedCandidates
  leak,     \* the leak checker: idle, or what it does by the value of triaged it loaded
  flushed,  \* a leak check whose result is ignored has finished since the triage
  exited    \* syz-fuzzer: running, or exited on a failing executor or on a leak

procVars == <<step, cmd, out, err, try>>
leakVars == <<triaged, leak, flushed>>
vars == <<gateVars, procVars, leakVars, exited>>

TypeOK ==
  /\ GateTypeOK
  /\ step \in [Proc -> {"call", "result"}]
  /\ cmd \in [Proc -> {"nil", "live", "dead"}]
  /\ out \in [Proc -> {"clear", "fresh", "stale"}]
  /\ err \in [Proc -> {"ok", "small", "fail"}]
  /\ try \in [Proc -> 0 .. MaxTry + 1]
  /\ triaged \in 0 .. 2
  /\ leak \in {"idle", "flush", "report"}
  /\ flushed \in BOOLEAN
  /\ exited \in {"running", "fatal", "leak"}

Init ==
  /\ GateInit
  /\ step = [p \in Proc |-> "call"]
  /\ cmd = [p \in Proc |-> "nil"]
  /\ out = [p \in Proc |-> "stale"]
  /\ err = [p \in Proc |-> "ok"]
  /\ try = [p \in Proc |-> 0]
  /\ triaged = 0
  /\ leak = "idle"
  /\ flushed = FALSE
  /\ exited = "running"

(* A new request (NextInput) may first drop the executor. *)
ForceRestart(p) == {cmd[p]} \cup (IF try[p] = 0 /\ p \in Flaky THEN {"nil"} ELSE {})

(* The fork server does not answer in time, or not at all; the executor    *)
(* does not start.                                                         *)
handshake(p) == {"live"} \cup (IF p \in Flaky THEN {"nil"} ELSE {})
makeCommand(p) == IF UseForkServer THEN handshake(p) ELSE {"live"} \cup (IF p \in Flaky THEN {"nil"} ELSE {})

RestartIfNeeded(p, c) == IF c = "nil" THEN makeCommand(p) ELSE {c}

(* An attempt begins: an executor is brought up outside of the gate. *)
Attempt(p) ==
  /\ at[p] = "out"
  /\ step[p] = "call"
  /\ \E c \in ForceRestart(p) : \E d \in RestartIfNeeded(p, c) :
       /\ cmd' = [cmd EXCEPT ![p] = d]
       /\ \/ d # "nil" /\ Arrive(p) /\ UNCHANGED <<step, err>>
          \/ /\ d = "nil"
             /\ step' = [step EXCEPT ![p] = "result"]
             /\ err' = [err EXCEPT ![p] = "fail"]
             /\ UNCHANGED gateVars
  /\ UNCHANGED <<out, try, leakVars, exited>>

EnterGate(p) ==
  /\ EnterPark(p) \/ Enter(p)
  /\ UNCHANGED <<procVars, leakVars, exited>>

(* Mutant: the output memory is left as it is. *)
ZeroOut_Kept(o) == o

(* What Exec clears before it runs the program. *)
ZeroOut(o) == "clear"

(* command.exec with executor c and output memory o.  A dead executor      *)
(* shows as a write error on its pipe.  An executor that the timer kills,  *)
(* or that ends by itself other than with statusFail, is no error, and     *)
(* env.cmd stays; the timer may also kill one that has just reported       *)
(* success.                                                                *)
exec(c, o) ==
  IF c = "dead" THEN {[cmd |-> "nil", out |-> o, err |-> "fail"]}
  ELSE [cmd : {"live", "dead"}, out : {"fresh"}, err : {"ok"}]
       \cup [cmd : {"dead"}, out : {o}, err : {"ok"}]
       \cup [cmd : {"nil"}, out : {o, "fresh"}, err : {"fail"}]

(* A clear memory has no replies, which is no error; others can be bad. *)
parseOutput(r) ==
  IF r.err = "ok" /\ r.out = "fresh" THEN {r, [r EXCEPT !.err = "fail"]} ELSE {r}

RunOutcomes(c, o) == UNION {parseOutput(r) : r \in exec(c, o)}

(* Without the fork server an executor runs one program. *)
AfterRun(c) == IF UseForkServer THEN c ELSE "nil"

Exec(p) ==
  \/ /\ p \in Flaky
     /\ err' = [err EXCEPT ![p] = "small"]
     /\ UNCHANGED <<cmd, out>>
  \/ \E r \in RunOutcomes(cmd[p], ZeroOut(out[p])) :
       /\ p \in Flaky \/ r = [cmd |-> "live", out |-> "fresh", err |-> "ok"]
       /\ cmd' = [cmd EXCEPT ![p] = AfterRun(r.cmd)]
       /\ out' = [out EXCEPT ![p] = r.out]
       /\ err' = [err EXCEPT ![p] = r.err]

(* Mutant: the first check after the triage is reported as well. *)
LoadTriaged_NoFlush == leak' = IF triaged = 0 THEN "idle" ELSE "report"

(* gateCallback loads triagedCandidates; before the corpus is triaged it   *)
(* returns at once.                                                        *)
LoadTriaged ==
  leak' = CASE triaged = 0 -> "idle" [] triaged = 1 -> "flush" [] triaged = 2 -> "report"

(* The program runs while the process is in; then the ticket is returned. *)
ExecAndLeave(p) ==
  /\ \/ LeavePlain(p) /\ UNCHANGED leak
     \/ LeaveFirst(p) /\ IF running = 1 THEN LoadTriaged ELSE UNCHANGED leak
  /\ Exec(p)
  /\ step' = [step EXCEPT ![p] = "result"]
  /\ UNCHANGED <<try, triaged, flushed, exited>>

DrainGate(p) ==
  /\ DrainPark(p)
  /\ UNCHANGED <<procVars, leakVars, exited>>

GateCallback(p) ==
  /\ StartCallback(p)
  /\ LoadTriaged
  /\ UNCHANGED <<procVars, triaged, flushed, exited>>

(* The leak check ends, with or without a leak, and gateCallback returns. *)
LeakCheckEnds(p) ==
  /\ at[p] = "callback"
  /\ \/ /\ leak = "report"
        /\ exited' = "leak"
        /\ UNCHANGED <<gateVars, leakVars>>
     \/ /\ EndCallback(p)
        /\ triaged' = IF leak = "flush" THEN 2 ELSE triaged
        /\ flushed' = (flushed \/ leak = "flush")
        /\ leak' = "idle"
        /\ UNCHANGED exited
  /\ UNCHANGED procVars

GiveUp(p) == err[p] = "fail" /\ try[p] > MaxTry

(* The end of executeRaw's loop body: give up, retry, or return to loop,   *)
(* which calls Done and goes on to a collided copy or a new request.       *)
Result(p) ==
  /\ at[p] = "out"
  /\ step[p] = "result"
  /\ IF GiveUp(p)
     THEN /\ exited' = "fatal"
          /\ UNCHANGED <<step, try, out, err>>
     ELSE /\ try' = [try EXCEPT ![p] = IF err[p] = "fail" THEN @ + 1 ELSE 0]
          /\ step' = [step EXCEPT ![p] = "call"]
          /\ out' = [out EXCEPT ![p] = "stale"]
          /\ err' = [err EXCEPT ![p] = "ok"]
          /\ UNCHANGED exited
  /\ UNCHANGED <<gateVars, cmd, leakVars>>

(* poll: the manager has no more candidates.  Only poll writes 1, and the  *)
(* leak checker does nothing while it reads 0.                             *)
CandidatesTriaged ==
  /\ triaged = 0
  /\ triaged' = 1
  /\ UNCHANGED <<gateVars, procVars, leak, flushed, exited>>

ProcStep(p) ==
  \/ Attempt(p) \/ EnterGate(p) \/ ExecAndLeave(p)
  \/ DrainGate(p) \/ GateCallback(p) \/ LeakCheckEnds(p) \/ Result(p)

Exited == exited # "running" /\ UNCHANGED vars

Next ==
  \/ exited = "running" /\ (CandidatesTriaged \/ \E p \in Proc : ProcStep(p))
  \/ Exited

Spec == Init /\ [][Next]_vars

----------------------------------------------------------------------------
(* The slot that was taken a starts before the last one. *)
SlotAt(a) == IF a < pos THEN pos - 1 - a ELSE Size + pos - 1 - a

Ages == {a \in Slot : SlotAt(a) \in busy}

Abs == INSTANCE GateAbs WITH
  ages <- Ages, starts <- pos, draining <- stop, callback <- hasF

(* The gate is a window of Size consecutive starts with a stop of the      *)
(* world after every Size-th one (the comments on Gate and NewGate).       *)
GateRefines == Abs!AbsSpec

(* None of the five "broken gate" panics of Enter and Leave is reached,    *)
(* whatever the processes do between their tickets.                        *)
GateSound == ~broken

(* The leak checker never runs beside a program: gateCallback is called    *)
(* with every ticket given back, and Enter waits until it has returned.    *)
CallbackAlone ==
  \A p \in Proc : at[p] = "callback" =>
    running = 0 /\ \A q \in Proc \ {p} : at[q] \in {"out", "enter", "parked"}

(* A leak is reported only after a check that ran since the corpus was     *)
(* triaged has flushed the earlier ones (the comment in gateCallback).     *)
LeakReportedAfterFlush == exited = "leak" => flushed

(* What Done is given was written by this run of the program, never by an  *)
(* earlier attempt or request, even when the executor dies before it       *)
(* writes anything (Exec zeroes the head of the output memory).            *)
InfoFresh ==
  \A p \in Proc : step[p] = "result" /\ err[p] = "ok" => out[p] # "stale"

(* No lost wake-up in Enter: a goroutine that sleeps there, because the    *)
(* slot is busy or the world is stopped, is woken.                         *)
SleepersWoken ==
  \A p \in Proc : (at[p] = "parked") ~> (at[p] # "parked" \/ exited # "running")

(* No lost wake-up in Leave: the holder of ticket 0 that stopped the world *)
(* gets to call the leak checker.                                          *)
WorldStops ==
  \A p \in Proc : (at[p] \in {"drain", "drainParked"}) ~> (at[p] = "callback" \/ exited # "running")

(* Every goroutine runs on; the lock of a sync.Cond is a sync.Mutex, whose *)
(* starvation mode hands it to a goroutine that keeps waiting for it.      *)
Fairness ==
  \A p \in Proc :
    /\ WF_vars(exited = "running" /\ (Attempt(p) \/ LeakCheckEnds(p) \/ Result(p)))
    /\ SF_vars(exited = "running" /\ (EnterGate(p) \/ ExecAndLeave(p) \/ DrainGate(p) \/ GateCallback(p)))

FairSpec == Spec /\ Fairness
=============================================================================
