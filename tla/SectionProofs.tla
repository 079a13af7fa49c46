---------------------------- MODULE SectionProofs ----------------------------
(***************************************************************************)
(* The two models whose steps are critical sections.                       *)
(*                                                                         *)
(* scx_serialise, for any number of threads and CPUs: what holds of the    *)
(* callbacks however their sections interleave.                            *)
(*                                                                         *)
(* pkg/ipc, for any number of processes and any size of the gate: no panic *)
(* of Enter and Leave is reachable and the callback runs alone, whatever   *)
(* the processes do with their tickets; leaks are flushed before they are  *)
(* reported, and results are fresh.                                        *)
(***************************************************************************)
EXTENDS Executor, SerialiseRace, FiniteSetTheorems, TLAPS

USE SMT, Zenon, SMTT(30)    \* the provers of a step that names none, in this order

-----------------------------------------------------------------------------
(* The callbacks of the scheduler.                                         *)

(* A task inside ops.enqueue.                                              *)
InEnqueue(t) ==
  \/ pc[t] \in {"count", "check", "insert"}
  \/ pc[t] \in {"claim", "push"} /\ reg[t].next = "insert"

TaskInv(t) ==
  /\ Joined(t) => (Queued(t) <=> where[t] \in {"enq", "dsq", "local"})
  /\ where[t] \in {"enq", "dsq"} => Joined(t) /\ tctx[t].timed
  /\ tctx[t].is_asleep => where[t] \in {"asleep", "dead"}
  /\ InEnqueue(t) => where[t] = "enq"
  /\ pc[t] = "join" => OnCpu(t)

(* The inductive invariant.                                                *)
RaceInv == RaceTypeOK /\ PendingHasToken /\ \A t \in Task : TaskInv(t)

-----------------------------------------------------------------------------
(* Each section on the cycle yields a cycle.                               *)
LEMMA RacySections ==
  ASSUME NEW c \in RacyCycle
  PROVE  /\ CountEnqueue(c) \in RacyCycle
         /\ CountMoved(c) \in RacyCycle
         /\ CountEmpty(c) \in RacyCycle
         /\ CountWake(c) \in RacyCycle
         /\ CountJoin(c) \in RacyCycle
         /\ ResetCycle(c) \in RacyCycle
         /\ \A a : ClaimGate(c, a) \in RacyCycle /\ CountSleep(c, a) \in RacyCycle
         /\ \A a, b : CountExit(c, a, b) \in RacyCycle
<1>1. /\ \A n \in Nat : DecIfPositive(n) \in Nat
      /\ CycleThreadCount \in Int /\ 0 \in Nat
      /\ c.state \in CycleState
      /\ {"UNAVAILABLE", "READY", "RUNNING", "TIMEOUT"} \subseteq CycleState
  BY CycleThreadCountAssumption DEF DecIfPositive, CycleState, RacyCycle
<1>2. /\ c.num_queued + 1 \in Nat /\ c.num_asleep + 1 \in Nat
      /\ c.num_alive + 1 \in Nat /\ c.num_expected_threads - 1 \in Int
  BY DEF RacyCycle
<1>3. CountEnqueue(c) \in RacyCycle /\ CountJoin(c) \in RacyCycle
  BY Zenon, <1>1, <1>2 DEF CountEnqueue, CountJoin, RacyCycle
<1>4. CountMoved(c) \in RacyCycle /\ CountEmpty(c) \in RacyCycle
  BY Zenon, <1>1 DEF CountMoved, CountEmpty, RacyCycle
<1>5. CountWake(c) \in RacyCycle /\ ResetCycle(c) \in RacyCycle
  BY Zenon, <1>1 DEF CountWake, ResetCycle, RacyCycle
<1>6. ASSUME NEW a PROVE ClaimGate(c, a) \in RacyCycle /\ CountSleep(c, a) \in RacyCycle
  <2>1. (IF a THEN "TIMEOUT" ELSE "RUNNING") \in CycleState
    BY <1>1
  <2>2. (IF a THEN DecIfPositive(c.num_queued) ELSE c.num_queued) \in Nat
    BY <1>1 DEF RacyCycle
  <2> QED BY Zenon, <1>2, <2>1, <2>2 DEF ClaimGate, CountSleep, RacyCycle
<1>7. ASSUME NEW a, NEW b PROVE CountExit(c, a, b) \in RacyCycle
  <2>1. /\ (IF c.state \in {"READY", "UNAVAILABLE"}
            THEN c.num_expected_threads - 1 ELSE c.num_expected_threads) \in Int
        /\ (IF a THEN DecIfPositive(c.num_queued) ELSE c.num_queued) \in Nat
        /\ (IF b THEN DecIfPositive(c.num_asleep) ELSE c.num_asleep) \in Nat
        /\ DecIfPositive(c.num_alive) \in Nat
    BY <1>1, <1>2 DEF RacyCycle
  <2> QED BY Zenon, <2>1 DEF CountExit, RacyCycle
<1> QED BY <1>3, <1>4, <1>5, <1>6, <1>7

(* Where a process goes next, and what it carries there.                   *)
LEMMA GotoType ==
  ASSUME pc \in [Process -> Label], reg \in [Process -> Reg],
         NEW p \in Process, NEW label \in Label, Goto(p, label)
  PROVE  pc' \in [Process -> Label] /\ reg' \in [Process -> Reg]
BY DEF Goto, NoReg, NoCtx, Reg, TaskCtx, ThreadState, Label

LEMMA ClaimIfType ==
  ASSUME pc \in [Process -> Label], reg \in [Process -> Reg],
         NEW p \in Process, NEW open, NEW timeout \in BOOLEAN,
         NEW next \in {"idle", "insert", "reset"}, ClaimIf(p, open, timeout, next)
  PROVE  pc' \in [Process -> Label] /\ reg' \in [Process -> Reg]
<1>1. CASE open
  BY <1>1 DEF ClaimIf, Reg, Label
<1>2. CASE ~open
  BY <1>2, GotoType DEF ClaimIf, Label
<1> QED BY <1>1, <1>2

(* Contexts and processes have their types.                                *)
LEMMA CtxTypes ==
  ASSUME NEW x \in TaskCtx
  PROVE  /\ \A s \in ThreadState, b \in BOOLEAN :
              /\ [x EXCEPT !.state = s] \in TaskCtx
              /\ [x EXCEPT !.state = s, !.timed = b] \in TaskCtx
         /\ \A b, d \in BOOLEAN :
              /\ [x EXCEPT !.is_asleep = b] \in TaskCtx
              /\ [x EXCEPT !.is_asleep = b, !.timed = d] \in TaskCtx
         /\ NoCtx \in TaskCtx
BY Zenon DEF TaskCtx, NoCtx, ThreadState

LEMMA Processes ==
  /\ \A t \in Task : t \in Process /\ t # Timer /\ t \notin Cpu
  /\ \A c \in Cpu : c \in Process /\ c \notin Task
  /\ Timer \in Process /\ Timer \notin Task /\ Timer \notin Cpu
BY ProcessAssumption DEF Process

(* Every step keeps the types.                                             *)
LEMMA RaceTypeStep ==
  ASSUME RaceTypeOK, RaceNext
  PROVE  RaceTypeOK'
<1> USE DEF RaceTypeOK
<1>1. /\ \A l \in {"idle", "join", "count", "check", "insert", "sleep", "wake",
                   "exit", "reset", "mark", "move", "moved", "empty", "push"} :
           l \in Label
      /\ \A p \in Process : reg[p] \in Reg /\ reg[p].next \in Label
                            /\ reg[p].ctx \in TaskCtx
  BY DEF Label, Reg
<1>2. {"RUNNING", "ENQUEUED", "TIMEOUT", "REGISTERED", "IGNORED"} \subseteq ThreadState
  BY DEF ThreadState, JoinedState
<1>3. ASSUME NEW p \in Process, Claim(p) PROVE RaceTypeOK'
  <2>1. (IF cycle.pending_dispatch THEN reg[p].next ELSE "push") \in Label
    BY <1>1
  <2>2. pc' \in [Process -> Label] /\ reg' \in [Process -> Reg]
    BY <1>3, <2>1, GotoType DEF Claim
  <2>3. cycle' \in RacyCycle
    BY Zenon, <1>3, RacySections DEF Claim
  <2> QED BY <1>3, <2>2, <2>3 DEF Claim
<1>4. ASSUME NEW p \in Process, Push(p) PROVE RaceTypeOK'
  <2>1. pc' \in [Process -> Label] /\ reg' \in [Process -> Reg]
    BY <1>1, <1>4, GotoType DEF Push
  <2>2. tokens' \in 0..QueueMax
    BY <1>4, QueueMaxAssumption DEF Push
  <2> QED BY <1>4, <2>1, <2>2 DEF Push
<1>5. ASSUME NEW c \in Cpu, Pop(c) \/ CpuSection(c) PROVE RaceTypeOK'
  <2>1. c \in Process
    BY Processes
  <2>2. CASE Pop(c)
    <3>1. pc' \in [Process -> Label] /\ reg' \in [Process -> Reg]
      BY <1>1, <2>1, <2>2, GotoType DEF Pop
    <3> QED BY <2>2, <3>1, QueueMaxAssumption DEF Pop
  <2>3. CASE Move(c)
    <3>1. pc' \in [Process -> Label] /\ reg' \in [Process -> Reg]
      BY <1>1, <2>1, <2>3 DEF Move, Reg, Parked
    <3> QED BY <2>3, <3>1 DEF Move, Parked, Location
  <2>4. CASE MoveNone(c)
    BY <1>1, <2>1, <2>4, GotoType DEF MoveNone
  <2>5. CASE Moved(c)
    <3>1. pc' \in [Process -> Label] /\ reg' \in [Process -> Reg]
      BY Zenon, <1>1, <2>1, <2>5, ClaimIfType DEF Moved
    <3> QED BY <2>5, <3>1, RacySections DEF Moved
  <2>6. CASE Empty(c)
    <3>1. pc' \in [Process -> Label] /\ reg' \in [Process -> Reg]
      BY Zenon, <1>1, <2>1, <2>6, ClaimIfType DEF Empty
    <3> QED BY <2>6, <3>1, RacySections DEF Empty
  <2> QED BY <1>5, <2>2, <2>3, <2>4, <2>5, <2>6 DEF CpuSection
<1>6. ASSUME NEW t \in Task, TaskSection(t) PROVE RaceTypeOK'
  <2>0. t \in Process
    BY Processes
  <2>1. CASE Join(t)
    <3>1. pc' \in [Process -> Label] /\ reg' \in [Process -> Reg]
      BY <1>1, <2>0, <2>1, GotoType DEF Join
    <3>2. tctx' \in [Task -> TaskCtx]
      BY <1>2, <2>1 DEF TaskCtx, Join
    <3> QED BY <2>1, <3>1, <3>2, RacySections DEF Join, Location
  <2>2. CASE Count(t)
    <3>1. pc' \in [Process -> Label] /\ reg' \in [Process -> Reg]
      BY <1>1, <2>0, <2>2, GotoType DEF Count
    <3> QED BY <2>2, <3>1, RacySections DEF Count
  <2>3. CASE Check(t)
    <3>1. pc' \in [Process -> Label] /\ reg' \in [Process -> Reg]
      BY Zenon, <1>1, <2>0, <2>3, ClaimIfType DEF Check
    <3> QED BY <2>3, <3>1 DEF Check
  <2>4. CASE Insert(t)
    <3>1. pc' \in [Process -> Label] /\ reg' \in [Process -> Reg]
      BY <1>1, <2>0, <2>4, GotoType DEF Insert
    <3> QED BY <2>4, <3>1 DEF Insert, Location
  <2>5. CASE Sleep(t)
    <3>1. pc' \in [Process -> Label] /\ reg' \in [Process -> Reg]
      BY Zenon, <1>1, <2>0, <2>5, ClaimIfType DEF Sleep
    <3>2. cycle' \in RacyCycle
      BY Zenon, <2>5, RacySections DEF Sleep
    <3> QED BY <2>5, <3>1, <3>2 DEF Sleep
  <2>6. CASE Wake(t)
    <3>1. pc' \in [Process -> Label] /\ reg' \in [Process -> Reg]
      BY Zenon, <1>1, <2>0, <2>6, ClaimIfType DEF Wake
    <3> QED BY <2>6, <3>1, RacySections DEF Wake
  <2>7. CASE Exit(t)
    <3>1. (IF LastExit(cycle') THEN "reset" ELSE "idle") \in {"idle", "insert", "reset"}
      OBVIOUS
    <3>2. pc' \in [Process -> Label] /\ reg' \in [Process -> Reg]
      BY Zenon, <2>0, <2>7, <3>1, ClaimIfType DEF Exit
    <3>3. cycle' \in RacyCycle
      BY Zenon, <2>7, RacySections DEF Exit
    <3> QED BY <2>7, <3>2, <3>3 DEF Exit
  <2>8. CASE Reset(t)
    <3>1. pc' \in [Process -> Label] /\ reg' \in [Process -> Reg]
      BY <1>1, <2>0, <2>8, GotoType DEF Reset
    <3> QED BY <2>8, <3>1, RacySections DEF Reset
  <2> QED BY <1>6, <2>1, <2>2, <2>3, <2>4, <2>5, <2>6, <2>7, <2>8 DEF TaskSection
<1>7. ASSUME NEW t \in Task, Look(t) \/ Mark(t) PROVE RaceTypeOK'
  <2>0. Timer \in Process
    BY Processes
  <2>1. CASE Look(t)
    <3>1. pc' \in [Process -> Label] /\ reg' \in [Process -> Reg]
      BY <1>1, <2>0, <2>1 DEF Look, Reg
    <3> QED BY <2>1, <3>1 DEF Look
  <2>2. CASE Mark(t)
    <3>1. pc' \in [Process -> Label] /\ reg' \in [Process -> Reg]
      BY Zenon, <1>1, <2>0, <2>2, ClaimIfType DEF Mark
    <3>2. tctx' \in [Task -> TaskCtx]
      BY <1>2, <2>2 DEF TaskCtx, Mark
    <3> QED BY <2>2, <3>1, <3>2 DEF Mark
  <2> QED BY <1>7, <2>1, <2>2
<1>8. ASSUME NEW t \in Task,
             SetSchedPolicy(t) \/ EnqueueGlobal(t) \/ Running(t) \/ ExitTask(t)
      PROVE  RaceTypeOK'
  <2>0. t \in Process /\ tctx[t] \in TaskCtx
    BY Processes
  <2>1. CASE SetSchedPolicy(t)
    BY <2>1 DEF SetSchedPolicy, Location
  <2>2. CASE EnqueueGlobal(t)
    <3>1. tctx' \in [Task -> TaskCtx]
      BY Zenon, <1>2, <2>0, <2>2, CtxTypes DEF EnqueueGlobal
    <3> QED BY <2>2, <3>1 DEF EnqueueGlobal, Location
  <2>3. CASE Running(t)
    <3>1. tctx' \in [Task -> TaskCtx]
      BY Zenon, <1>2, <2>0, <2>3, CtxTypes DEF Running
    <3> QED BY <2>3, <3>1 DEF Running, Location
  <2>4. CASE ExitTask(t)
    <3>1. pc' \in [Process -> Label] /\ reg' \in [Process -> Reg]
      BY <1>1, <2>0, <2>4 DEF ExitTask, Reg
    <3>2. tctx' \in [Task -> TaskCtx]
      BY Zenon, <2>0, <2>4, CtxTypes DEF ExitTask
    <3> QED BY <2>4, <3>1, <3>2 DEF ExitTask, Location
  <2> QED BY <1>8, <2>1, <2>2, <2>3, <2>4
<1>9. ASSUME NEW t \in Task,
             Yield(t) \/ Enqueue(t) \/ Block(t) \/ Die(t) \/ Runnable(t)
      PROVE  RaceTypeOK'
  <2>0. t \in Process /\ tctx[t] \in TaskCtx
    BY Processes
  <2>1. CASE Yield(t)
    <3>1. pc' \in [Process -> Label] /\ reg' \in [Process -> Reg]
      BY <1>1, <2>0, <2>1, GotoType DEF Yield
    <3>2. tctx' \in [Task -> TaskCtx]
      BY <1>2, <2>0, <2>1 DEF TaskCtx, Yield
    <3> QED BY <2>1, <3>1, <3>2 DEF Yield
  <2>2. CASE Enqueue(t)
    <3>1. pc' \in [Process -> Label] /\ reg' \in [Process -> Reg]
      BY <1>1, <2>0, <2>2, GotoType DEF Enqueue
    <3>2. tctx' \in [Task -> TaskCtx]
      BY Zenon, <1>2, <2>0, <2>2, CtxTypes DEF Enqueue
    <3> QED BY <2>2, <3>1, <3>2 DEF Enqueue, Location
  <2>3. CASE Block(t) \/ Die(t)
    <3>1. PICK to \in {"asleep", "dead"} : Quiescent(t, to)
      BY <2>3 DEF Block, Die
    <3>2. pc' \in [Process -> Label] /\ reg' \in [Process -> Reg]
      BY Zenon, <1>1, <2>0, <3>1, GotoType DEF Quiescent
    <3>3. (IF Queued(t) THEN FALSE ELSE tctx[t].timed) \in BOOLEAN
      BY Zenon, <2>0 DEF TaskCtx
    <3>4. tctx' \in [Task -> TaskCtx]
      BY Zenon, <2>0, <3>1, <3>3, CtxTypes DEF Quiescent
    <3> QED BY Zenon, <3>1, <3>2, <3>4 DEF Quiescent, Location
  <2>4. CASE Runnable(t)
    <3>1. pc' \in [Process -> Label] /\ reg' \in [Process -> Reg]
      BY <1>1, <2>0, <2>4, GotoType DEF Runnable
    <3>2. tctx' \in [Task -> TaskCtx]
      BY Zenon, <2>0, <2>4, CtxTypes DEF Runnable
    <3> QED BY Zenon, <2>4, <3>1, <3>2 DEF Runnable, Location
  <2> QED BY <1>9, <2>1, <2>2, <2>3, <2>4
<1> QED BY <1>3, <1>4, <1>5, <1>6, <1>7, <1>8, <1>9 DEF RaceNext, TaskNext

-----------------------------------------------------------------------------
(* A process moves only itself.                                            *)
LEMMA GotoFrame ==
  ASSUME pc \in [Process -> Label], reg \in [Process -> Reg],
         NEW p \in Process, NEW label, Goto(p, label)
  PROVE  /\ pc'[p] = label
         /\ label # "idle" => reg'[p] = reg[p]
         /\ \A q \in Process \ {p} : pc'[q] = pc[q] /\ reg'[q] = reg[q]
BY DEF Goto

LEMMA ClaimIfFrame ==
  ASSUME pc \in [Process -> Label], reg \in [Process -> Reg],
         NEW p \in Process, NEW open, NEW timeout, NEW next,
         ClaimIf(p, open, timeout, next)
  PROVE  /\ (pc'[p] = "claim" /\ reg'[p].next = next) \/ pc'[p] = next
         /\ \A q \in Process \ {p} : pc'[q] = pc[q] /\ reg'[q] = reg[q]
<1>1. CASE open
  <2>1. /\ pc' = [pc EXCEPT ![p] = "claim"]
        /\ reg' = [reg EXCEPT ![p].timeout = timeout, ![p].next = next]
    BY <1>1 DEF ClaimIf
  <2> QED BY <2>1 DEF Reg
<1>2. CASE ~open
  BY <1>2, GotoFrame DEF ClaimIf
<1> QED BY <1>1, <1>2

-----------------------------------------------------------------------------
(* The gate does not jam.                                                  *)

Busy(p) == pc[p] \in {"push", "move", "moved", "empty"}

(* What each section does to pending_dispatch.                             *)
LEMMA PendingSections ==
  ASSUME NEW c \in RacyCycle
  PROVE  /\ CountEnqueue(c).pending_dispatch = c.pending_dispatch
         /\ CountWake(c).pending_dispatch = c.pending_dispatch
         /\ CountJoin(c).pending_dispatch = c.pending_dispatch
         /\ CountMoved(c).pending_dispatch = FALSE
         /\ CountEmpty(c).pending_dispatch = FALSE
         /\ ResetCycle(c).pending_dispatch = FALSE
BY Zenon DEF CountEnqueue, CountWake, CountJoin, CountMoved, CountEmpty,
              ResetCycle, RacyCycle

(* A step that sets nothing pending, takes no token and interrupts nobody   *)
(* who carries one.                                                        *)
LEMMA QuietPending ==
  ASSUME PendingHasToken, tokens' = tokens,
         cycle'.pending_dispatch => cycle.pending_dispatch,
         \A q \in Process : Busy(q) => Busy(q)'
  PROVE  PendingHasToken'
BY DEF PendingHasToken, Busy

LEMMA PendingStep ==
  ASSUME RaceTypeOK, PendingHasToken, RaceNext
  PROVE  PendingHasToken'
<1> USE DEF RaceTypeOK
<1>1. ASSUME NEW p \in Process, Claim(p) PROVE PendingHasToken'
  <2>1. CASE cycle.pending_dispatch
    <3>1. /\ cycle' = cycle /\ tokens' = tokens
          /\ pc[p] = "claim" /\ Goto(p, reg[p].next)
      BY Zenon, <1>1, <2>1 DEF Claim, ClaimGate
    <3>2. \A q \in Process : Busy(q) => Busy(q)'
      BY <3>1, GotoFrame DEF Busy
    <3> QED BY <3>1, <3>2, QuietPending
  <2>2. CASE ~cycle.pending_dispatch
    <3>1. Goto(p, "push")
      BY <1>1, <2>2 DEF Claim
    <3> QED BY <3>1, GotoFrame DEF PendingHasToken
  <2> QED BY <2>1, <2>2
<1>2. ASSUME NEW p \in Process, Push(p) PROVE PendingHasToken'
  <2>1. tokens' > 0
    BY <1>2, QueueMaxAssumption DEF Push
  <2> QED BY <2>1 DEF PendingHasToken
<1>3. ASSUME NEW c \in Cpu, Pop(c) \/ CpuSection(c) PROVE PendingHasToken'
  <2>1. c \in Process
    BY Processes
  <2>2. CASE Pop(c)
    BY <2>1, <2>2, GotoFrame DEF Pop, PendingHasToken
  <2>3. CASE Move(c)
    BY <2>1, <2>3 DEF Move, PendingHasToken
  <2>4. CASE MoveNone(c)
    BY <2>1, <2>4, GotoFrame DEF MoveNone, PendingHasToken
  <2>5. CASE Moved(c) \/ Empty(c)
    <3>1. cycle'.pending_dispatch = FALSE
      BY Zenon, <2>5, PendingSections DEF Moved, Empty
    <3> QED BY <3>1 DEF PendingHasToken
  <2> QED BY <1>3, <2>2, <2>3, <2>4, <2>5 DEF CpuSection
<1>4. ASSUME NEW t \in Task, TaskSection(t) PROVE PendingHasToken'
  <2>0. t \in Process
    BY Processes
  <2>1. tokens' = tokens
    BY Zenon, <1>4 DEF TaskSection, Join, Count, Check, Insert, Sleep, Wake, Exit, Reset
  <2>2. cycle'.pending_dispatch => cycle.pending_dispatch
    <3>0. cycle \in RacyCycle
      OBVIOUS
    <3>1. ASSUME Sleep(t) PROVE cycle'.pending_dispatch = cycle.pending_dispatch
      <4>1. cycle' = CountSleep(cycle, Queued(t))
        BY Zenon, <3>1 DEF Sleep
      <4> QED BY <3>0, <4>1 DEF CountSleep, RacyCycle
    <3>2. ASSUME Exit(t) PROVE cycle'.pending_dispatch = cycle.pending_dispatch
      <4>1. PICK a, b : cycle' = CountExit(cycle, a, b)
        BY Zenon, <3>2 DEF Exit
      <4> QED BY <3>0, <4>1 DEF CountExit, RacyCycle
    <3>3. CASE Join(t) \/ Count(t) \/ Wake(t) \/ Reset(t)
      BY Zenon, <3>3, PendingSections DEF Join, Count, Wake, Reset
    <3>4. CASE Check(t) \/ Insert(t)
      BY Zenon, <3>4 DEF Check, Insert
    <3> QED BY Zenon, <1>4, <3>1, <3>2, <3>3, <3>4 DEF TaskSection
  <2>3. /\ pc[t] \in {"join", "count", "check", "insert", "sleep", "wake", "exit",
                      "reset"}
        /\ \A q \in Process \ {t} : pc'[q] = pc[q]
    BY Zenon, <1>4, <2>0, GotoFrame, ClaimIfFrame
       DEF TaskSection, Join, Count, Check, Insert, Sleep, Wake, Exit, Reset
  <2>4. \A q \in Process : Busy(q) => Busy(q)'
    BY <2>3 DEF Busy
  <2> QED BY <2>1, <2>2, <2>4, QuietPending
<1>5. ASSUME NEW t \in Task, Look(t) \/ Mark(t) PROVE PendingHasToken'
  <2>0. Timer \in Process
    BY Processes
  <2>1. tokens' = tokens /\ cycle' = cycle
    BY Zenon, <1>5 DEF Look, Mark
  <2>2. /\ pc[Timer] \in {"idle", "mark"}
        /\ \A q \in Process \ {Timer} : pc'[q] = pc[q]
    <3>1. CASE Look(t)
      BY <2>0, <3>1 DEF Look, Idle
    <3>2. CASE Mark(t)
      BY Zenon, <2>0, <3>2, ClaimIfFrame DEF Mark
    <3> QED BY <1>5, <3>1, <3>2
  <2>3. \A q \in Process : Busy(q) => Busy(q)'
    BY <2>2 DEF Busy
  <2> QED BY <2>1, <2>3, QuietPending
<1>6. ASSUME NEW t \in Task,
             \/ SetSchedPolicy(t) \/ Yield(t) \/ EnqueueGlobal(t) \/ Enqueue(t)
             \/ Running(t) \/ Block(t) \/ Die(t) \/ Runnable(t) \/ ExitTask(t)
      PROVE  PendingHasToken'
  <2>0. t \in Process
    BY Processes
  <2>1. tokens' = tokens /\ cycle' = cycle
    BY Zenon, <1>6 DEF SetSchedPolicy, Yield, EnqueueGlobal, Enqueue, Running, Block,
                       Die, Quiescent, Runnable, ExitTask
  <2>2. pc' = pc \/ (pc[t] = "idle" /\ \A q \in Process \ {t} : pc'[q] = pc[q])
    <3>1. CASE ExitTask(t)
      BY Zenon, <2>0, <3>1 DEF ExitTask, Idle
    <3>2. CASE ~ExitTask(t)
      BY Zenon, <1>6, <2>0, <3>2, GotoFrame
         DEF SetSchedPolicy, Yield, EnqueueGlobal, Enqueue, CallsEnqueue, Running,
             Block, Die, Quiescent, Runnable, Idle
    <3> QED BY <3>1, <3>2
  <2>3. \A q \in Process : Busy(q) => Busy(q)'
    BY <2>2 DEF Busy
  <2> QED BY <2>1, <2>3, QuietPending
<1> QED BY <1>1, <1>2, <1>3, <1>4, <1>5, <1>6 DEF RaceNext, TaskNext

-----------------------------------------------------------------------------
(* The watchdog sees what is parked.                                       *)

LEMMA TaskUntouched ==
  ASSUME NEW u \in Task, TaskInv(u), tctx'[u] = tctx[u], where'[u] = where[u],
         InEnqueue(u)' => InEnqueue(u), pc'[u] = "join" => pc[u] = "join"
  PROVE  TaskInv(u)'
BY DEF TaskInv, Joined, Queued, OnCpu

LEMMA TaskStep ==
  ASSUME RaceTypeOK, RaceNext, \A t \in Task : TaskInv(t), NEW u \in Task
  PROVE  TaskInv(u)'
<1> USE DEF RaceTypeOK
<1>0. TaskInv(u) /\ u \in Process
  BY Processes
<1>1. ASSUME NEW p \in Process, Claim(p) \/ Push(p) PROVE TaskInv(u)'
  <2>1. /\ pc[p] \in {"claim", "push"}
        /\ Goto(p, reg[p].next) \/ Goto(p, "push")
        /\ tctx' = tctx /\ where' = where
    BY Zenon, <1>1 DEF Claim, Push
  <2>2. (InEnqueue(u)' => InEnqueue(u)) /\ (pc'[u] = "join" => pc[u] = "join")
    BY <1>0, <2>1, GotoFrame DEF InEnqueue, Reg
  <2> QED BY <1>0, <2>1, <2>2, TaskUntouched
<1>2. ASSUME NEW c \in Cpu, Pop(c) \/ CpuSection(c) PROVE TaskInv(u)'
  <2>0. c \in Process /\ c # u
    BY Processes
  <2>1. CASE Move(c)
    <3>1. PICK t \in Parked : /\ where' = [where EXCEPT ![t] = "local"]
                              /\ pc' = [pc EXCEPT ![c] = "moved"]
                              /\ reg' = [reg EXCEPT ![c].task = {t}]
                              /\ tctx' = tctx
      BY Zenon, <2>1 DEF Move
    <3>2. InEnqueue(u)' = InEnqueue(u) /\ pc'[u] = pc[u]
      BY <1>0, <2>0, <3>1 DEF InEnqueue
    <3>3. CASE u = t
      BY <1>0, <3>1, <3>2, <3>3 DEF TaskInv, Parked, Joined, Queued, OnCpu
    <3>4. CASE u # t
      BY <1>0, <3>1, <3>2, <3>4, TaskUntouched DEF Parked
    <3> QED BY <3>3, <3>4
  <2>2. CASE Pop(c) \/ MoveNone(c) \/ Moved(c) \/ Empty(c)
    <3>1. pc'[u] = pc[u] /\ reg'[u] = reg[u] /\ tctx' = tctx /\ where' = where
      BY Zenon, <1>0, <2>0, <2>2, GotoFrame, ClaimIfFrame DEF Pop, MoveNone, Moved, Empty
    <3> QED BY <1>0, <3>1, TaskUntouched DEF InEnqueue
  <2> QED BY <1>2, <2>1, <2>2 DEF CpuSection
<1>3. ASSUME NEW t \in Task, Look(t) \/ Mark(t) PROVE TaskInv(u)'
  <2>0. Timer \in Process /\ Timer # u
    BY Processes
  <2>1. pc'[u] = pc[u] /\ reg'[u] = reg[u] /\ where' = where
    BY Zenon, <1>0, <1>3, <2>0, ClaimIfFrame DEF Look, Mark
  <2>2. CASE tctx'[u] = tctx[u]
    BY <1>0, <2>1, <2>2, TaskUntouched DEF InEnqueue
  <2>3. CASE tctx'[u] # tctx[u]
    <3>1. Expired(u) /\ tctx' = [tctx EXCEPT ![u].state = "TIMEOUT"]
      BY Zenon, <1>0, <1>3, <2>3 DEF Look, Mark
    <3> QED BY <1>0, <2>1, <3>1
            DEF TaskInv, InEnqueue, Expired, Joined, Queued, JoinedState, TaskCtx, OnCpu
  <2> QED BY <2>2, <2>3
<1>4. ASSUME NEW t \in Task, t # u, TaskNext(t), ~(Look(t) \/ Mark(t))
      PROVE  TaskInv(u)'
  <2>0. t \in Process
    BY Processes
  <2>1. pc'[u] = pc[u] /\ reg'[u] = reg[u]
    <3>1. CASE TaskSection(t)
      BY Zenon, <1>0, <1>4, <2>0, <3>1, GotoFrame, ClaimIfFrame
         DEF TaskSection, Join, Count, Check, Insert, Sleep, Wake, Exit, Reset
    <3>2. CASE ~TaskSection(t)
      BY Zenon, <1>0, <1>4, <2>0, <3>2, GotoFrame
         DEF TaskNext, SetSchedPolicy, Yield, EnqueueGlobal, Enqueue, Running, Block,
             Die, Quiescent, Runnable, ExitTask
    <3> QED BY <3>1, <3>2
  <2>2. tctx'[u] = tctx[u] /\ where'[u] = where[u]
    BY Zenon, <1>4
       DEF TaskNext, SetSchedPolicy, Yield, EnqueueGlobal, Enqueue, Running, Block, Die,
           Quiescent, Runnable, ExitTask, TaskSection, Join, Count, Check, Insert, Sleep,
           Wake, Exit, Reset
  <2> QED BY <1>0, <2>1, <2>2, TaskUntouched DEF InEnqueue
<1>5. ASSUME TaskSection(u) PROVE TaskInv(u)'
  <2>1. CASE Join(u)
    <3>1. ~InEnqueue(u)' /\ pc'[u] = "idle"
      BY <1>0, <2>1, GotoFrame DEF Join, InEnqueue
    <3>2. /\ where'[u] = "yield" /\ tctx'[u].state = "RUNNING"
          /\ tctx'[u].is_asleep = tctx[u].is_asleep
      BY <2>1 DEF Join, TaskCtx
    <3>3. ~tctx[u].is_asleep
      BY <1>0, <2>1 DEF Join, TaskInv, OnCpu
    <3> QED BY <3>1, <3>2, <3>3 DEF TaskInv, Joined, Queued, JoinedState
  <2>2. CASE Insert(u)
    <3>1. ~InEnqueue(u)' /\ InEnqueue(u) /\ pc'[u] = "idle"
      BY <1>0, <2>2, GotoFrame DEF Insert, InEnqueue
    <3> QED BY <1>0, <2>2, <3>1 DEF Insert, TaskInv, Joined, Queued
  <2>3. CASE Count(u) \/ Check(u)
    <3>1. InEnqueue(u) /\ tctx' = tctx /\ where' = where /\ pc'[u] # "join"
      <4>1. CASE Count(u)
        BY <1>0, <4>1, GotoFrame DEF Count, InEnqueue
      <4>2. CASE Check(u)
        <5>1. ClaimIf(u, EnqueueGateOpens(cycle), FALSE, "insert")
          BY Zenon, <4>2 DEF Check
        <5>2. pc'[u] = "claim" \/ pc'[u] = "insert"
          BY Zenon, <1>0, <5>1, ClaimIfFrame
        <5> QED BY Zenon, <4>2, <5>2 DEF Check, InEnqueue
      <4> QED BY <2>3, <4>1, <4>2
    <3> QED BY <1>0, <3>1, TaskUntouched
  <2>4. CASE Sleep(u) \/ Wake(u) \/ Exit(u) \/ Reset(u)
    <3>1. /\ tctx' = tctx /\ where' = where
          /\ \/ pc'[u] \in {"idle", "reset"}
             \/ pc'[u] = "claim" /\ reg'[u].next \in {"idle", "reset"}
      <4>1. CASE Exit(u)
        <5> DEFINE n == IF LastExit(cycle') THEN "reset" ELSE "idle"
        <5>1. n \in {"idle", "reset"}
          OBVIOUS
        <5>2. ClaimIf(u, ExitGateOpens(cycle'), cycle.state = "TIMEOUT", n)
          BY Zenon, <4>1 DEF Exit
        <5>3. tctx' = tctx /\ where' = where
          BY Zenon, <4>1 DEF Exit
        <5> HIDE DEF n
        <5>4. (pc'[u] = "claim" /\ reg'[u].next = n) \/ pc'[u] = n
          BY <1>0, <5>2, ClaimIfFrame
        <5> QED BY <5>1, <5>3, <5>4
      <4>2. CASE Sleep(u) \/ Wake(u)
        <5>1. ClaimIf(u, RunningGateOpens(cycle'), FALSE, "idle")
          BY Zenon, <4>2 DEF Sleep, Wake
        <5>2. tctx' = tctx /\ where' = where
          BY Zenon, <4>2 DEF Sleep, Wake
        <5> QED BY ZenonT(30), <1>0, <5>1, <5>2, ClaimIfFrame
      <4>3. CASE Reset(u)
        BY <1>0, <4>3, GotoFrame DEF Reset
      <4> QED BY <2>4, <4>1, <4>2, <4>3
    <3>2. ~InEnqueue(u)' /\ pc'[u] # "join"
      BY <3>1 DEF InEnqueue
    <3> QED BY <1>0, <3>1, <3>2, TaskUntouched
  <2> QED BY <1>5, <2>1, <2>2, <2>3, <2>4 DEF TaskSection
<1>6. ASSUME \/ SetSchedPolicy(u) \/ EnqueueGlobal(u) \/ Running(u) \/ ExitTask(u)
      PROVE  TaskInv(u)'
  <2> USE DEF TaskInv, Joined, Queued, JoinedState, TaskCtx, OnCpu
  <2>1. CASE SetSchedPolicy(u)
    BY <1>0, <2>1 DEF SetSchedPolicy, Idle, InEnqueue
  <2>2. CASE EnqueueGlobal(u)
    BY <1>0, <2>2 DEF EnqueueGlobal, CallsEnqueue, Idle, InEnqueue
  <2>3. CASE Running(u)
    BY <1>0, <2>3 DEF Running, InEnqueue
  <2>4. CASE ExitTask(u)
    <3>1. ~InEnqueue(u)' /\ pc'[u] # "join"
      BY <1>0, <2>4 DEF ExitTask, Idle, InEnqueue
    <3> QED BY <1>0, <2>4, <3>1 DEF ExitTask, NoCtx
  <2> QED BY <1>6, <2>1, <2>2, <2>3, <2>4
<1>7. ASSUME \/ Yield(u) \/ Enqueue(u) \/ Block(u) \/ Die(u) \/ Runnable(u)
      PROVE  TaskInv(u)'
  <2> USE DEF TaskInv, Joined, Queued, JoinedState, TaskCtx, OnCpu
  <2>1. CASE Yield(u)
    <3>1. ~InEnqueue(u)'
      BY <1>0, <2>1, GotoFrame DEF Yield, Idle, InEnqueue
    <3> QED BY <1>0, <2>1, <3>1 DEF Yield
  <2>2. CASE Enqueue(u)
    BY <1>0, <2>2, GotoFrame DEF Enqueue, CallsEnqueue
  <2>3. CASE Block(u) \/ Die(u)
    <3>1. PICK to \in {"asleep", "dead"} : Quiescent(u, to)
      BY <2>3 DEF Block, Die
    <3>2. ~InEnqueue(u)' /\ pc'[u] # "join"
      <4>1. pc'[u] \in {"idle", "sleep"}
        BY ZenonT(30), <1>0, <3>1, GotoFrame DEF Quiescent, Idle
      <4> QED BY <4>1 DEF InEnqueue
    <3>3. where[u] \in {"cpu", "gated"} /\ where'[u] = to
      BY Zenon, <1>0, <3>1 DEF Quiescent, OnCpu
    <3>4. tctx'[u].state = tctx[u].state
      <4>1. CASE tctx' = tctx
        BY <4>1
      <4>2. CASE tctx' = [tctx EXCEPT ![u].is_asleep = TRUE,
                            ![u].timed = IF Queued(u) THEN FALSE ELSE @]
        BY <4>2
      <4> QED BY Zenon, <3>1, <4>1, <4>2 DEF Quiescent
    <3> QED BY <1>0, <3>2, <3>3, <3>4
  <2>4. CASE Runnable(u)
    <3>1. ~InEnqueue(u)' /\ pc'[u] # "join"
      <4>1. pc'[u] \in {"idle", "wake"}
        BY ZenonT(30), <1>0, <2>4, GotoFrame DEF Runnable, Idle
      <4> QED BY <4>1 DEF InEnqueue
    <3> QED BY <1>0, <2>4, <3>1 DEF Runnable
  <2> QED BY <1>7, <2>1, <2>2, <2>3, <2>4
<1> QED BY Zenon, <1>1, <1>2, <1>3, <1>4, <1>5, <1>6, <1>7 DEF RaceNext, TaskNext

-----------------------------------------------------------------------------
(* RaceInv is an invariant.                                                *)
THEOREM RaceInvariance == RaceSpec => []RaceInv
<1>1. RaceInit => RaceInv
  <2> SUFFICES ASSUME RaceInit PROVE RaceInv
    OBVIOUS
  <2>1. RaceTypeOK
    BY CycleThreadCountAssumption, QueueMaxAssumption
       DEF RaceInit, RaceTypeOK, NewCycle, RacyCycle, CycleState, NoCtx, NoReg, Reg, TaskCtx,
           ThreadState, Location, Label
  <2>2. PendingHasToken
    BY DEF RaceInit, PendingHasToken, NewCycle
  <2>3. ASSUME NEW t \in Task PROVE TaskInv(t)
    BY Processes DEF RaceInit, TaskInv, InEnqueue, Joined, Queued, JoinedState, NoCtx, OnCpu
  <2> QED BY <2>1, <2>2, <2>3 DEF RaceInv
<1>2. RaceInv /\ [RaceNext]_raceVars => RaceInv'
  <2> SUFFICES ASSUME RaceInv, [RaceNext]_raceVars PROVE RaceInv'
    OBVIOUS
  <2>1. CASE RaceNext
    BY <2>1, RaceTypeStep, PendingStep, TaskStep DEF RaceInv
  <2>2. CASE UNCHANGED raceVars
    BY Zenon, <2>2 DEF RaceInv, RaceTypeOK, PendingHasToken, TaskInv, InEnqueue, Joined,
                       Queued, OnCpu, raceVars
  <2> QED BY <2>1, <2>2
<1> QED BY <1>1, <1>2, PTL DEF RaceSpec

(* However the sections interleave, the counters of a cycle, the contexts  *)
(* and the processes keep their types: no guarded decrement of             *)
(* struct sched_cycle goes below zero.                                     *)
THEOREM RaceTypes == RaceSpec => []RaceTypeOK
<1>1. RaceInv => RaceTypeOK
  BY DEF RaceInv
<1> QED BY <1>1, RaceInvariance, PTL

(* However the sections interleave, a pending cycle has its token in the   *)
(* queue or in somebody's hands: enqueue_cycle_for_dispatch never returns   *)
(* early because of a token that has been lost.                            *)
THEOREM GateNeverJams == RaceSpec => []PendingHasToken
<1>1. RaceInv => PendingHasToken
  BY DEF RaceInv
<1> QED BY <1>1, RaceInvariance, PTL

(* However the sections interleave, check_dispatch_timeout can nudge every *)
(* parked thread and marks no thread that has left GROUP_DSQ and run.      *)
THEOREM WatchdogComplete == RaceSpec => []WatchdogSeesParked
<1>1. RaceInv => WatchdogSeesParked
  BY DEF RaceInv, RaceTypeOK, TaskInv, WatchdogSeesParked, Expired, Joined, Queued,
         JoinedState, TaskCtx
<1> QED BY <1>1, RaceInvariance, PTL

-----------------------------------------------------------------------------
(* The gate and the executors.                                             *)

(* What makes the panics unreachable: tickets name busy slots, each busy   *)
(* slot one holder; running counts the busy slots; and once the world is   *)
(* stopped slot 0 stays free, so nobody can stop it again.                 *)
TicketInv ==
  /\ \A p \in Proc : at[p] = "in" => ticket[p] \in busy
  /\ \A p, q \in Proc : at[p] = "in" /\ at[q] = "in" /\ p # q => ticket[p] # ticket[q]
  /\ \A s \in busy : \E p \in Proc : at[p] = "in" /\ ticket[p] = s
  /\ running = Cardinality(busy)

Draining(p) == at[p] \in {"drain", "drainParked"}

StopInv ==
  /\ stop => 0 \notin busy
  /\ \A p \in Proc : Draining(p) => stop
  /\ \A p, q \in Proc : Draining(p) /\ Draining(q) => p = q
  /\ \A p \in Proc : at[p] = "callback" => running = 0 /\ ~stop
  /\ \A p, q \in Proc : at[p] = "callback" /\ at[q] = "callback" => p = q

GateInv == GateTypeOK /\ ~broken /\ TicketInv /\ StopInv

LEMMA SlotsFinite ==
  /\ IsFiniteSet(Slot)
  /\ Cardinality(Slot) = Size
  /\ 0 \in Slot
<1>1. IsFiniteSet(0 .. Size - 1) /\ Cardinality(0 .. Size - 1) = IF 0 > Size - 1 THEN 0 ELSE (Size - 1) - 0 + 1
  BY FS_Interval, SizeAssumption
<1> QED BY <1>1, SizeAssumption DEF Slot

LEMMA BusyFinite ==
  ASSUME NEW b, b \subseteq Slot
  PROVE  /\ IsFiniteSet(b)
         /\ Cardinality(b) \in Nat
         /\ Cardinality(b) <= Size
<1>1. IsFiniteSet(b) /\ Cardinality(b) <= Size BY SlotsFinite, FS_Subset
<1> QED BY <1>1, FS_CardinalityType

(* Taking a free slot adds one to the number of busy ones, which is then   *)
(* still at most Size.                                                     *)
LEMMA TakeSlot ==
  ASSUME NEW b, b \subseteq Slot, NEW s \in Slot, s \notin b
  PROVE  Cardinality(b \cup {s}) = Cardinality(b) + 1 /\ Cardinality(b) + 1 <= Size
<1>1. IsFiniteSet(b) BY BusyFinite
<1>2. Cardinality(b \cup {s}) = Cardinality(b) + 1 BY <1>1, FS_AddElement
<1>3. b \cup {s} \subseteq Slot OBVIOUS
<1>4. Cardinality(b \cup {s}) <= Size BY <1>3, BusyFinite
<1> QED BY <1>2, <1>4

LEMMA FreeSlot ==
  ASSUME NEW b, b \subseteq Slot, NEW s \in b
  PROVE  Cardinality(b \ {s}) = Cardinality(b) - 1 /\ Cardinality(b) # 0
<1>1. IsFiniteSet(b) BY BusyFinite
<1>2. Cardinality(b \ {s}) = Cardinality(b) - 1 BY <1>1, FS_RemoveElement
<1>3. Cardinality(b) # 0 BY <1>1, FS_EmptySet
<1> QED BY <1>2, <1>3

LEMMA NoneBusy ==
  ASSUME NEW b, b \subseteq Slot, Cardinality(b) = 0
  PROVE  b = {}
BY BusyFinite, FS_EmptySet

-----------------------------------------------------------------------------
LEMMA GateInitInv == GateInit => GateInv
<1> SUFFICES ASSUME GateInit PROVE GateInv OBVIOUS
<1>1. 0 \in Slot BY SlotsFinite
<1>2. GateTypeOK
  BY <1>1, Zenon DEF GateInit, GateTypeOK, Place
<1>3. TicketInv
  BY FS_EmptySet DEF GateInit, TicketInv
<1>4. StopInv
  BY DEF GateInit, StopInv, Draining
<1> QED BY <1>2, <1>3, <1>4 DEF GateInit, GateInv

LEMMA GateStepInv == GateInv /\ [GateNext]_gateVars => GateInv'
<1> SUFFICES ASSUME GateInv, [GateNext]_gateVars PROVE GateInv'
  OBVIOUS
<1>t. 0 \in Slot BY SlotsFinite
<1>m. ASSUME NEW p \in Proc, NEW w \in Place \ {"in", "callback"},
             w \in {"drain", "drainParked"} => Draining(p),
             at' = [at EXCEPT ![p] = w], at[p] # "in",
             UNCHANGED <<busy, pos, running, stop, hasF, ticket, broken>>
      PROVE  GateInv'
  <2>1. \A q \in Proc : (at'[q] = "in" <=> at[q] = "in") /\ (Draining(q)' => Draining(q))
                         /\ (at'[q] = "callback" => at[q] = "callback")
    BY <1>m DEF GateInv, GateTypeOK, Draining
  <2>2. GateTypeOK' BY <1>m DEF GateInv, GateTypeOK
  <2>3. TicketInv' BY <1>m, <2>1 DEF GateInv, TicketInv
  <2>4. StopInv' BY <1>m, <2>1 DEF GateInv, StopInv
  <2> QED BY <1>m, <2>2, <2>3, <2>4 DEF GateInv
<1>1. ASSUME NEW p \in Proc, Arrive(p) PROVE GateInv'
  BY <1>1, <1>m, Zenon DEF Arrive, Place
<1>2. ASSUME NEW p \in Proc, EnterPark(p) PROVE GateInv'
  BY <1>2, <1>m, Zenon DEF EnterPark, Place
<1>3. ASSUME NEW p \in Proc, Enter(p) PROVE GateInv'
  <2>1. pos \in Slot \ busy /\ ~stop /\ NextPos \in Slot
    BY <1>3, SizeAssumption DEF Enter, EnterBlocked, GateInv, GateTypeOK, Slot, NextPos
  <2>2. running' = Cardinality(busy') /\ running + 1 <= Size
    BY <1>3, <2>1, TakeSlot DEF Enter, GateInv, GateTypeOK, TicketInv
  <2>3. ~(running + 1 > Size)
    BY <2>2, SizeAssumption DEF GateInv, GateTypeOK
  <2>4. GateTypeOK' /\ ~broken'
    BY <1>3, <2>1, <2>3 DEF Enter, GateInv, GateTypeOK, Place
  <2>5. TicketInv'
    BY <1>3, <2>1, <2>2 DEF Enter, GateInv, GateTypeOK, TicketInv
  <2>6. StopInv'
    BY <1>3, <2>1 DEF Enter, LockFree, GateInv, GateTypeOK, StopInv, Draining
  <2> QED BY <2>4, <2>5, <2>6 DEF GateInv
<1>4. ASSUME NEW p \in Proc, at[p] = "in", GiveBack(p)
      PROVE  /\ busy' = busy \ {ticket[p]}
             /\ running' = running - 1
             /\ running \in Nat \ {0}
             /\ running' = Cardinality(busy')
             /\ ticket[p] = 0 => ~stop
             /\ ~broken'
  <2>1. ticket[p] \in busy /\ (ticket[p] = 0 => ~stop)
    BY <1>4 DEF GateInv, GateTypeOK, TicketInv, StopInv
  <2>2. Cardinality(busy \ {ticket[p]}) = Cardinality(busy) - 1 /\ running # 0
    BY <2>1, FreeSlot DEF GateInv, GateTypeOK, TicketInv
  <2>3. ~broken'
    BY <1>4, <2>1, <2>2, Zenon DEF GiveBack, GateInv
  <2> QED BY <1>4, <2>1, <2>2, <2>3 DEF GiveBack, GateInv, GateTypeOK, TicketInv
<1>5. ASSUME NEW p \in Proc, LeavePlain(p) PROVE GateInv'
  <2>1. at[p] = "in" /\ GiveBack(p) BY <1>5 DEF LeavePlain
  <2>2. /\ at' \in [Proc -> Place]
        /\ \A q \in Proc : at'[q] = "in" <=> at[q] = "in" /\ q # p
        /\ \A q \in Proc : Draining(q)' => Draining(q)
        /\ \A q \in Proc : at'[q] = "callback" => at[q] = "callback"
    BY <1>5 DEF LeavePlain, Woken, GateInv, GateTypeOK, Place, Draining
  <2>3. GateTypeOK'
    <3>0. broken' \in BOOLEAN BY <2>1 DEF GiveBack
    <3>1. busy' \subseteq Slot /\ running' \in Nat
      BY <1>4, <2>1 DEF GateInv, GateTypeOK
    <3>2. ticket' \in [Proc -> Slot] /\ pos' = pos /\ stop' = stop /\ hasF' = hasF
      BY <1>5, <1>t DEF LeavePlain, GateInv, GateTypeOK
    <3> QED BY <2>2, <3>0, <3>1, <3>2 DEF GateInv, GateTypeOK
  <2>4. TicketInv'
    <3>1. \A q \in Proc : q # p => ticket'[q] = ticket[q]
      BY <1>5 DEF LeavePlain, GateInv, GateTypeOK
    <3>2. busy' = busy \ {ticket[p]} /\ running' = Cardinality(busy')
      BY <1>4, <2>1
    <3>3. \A q \in Proc : at'[q] = "in" => ticket'[q] \in busy'
      BY <2>1, <2>2, <3>1, <3>2 DEF GateInv, TicketInv
    <3>4. \A q, r \in Proc : at'[q] = "in" /\ at'[r] = "in" /\ q # r => ticket'[q] # ticket'[r]
      BY <2>2, <3>1 DEF GateInv, TicketInv
    <3>5. \A s \in busy' : \E q \in Proc : at'[q] = "in" /\ ticket'[q] = s
      BY <2>2, <3>1, <3>2 DEF GateInv, TicketInv
    <3> QED BY <3>2, <3>3, <3>4, <3>5 DEF TicketInv
  <2>5. StopInv'
    BY <1>4, <1>5, <2>1, <2>2, Zenon DEF LeavePlain, LockFree, GateInv, StopInv
  <2> QED BY <1>4, <2>1, <2>3, <2>4, <2>5 DEF GateInv
<1>6. ASSUME NEW p \in Proc, LeaveFirst(p) PROVE GateInv'
  <2>1. at[p] = "in" /\ GiveBack(p) /\ ticket[p] = 0 BY <1>6 DEF LeaveFirst
  <2>2. ~stop BY <1>4, <2>1
  <2>3. \A q \in Proc : ~Draining(q) /\ at[q] # "callback"
    BY <1>6, <2>2 DEF LeaveFirst, LockFree, GateInv, StopInv
  <2>4. /\ at' \in [Proc -> Place]
        /\ at'[p] = IF running = 1 THEN "callback" ELSE "drainParked"
        /\ \A q \in Proc : q # p => at'[q] = at[q]
    BY <1>6 DEF LeaveFirst, GateInv, GateTypeOK, Place
  <2>5. GateTypeOK'
    <3>0. broken' \in BOOLEAN BY <2>1 DEF GiveBack
    <3>1. busy' \subseteq Slot /\ running' \in Nat
      BY <1>4, <2>1 DEF GateInv, GateTypeOK
    <3>2. ticket' = ticket /\ pos' = pos /\ stop' \in BOOLEAN /\ hasF' = hasF
      BY <1>6 DEF LeaveFirst
    <3> QED BY <2>4, <3>0, <3>1, <3>2 DEF GateInv, GateTypeOK
  <2>6. TicketInv'
    BY <1>4, <1>6, <2>1, <2>4 DEF LeaveFirst, GateInv, GateTypeOK, TicketInv
  <2>7. StopInv'
    <3>1. 0 \notin busy' /\ stop' = (running # 1) /\ (running = 1 => running' = 0)
      BY <1>4, <1>6, <2>1 DEF LeaveFirst
    <3>2. \A q \in Proc : (Draining(q)' <=> q = p /\ running # 1) /\ (at'[q] = "callback" <=> q = p /\ running = 1)
      BY <2>3, <2>4 DEF Draining
    <3> QED BY <3>1, <3>2, Zenon DEF StopInv
  <2> QED BY <1>4, <2>1, <2>5, <2>6, <2>7 DEF GateInv
<1>7. ASSUME NEW p \in Proc, DrainPark(p) PROVE GateInv'
  BY <1>7, <1>m, Zenon DEF DrainPark, Place, Draining
<1>8. ASSUME NEW p \in Proc, StartCallback(p) PROVE GateInv'
  <2>1. \A q \in Proc : (at'[q] = "in" <=> at[q] = "in") /\ ~Draining(q)'
                         /\ (at'[q] = "callback" => q = p)
    BY <1>8 DEF StartCallback, LockFree, GateInv, GateTypeOK, StopInv, Draining
  <2>2. GateTypeOK' BY <1>8, Zenon DEF StartCallback, GateInv, GateTypeOK, Place
  <2>3. TicketInv' BY <1>8, <2>1, Zenon DEF StartCallback, GateInv, TicketInv
  <2>4. StopInv' BY <1>8, <2>1 DEF StartCallback, GateInv, StopInv
  <2> QED BY <1>8, <2>2, <2>3, <2>4 DEF StartCallback, GateInv
<1>9. ASSUME NEW p \in Proc, EndCallback(p) PROVE GateInv'
  <2>1. /\ at' \in [Proc -> Place]
        /\ \A q \in Proc : at'[q] = "in" <=> at[q] = "in"
        /\ \A q \in Proc : Draining(q)' => Draining(q)
        /\ \A q \in Proc : at'[q] = "callback" => at[q] = "callback"
    BY <1>9 DEF EndCallback, Woken, GateInv, GateTypeOK, Place, Draining
  <2>2. GateTypeOK' BY <1>9, <2>1, Zenon DEF EndCallback, GateInv, GateTypeOK
  <2>3. TicketInv' BY <1>9, <2>1, Zenon DEF EndCallback, GateInv, TicketInv
  <2>4. StopInv' BY <1>9, <2>1, Zenon DEF EndCallback, GateInv, StopInv
  <2> QED BY <1>9, <2>2, <2>3, <2>4 DEF EndCallback, GateInv
<1>10. CASE UNCHANGED gateVars
  BY <1>10 DEF gateVars, GateInv, GateTypeOK, TicketInv, StopInv, Draining
<1> QED
  BY <1>1, <1>2, <1>3, <1>5, <1>6, <1>7, <1>8, <1>9, <1>10 DEF GateNext, GateStep

-----------------------------------------------------------------------------
(* Every step of the processes is a step of the gate or leaves it alone.   *)
LEMMA ExecutorUsesGate == [Next]_vars => [GateNext]_gateVars
<1> SUFFICES ASSUME [Next]_vars PROVE [GateNext]_gateVars OBVIOUS
<1>1. CASE CandidatesTriaged \/ Exited \/ UNCHANGED vars
  BY <1>1 DEF CandidatesTriaged, Exited, vars, gateVars
<1>2. ASSUME NEW p \in Proc, ProcStep(p) PROVE GateStep(p) \/ UNCHANGED gateVars
  BY <1>2 DEF ProcStep, Attempt, EnterGate, ExecAndLeave, DrainGate, GateCallback,
              LeakCheckEnds, Result, GateStep
<1> QED BY <1>1, <1>2 DEF Next, GateNext

LEMMA GateInvariant == Spec => []GateInv
<1>1. Init => GateInv BY GateInitInv DEF Init
<1>2. GateInv /\ [Next]_vars => GateInv' BY GateStepInv, ExecutorUsesGate
<1> QED BY <1>1, <1>2, PTL DEF Spec

(* No "broken gate" panic of Enter or Leave (pkg/ipc/gate.go) is reachable *)
(* for any number of processes and any size of the gate.                   *)
THEOREM GateIsSound == Spec => []GateSound
<1>1. GateInv => GateSound BY DEF GateInv, GateSound
<1> QED BY <1>1, GateInvariant, PTL

(* gateCallback runs while no process holds a ticket or waits for the      *)
(* world to stop: no program runs beside the leak checker.                 *)
THEOREM CallbackRunsAlone == Spec => []CallbackAlone
<1>1. ASSUME GateInv PROVE CallbackAlone
  <2> SUFFICES ASSUME NEW p \in Proc, at[p] = "callback"
               PROVE  running = 0 /\ \A q \in Proc \ {p} : at[q] \in {"out", "enter", "parked"}
    BY DEF CallbackAlone
  <2>1. running = 0 /\ ~stop BY <1>1 DEF GateInv, StopInv
  <2>2. busy = {} BY <1>1, <2>1, NoneBusy, Zenon DEF GateInv, GateTypeOK, TicketInv
  <2>3. \A q \in Proc : at[q] # "in" /\ ~Draining(q) /\ (at[q] = "callback" => q = p)
    BY <1>1, <2>1, <2>2 DEF GateInv, TicketInv, StopInv
  <2> QED BY <1>1, <2>1, <2>3 DEF GateInv, GateTypeOK, Place, Draining
<1> QED BY <1>1, GateInvariant, PTL
-----------------------------------------------------------------------------
(* Ages and slots name the same activities.                                *)
LEMMA SlotAtIsOnto ==
  ASSUME pos \in Slot
  PROVE  /\ \A a \in Slot : SlotAt(a) \in Slot
         /\ \A a, b \in Slot : SlotAt(a) = SlotAt(b) => a = b
         /\ \A s \in Slot : \E a \in Slot : SlotAt(a) = s
<1> USE SizeAssumption DEF Slot, SlotAt
<1>1. \A a \in Slot : SlotAt(a) \in Slot OBVIOUS
<1>2. \A a, b \in Slot : SlotAt(a) = SlotAt(b) => a = b OBVIOUS
<1>3. ASSUME NEW s \in Slot PROVE \E a \in Slot : SlotAt(a) = s
  <2>1. CASE s < pos
    <3>1. pos - 1 - s \in Slot /\ SlotAt(pos - 1 - s) = s BY <2>1
    <3> QED BY <3>1, Zenon
  <2>2. CASE ~(s < pos)
    <3>1. Size + pos - 1 - s \in Slot /\ SlotAt(Size + pos - 1 - s) = s BY <2>2
    <3> QED BY <3>1, Zenon
  <2> QED BY <2>1, <2>2
<1> QED BY <1>1, <1>2, <1>3

LEMMA NoAges ==
  ASSUME pos \in Slot, busy \subseteq Slot
  PROVE  Ages = {} <=> busy = {}
BY SlotAtIsOnto DEF Ages

(* A start makes every running activity one start older. *)
LEMMA StartAges ==
  ASSUME pos \in Slot, busy \subseteq Slot, pos \notin busy,
         pos' = NextPos, busy' = busy \cup {pos}
  PROVE  /\ Size - 1 \notin Ages
         /\ Ages' = {a + 1 : a \in Ages} \cup {0}
<1>1. Size - 1 \in Slot /\ SlotAt(Size - 1) = pos /\ 0 \in Slot
  BY SizeAssumption DEF Slot, SlotAt
<1>2. \A a \in Slot : a # 0 => a - 1 \in Slot /\ SlotAt(a)' = SlotAt(a - 1)
  BY SizeAssumption DEF Slot, SlotAt, NextPos
<1>3. SlotAt(0)' = pos
  BY SizeAssumption DEF Slot, SlotAt, NextPos
<1>4. Size - 1 \notin Ages BY <1>1 DEF Ages
<1>5. \A a \in Slot : a # 0 => (SlotAt(a)' \in busy' <=> a - 1 \in Ages)
  <2> SUFFICES ASSUME NEW a \in Slot, a # 0 PROVE SlotAt(a)' \in busy' <=> a - 1 \in Ages
    OBVIOUS
  <2>1. a - 1 \in Slot /\ SlotAt(a)' = SlotAt(a - 1) /\ a - 1 # Size - 1
    BY <1>2, SizeAssumption DEF Slot
  <2>2. SlotAt(a - 1) # pos BY <1>1, <2>1, SlotAtIsOnto
  <2> QED BY <2>1, <2>2 DEF Ages
<1>6. ASSUME NEW a PROVE a \in Ages' <=> a \in {c + 1 : c \in Ages} \cup {0}
  <2>1. CASE a = 0
    BY <1>1, <1>3, <2>1 DEF Ages
  <2>2. ASSUME a # 0, a \in Ages' PROVE a \in {c + 1 : c \in Ages}
    <3>1. a \in Slot /\ a - 1 \in Ages BY <1>5, <2>2 DEF Ages
    <3>2. a = (a - 1) + 1 BY <3>1, SizeAssumption DEF Slot
    <3> QED BY <3>1, <3>2
  <2>3. ASSUME NEW c \in Ages, a = c + 1 PROVE a \in Ages'
    <3>1. c \in Slot /\ c # Size - 1 BY <1>4 DEF Ages
    <3>2. a \in Slot /\ a # 0 /\ a - 1 = c BY <2>3, <3>1, SizeAssumption DEF Slot
    <3> QED BY <1>5, <3>2 DEF Ages
  <2> QED BY <2>1, <2>2, <2>3
<1> QED BY <1>4, <1>6

LEMMA FinishAges ==
  ASSUME pos \in Slot, busy \subseteq Slot, NEW s \in busy,
         pos' = pos, busy' = busy \ {s}
  PROVE  \E a \in Ages : SlotAt(a) = s /\ Ages' = Ages \ {a}
<1>1. PICK a \in Slot : SlotAt(a) = s BY SlotAtIsOnto
<1>2. \A b \in Slot : SlotAt(b)' = SlotAt(b) BY DEF SlotAt
<1>3. \A b \in Slot : SlotAt(b) = s <=> b = a BY <1>1, SlotAtIsOnto
<1>4. Ages' = Ages \ {a} BY <1>2, <1>3 DEF Ages
<1> QED BY <1>1, <1>4 DEF Ages

LEMMA GateStepRefines == GateInv /\ [GateNext]_gateVars => [Abs!AbsNext]_Abs!absVars
<1> SUFFICES ASSUME GateInv, [GateNext]_gateVars PROVE [Abs!AbsNext]_Abs!absVars
  OBVIOUS
<1>t. pos \in Slot /\ busy \subseteq Slot /\ stop \in BOOLEAN /\ hasF \in BOOLEAN
  BY DEF GateInv, GateTypeOK
<1>1. ASSUME UNCHANGED <<busy, pos, stop, hasF>> PROVE UNCHANGED Abs!absVars
  BY <1>1 DEF Abs!absVars, Ages, SlotAt
<1>2. ASSUME NEW p \in Proc, Arrive(p) \/ EnterPark(p) \/ DrainPark(p) \/ EndCallback(p)
      PROVE  UNCHANGED <<busy, pos, stop, hasF>>
  BY <1>2 DEF Arrive, EnterPark, DrainPark, EndCallback
<1>3. ASSUME NEW p \in Proc, Enter(p) PROVE Abs!AbsStart
  <2>1. pos \notin busy /\ ~stop /\ pos' = NextPos /\ busy' = busy \cup {pos}
        /\ UNCHANGED <<stop, hasF>>
    BY <1>3 DEF Enter, EnterBlocked
  <2>2. Size - 1 \notin Ages /\ Ages' = {a + 1 : a \in Ages} \cup {0}
    BY <1>t, <2>1, StartAges
  <2>3. pos' = IF pos = Size - 1 THEN 0 ELSE pos + 1
    BY <1>t, <2>1, SizeAssumption DEF NextPos, Slot
  <2> QED BY <2>1, <2>2, <2>3 DEF Abs!AbsStart
<1>4. ASSUME NEW p \in Proc, at[p] = "in", GiveBack(p), pos' = pos
      PROVE  \E a \in Ages : /\ Ages' = Ages \ {a}
                             /\ Abs!NumberOf(pos, a) = ticket[p]
                             /\ Ages' = {} <=> running = 1
  <2>1. ticket[p] \in busy /\ busy' = busy \ {ticket[p]}
    BY <1>4 DEF GateInv, TicketInv, GiveBack
  <2>2. PICK a \in Ages : SlotAt(a) = ticket[p] /\ Ages' = Ages \ {a}
    BY <1>t, <1>4, <2>1, FinishAges
  <2>3. Abs!NumberOf(pos, a) = SlotAt(a) BY DEF Abs!NumberOf, SlotAt
  <2>4. Cardinality(busy') = running - 1 /\ running \in Nat
    BY <1>t, <2>1, FreeSlot DEF GateInv, GateTypeOK, TicketInv
  <2>5. busy' = {} <=> running = 1
    <3>1. busy' \subseteq Slot BY <1>t, <2>1
    <3>2. Cardinality(busy') = 0 => busy' = {} BY <3>1, NoneBusy
    <3>3. busy' = {} => Cardinality(busy') = 0 BY FS_EmptySet
    <3> QED BY <2>4, <3>2, <3>3
  <2>6. Ages' = {} <=> busy' = {}
    <3>1. \A b \in Slot : SlotAt(b)' = SlotAt(b) BY <1>4 DEF SlotAt
    <3>2. busy' \subseteq Slot BY <1>t, <2>1
    <3> QED BY <1>t, <3>1, <3>2, SlotAtIsOnto DEF Ages
  <2> QED BY <2>2, <2>3, <2>5, <2>6
<1>5. ASSUME NEW p \in Proc, LeavePlain(p) PROVE Abs!AbsFinish
  <2>1. at[p] = "in" /\ GiveBack(p) /\ pos' = pos /\ stop' = stop /\ hasF' = hasF
        /\ (ticket[p] # 0 \/ ~hasF)
    BY <1>5 DEF LeavePlain
  <2>2. PICK a \in Ages : Ages' = Ages \ {a} /\ Abs!NumberOf(pos, a) = ticket[p]
    BY <1>4, <2>1
  <2>3. stop' = (stop \/ (hasF /\ Abs!NumberOf(pos, a) = 0 /\ Ages' # {}))
    BY <1>t, <2>1, <2>2
  <2> QED BY <2>1, <2>2, <2>3 DEF Abs!AbsFinish
<1>6. ASSUME NEW p \in Proc, LeaveFirst(p) PROVE Abs!AbsFinish
  <2>1. at[p] = "in" /\ GiveBack(p) /\ pos' = pos /\ stop' = (running # 1) /\ hasF' = hasF
        /\ ticket[p] = 0 /\ hasF
    BY <1>6 DEF LeaveFirst
  <2>2. PICK a \in Ages : /\ Ages' = Ages \ {a} /\ Abs!NumberOf(pos, a) = ticket[p]
                          /\ Ages' = {} <=> running = 1
    BY <1>4, <2>1
  <2>3. ~stop
    BY <2>1 DEF GateInv, TicketInv, StopInv
  <2>4. stop' = (stop \/ (hasF /\ Abs!NumberOf(pos, a) = 0 /\ Ages' # {}))
    BY <1>t, <2>1, <2>2, <2>3
  <2> QED BY <2>1, <2>2, <2>4 DEF Abs!AbsFinish
<1>7. ASSUME NEW p \in Proc, StartCallback(p) PROVE Abs!AbsCallback
  <2>1. stop BY <1>7 DEF StartCallback, GateInv, StopInv, Draining
  <2>2. busy = {} BY <1>t, <1>7, NoneBusy, Zenon DEF StartCallback, GateInv, TicketInv
  <2>3. Ages = {} BY <1>t, <2>2, NoAges
  <2>4. Ages' = Ages BY <1>7 DEF StartCallback, Ages, SlotAt
  <2> QED BY <1>7, <2>1, <2>3, <2>4 DEF StartCallback, Abs!AbsCallback
<1>8. CASE UNCHANGED gateVars
  BY <1>1, <1>8 DEF gateVars
<1> QED
  BY <1>1, <1>2, <1>3, <1>5, <1>6, <1>7, <1>8 DEF GateNext, GateStep, Abs!AbsNext

(* The gate that the processes share implements the window of GateAbs: the *)
(* comments on Gate and NewGate hold for any number of processes and any   *)
(* size.                                                                   *)
THEOREM GateImplements == Spec => GateRefines
<1>1. Init => Abs!AbsInit
  BY DEF Init, GateInit, Abs!AbsInit, Ages
<1>2. GateInv /\ [Next]_vars => [Abs!AbsNext]_Abs!absVars
  BY GateStepRefines, ExecutorUsesGate
<1> QED BY <1>1, <1>2, GateInvariant, PTL DEF Spec, GateRefines, Abs!AbsSpec

-----------------------------------------------------------------------------
(* The leak checker and the results of the executors. *)

(* A check is reported only if it has loaded 2, and 2 is stored only by a  *)
(* check that was ignored.                                                 *)
LeakInv ==
  /\ triaged \in 0 .. 2
  /\ triaged = 2 => flushed
  /\ leak = "report" => flushed
  /\ LeakReportedAfterFlush

LEMMA LoadTriagedLeak ==
  ASSUME LeakInv, LoadTriaged, UNCHANGED <<triaged, flushed, exited>>
  PROVE  LeakInv'
BY DEF LoadTriaged, LeakInv, LeakReportedAfterFlush

(* No leak is reported before a check since the triage has flushed the     *)
(* earlier ones: gateCallback ignores the first result and only then       *)
(* stores the 2 that lets a later call report.                             *)
THEOREM LeaksAreFlushed == Spec => []LeakReportedAfterFlush
<1>1. Init => LeakInv BY DEF Init, LeakInv, LeakReportedAfterFlush
<1>2. LeakInv /\ [Next]_vars => LeakInv'
  <2> SUFFICES ASSUME LeakInv, [Next]_vars PROVE LeakInv'
    OBVIOUS
  <2> USE DEF LeakInv, LeakReportedAfterFlush
  <2>1. CASE UNCHANGED vars BY <2>1 DEF vars, leakVars
  <2>2. CASE CandidatesTriaged BY <2>2 DEF CandidatesTriaged
  <2>3. ASSUME NEW p \in Proc, ProcStep(p) PROVE LeakInv'
    <3>1. CASE Attempt(p) \/ EnterGate(p) \/ DrainGate(p) \/ Result(p)
      BY <3>1 DEF Attempt, EnterGate, DrainGate, Result, leakVars
    <3>2. CASE ExecAndLeave(p)
      <4>1. CASE UNCHANGED leak BY <3>2, <4>1 DEF ExecAndLeave
      <4>2. CASE LoadTriaged BY <3>2, <4>2, LoadTriagedLeak DEF ExecAndLeave
      <4> QED BY <3>2, <4>1, <4>2 DEF ExecAndLeave
    <3>3. CASE GateCallback(p) BY <3>3, LoadTriagedLeak DEF GateCallback
    <3>4. CASE LeakCheckEnds(p)
      <4>1. CASE exited' = "leak" /\ leak = "report" /\ UNCHANGED leakVars BY <4>1 DEF leakVars
      <4>2. CASE /\ triaged' = IF leak = "flush" THEN 2 ELSE triaged
                 /\ flushed' = (flushed \/ leak = "flush")
                 /\ leak' = "idle" /\ UNCHANGED exited
        <5>1. leak = "flush" \/ flushed => flushed' BY <4>2, Zenon
        <5> QED BY <4>2, <5>1
      <4> QED BY <3>4, <4>1, <4>2 DEF LeakCheckEnds
    <3> QED BY <2>3, <3>1, <3>2, <3>3, <3>4 DEF ProcStep
  <2> QED BY <2>1, <2>2, <2>3 DEF Next, Exited
<1> QED BY <1>1, <1>2, PTL DEF Spec, LeakInv

ExecTypeOK ==
  /\ step \in [Proc -> {"call", "result"}]
  /\ out \in [Proc -> {"clear", "fresh", "stale"}]
  /\ err \in [Proc -> {"ok", "small", "fail"}]

(* Whatever the executor does, a run leaves the cleared memory or writes   *)
(* to it.                                                                  *)
LEMMA OutcomesFresh ==
  ASSUME NEW c, NEW o, NEW r \in RunOutcomes(c, ZeroOut(o))
  PROVE  r.out \in {"clear", "fresh"} /\ r.err \in {"ok", "fail"}
<1>1. PICK e \in exec(c, "clear") : r \in parseOutput(e) BY DEF RunOutcomes, ZeroOut
<1>2. e.out \in {"clear", "fresh"} /\ e.err \in {"ok", "fail"} BY <1>1 DEF exec
<1>3. r = e \/ r = [e EXCEPT !.err = "fail"] BY <1>1 DEF parseOutput
<1>4. e \in [cmd : {"nil", "live", "dead"}, out : {"clear", "fresh"}, err : {"ok", "fail"}]
  BY <1>1 DEF exec
<1> QED BY <1>2, <1>3, <1>4

(* What Done gets with no error was written by this run or is empty: Exec  *)
(* clears the head of the output memory, and an attempt that fails before  *)
(* it gets there returns an error.                                         *)
THEOREM ResultsAreFresh == Spec => []InfoFresh
<1> DEFINE Inv == ExecTypeOK /\ InfoFresh
<1>1. Init => Inv BY DEF Init, ExecTypeOK, InfoFresh
<1>2. Inv /\ [Next]_vars => Inv'
  <2> SUFFICES ASSUME Inv, [Next]_vars PROVE Inv'
    OBVIOUS
  <2> USE DEF ExecTypeOK, InfoFresh
  <2>1. CASE UNCHANGED vars BY <2>1 DEF vars, procVars
  <2>2. CASE CandidatesTriaged BY <2>2 DEF CandidatesTriaged, procVars
  <2>3. ASSUME NEW p \in Proc, ProcStep(p) PROVE Inv'
    <3>1. CASE Attempt(p) BY <3>1 DEF Attempt
    <3>2. CASE EnterGate(p) \/ DrainGate(p) \/ GateCallback(p) \/ LeakCheckEnds(p)
      BY <3>2 DEF EnterGate, DrainGate, GateCallback, LeakCheckEnds, procVars
    <3>3. CASE ExecAndLeave(p)
      <4>1. CASE err' = [err EXCEPT ![p] = "small"] /\ UNCHANGED <<cmd, out>>
        BY <3>3, <4>1 DEF ExecAndLeave
      <4>2. ASSUME NEW r \in RunOutcomes(cmd[p], ZeroOut(out[p])),
                   out' = [out EXCEPT ![p] = r.out], err' = [err EXCEPT ![p] = r.err]
            PROVE  Inv'
        BY <3>3, <4>2, OutcomesFresh DEF ExecAndLeave
      <4> QED BY <3>3, <4>1, <4>2 DEF ExecAndLeave, Exec
    <3>4. CASE Result(p) BY <3>4 DEF Result
    <3> QED BY <2>3, <3>1, <3>2, <3>3, <3>4 DEF ProcStep
  <2> QED BY <2>1, <2>2, <2>3 DEF Next, Exited
<1> QED BY <1>1, <1>2, PTL DEF Spec
=============================================================================
