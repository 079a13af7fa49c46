---------------------------- MODULE SerialiseRace ----------------------------
(***************************************************************************)
(* The callbacks of scx_serialise at the granularity of their critical     *)
(* sections.  A callback reads the cycle in one section of cycle->lock,    *)
(* decides, and acts in another; callbacks of other tasks, ops.dispatch on *)
(* other CPUs and the timer run in between.                                *)
(*                                                                         *)
(* One group: groups share only cycle_dispatch_queue, which is the number  *)
(* of this group's tokens here.  The callbacks of one task do not overlap  *)
(* (sched_ext calls them under the task's run-queue lock); where[t] is as  *)
(* in Serialise, with "enq" for a task inside ops.enqueue.                 *)
(***************************************************************************)
EXTENDS SchedCycle, FiniteSets

CONSTANTS
  Task,           \* the threads of the group
  Cpu,            \* the CPUs that call ops.dispatch
  Timer           \* the timer

ASSUME ProcessAssumption == Task \cap Cpu = {} /\ Timer \notin Task \cup Cpu

VARIABLES
  cycle,      \* the group's sched_cycle
  tctx,       \* task_ctx_map; state "NONE" stands for an absent entry
  tokens,     \* the group's entries in cycle_dispatch_queue
  where,      \* the kernel's side of each thread
  pc,         \* where each task's callback, CPU or the timer is
  reg         \* what it carries from one section to the next

raceVars == <<cycle, tctx, tokens, where, pc, reg>>

Process == Task \cup Cpu \cup {Timer}

Label == {"idle", "join", "count", "check", "insert", "sleep", "wake", "exit",
          "reset", "mark", "move", "moved", "empty", "claim", "push"}
JoinedState == {"ENQUEUED", "RUNNING", "TIMEOUT"}
ThreadState == JoinedState \cup {"NONE", "REGISTERED", "IGNORED"}

Location == {"off", "cpu", "yield", "enq", "dsq", "local", "gated", "asleep",
             "waking", "dead"}

TaskCtx == [state : ThreadState, is_asleep : BOOLEAN, timed : BOOLEAN]
NoCtx == [state |-> "NONE", is_asleep |-> FALSE, timed |-> FALSE]
Joined(t) == tctx[t].state \in JoinedState
Queued(t) == tctx[t].state \in {"ENQUEUED", "TIMEOUT"}
Parked == {t \in Task : where[t] = "dsq"}
OnCpu(t) == where[t] \in {"cpu", "gated"}

(* timeout: the argument of enqueue_cycle_for_dispatch; next: what follows *)
(* it; ctx: the context an exit deleted; task: the task that a CPU moved   *)
(* or that the timer looks at.                                             *)
NoReg == [timeout |-> FALSE, next |-> "idle", ctx |-> NoCtx, task |-> {}]

RaceInit ==
  /\ cycle = NewCycle
  /\ tctx = [t \in Task |-> NoCtx]
  /\ tokens = 0
  /\ where = [t \in Task |-> "off"]
  /\ pc = [p \in Process |-> "idle"]
  /\ reg = [p \in Process |-> NoReg]

Idle(p) == pc[p] = "idle"

Goto(p, label) ==
  /\ pc' = [pc EXCEPT ![p] = label]
  /\ reg' = IF label = "idle" THEN [reg EXCEPT ![p] = NoReg] ELSE reg

(* On to enqueue_cycle_for_dispatch(eid, timeout) if open, then to next.   *)
ClaimIf(p, open, timeout, next) ==
  IF open
  THEN /\ pc' = [pc EXCEPT ![p] = "claim"]
       /\ reg' = [reg EXCEPT ![p].timeout = timeout, ![p].next = next]
  ELSE Goto(p, next)

-----------------------------------------------------------------------------
(* enqueue_cycle_for_dispatch.                                             *)

Claim(p) ==
  /\ pc[p] = "claim"
  /\ cycle' = ClaimGate(cycle, reg[p].timeout)
  /\ Goto(p, IF cycle.pending_dispatch THEN reg[p].next ELSE "push")
  /\ UNCHANGED <<tctx, tokens, where>>

Push(p) ==
  /\ pc[p] = "push"
  /\ tokens' = IF tokens < QueueMax THEN tokens + 1 ELSE tokens
  /\ Goto(p, reg[p].next)
  /\ UNCHANGED <<cycle, tctx, where>>

-----------------------------------------------------------------------------
(* Joining.                                                                *)

SetSchedPolicy(t) ==
  /\ Idle(t) /\ where[t] = "off"
  /\ where' = [where EXCEPT ![t] = "cpu"]
  /\ UNCHANGED <<cycle, tctx, tokens, pc, reg>>

(* serialise_yield up to the section that reads cycle->state.              *)
Yield(t) ==
  /\ Idle(t) /\ OnCpu(t)
  /\ tctx[t].state \in {"NONE", "REGISTERED"}
  /\ IF cycle.state = "UNAVAILABLE"
     THEN /\ tctx' = [tctx EXCEPT ![t].state = "REGISTERED"]
          /\ Goto(t, "join")
     ELSE /\ tctx' = [tctx EXCEPT ![t].state = "IGNORED"]
          /\ UNCHANGED <<pc, reg>>
  /\ UNCHANGED <<cycle, tokens, where>>

Join(t) ==
  /\ pc[t] = "join"
  /\ tctx' = [tctx EXCEPT ![t].state = "RUNNING"]
  /\ where' = [where EXCEPT ![t] = "yield"]
  /\ cycle' = CountJoin(cycle)
  /\ Goto(t, "idle")
  /\ UNCHANGED tokens

-----------------------------------------------------------------------------
(* Enqueue.                                                                *)

CallsEnqueue(t) == Idle(t) /\ where[t] \in {"cpu", "gated", "yield", "waking"}

EnqueueGlobal(t) ==
  /\ CallsEnqueue(t)
  /\ cycle.state = "TIMEOUT" \/ ~Joined(t)
  /\ where' = [where EXCEPT ![t] = "cpu"]
  /\ tctx' = IF cycle.state # "TIMEOUT" /\ tctx[t].state = "NONE"
             THEN [tctx EXCEPT ![t].state = "REGISTERED"] ELSE tctx
  /\ UNCHANGED <<cycle, tokens, pc, reg>>

(* The unlocked read of cycle->state, and the section on the task.         *)
Enqueue(t) ==
  /\ CallsEnqueue(t)
  /\ cycle.state # "TIMEOUT" /\ Joined(t)
  /\ where' = [where EXCEPT ![t] = "enq"]
  /\ tctx' = [tctx EXCEPT ![t].state = "ENQUEUED", ![t].timed = TRUE]
  /\ Goto(t, "count")
  /\ UNCHANGED <<cycle, tokens>>

Count(t) ==
  /\ pc[t] = "count"
  /\ cycle' = CountEnqueue(cycle)
  /\ Goto(t, "check")
  /\ UNCHANGED <<tctx, tokens, where>>

Check(t) ==
  /\ pc[t] = "check"
  /\ ClaimIf(t, EnqueueGateOpens(cycle), FALSE, "insert")
  /\ UNCHANGED <<cycle, tctx, tokens, where>>

(* sched_ext carries the insertion out when ops.enqueue returns.           *)
Insert(t) ==
  /\ pc[t] = "insert"
  /\ where' = [where EXCEPT ![t] = "dsq"]
  /\ Goto(t, "idle")
  /\ UNCHANGED <<cycle, tctx, tokens>>

-----------------------------------------------------------------------------
(* serialise_dispatch on CPU c.                                            *)

Pop(c) ==
  /\ Idle(c) /\ tokens > 0
  /\ tokens' = tokens - 1
  /\ Goto(c, "move")
  /\ UNCHANGED <<cycle, tctx, where>>

Move(c) ==
  /\ pc[c] = "move"
  /\ \E t \in Parked :
       /\ where' = [where EXCEPT ![t] = "local"]
       /\ pc' = [pc EXCEPT ![c] = "moved"]
       /\ reg' = [reg EXCEPT ![c].task = {t}]
  /\ UNCHANGED <<cycle, tctx, tokens>>

MoveNone(c) ==
  /\ pc[c] = "move" /\ Parked = {}
  /\ Goto(c, "empty")
  /\ UNCHANGED <<cycle, tctx, tokens, where>>

Moved(c) ==
  /\ pc[c] = "moved"
  /\ cycle' = CountMoved(cycle)
  /\ ClaimIf(c, cycle.state = "TIMEOUT" /\ CountMoved(cycle).num_queued > 0,
             TRUE, "idle")
  /\ UNCHANGED <<tctx, tokens, where>>

Empty(c) ==
  /\ pc[c] = "empty"
  /\ cycle' = CountEmpty(cycle)
  /\ ClaimIf(c, CountEmpty(cycle).num_queued > 0, cycle.state = "TIMEOUT", "idle")
  /\ UNCHANGED <<tctx, tokens, where>>

(* The CPU runs the task it has moved when its ops.dispatch has returned.  *)
Running(t) ==
  /\ where[t] = "local"
  /\ \A c \in Cpu : t \notin reg[c].task
  /\ where' = [where EXCEPT ![t] = "gated"]
  /\ tctx' = IF Queued(t)
             THEN [tctx EXCEPT ![t].state = "RUNNING", ![t].timed = FALSE]
             ELSE tctx
  /\ UNCHANGED <<cycle, tokens, pc, reg>>

-----------------------------------------------------------------------------
(* Sleep, wake-up and exit.                                                *)

(* handle_executor_sleep: the section on the task, the one on the cycle.   *)
Quiescent(t, to) ==
  /\ Idle(t) /\ OnCpu(t)
  /\ where' = [where EXCEPT ![t] = to]
  /\ IF Joined(t) /\ ~tctx[t].is_asleep
     THEN /\ tctx' = [tctx EXCEPT ![t].is_asleep = TRUE,
                                  ![t].timed = IF Queued(t) THEN FALSE ELSE @]
          /\ Goto(t, "sleep")
     ELSE UNCHANGED <<tctx, pc, reg>>
  /\ UNCHANGED <<cycle, tokens>>

Block(t) == Quiescent(t, "asleep")
Die(t) == Quiescent(t, "dead")

Sleep(t) ==
  /\ pc[t] = "sleep"
  /\ cycle' = CountSleep(cycle, Queued(t))
  /\ ClaimIf(t, RunningGateOpens(cycle'), FALSE, "idle")
  /\ UNCHANGED <<tctx, tokens, where>>

(* serialise_runnable.                                                     *)
Runnable(t) ==
  /\ Idle(t) /\ where[t] = "asleep"
  /\ where' = [where EXCEPT ![t] = "waking"]
  /\ IF tctx[t].is_asleep
     THEN /\ tctx' = [tctx EXCEPT ![t].is_asleep = FALSE]
          /\ Goto(t, "wake")
     ELSE UNCHANGED <<tctx, pc, reg>>
  /\ UNCHANGED <<cycle, tokens>>

Wake(t) ==
  /\ pc[t] = "wake"
  /\ cycle' = CountWake(cycle)
  /\ ClaimIf(t, RunningGateOpens(cycle'), FALSE, "idle")
  /\ UNCHANGED <<tctx, tokens, where>>

(* handle_executor_exit: the maps, the section, the claim and the reset.   *)
ExitTask(t) ==
  /\ Idle(t) /\ where[t] = "dead"
  /\ where' = [where EXCEPT ![t] = "off"]
  /\ tctx' = [tctx EXCEPT ![t] = NoCtx]
  /\ IF Joined(t)
     THEN /\ pc' = [pc EXCEPT ![t] = "exit"]
          /\ reg' = [reg EXCEPT ![t].ctx = tctx[t]]
     ELSE UNCHANGED <<pc, reg>>
  /\ UNCHANGED <<cycle, tokens>>

Exit(t) ==
  /\ pc[t] = "exit"
  /\ cycle' = CountExit(cycle, reg[t].ctx.state \in {"ENQUEUED", "TIMEOUT"},
                        reg[t].ctx.is_asleep)
  /\ ClaimIf(t, ExitGateOpens(cycle'), cycle.state = "TIMEOUT",
             IF LastExit(cycle') THEN "reset" ELSE "idle")
  /\ UNCHANGED <<tctx, tokens, where>>

Reset(t) ==
  /\ pc[t] = "reset"
  /\ cycle' = ResetCycle(cycle)
  /\ Goto(t, "idle")
  /\ UNCHANGED <<tctx, tokens, where>>

(* check_dispatch_timeout: the first look at a task, then the second look, *)
(* which decides, with the mark in the same section.                       *)
Expired(t) == Queued(t) /\ ~tctx[t].is_asleep /\ tctx[t].timed

Look(t) ==
  /\ Idle(Timer) /\ Expired(t)
  /\ pc' = [pc EXCEPT ![Timer] = "mark"]
  /\ reg' = [reg EXCEPT ![Timer].task = {t}]
  /\ UNCHANGED <<cycle, tctx, tokens, where>>

(* Mutant: no second look, the first one decides.                          *)
Mark_NoSecondLook(t) ==
  /\ pc[Timer] = "mark" /\ t \in reg[Timer].task
  /\ tctx' = [tctx EXCEPT ![t].state = "TIMEOUT"]
  /\ ClaimIf(Timer, TRUE, TRUE, "idle")
  /\ UNCHANGED <<cycle, tokens, where>>

Mark(t) ==
  /\ pc[Timer] = "mark" /\ t \in reg[Timer].task
  /\ tctx' = IF Expired(t) THEN [tctx EXCEPT ![t].state = "TIMEOUT"] ELSE tctx
  /\ ClaimIf(Timer, Expired(t), TRUE, "idle")
  /\ UNCHANGED <<cycle, tokens, where>>

-----------------------------------------------------------------------------
(* The rest of a callback that has begun.                                  *)
TaskSection(t) ==
  \/ Join(t) \/ Count(t) \/ Check(t) \/ Insert(t) \/ Sleep(t) \/ Wake(t)
  \/ Exit(t) \/ Reset(t)

CpuSection(c) == Move(c) \/ MoveNone(c) \/ Moved(c) \/ Empty(c)

TaskNext(t) ==
  \/ SetSchedPolicy(t) \/ Yield(t) \/ EnqueueGlobal(t) \/ Enqueue(t)
  \/ Running(t) \/ Block(t) \/ Die(t) \/ Runnable(t) \/ ExitTask(t)
  \/ TaskSection(t) \/ Look(t) \/ Mark(t)

RaceNext ==
  \/ \E t \in Task : TaskNext(t)
  \/ \E c \in Cpu : Pop(c) \/ CpuSection(c)
  \/ \E p \in Process : Claim(p) \/ Push(p)

RaceSpec == RaceInit /\ [][RaceNext]_raceVars

-----------------------------------------------------------------------------
(* Properties.                                                             *)

(* A join that races with a reset can let the exits of two participants    *)
(* take num_expected_threads below zero.                                   *)
RacyCycle == [num_expected_threads : Int, num_queued : Nat, num_asleep : Nat,
              num_alive : Nat, pending_dispatch : BOOLEAN, state : CycleState]

Reg == [timeout : BOOLEAN, next : {"idle", "insert", "reset"}, ctx : TaskCtx,
        task : SUBSET Task]

(* The types of the cycle, the contexts and the processes: the guarded     *)
(* decrements keep the counters of struct sched_cycle from going negative. *)
RaceTypeOK ==
  /\ cycle \in RacyCycle
  /\ tctx \in [Task -> TaskCtx]
  /\ tokens \in 0..QueueMax
  /\ where \in [Task -> Location]
  /\ pc \in [Process -> Label]
  /\ reg \in [Process -> Reg]

(* The gate cannot jam: pending_dispatch is set only while a token is in   *)
(* the queue, about to be pushed, or in the hands of a CPU that will clear *)
(* pending_dispatch (enqueue_cycle_for_dispatch, serialise_dispatch).      *)
PendingHasToken ==
  cycle.pending_dispatch =>
    \/ tokens > 0
    \/ \E p \in Process : pc[p] \in {"push", "move", "moved", "empty"}

(* The participants that hold a CPU, or are on their way to one.           *)
Released == {t \in Task : Joined(t) /\ where[t] \in {"local", "gated"}}

(* What the comment of enqueue_cycle_for_dispatch promises of              *)
(* pending_dispatch: never two tasks of the group dispatched at once.      *)
OneDispatched ==
  cycle.state # "TIMEOUT" => \A t, u \in Released : t = u

(* The watchdog sees every parked thread, and only those: a participant is *)
(* marked as waiting exactly from its ops.enqueue to its serialise_running, *)
(* and a parked one has its enqueue time and is not marked asleep, so that  *)
(* check_dispatch_timeout can always nudge it.                             *)
WatchdogSeesParked ==
  \A t \in Task :
    /\ Joined(t) => (Queued(t) <=> where[t] \in {"enq", "dsq", "local"})
    /\ where[t] = "dsq" => Expired(t)
=============================================================================
