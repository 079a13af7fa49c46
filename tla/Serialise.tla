------------------------------ MODULE Serialise ------------------------------
(***************************************************************************)
(* The sched_ext scheduler scx_serialise at the granularity of its         *)
(* callbacks: one action per callback, callbacks of different tasks and    *)
(* CPUs interleaved in every order the kernel allows.                      *)
(*                                                                         *)
(* where[t] is the kernel's side of a thread:                              *)
(*   "off"     no such thread, or not SCHED_EXT yet                        *)
(*   "cpu"     runs, or may run from the global DSQ, outside the gate      *)
(*   "yield"   has joined with slice 0 and is on its way to ops.enqueue    *)
(*   "dsq"     parked in GROUP_DSQ(eid)                                    *)
(*   "local"   moved to a CPU's local DSQ by ops.dispatch                  *)
(*   "gated"   runs, released by ops.dispatch                              *)
(*   "asleep"  blocked, ops.quiescent has been called                      *)
(*   "waking"  ops.runnable has been called, ops.enqueue has not           *)
(*   "dead"    exited, ops.quiescent has been called, ops.exit_task not    *)
(* A preemption that leaves the task its slice calls no callback and is    *)
(* invisible here.  Time is abstract: a parked task's budget may be found  *)
(* used up whenever the timer looks at it.                                 *)
(***************************************************************************)
EXTENDS SchedCycle, FiniteSets

CONSTANTS
  Task,       \* the thread ids that may carry a syz-executor.N comm
  Group,      \* the eids
  Eid,        \* the eid in the comm of each thread
  CtxMax,     \* max_entries of task_ctx_map
  IdleWake    \* sched_ext may place a woken task on an idle CPU by itself

ASSUME TaskAssumption == IsFiniteSet(Task)
ASSUME EidAssumption == Eid \in [Task -> Group]
ASSUME CtxMaxAssumption == CtxMax \in Nat
ASSUME IdleWakeAssumption == IdleWake \in BOOLEAN

VARIABLES
  created,    \* the groups present in sched_cycle_map
  cycle,      \* sched_cycle_map
  tctx,       \* task_ctx_map; state "NONE" stands for an absent entry
  gateq,      \* cycle_dispatch_queue
  where,      \* the kernel's side of each thread
  leftover    \* ghost: the last reset of the group left a token in gateq

vars == <<created, cycle, tctx, gateq, where, leftover>>

Location == {"off", "cpu", "yield", "dsq", "local", "gated", "asleep",
             "waking", "dead"}
JoinedState == {"ENQUEUED", "RUNNING", "TIMEOUT"}
ThreadState == JoinedState \cup {"NONE", "REGISTERED", "IGNORED"}

(* timed stands for last_enqueue_time # 0.                                 *)
TaskCtx == [state : ThreadState, is_asleep : BOOLEAN, timed : BOOLEAN]
NoCtx == [state |-> "NONE", is_asleep |-> FALSE, timed |-> FALSE]
NewCtx == [state |-> "REGISTERED", is_asleep |-> FALSE, timed |-> FALSE]

Members(g) == {t \in Task : Eid[t] = g}
Joined(t) == tctx[t].state \in JoinedState
Queued(t) == tctx[t].state \in {"ENQUEUED", "TIMEOUT"}
Parked(g) == {t \in Members(g) : where[t] = "dsq"}
OnCpu(t) == where[t] \in {"cpu", "gated"}

Init ==
  /\ created = {}
  /\ cycle = [g \in Group |-> NewCycle]
  /\ tctx = [t \in Task |-> NoCtx]
  /\ gateq = <<>>
  /\ where = [t \in Task |-> "off"]
  /\ leftover = [g \in Group |-> FALSE]

(* Leaves the cycle of g as c, and claims the gate for it if open.         *)
SetCycleAndGate(g, c, open, timeout) ==
  /\ cycle' = [cycle EXCEPT ![g] = IF open THEN ClaimGate(c, timeout) ELSE c]
  /\ gateq' = IF open THEN ClaimedQueue(gateq, g, c) ELSE gateq

-----------------------------------------------------------------------------
(* Registration and joining.                                               *)

(* ensure_task_ctx; the cycle is created before the entry may be refused.  *)
CtxFull == Cardinality({t \in Task : tctx[t].state # "NONE"}) >= CtxMax

EnsuredCtx(t) ==
  IF tctx[t].state # "NONE" THEN tctx[t] ELSE IF CtxFull THEN NoCtx ELSE NewCtx

EnsureTaskCtx(t) ==
  /\ created' = created \cup {Eid[t]}
  /\ tctx' = [tctx EXCEPT ![t] = EnsuredCtx(t)]

(* schedule_thread's set_sched_policy: the running thread enters the       *)
(* ext class without an ops.enqueue.                                       *)
SetSchedPolicy(t) ==
  /\ where[t] = "off"
  /\ where' = [where EXCEPT ![t] = "cpu"]
  /\ UNCHANGED <<created, cycle, tctx, gateq, leftover>>

(* serialise_init_task for a thread forked with policy and comm inherited; *)
(* an error fails the fork.                                                *)
InitTask(t) ==
  /\ where[t] = "off"
  /\ where' = IF CtxFull THEN where ELSE [where EXCEPT ![t] = "cpu"]
  /\ EnsureTaskCtx(t)
  /\ UNCHANGED <<cycle, gateq, leftover>>

(* serialise_yield of a thread that joins, that is too late, or that gets  *)
(* no context.  A later yield changes nothing.                             *)
YieldJoin(t) ==
  LET g == Eid[t] IN
  /\ OnCpu(t)
  /\ EnsuredCtx(t).state = "REGISTERED"
  /\ cycle[g].state = "UNAVAILABLE"
  /\ created' = created \cup {g}
  /\ tctx' = [tctx EXCEPT ![t] = [EnsuredCtx(t) EXCEPT !.state = "RUNNING"]]
  /\ cycle' = [cycle EXCEPT ![g] = CountJoin(@)]
  /\ where' = [where EXCEPT ![t] = "yield"]
  /\ UNCHANGED <<gateq, leftover>>

YieldLate(t) ==
  LET g == Eid[t] IN
  /\ OnCpu(t)
  /\ EnsuredCtx(t).state = "REGISTERED"
  /\ cycle[g].state # "UNAVAILABLE"
  /\ created' = created \cup {g}
  /\ tctx' = [tctx EXCEPT ![t] = [EnsuredCtx(t) EXCEPT !.state = "IGNORED"]]
  /\ UNCHANGED <<cycle, gateq, where, leftover>>

YieldNoCtx(t) ==
  /\ OnCpu(t)
  /\ EnsuredCtx(t).state = "NONE"
  /\ EnsureTaskCtx(t)
  /\ UNCHANGED <<cycle, gateq, where, leftover>>

-----------------------------------------------------------------------------
(* Enqueue and dispatch.                                                   *)

CallsEnqueue(t) == where[t] \in {"cpu", "gated", "yield", "waking"}

(* The early returns of handle_serialise_enqueue: to the global DSQ.       *)
EnqueueGlobal(t) ==
  LET g == Eid[t] IN
  /\ CallsEnqueue(t)
  /\ \/ /\ g \notin created \/ cycle[g].state = "TIMEOUT"
        /\ UNCHANGED <<created, tctx>>
     \/ /\ g \in created /\ cycle[g].state # "TIMEOUT"
        /\ EnsuredCtx(t).state \in {"NONE", "REGISTERED", "IGNORED"}
        /\ EnsureTaskCtx(t)
  /\ where' = [where EXCEPT ![t] = "cpu"]
  /\ UNCHANGED <<cycle, gateq, leftover>>

(* The rest of handle_serialise_enqueue: park, count, open the gate.       *)
EnqueuePark(t) ==
  LET g == Eid[t]
      c == CountEnqueue(cycle[g])
  IN
  /\ CallsEnqueue(t)
  /\ g \in created /\ cycle[g].state # "TIMEOUT" /\ Joined(t)
  /\ tctx' = [tctx EXCEPT ![t].state = "ENQUEUED", ![t].timed = TRUE]
  /\ where' = [where EXCEPT ![t] = "dsq"]
  /\ SetCycleAndGate(g, c, EnqueueGateOpens(c), FALSE)
  /\ UNCHANGED <<created, leftover>>

(* serialise_dispatch.  Which parked task has the lowest vtime depends on  *)
(* random priorities: any of them may.                                     *)
DispatchMove ==
  LET g == Head(gateq)
      c == CountMoved(cycle[g])
      open == c.state = "TIMEOUT" /\ c.num_queued > 0
  IN
  /\ gateq # <<>>
  /\ \E t \in Parked(g) : where' = [where EXCEPT ![t] = "local"]
  /\ cycle' = [cycle EXCEPT ![g] = IF open THEN ClaimGate(c, TRUE) ELSE c]
  /\ gateq' = IF open THEN ClaimedQueue(Tail(gateq), g, c) ELSE Tail(gateq)
  /\ UNCHANGED <<created, tctx, leftover>>

DispatchEmpty ==
  LET g == Head(gateq)
      c == CountEmpty(cycle[g])
      open == c.num_queued > 0
  IN
  /\ gateq # <<>>
  /\ Parked(g) = {}
  /\ cycle' = [cycle EXCEPT ![g] =
                 IF open THEN ClaimGate(c, c.state = "TIMEOUT") ELSE c]
  /\ gateq' = IF open THEN ClaimedQueue(Tail(gateq), g, c) ELSE Tail(gateq)
  /\ UNCHANGED <<created, tctx, where, leftover>>

(* serialise_running of a task taken from a local DSQ.                     *)
Running(t) ==
  /\ where[t] = "local"
  /\ where' = [where EXCEPT ![t] = "gated"]
  /\ tctx' = IF Queued(t)
             THEN [tctx EXCEPT ![t].state = "RUNNING", ![t].timed = FALSE]
             ELSE tctx
  /\ UNCHANGED <<created, cycle, gateq, leftover>>

-----------------------------------------------------------------------------
(* Sleep, wake-up and exit.                                                *)

(* handle_executor_sleep, from serialise_quiescent with SCX_DEQ_SLEEP.     *)
HandleExecutorSleep(t) ==
  LET g == Eid[t]
      c == CountSleep(cycle[g], Queued(t))
  IN
  IF Joined(t) /\ ~tctx[t].is_asleep
  THEN /\ tctx' = [tctx EXCEPT ![t].is_asleep = TRUE,
                               ![t].timed = IF Queued(t) THEN FALSE ELSE @]
       /\ SetCycleAndGate(g, c, RunningGateOpens(c), FALSE)
  ELSE UNCHANGED <<tctx, cycle, gateq>>

Block(t) ==
  /\ OnCpu(t)
  /\ where' = [where EXCEPT ![t] = "asleep"]
  /\ HandleExecutorSleep(t)
  /\ UNCHANGED <<created, leftover>>

Die(t) ==
  /\ OnCpu(t)
  /\ where' = [where EXCEPT ![t] = "dead"]
  /\ HandleExecutorSleep(t)
  /\ UNCHANGED <<created, leftover>>

Runnable(t) ==
  LET g == Eid[t]
      c == CountWake(cycle[g])
  IN
  /\ where[t] = "asleep"
  /\ where' = [where EXCEPT ![t] = "waking"]
  /\ IF tctx[t].is_asleep
     THEN /\ tctx' = [tctx EXCEPT ![t].is_asleep = FALSE]
          /\ SetCycleAndGate(g, c, RunningGateOpens(c), FALSE)
     ELSE UNCHANGED <<tctx, cycle, gateq>>
  /\ UNCHANGED <<created, leftover>>

(* sched_ext's default CPU selection: no ops.enqueue for this wake-up.     *)
PlaceOnIdleCpu(t) ==
  /\ IdleWake
  /\ where[t] = "waking"
  /\ where' = [where EXCEPT ![t] = "cpu"]
  /\ UNCHANGED <<created, cycle, tctx, gateq, leftover>>

(* handle_executor_exit, from serialise_exit_task.                         *)
ExitTask(t) ==
  LET g == Eid[t]
      c == CountExit(cycle[g], Queued(t), tctx[t].is_asleep)
      open == ExitGateOpens(c)
      claimed == IF open THEN ClaimGate(c, c.state = "TIMEOUT") ELSE c
  IN
  /\ where[t] = "dead"
  /\ where' = [where EXCEPT ![t] = "off"]
  /\ tctx' = [tctx EXCEPT ![t] = NoCtx]
  /\ IF Joined(t)
     THEN /\ gateq' = IF open THEN ClaimedQueue(gateq, g, c) ELSE gateq
          /\ cycle' = [cycle EXCEPT ![g] = IF LastExit(c)
                                           THEN ResetCycle(claimed)
                                           ELSE claimed]
          /\ leftover' = [leftover EXCEPT ![g] =
               IF LastExit(c) THEN \E i \in 1..Len(gateq') : gateq'[i] = g ELSE @]
     ELSE UNCHANGED <<cycle, gateq, leftover>>
  /\ UNCHANGED created

(* Mutant: a THREAD_TIMEOUT task is not nudged again.                      *)
CheckDispatchTimeout_Once(t) ==
  /\ tctx[t].state = "ENQUEUED" /\ ~tctx[t].is_asleep /\ tctx[t].timed
  /\ tctx' = [tctx EXCEPT ![t].state = "TIMEOUT"]
  /\ SetCycleAndGate(Eid[t], cycle[Eid[t]], TRUE, TRUE)
  /\ UNCHANGED <<created, where, leftover>>

(* check_dispatch_timeout for one entry of task_ctx_map, its budget used.  *)
CheckDispatchTimeout(t) ==
  /\ Queued(t) /\ ~tctx[t].is_asleep /\ tctx[t].timed
  /\ tctx' = [tctx EXCEPT ![t].state = "TIMEOUT"]
  /\ SetCycleAndGate(Eid[t], cycle[Eid[t]], TRUE, TRUE)
  /\ UNCHANGED <<created, where, leftover>>

-----------------------------------------------------------------------------
TaskNext(t) ==
  \/ SetSchedPolicy(t) \/ InitTask(t)
  \/ YieldJoin(t) \/ YieldLate(t) \/ YieldNoCtx(t)
  \/ EnqueueGlobal(t) \/ EnqueuePark(t)
  \/ Running(t)
  \/ Block(t) \/ Die(t) \/ Runnable(t) \/ PlaceOnIdleCpu(t)
  \/ ExitTask(t)
  \/ CheckDispatchTimeout(t)

Next == DispatchMove \/ DispatchEmpty \/ \E t \in Task : TaskNext(t)

Spec == Init /\ [][Next]_vars

(* sched_ext keeps calling ops.dispatch on CPUs with nothing to run.  The  *)
(* timer is strongly fair: it fires every 30 ms for ever, so it does not   *)
(* meet a pending gate every single time.                                  *)
Fairness ==
  /\ WF_vars(DispatchMove) /\ WF_vars(DispatchEmpty)
  /\ \A t \in Task : SF_vars(CheckDispatchTimeout(t))

FairSpec == Spec /\ Fairness

-----------------------------------------------------------------------------
(* Properties.                                                             *)

(* The types of the maps, of the queue and of the kernel's side.           *)
TypeOK ==
  /\ created \subseteq Group
  /\ cycle \in [Group -> Cycle]
  /\ tctx \in [Task -> TaskCtx]
  /\ gateq \in Seq(Group)
  /\ where \in [Task -> Location]
  /\ leftover \in [Group -> BOOLEAN]

JoinedIn(g) == {t \in Members(g) : Joined(t)}
AsleepIn(g) == {t \in JoinedIn(g) : tctx[t].is_asleep}
TokenFor(g) == \E i \in 1..Len(gateq) : gateq[i] = g

(* The three counters of a cycle, kept up by seven callbacks with guarded  *)
(* decrements, count exactly the participants, the sleeping participants   *)
(* and the tasks in GROUP_DSQ (struct sched_cycle).                        *)
Accounting ==
  \A g \in Group :
    /\ cycle[g].num_alive = Cardinality(JoinedIn(g))
    /\ cycle[g].num_asleep = Cardinality(AsleepIn(g))
    /\ cycle[g].num_queued = Cardinality(Parked(g))

(* The cycle state says where the cycle is: still short of participants    *)
(* while UNAVAILABLE, complete when READY, and never RUNNING or TIMEOUT    *)
(* without a participant whose exit will reset it (handle_executor_exit).  *)
CycleStateSound ==
  \A g \in Group :
    LET c == cycle[g] IN
    /\ c.state = "UNAVAILABLE" => c.num_alive < c.num_expected_threads
    /\ c.state = "READY" => c.num_alive = c.num_expected_threads
    /\ c.state # "UNAVAILABLE" => c.num_alive > 0

(* The participants of g that hold a CPU, or are on their way to one.      *)
Released(g) == {t \in JoinedIn(g) : where[t] \in {"local", "gated"}}
Ungated(g) == {t \in JoinedIn(g) : where[t] = "cpu"}

(* Serialisation (serialise_dispatch, enqueue_cycle_for_dispatch): unless  *)
(* the cycle has timed out, at most one participant is released at a time, *)
(* and nobody else runs if sched_ext leaves placement to the gate.  It     *)
(* rests on the previous reset having left no token in the queue.          *)
Serialised ==
  \A g \in Group : ~leftover[g] /\ cycle[g].state # "TIMEOUT" =>
    /\ \A t, u \in Released(g) : t = u
    /\ ~IdleWake => Ungated(g) = {}

(* The start barrier: until every expected participant is parked, those    *)
(* that came early have not run past their first yield, so a cycle's       *)
(* system calls start together (handle_serialise_enqueue).                 *)
StartBarrier ==
  \A g \in Group :
    ~leftover[g] /\ cycle[g].state \in {"UNAVAILABLE", "READY"} =>
      \A t \in JoinedIn(g) : where[t] \in {"yield", "dsq"}

(* Once timed out a cycle drains without its gate until all participants   *)
(* are gone; no late enqueue, wake-up or exit turns the gate back on.      *)
TimeoutUntilReset ==
  [][\A g \in Group :
       cycle[g].state = "TIMEOUT" /\ cycle'[g].state # "TIMEOUT" =>
         cycle'[g] = NewCycle /\ \A t \in Members(g) : ~Joined(t)']_vars

(* A parked task does not stay parked: the gate opens, or the timer forces *)
(* it open and the group drains (check_dispatch_timeout).                  *)
ParkedLeaves == \A t \in Task : where[t] = "dsq" ~> where[t] # "dsq"
=============================================================================
