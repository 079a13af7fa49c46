----------------------------- MODULE SchedCycle -----------------------------
(***************************************************************************)
(* struct sched_cycle and the critical sections on it.                     *)
(*                                                                         *)
(* Every place of scx_serialise.bpf.c that takes cycle->lock is one        *)
(* operator here, from the cycle before the section to the cycle after it. *)
(* Serialise.tla runs the sections of a callback back to back,             *)
(* SerialiseRace.tla lets the callbacks of other CPUs in between them.     *)
(***************************************************************************)
EXTENDS Integers, Sequences

CONSTANTS
  CycleThreadCount,   \* cycle_thread_count, option -n
  QueueMax            \* max_entries of cycle_dispatch_queue

ASSUME CycleThreadCountAssumption == CycleThreadCount \in Nat \ {0}
ASSUME QueueMaxAssumption == QueueMax \in Nat \ {0}

CycleState == {"UNAVAILABLE", "READY", "RUNNING", "TIMEOUT"}

Cycle == [num_expected_threads : Nat,
          num_queued           : Nat,
          num_asleep           : Nat,
          num_alive            : Nat,
          pending_dispatch     : BOOLEAN,
          state                : CycleState]

(* The value of a cycle that get_or_create_sched_cycle has just created.   *)
NewCycle == [num_expected_threads |-> CycleThreadCount,
             num_queued           |-> 0,
             num_asleep           |-> 0,
             num_alive            |-> 0,
             pending_dispatch     |-> FALSE,
             state                |-> "UNAVAILABLE"]

(* Every "if (x > 0) x--" of the scheduler.                                *)
DecIfPositive(n) == IF n > 0 THEN n - 1 ELSE n

-----------------------------------------------------------------------------
(* The dispatch gate.                                                      *)

(* The dispatch invariant: every participant that is awake is parked.      *)
AllAwakeQueued(c) == c.num_queued = c.num_alive - c.num_asleep

(* Mutant: the state test is forgotten.                                    *)
RunningGateOpens_AnyState(c) == AllAwakeQueued(c)

(* The test of runnable and of handle_executor_sleep.                      *)
RunningGateOpens(c) == c.state = "RUNNING" /\ AllAwakeQueued(c)

(* The test at the end of handle_serialise_enqueue.                        *)
EnqueueGateOpens(c) ==
  \/ c.state \in {"READY", "UNAVAILABLE"} /\ c.num_queued = c.num_expected_threads
  \/ RunningGateOpens(c)

(* The test of handle_executor_exit, whatever the state of the cycle.      *)
ExitGateOpens(c) == c.num_alive # 0 /\ AllAwakeQueued(c)

(* Mutant: only a timeout moves the cycle on.                              *)
ClaimGate_TimeoutOnly(c, timeout) ==
  IF c.pending_dispatch THEN c
  ELSE [c EXCEPT !.state = IF timeout THEN "TIMEOUT" ELSE @,
                 !.pending_dispatch = TRUE]

(* enqueue_cycle_for_dispatch: the section on the cycle, and the push that *)
(* follows when the section did not find the cycle pending.  With BPF_EXIST *)
(* a push into a full queue drops the oldest element.                      *)
ClaimGate(c, timeout) ==
  IF c.pending_dispatch THEN c
  ELSE [c EXCEPT !.state = IF timeout THEN "TIMEOUT" ELSE "RUNNING",
                 !.pending_dispatch = TRUE]

PushGate(q, g) == Append(IF Len(q) < QueueMax THEN q ELSE Tail(q), g)

(* Mutant: the push is not conditional on pending_dispatch.                *)
ClaimedQueue_Always(q, g, c) == PushGate(q, g)

ClaimedQueue(q, g, c) == IF c.pending_dispatch THEN q ELSE PushGate(q, g)

-----------------------------------------------------------------------------
(* The other sections.                                                     *)

CountEnqueue(c) == [c EXCEPT !.num_queued = @ + 1]

CountMoved(c) == [c EXCEPT !.num_queued = DecIfPositive(@),
                           !.pending_dispatch = FALSE]

(* Mutant: the return on an empty GROUP_DSQ leaves the cycle pending.      *)
CountEmpty_KeepsPending(c) ==
  [c EXCEPT !.num_queued = IF c.state = "TIMEOUT" THEN 0 ELSE @]

CountEmpty(c) == [c EXCEPT !.num_queued = IF c.state = "TIMEOUT" THEN 0 ELSE @,
                           !.pending_dispatch = FALSE]

CountWake(c) == [c EXCEPT !.num_asleep = DecIfPositive(@)]

(* queued: the task was THREAD_ENQUEUED or THREAD_TIMEOUT.                 *)
CountSleep(c, queued) ==
  [c EXCEPT !.num_queued = IF queued THEN DecIfPositive(@) ELSE @,
            !.num_asleep = @ + 1]

CountJoin(c) ==
  [c EXCEPT !.num_alive = @ + 1,
            !.state = IF c.num_alive + 1 = c.num_expected_threads
                      THEN "READY" ELSE @]

(* Mutant: a task that exits asleep stays in num_asleep.                   *)
CountExit_StaysAsleep(c, queued, asleep) ==
  [c EXCEPT !.num_expected_threads =
              IF c.state \in {"READY", "UNAVAILABLE"} THEN @ - 1 ELSE @,
            !.num_queued = IF queued THEN DecIfPositive(@) ELSE @,
            !.num_alive = DecIfPositive(@)]

CountExit(c, queued, asleep) ==
  [c EXCEPT !.num_expected_threads =
              IF c.state \in {"READY", "UNAVAILABLE"} THEN @ - 1 ELSE @,
            !.num_queued = IF queued THEN DecIfPositive(@) ELSE @,
            !.num_asleep = IF asleep THEN DecIfPositive(@) ELSE @,
            !.num_alive = DecIfPositive(@)]

(* The test at the end of handle_executor_exit, on the counters after      *)
(* CountExit and the state before it (CountExit leaves the state alone).   *)
LastExit(c) ==
  \/ c.num_expected_threads = 0
  \/ c.num_alive = 0 /\ c.state # "UNAVAILABLE"

(* reset_cycle_state.  It does not look at cycle_dispatch_queue.           *)
ResetCycle(c) ==
  [c EXCEPT !.num_expected_threads = CycleThreadCount,
            !.num_alive = 0,
            !.num_queued = 0,
            !.num_asleep = 0,
            !.pending_dispatch = FALSE,
            !.state = "UNAVAILABLE"]
=============================================================================
