---------------------------- MODULE SerialiseAlgo ----------------------------
(***************************************************************************)
(* scx_serialise with its scheduling algorithms: the gate of Serialise,    *)
(* the event count, the deterministic ids, the priorities that PCT, POS,   *)
(* RW or RP give to the tasks, and GROUP_DSQ ordered by the priority a     *)
(* task had when it was inserted.                                          *)
(*                                                                         *)
(* A random number is any number of its range.  (eid, det_id) keys of      *)
(* different groups never meet, so the PCT maps are functions of the group.*)
(***************************************************************************)
EXTENDS Serialise, FiniteSetsExt

CONSTANTS
  Algorithm,        \* sched_algorithm: "PCT", "POS", "RW" or "RP"
  MaxCycleThreads,  \* MAX_CYCLE_THREADS
  Depth,            \* depth, option -d
  RandomPriority,   \* the range of bpf_get_prandom_u32() % 50 + 1
  Addr,             \* the addresses instrumented accesses announce
  EventMax,         \* bound: events counted in one cycle
  DetMax            \* bound: ids drawn in one cycle

ASSUME AlgorithmAssumption == Algorithm \in {"PCT", "POS", "RW", "RP"}
ASSUME SlotsAssumption == MaxCycleThreads \in Nat \ {0}
ASSUME DepthAssumption == Depth \in 1..MaxCycleThreads + 1
ASSUME RandomPriorityAssumption == RandomPriority \subseteq Nat \ {0}
ASSUME BoundsAssumption == EventMax \in Nat /\ DetMax \in Nat

VARIABLES
  algo,       \* the fields of sched_cycle the algorithms use
  slots,      \* pct_priorities
  cps,        \* pct_change_points
  det,        \* pid_to_det_id, 0 for an absent entry
  prio,       \* task_ctx: priority, pct_initialized and the next access
  vt          \* the priority a parked task was inserted with

algoVars == <<algo, slots, cps, det, prio, vt>>
allVars == <<vars, algoVars>>

Slot == 0..MaxCycleThreads - 1
ChangePoint == 0..Depth - 2

NoAccess == [addr |-> "none", write |-> FALSE]
Access == {NoAccess} \cup [addr : Addr, write : BOOLEAN]

NewAlgo == [next_det_id      |-> 0,
            expected_events  |-> 0,
            num_events_seen  |-> 0,
            pct_strata       |-> 0,
            algo_initialized |-> FALSE]

NoPrio == [priority |-> 0, pct_initialized |-> FALSE, access |-> NoAccess]

AlgoInit ==
  /\ Init
  /\ algo = [g \in Group |-> NewAlgo]
  /\ slots = [g \in Group |-> [s \in Slot |-> 0]]
  /\ cps = [g \in Group |-> [i \in ChangePoint |-> 0]]
  /\ det = [t \in Task |-> 0]
  /\ prio = [t \in Task |-> NoPrio]
  /\ vt = [t \in Task |-> 0]

-----------------------------------------------------------------------------
(* Deterministic ids.                                                      *)

(* The det_id half of ensure_task_ctx: an id is drawn for a thread that    *)
(* has neither a context nor an id, also when the context is then refused. *)
AssignDetId(t) ==
  IF tctx[t].state = "NONE" /\ det[t] = 0
  THEN /\ algo[Eid[t]].next_det_id < DetMax
       /\ algo' = [algo EXCEPT ![Eid[t]].next_det_id = @ + 1]
       /\ det' = [det EXCEPT ![t] = algo[Eid[t]].next_det_id + 1]
  ELSE UNCHANGED <<algo, det>>

-----------------------------------------------------------------------------
(* PCT.                                                                    *)

S32_MAX == 2147483647

(* Within the bound on events the s32 arithmetic of the bases is exact.    *)
ASSUME NoOverflow == (EventMax + 2) * MaxCycleThreads < S32_MAX

(* Mutant: the strata grow upwards.                                        *)
StrataBase_Upwards(strata) == S32_MAX - (2 * MaxCycleThreads) + strata

(* Mutant: one stratum for all laps.                                       *)
StrataBase_Flat(strata) == S32_MAX - (2 * MaxCycleThreads)

StrataBase(strata) == S32_MAX - ((strata + 2) * MaxCycleThreads)

Swap(f, a, b) == [f EXCEPT ![a] = f[b], ![b] = f[a]]

(* shuffle_prios: r[i] is the random index of the i-th swap.               *)
Draws == {r \in [1..MaxCycleThreads - 1 -> Slot] :
            \A i \in 1..MaxCycleThreads - 1 : r[i] <= MaxCycleThreads - i}

Shuffled(strata, r) ==
  LET after[k \in 0..MaxCycleThreads - 1] ==
        IF k = 0 THEN [s \in Slot |-> StrataBase(strata) + Depth + s]
        ELSE Swap(after[k-1], MaxCycleThreads - k, r[k])
  IN  after[MaxCycleThreads - 1]

(* init_pct: shuffle_prios, then choose_change_points.                     *)
InitPct(g) ==
  /\ \E r \in Draws :
       slots' = [slots EXCEPT ![g] = Shuffled(algo[g].pct_strata, r)]
  /\ \E p \in [ChangePoint -> 1..algo[g].expected_events] :
       cps' = [cps EXCEPT ![g] = p]

(* update_priorities_pct, for the seen-th event of the cycle.              *)
HitPoints(g, seen) ==
  {i \in ChangePoint : seen % algo[g].expected_events = cps'[g][i]}

NextStrata(g, seen) ==
  LET a == algo[g] IN
  IF /\ HitPoints(g, seen) # {}
     /\ seen > a.expected_events * (a.pct_strata + 1)
  THEN a.pct_strata + 1 ELSE a.pct_strata

PctPriority(t, seen) ==
  LET g == Eid[t] IN
  IF HitPoints(g, seen) # {}
  THEN StrataBase(NextStrata(g, seen)) + Min(HitPoints(g, seen)) + 1
  ELSE IF prio[t].pct_initialized THEN prio[t].priority
  ELSE slots'[g][det[t] % MaxCycleThreads]

UpdatePct(t, acc, seen) ==
  prio' = [prio EXCEPT ![t] = [priority |-> PctPriority(t, seen),
                               pct_initialized |-> TRUE,
                               access |-> acc]]

-----------------------------------------------------------------------------
(* The other algorithms; prio[t] already holds the access of this event.   *)

GroupContexts(g) == {u \in Members(g) : tctx[u].state # "NONE"}

(* Random numbers for the tasks of S, the others keep their priority.      *)
Randomised(before, S) ==
  {[u \in Task |-> IF u \in S THEN [before[u] EXCEPT !.priority = f[u]]
                   ELSE before[u]] : f \in [S -> RandomPriority]}

Races(a, b) == a.addr # "none" /\ a.addr = b.addr /\ (a.write \/ b.write)

(* update_all_prios_pos does not leave out the enqueueing task itself.     *)
RacingWith(before, t) ==
  {u \in GroupContexts(Eid[t]) : Races(before[u].access, before[t].access)}

UpdateRandom(t, acc) ==
  LET before == [prio EXCEPT ![t].access = acc]
      updated == CASE Algorithm \in {"RW", "PCT"} -> GroupContexts(Eid[t])
                   [] Algorithm = "POS" -> {t} \cup RacingWith(before, t)
                   [] Algorithm = "RP" -> {t}
  IN  prio' \in Randomised(before, updated)

-----------------------------------------------------------------------------
(* The callbacks.                                                          *)

(* Mutant: the priority is read before the algorithm runs.                 *)
InsertIntoCycleDsq_Early(t) ==
  vt' = [vt EXCEPT ![t] = IF prio[t].priority > 0 THEN prio[t].priority ELSE 1]

(* insert_into_cycle_dsq; priority 0 counts as 1.                          *)
InsertIntoCycleDsq(t) ==
  vt' = [vt EXCEPT ![t] = IF prio'[t].priority > 0 THEN prio'[t].priority ELSE 1]

(* handle_serialise_enqueue of a participant.  The algorithm is            *)
(* initialised at the first event of a cycle whose length is known.        *)
AlgoEnqueuePark(t) ==
  LET g == Eid[t]
      a == algo[g]
      initialized == a.algo_initialized \/ a.expected_events # 0
      seen == a.num_events_seen + 1
      pct == Algorithm = "PCT" /\ initialized
  IN
  /\ a.num_events_seen < EventMax
  /\ EnqueuePark(t)
  /\ IF pct /\ ~a.algo_initialized THEN InitPct(g) ELSE UNCHANGED <<slots, cps>>
  /\ algo' = [algo EXCEPT ![g] =
       [a EXCEPT !.algo_initialized = initialized,
                 !.num_events_seen = seen,
                 !.pct_strata = IF pct THEN NextStrata(g, seen) ELSE a.pct_strata]]
  /\ \E acc \in Access :
       IF pct THEN UpdatePct(t, acc, seen) ELSE UpdateRandom(t, acc)
  /\ InsertIntoCycleDsq(t)
  /\ UNCHANGED det

(* The parked tasks of g with the lowest vtime, U32_MAX - priority.        *)
Highest(g) == {t \in Parked(g) : \A u \in Parked(g) : vt[t] >= vt[u]}

AlgoDispatchMove ==
  /\ DispatchMove
  /\ \E t \in Highest(Head(gateq)) :
       /\ where'[t] = "local"
       /\ vt' = [vt EXCEPT ![t] = 0]
  /\ UNCHANGED <<algo, slots, cps, det, prio>>

(* reset_cycle_state: the first cycle's length becomes the expected one.   *)
ResetAlgo(a) ==
  [NewAlgo EXCEPT !.expected_events =
     IF a.expected_events = 0 THEN a.num_events_seen ELSE a.expected_events]

AlgoExitTask(t) ==
  LET g == Eid[t]
      last == Joined(t)
                /\ LastExit(CountExit(cycle[g], Queued(t), tctx[t].is_asleep))
  IN
  /\ ExitTask(t)
  /\ det' = IF tctx[t].state = "NONE" THEN det ELSE [det EXCEPT ![t] = 0]
  /\ prio' = [prio EXCEPT ![t] = NoPrio]
  /\ algo' = IF last THEN [algo EXCEPT ![g] = ResetAlgo(@)] ELSE algo
  /\ UNCHANGED <<slots, cps, vt>>

AlgoEnqueueGlobal(t) ==
  /\ EnqueueGlobal(t)
  /\ IF Eid[t] \in created /\ cycle[Eid[t]].state # "TIMEOUT"
     THEN AssignDetId(t) ELSE UNCHANGED <<algo, det>>
  /\ UNCHANGED <<slots, cps, prio, vt>>

AlgoRegister(t) ==
  /\ InitTask(t) \/ YieldJoin(t) \/ YieldLate(t) \/ YieldNoCtx(t)
  /\ AssignDetId(t)
  /\ UNCHANGED <<slots, cps, prio, vt>>

(* The callbacks that do not concern the algorithms.                       *)
Plain(t) ==
  /\ \/ SetSchedPolicy(t) \/ Running(t) \/ Block(t) \/ Die(t) \/ Runnable(t)
     \/ PlaceOnIdleCpu(t) \/ CheckDispatchTimeout(t)
  /\ UNCHANGED algoVars

AlgoNext ==
  \/ AlgoDispatchMove
  \/ DispatchEmpty /\ UNCHANGED algoVars
  \/ \E t \in Task : \/ AlgoRegister(t) \/ AlgoEnqueueGlobal(t)
                     \/ AlgoEnqueuePark(t) \/ AlgoExitTask(t) \/ Plain(t)

AlgoSpec == AlgoInit /\ [][AlgoNext]_allVars

-----------------------------------------------------------------------------
(* Properties.                                                             *)

(* The types of the algorithms' maps.                                      *)
AlgoTypeOK ==
  /\ algo \in [Group -> [next_det_id : Nat, expected_events : Nat,
                         num_events_seen : Nat, pct_strata : Nat,
                         algo_initialized : BOOLEAN]]
  /\ slots \in [Group -> [Slot -> Nat]]
  /\ cps \in [Group -> [ChangePoint -> Nat]]
  /\ det \in [Task -> Nat]
  /\ prio \in [Task -> [priority : Nat, pct_initialized : BOOLEAN, access : Access]]
  /\ vt \in [Task -> Nat]

(* GROUP_DSQ is in the order of the tasks' priorities, so the task that    *)
(* serialise_dispatch moves is the one the algorithm ranks highest.  PCT   *)
(* claims it from the first cycle whose length is known.                   *)
DsqInPriorityOrder ==
  \A g \in Group : (Algorithm = "PCT" => algo[g].algo_initialized) =>
    \A t, u \in Parked(g) : prio[t].priority > prio[u].priority => vt[t] > vt[u]

(* What a thread of a PCT cycle starts with.                               *)
StartPriority(t) == slots[Eid[t]][det[t] % MaxCycleThreads]
Ranked(g) == {t \in JoinedIn(g) : prio[t].pct_initialized}
Demoted(g) == {t \in Ranked(g) : prio[t].priority # StartPriority(t)}

(* A demotion is effective whatever the shuffle and the change points: a   *)
(* demoted participant ranks below every participant of its cycle that was *)
(* not demoted (get_strata_base, update_priorities_pct).                   *)
DemotedRankBelow ==
  \A g \in Group : \A t \in Demoted(g), u \in Ranked(g) \ Demoted(g) :
    prio[t].priority < prio[u].priority

(* In a later lap over the change points the first demotion ranks its task *)
(* below everyone of the cycle, those demoted in earlier laps included.    *)
NewStratumIsLowest ==
  [][\A g \in Group : algo'[g].pct_strata > algo[g].pct_strata =>
       \E t \in Members(g) : \A u \in Ranked(g)' \ {t} :
         prio'[t].priority < prio'[u].priority]_allVars

=============================================================================
