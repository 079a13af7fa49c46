------------------------- MODULE SerialiseAlgoProofs -------------------------
(***************************************************************************)
(* The scheduler with its algorithms implements Serialise, so what         *)
(* SerialiseProofs shows of every choice of the parked task holds under    *)
(* PCT, POS, RW and RP.                                                    *)
(***************************************************************************)
EXTENDS SerialiseAlgo, SerialiseProofs

USE SMT, Zenon, SMTT(30)    \* the provers of a step that names none, in this order

(* Every step of the scheduler with an algorithm is a step of Serialise or *)
(* changes nothing of its state.                                           *)
LEMMA AlgoStep == [AlgoNext]_allVars => [Next]_vars
<1> SUFFICES ASSUME [AlgoNext]_allVars PROVE [Next]_vars
  OBVIOUS
<1>1. CASE AlgoDispatchMove \/ (DispatchEmpty /\ UNCHANGED algoVars)
  BY <1>1 DEF AlgoDispatchMove, Next
<1>2. ASSUME NEW t \in Task,
             \/ AlgoRegister(t) \/ AlgoEnqueueGlobal(t)
             \/ AlgoEnqueuePark(t) \/ AlgoExitTask(t) \/ Plain(t)
      PROVE  TaskNext(t)
  BY <1>2 DEF AlgoRegister, AlgoEnqueueGlobal, AlgoEnqueuePark, AlgoExitTask,
              Plain, TaskNext
<1>3. CASE UNCHANGED allVars
  BY <1>3 DEF allVars
<1> QED BY <1>1, <1>2, <1>3 DEF AlgoNext, Next

(* Whatever the algorithm, the scheduler is an implementation of the gate: *)
(* the algorithms only choose which parked task serialise_dispatch moves.  *)
THEOREM AlgoImplementsGate == AlgoSpec => Spec
<1>1. AlgoInit => Init
  BY DEF AlgoInit
<1> QED BY <1>1, AlgoStep, PTL DEF AlgoSpec, Spec

(* Under every algorithm the counters are exact, the cycle states sound,   *)
(* the start barrier kept and at most one participant released.            *)
THEOREM AlgoKeepsGate ==
  AlgoSpec => [](Accounting /\ CycleStateSound /\ StartBarrier /\ Serialised)
<1> QED BY AlgoImplementsGate, CountersExact, StatesSound, Barrier,
           Serialisation, PTL

-----------------------------------------------------------------------------
(* PCT: the bases of the strata and the shuffle.                           *)

(* Every non-empty set of naturals has a least element.                    *)
LEMMA LeastNat ==
  ASSUME NEW T \in SUBSET Nat, T # {}
  PROVE  \E n \in T : \A m \in T : n <= m
<1> DEFINE R == StrictSubsetOrdering(Nat)
           F == {1 .. n : n \in T}
<1>1. F \subseteq FiniteSubsetsOf(Nat) /\ F # {}
  <2>1. ASSUME NEW n \in T PROVE 1 .. n \in SUBSET Nat /\ IsFiniteSet(1 .. n)
    <3>1. 1 \in Int /\ n \in Int OBVIOUS
    <3> QED BY <3>1, FS_Interval
  <2> QED BY <2>1, Zenon DEF FiniteSubsetsOf
<1>2. IsWellFoundedOn(R, FiniteSubsetsOf(Nat)) BY FS_StrictSubsetOrderingWellFounded
<1> HIDE DEF R
<1>3. \E s \in F : \A r \in F : ~(<<r, s>> \in R)
  <2> HIDE DEF F
  <2> QED BY <1>1, <1>2, WFMin
<1>4. PICK n \in T : \A m \in T : <<1 .. m, 1 .. n>> \notin R BY <1>3, Zenon
<1>5. ASSUME NEW m \in T, ~(n <= m) PROVE FALSE
  <2>1. m \in Nat /\ n \in Nat /\ m < n BY <1>5
  <2>2. 1 .. m \subseteq 1 .. n /\ n \in 1 .. n /\ n \notin 1 .. m BY <2>1
  <2>3. 1 .. m \in SUBSET Nat /\ 1 .. n \in SUBSET Nat OBVIOUS
  <2> DEFINE a == 1 .. m
             b == 1 .. n
  <2> HIDE DEF a, b
  <2>4. a \subseteq b /\ a # b /\ a \in SUBSET Nat /\ b \in SUBSET Nat BY <2>2, <2>3 DEF a, b
  <2>5. <<a, b>> \in R BY <2>4, Zenon DEF R, StrictSubsetOrdering
  <2> QED BY <1>4, <2>5 DEF a, b
<1> QED BY <1>5

(* get_strata_base: a stratum lies MAX_CYCLE_THREADS below the one before, *)
(* all of them above zero.                                                 *)
LEMMA Strata ==
  ASSUME NEW s \in 0..EventMax
  PROVE  /\ StrataBase(s) \in Int
         /\ StrataBase(s) > 0
         /\ StrataBase(s) <= StrataBase(0)
         /\ StrataBase(s + 1) = StrataBase(s) - MaxCycleThreads
<1> DEFINE M == MaxCycleThreads
<1>1. M \in Nat \ {0} /\ s \in Nat /\ EventMax \in Nat /\ s <= EventMax
  BY SlotsAssumption, BoundsAssumption
<1>2. s * M \in Nat /\ (EventMax - s) * M \in Nat
  BY <1>1
<1>3. (EventMax + 2) * M = (EventMax - s) * M + (s * M) + 2 * M
  BY <1>1
<1>4. (s + 2) * M = (s * M) + 2 * M /\ (s + 1 + 2) * M = (s * M) + 2 * M + M
  BY <1>1
<1> QED BY <1>1, <1>2, <1>3, <1>4, NoOverflow DEF StrataBase, S32_MAX

(* The priorities a thread may start with in a PCT cycle.                  *)
Start == {v \in Nat : v >= StrataBase(0) + Depth}

(* shuffle_prios permutes numbers that all lie above the change points.    *)
LEMMA ShuffledStart ==
  ASSUME NEW r \in Draws
  PROVE  Shuffled(0, r) \in [Slot -> Start]
<1> DEFINE M == MaxCycleThreads
           First == [s \in Slot |-> StrataBase(0) + Depth + s]
           Shuffling(h) ==
             h = [k \in 0..M - 1 |-> IF k = 0 THEN First ELSE Swap(h[k-1], M - k, r[k])]
           Upto(k, h) ==
             /\ h \in [0..k -> [Slot -> Start]]
             /\ h[0] = First
             /\ \A i \in 1..k : h[i] = Swap(h[i-1], M - i, r[i])
           Bad == {k \in 0..M - 1 : ~ \E h : Upto(k, h)}
<1>1. M \in Nat \ {0} /\ Depth \in Nat /\ StrataBase(0) \in Nat
  BY SlotsAssumption, DepthAssumption, BoundsAssumption, Strata
<1>2. First \in [Slot -> Start]
  BY <1>1 DEF Slot, Start
<1>3. ASSUME NEW f \in [Slot -> Start], NEW k \in 1..M - 1
      PROVE  Swap(f, M - k, r[k]) \in [Slot -> Start]
  BY <1>1, <1>3 DEF Swap, Slot, Draws
<1> HIDE DEF First
<1>4. Bad = {}
  <2> SUFFICES ASSUME Bad # {} PROVE FALSE
    OBVIOUS
  <2>1. Bad \in SUBSET Nat
    BY <1>1
  <2>2. PICK n \in Bad : \A m \in Bad : n <= m
    <3> HIDE DEF Bad
    <3> QED BY LeastNat, <2>1
  <2>3. n \in 0..M - 1 /\ n \in Nat /\ ~ \E h : Upto(n, h)
    BY <1>1
  <2>4. \A m \in 0..M - 1 : m < n => \E h : Upto(m, h)
    <3> SUFFICES ASSUME NEW m \in 0..M - 1, m < n, ~ \E h : Upto(m, h) PROVE FALSE
      OBVIOUS
    <3>1. m \in Bad
      OBVIOUS
    <3> HIDE DEF Bad
    <3> QED BY <3>1, <2>2, <2>3, <1>1
  <2> HIDE DEF Bad
  <2>5. CASE n = 0
    <3>1. Upto(0, [i \in 0..0 |-> First])
      BY <1>2
    <3> QED BY <3>1, <2>3, <2>5, Zenon
  <2>6. CASE n # 0
    <3>1. n - 1 \in 0..M - 1 /\ n - 1 < n /\ n \in 1..M - 1
      BY <1>1, <2>3, <2>6
    <3>2. PICK h : Upto(n - 1, h)
      <4> HIDE DEF Upto
      <4> QED BY <3>1, <2>4
    <3> DEFINE x == Swap(h[n-1], M - n, r[n])
               e == [i \in 0..n |-> IF i = n THEN x ELSE h[i]]
    <3>3. /\ \A i \in 0..n - 1 : h[i] \in [Slot -> Start]
          /\ h[0] = First
          /\ \A i \in 1..n - 1 : h[i] = Swap(h[i-1], M - i, r[i])
      BY <3>2
    <3>4. x \in [Slot -> Start]
      BY <3>1, <3>3, <1>3
    <3>5. e \in [0..n -> [Slot -> Start]]
      <4> HIDE DEF x
      <4> QED BY <3>1, <3>3, <3>4
    <3>6. e[0] = First
      BY <3>1, <3>3
    <3>7. ASSUME NEW i \in 1..n PROVE e[i] = Swap(e[i-1], M - i, r[i])
      <4>1. e[i-1] = h[i-1] /\ i \in 0..n
        BY <3>1
      <4>2. CASE i = n
        BY <4>1, <4>2
      <4>3. CASE i # n
        <5>1. i \in 1..n - 1 /\ e[i] = h[i]
          BY <4>1, <4>3, <3>1
        <5> HIDE DEF e
        <5> QED BY <4>1, <5>1, <3>3
      <4> QED BY <4>2, <4>3
    <3>8. Upto(n, e)
      <4> HIDE DEF e
      <4> QED BY <3>5, <3>6, <3>7
    <3> QED BY <3>8, <2>3, Zenon
  <2> QED BY <2>5, <2>6
<1>5. PICK a : Upto(M - 1, a)
  <2>1. M - 1 \in 0..M - 1
    BY <1>1
  <2> HIDE DEF Upto
  <2> QED BY <1>4, <2>1
<1>6. Shuffling(a)
  <2>1. ASSUME NEW k \in 0..M - 1
        PROVE  a[k] = IF k = 0 THEN First ELSE Swap(a[k-1], M - k, r[k])
    BY <1>1, <1>5
  <2> QED BY <2>1, <1>5
<1> DEFINE h == CHOOSE h : Shuffling(h)
<1>7. Shuffling(h)
  BY <1>6, Zenon
<1>8. Shuffled(0, r) = h[M - 1]
  BY DEF Shuffled, First
<1> HIDE DEF h
<1> DEFINE Out == {k \in 0..M - 1 : h[k] \notin [Slot -> Start]}
<1>9. Out = {}
  <2> SUFFICES ASSUME Out # {} PROVE FALSE
    OBVIOUS
  <2>1. Out \in SUBSET Nat
    BY <1>1
  <2>2. PICK n \in Out : \A m \in Out : n <= m
    <3> HIDE DEF Out
    <3> QED BY LeastNat, <2>1
  <2>3. CASE n = 0
    BY <2>2, <2>3, <1>7, <1>2
  <2>4. CASE n # 0
    <3>1. n - 1 \in 0..M - 1 /\ n - 1 < n /\ n \in 1..M - 1
      BY <1>1, <2>2, <2>4
    <3>2. h[n-1] \in [Slot -> Start]
      BY <3>1, <2>2
    <3>3. h[n] = Swap(h[n-1], M - n, r[n])
      BY <1>7, <2>4, Zenon
    <3> QED BY <3>1, <3>2, <3>3, <1>3
  <2> QED BY <2>3, <2>4
<1> QED BY <1>1, <1>8, <1>9

-----------------------------------------------------------------------------
(* The inductive invariant of the algorithms.                              *)

(* A task that PCT ranked takes part in an initialised cycle; its priority *)
(* is the one it started with, or lies in the strata in use.               *)
RankSound(t) ==
  prio[t].pct_initialized =>
    /\ Algorithm = "PCT" /\ Joined(t) /\ algo[Eid[t]].algo_initialized
    /\ \/ prio[t].priority = StartPriority(t)
       \/ /\ prio[t].priority > StrataBase(algo[Eid[t]].pct_strata)
          /\ prio[t].priority < StrataBase(0) + Depth

(* The cycles in which a parked task keeps its priority.                   *)
Keeps(g) ==
  Algorithm = "RP" \/ (Algorithm = "PCT" /\ algo[g].algo_initialized)

DsqSound(t) ==
  where[t] = "dsq" /\ Keeps(Eid[t]) =>
    vt[t] = prio[t].priority /\ prio[t].priority > 0

(* The laps of a group: at most one per event; nobody is parked before the *)
(* event that initialises a cycle of known length.                         *)
LapSound(g) ==
  LET a == algo[g] IN
  /\ a.pct_strata <= a.num_events_seen /\ a.num_events_seen <= EventMax
  /\ ~a.algo_initialized => a.pct_strata = 0
  /\ a.expected_events # 0 /\ ~a.algo_initialized => Parked(g) = {}
  /\ Algorithm = "PCT" /\ a.algo_initialized => slots[g] \in [Slot -> Start]

AlgoInv ==
  /\ AlgoTypeOK
  /\ \A t \in Task : RankSound(t) /\ DsqSound(t)
  /\ \A g \in Group : LapSound(g)

AlgoRecord ==
  [next_det_id : Nat, expected_events : Nat, num_events_seen : Nat,
   pct_strata : Nat, algo_initialized : BOOLEAN]

(* What a step may do to the fields of a cycle without a new event.        *)
SameLap(g) ==
  /\ algo'[g].expected_events = algo[g].expected_events
  /\ algo'[g].num_events_seen = algo[g].num_events_seen
  /\ algo'[g].pct_strata = algo[g].pct_strata
  /\ algo'[g].algo_initialized = algo[g].algo_initialized

(* A step that parks nobody, that nobody leaves and that gives no          *)
(* priority keeps the invariant.                                           *)
LEMMA QuietStep ==
  ASSUME AlgoInv, TypeOK, AlgoTypeOK', UNCHANGED <<slots, prio, vt>>,
         \A g \in Group : SameLap(g),
         \A u \in Task : where'[u] = "dsq" => where[u] = "dsq",
         \A u \in Task : Joined(u) => Joined(u)' /\ det'[u] = det[u]
  PROVE  AlgoInv'
<1>1. \A t \in Task : Eid[t] \in Group
  BY EidAssumption
<1>2. ASSUME NEW t \in Task PROVE RankSound(t)'
  <2>1. RankSound(t) /\ SameLap(Eid[t])
    BY <1>1 DEF AlgoInv
  <2>2. StrataBase(algo[Eid[t]].pct_strata)' = StrataBase(algo[Eid[t]].pct_strata)
    BY <2>1 DEF SameLap, StrataBase
  <2>3. Joined(t) => StartPriority(t)' = StartPriority(t)
    BY DEF StartPriority
  <2> QED BY <2>1, <2>2, <2>3 DEF RankSound, SameLap
<1>3. ASSUME NEW t \in Task PROVE DsqSound(t)'
  <2>1. DsqSound(t) /\ SameLap(Eid[t])
    BY <1>1 DEF AlgoInv
  <2> QED BY <2>1 DEF DsqSound, Keeps, SameLap
<1>4. ASSUME NEW g \in Group PROVE LapSound(g)'
  <2>1. LapSound(g) /\ SameLap(g)
    BY DEF AlgoInv
  <2>2. Parked(g)' \subseteq Parked(g)
    BY DEF Parked, Members
  <2>3. Parked(g) = {} => Parked(g)' = {}
    BY <2>2
  <2>4. Start' = Start
    BY DEF Start
  <2> QED BY <2>1, <2>3, <2>4 DEF LapSound, SameLap
<1> QED BY <1>2, <1>3, <1>4 DEF AlgoInv

(* The callbacks that only register, and those without an algorithm.       *)
LEMMA AssignTypes ==
  ASSUME AlgoTypeOK, NEW t \in Task, AssignDetId(t), UNCHANGED <<slots, cps, prio, vt>>
  PROVE  /\ AlgoTypeOK'
         /\ \A g \in Group : SameLap(g)
         /\ \A u \in Task : Joined(u) => det'[u] = det[u]
<1>1. Eid[t] \in Group
  BY EidAssumption
<1>2. CASE tctx[t].state = "NONE" /\ det[t] = 0
  <2> DEFINE g == Eid[t]
             b == [algo[g] EXCEPT !.next_det_id = algo[g].next_det_id + 1]
  <2>1. ~Joined(t)
    BY <1>2 DEF Joined, JoinedState
  <2>2. algo' = [algo EXCEPT ![g] = b] /\ det' = [det EXCEPT ![t] = algo[g].next_det_id + 1]
    BY <1>2 DEF AssignDetId
  <2>3. algo \in [Group -> AlgoRecord] /\ algo[g] \in AlgoRecord
    BY <1>1 DEF AlgoTypeOK, AlgoRecord
  <2>4. b \in AlgoRecord /\ algo[g].next_det_id \in Nat
    BY <2>3 DEF AlgoRecord
  <2>5. /\ b.expected_events = algo[g].expected_events
        /\ b.num_events_seen = algo[g].num_events_seen
        /\ b.pct_strata = algo[g].pct_strata
        /\ b.algo_initialized = algo[g].algo_initialized
    BY <2>3 DEF AlgoRecord
  <2> HIDE DEF b
  <2>6. algo' \in [Group -> AlgoRecord]
    BY <2>2, <2>3, <2>4, Zenon
  <2>7. det' \in [Task -> Nat] /\ \A u \in Task : Joined(u) => det'[u] = det[u]
    BY <2>1, <2>2, <2>4 DEF AlgoTypeOK
  <2>8. \A h \in Group : SameLap(h)
    <3> SUFFICES ASSUME NEW h \in Group PROVE SameLap(h)
      OBVIOUS
    <3>1. algo'[h] = IF h = g THEN b ELSE algo[h]
      BY <2>2, <2>3
    <3> QED BY <3>1, <2>5 DEF SameLap
  <2> QED BY <2>6, <2>7, <2>8 DEF AlgoTypeOK, AlgoRecord
<1>3. CASE UNCHANGED <<algo, det>>
  BY <1>3 DEF AlgoTypeOK, SameLap
<1> QED BY <1>2, <1>3 DEF AssignDetId

Bystander(t) ==
  \/ SetSchedPolicy(t) \/ InitTask(t)
  \/ YieldJoin(t) \/ YieldLate(t) \/ YieldNoCtx(t)
  \/ EnqueueGlobal(t) \/ Running(t)
  \/ Block(t) \/ Die(t) \/ Runnable(t) \/ PlaceOnIdleCpu(t)
  \/ CheckDispatchTimeout(t)

(* Only handle_serialise_enqueue parks a task, and only its exit takes a   *)
(* participant out of its cycle.                                           *)
LEMMA JoinedStay ==
  ASSUME IInv, NEW t \in Task, Bystander(t)
  PROVE  /\ \A u \in Task : where'[u] = "dsq" => where[u] = "dsq"
         /\ \A u \in Task : Joined(u) => Joined(u)'
<1>1. TypeOK /\ OnlyTask(t)
  BY TaskNextFrame DEF IInv, Bystander, TaskNext
<1>2. /\ tctx[t] \in TaskCtx /\ tctx \in [Task -> TaskCtx] /\ where \in [Task -> Location]
  BY <1>1 DEF TypeOK
<1> SUFFICES /\ where'[t] = "dsq" => where[t] = "dsq"
             /\ Joined(t) => Joined(t)'
  BY <1>1 DEF OnlyTask, Joined
<1> USE DEF Queued, Joined, JoinedState
<1>3. CASE SetSchedPolicy(t) \/ PlaceOnIdleCpu(t)
  BY <1>2, <1>3 DEF SetSchedPolicy, PlaceOnIdleCpu
<1>4. CASE InitTask(t)
  BY <1>2, <1>4, EnsuredCases DEF InitTask, EnsureTaskCtx
<1>5. CASE YieldJoin(t)
  BY <1>2, <1>5, EnsuredCases DEF YieldJoin
<1>6. CASE YieldLate(t)
  BY <1>2, <1>6, EnsuredCases DEF YieldLate, NoCtx, NewCtx
<1>7. CASE YieldNoCtx(t)
  BY <1>2, <1>7, EnsuredCases DEF YieldNoCtx, EnsureTaskCtx, NoCtx, NewCtx
<1>8. CASE EnqueueGlobal(t)
  BY <1>2, <1>8, EnsuredCases DEF EnqueueGlobal, EnsureTaskCtx
<1>9. CASE Running(t)
  BY <1>2, <1>9 DEF Running, TaskCtx
<1>10. CASE Block(t)
  BY Zenon, <1>1, <1>2, <1>10, SleepContext DEF Block
<1>11. CASE Die(t)
  BY Zenon, <1>1, <1>2, <1>11, SleepContext DEF Die
<1>12. CASE Runnable(t)
  BY ZenonT(30), <1>2, <1>12 DEF Runnable, TaskCtx
<1>13. CASE CheckDispatchTimeout(t)
  BY <1>2, <1>13 DEF CheckDispatchTimeout, TaskCtx
<1> QED BY <1>3, <1>4, <1>5, <1>6, <1>7, <1>8, <1>9, <1>10, <1>11, <1>12, <1>13
        DEF Bystander

(* The callbacks without a new event keep the invariant.                   *)
LEMMA OtherSteps ==
  ASSUME IInv, AlgoInv, NEW t \in Task,
         AlgoRegister(t) \/ AlgoEnqueueGlobal(t) \/ Plain(t)
  PROVE  AlgoInv'
<1>1. TypeOK /\ AlgoTypeOK
  BY DEF IInv, AlgoInv
<1>2. /\ Bystander(t)
      /\ UNCHANGED <<slots, cps, prio, vt>>
      /\ AssignDetId(t) \/ UNCHANGED <<algo, det>>
  BY DEF AlgoRegister, AlgoEnqueueGlobal, Plain, Bystander, algoVars
<1>3. /\ AlgoTypeOK'
      /\ \A g \in Group : SameLap(g)
      /\ \A u \in Task : Joined(u) => det'[u] = det[u]
  <2>1. CASE AssignDetId(t)
    BY <1>1, <1>2, <2>1, AssignTypes
  <2>2. CASE UNCHANGED <<algo, det>>
    BY <1>1, <1>2, <2>2 DEF AlgoTypeOK, SameLap
  <2> QED BY <1>2, <2>1, <2>2
<1> QED BY <1>1, <1>2, <1>3, JoinedStay, QuietStep

(* serialise_dispatch takes a task out of GROUP_DSQ.                       *)
LEMMA MoveStep ==
  ASSUME IInv, AlgoInv, AlgoDispatchMove
  PROVE  AlgoInv'
<1>1. TypeOK /\ AlgoTypeOK /\ where \in [Task -> Location] /\ vt \in [Task -> Nat]
  BY DEF IInv, AlgoInv, AlgoTypeOK, TypeOK
<1>2. PICK t \in Highest(Head(gateq)) : where'[t] = "local" /\ vt' = [vt EXCEPT ![t] = 0]
  BY Zenon DEF AlgoDispatchMove
<1>3. UNCHANGED <<algo, slots, cps, det, prio, tctx>>
  BY DEF AlgoDispatchMove, DispatchMove
<1>4. \A u \in Task : where'[u] = "dsq" => where[u] = "dsq"
  BY <1>1 DEF AlgoDispatchMove, DispatchMove
<1>5. t \in Task /\ \A u \in Task : where'[u] = "dsq" => vt'[u] = vt[u]
  BY <1>1, <1>2 DEF Highest, Parked, Members
<1>6. AlgoTypeOK'
  BY <1>1, <1>2, <1>3, <1>5 DEF AlgoTypeOK
<1>7. ASSUME NEW u \in Task PROVE RankSound(u)' /\ DsqSound(u)'
  <2>1. RankSound(u) /\ DsqSound(u)
    BY DEF AlgoInv
  <2>2. RankSound(u)'
    BY <1>3, <2>1 DEF RankSound, StartPriority, StrataBase, Joined
  <2>3. DsqSound(u)'
    BY <1>3, <1>4, <1>5, <2>1 DEF DsqSound, Keeps
  <2> QED BY <2>2, <2>3
<1>8. ASSUME NEW g \in Group PROVE LapSound(g)'
  <2>1. LapSound(g) /\ Parked(g)' \subseteq Parked(g)
    BY <1>4 DEF AlgoInv, Parked, Members
  <2>2. Parked(g) = {} => Parked(g)' = {}
    BY <2>1
  <2> QED BY <1>3, <2>1, <2>2 DEF LapSound, Start, StrataBase
<1> QED BY <1>6, <1>7, <1>8 DEF AlgoInv

(* reset_cycle_state runs when nobody is left in the cycle.                *)
LEMMA ResetIsEmpty ==
  ASSUME IInv, IInv', NEW t \in Task, ExitTask(t), Joined(t),
         LastExit(CountExit(cycle[Eid[t]], Queued(t), tctx[t].is_asleep))
  PROVE  JoinedIn(Eid[t])' = {} /\ Parked(Eid[t])' = {}
<1> DEFINE g == Eid[t]
<1>1. g \in Group /\ AccountingOf(g)' /\ cycle \in [Group -> Cycle]
  BY EidAssumption DEF IInv, GroupSound, TypeOK
<1>2. cycle'[g].num_alive = 0 /\ cycle'[g].num_queued = 0
  <2> DEFINE c == CountExit(cycle[g], Queued(t), tctx[t].is_asleep)
             claimed == IF ExitGateOpens(c) THEN ClaimGate(c, c.state = "TIMEOUT") ELSE c
  <2>1. cycle[g] \in Cycle /\ cycle[g].num_expected_threads > 0
    BY <1>1 DEF IInv, GroupSound, StateSoundOf
  <2>2. c \in Cycle
    BY <2>1, SectionTypes
  <2>3. claimed \in Cycle /\ ResetCycle(claimed) = NewCycle
    BY <2>2, SectionTypes
  <2>4. cycle'[g] = ResetCycle(claimed)
    BY ZenonT(30), <1>1 DEF ExitTask
  <2> QED BY <2>3, <2>4 DEF NewCycle
<1>3. /\ IsFiniteSet(JoinedIn(g)') /\ IsFiniteSet(Parked(g)')
      /\ Cardinality(JoinedIn(g)') = 0 /\ Cardinality(Parked(g)') = 0
  BY <1>1, <1>2, TaskSets DEF AccountingOf, JoinedIn, Parked, Members
<1> QED BY <1>3, FS_EmptySet

(* serialise_exit_task.                                                    *)
LEMMA ExitStep ==
  ASSUME IInv, IInv', AlgoInv, NEW t \in Task, AlgoExitTask(t)
  PROVE  AlgoInv'
<1> DEFINE g == Eid[t]
           last == Joined(t) /\ LastExit(CountExit(cycle[g], Queued(t), tctx[t].is_asleep))
<1>1. /\ TypeOK /\ AlgoTypeOK /\ g \in Group /\ ExitTask(t)
      /\ where \in [Task -> Location] /\ tctx \in [Task -> TaskCtx]
      /\ algo \in [Group -> AlgoRecord] /\ algo[g] \in AlgoRecord
  BY EidAssumption, Zenon DEF IInv, AlgoInv, AlgoTypeOK, TypeOK, AlgoExitTask, AlgoRecord
<1>2. /\ where' = [where EXCEPT ![t] = "off"] /\ tctx' = [tctx EXCEPT ![t] = NoCtx]
      /\ prio' = [prio EXCEPT ![t] = NoPrio]
      /\ det' = IF tctx[t].state = "NONE" THEN det ELSE [det EXCEPT ![t] = 0]
      /\ algo' = IF last THEN [algo EXCEPT ![g] = ResetAlgo(algo[g])] ELSE algo
      /\ UNCHANGED <<slots, cps, vt>>
  BY DEF AlgoExitTask, ExitTask
<1>3. /\ NoPrio \in [priority : Nat, pct_initialized : BOOLEAN, access : Access]
      /\ NoPrio.pct_initialized = FALSE
  BY DEF NoPrio, Access
<1>4. /\ ResetAlgo(algo[g]) \in AlgoRecord
      /\ ResetAlgo(algo[g]).pct_strata = 0
      /\ ResetAlgo(algo[g]).num_events_seen = 0
      /\ ResetAlgo(algo[g]).algo_initialized = FALSE
  BY <1>1, Zenon DEF ResetAlgo, NewAlgo, AlgoRecord
<1>5. last => JoinedIn(g)' = {} /\ Parked(g)' = {}
  BY <1>1, ResetIsEmpty
<1> HIDE DEF last
<1>6. AlgoTypeOK'
  <2>1. algo' \in [Group -> AlgoRecord]
    BY <1>1, <1>2, <1>4
  <2>2. det' \in [Task -> Nat]
    BY <1>1, <1>2 DEF AlgoTypeOK
  <2>3. prio' \in [Task -> [priority : Nat, pct_initialized : BOOLEAN, access : Access]]
    BY <1>1, <1>2, <1>3 DEF AlgoTypeOK
  <2> QED BY <1>1, <1>2, <2>1, <2>2, <2>3 DEF AlgoTypeOK, AlgoRecord
<1>7. ASSUME NEW u \in Task PROVE RankSound(u)' /\ DsqSound(u)'
  <2>1. RankSound(u) /\ DsqSound(u) /\ Eid[u] \in Group
    BY EidAssumption DEF AlgoInv
  <2>2. CASE u = t
    <3>1. prio'[u].pct_initialized = FALSE /\ where'[u] # "dsq"
      BY <1>1, <1>2, <1>3, <2>2 DEF AlgoTypeOK
    <3> QED BY <3>1 DEF RankSound, DsqSound
  <2>3. CASE u # t
    <3>1. /\ prio'[u] = prio[u] /\ det'[u] = det[u] /\ where'[u] = where[u]
          /\ tctx'[u] = tctx[u] /\ vt'[u] = vt[u]
      BY <1>1, <1>2, <2>3 DEF AlgoTypeOK
    <3>2. CASE last /\ Eid[u] = g
      <4>1. ~Joined(u)' /\ where'[u] # "dsq"
        BY <1>5, <3>2 DEF JoinedIn, Members, Parked
      <4>2. ~prio[u].pct_initialized
        BY <2>1, <3>1, <4>1 DEF RankSound, Joined
      <4> QED BY <3>1, <4>1, <4>2 DEF RankSound, DsqSound
    <3>3. CASE ~last \/ Eid[u] # g
      <4>1. algo'[Eid[u]] = algo[Eid[u]]
        BY <1>1, <1>2, <2>1, <3>3
      <4>2. RankSound(u)'
        BY <1>2, <2>1, <3>1, <4>1 DEF RankSound, StartPriority, StrataBase, Joined
      <4>3. DsqSound(u)'
        BY <2>1, <3>1, <4>1 DEF DsqSound, Keeps
      <4> QED BY <4>2, <4>3
    <3> QED BY <3>2, <3>3
  <2> QED BY <2>2, <2>3
<1>8. ASSUME NEW h \in Group PROVE LapSound(h)'
  <2>1. LapSound(h)
    BY DEF AlgoInv
  <2>2. CASE last /\ h = g
    <3>1. algo'[h] = ResetAlgo(algo[g])
      BY <1>1, <1>2, <2>2
    <3> QED BY <1>4, <1>5, <2>2, <3>1, BoundsAssumption DEF LapSound
  <2>3. CASE ~last \/ h # g
    <3>1. algo'[h] = algo[h]
      BY <1>1, <1>2, <2>3
    <3>2. Parked(h) = {} => Parked(h)' = {}
      BY <1>1, <1>2 DEF Parked, Members
    <3> QED BY <1>2, <2>1, <3>1, <3>2 DEF LapSound, Start, StrataBase
  <2> QED BY <2>2, <2>3
<1> QED BY <1>6, <1>7, <1>8 DEF AlgoInv

(* What handle_serialise_enqueue does to the places and contexts.          *)
LEMMA ParkFrame ==
  ASSUME IInv, NEW t \in Task, EnqueuePark(t)
  PROVE  /\ where'[t] = "dsq" /\ Joined(t)
         /\ \A u \in Task \ {t} : where'[u] = where[u]
         /\ \A u \in Task : Joined(u) => Joined(u)'
<1>1. tctx \in [Task -> TaskCtx] /\ where \in [Task -> Location]
  BY DEF IInv, TypeOK
<1>2. Joined(t)'
  BY <1>1 DEF EnqueuePark, Joined, JoinedState, TaskCtx
<1> QED BY <1>1, <1>2 DEF EnqueuePark, Joined

(* The change point that counts is one of those the event hits.            *)
LEMMA HitIsChangePoint ==
  ASSUME NEW g, NEW seen, HitPoints(g, seen) # {}
  PROVE  Min(HitPoints(g, seen)) \in Nat /\ Min(HitPoints(g, seen)) <= Depth - 2
<1> DEFINE H == HitPoints(g, seen)
<1>1. H \in SUBSET Nat /\ \A i \in H : i <= Depth - 2
  BY DepthAssumption, SlotsAssumption DEF HitPoints, ChangePoint
<1> HIDE DEF H
<1>2. \E n \in H : \A m \in H : n <= m
  BY <1>1, LeastNat DEF H
<1>3. Min(H) \in H
  BY <1>2 DEF Min
<1> QED BY <1>1, <1>3 DEF H

(* update_priorities_pct goes down one stratum at most, at a change point. *)
LEMMA NextStratum ==
  ASSUME AlgoTypeOK, NEW g \in Group, NEW seen
  PROVE  \/ NextStrata(g, seen) = algo[g].pct_strata
         \/ NextStrata(g, seen) = algo[g].pct_strata + 1 /\ HitPoints(g, seen) # {}
BY DEF NextStrata

(* The fields of the cycle after an event.                                 *)
Event(t) ==
  LET g == Eid[t] IN
  /\ g \in Group
  /\ algo' \in [Group -> AlgoRecord]
  /\ \A h \in Group \ {g} : algo'[h] = algo[h]
  /\ algo'[g].algo_initialized <=> algo[g].algo_initialized \/ algo[g].expected_events # 0
  /\ algo'[g].expected_events = algo[g].expected_events
  /\ algo'[g].num_events_seen = algo[g].num_events_seen + 1
  /\ algo'[g].num_events_seen <= EventMax

PctEvent(t) == Algorithm = "PCT" /\ algo'[Eid[t]].algo_initialized

LEMMA EventFields ==
  ASSUME AlgoInv, NEW t \in Task, AlgoEnqueuePark(t)
  PROVE  /\ Event(t)
         /\ algo'[Eid[t]].pct_strata =
              IF PctEvent(t) THEN NextStrata(Eid[t], algo[Eid[t]].num_events_seen + 1)
              ELSE algo[Eid[t]].pct_strata
         /\ UNCHANGED det
<1> DEFINE g == Eid[t]
           a == algo[g]
           initialized == a.algo_initialized \/ a.expected_events # 0
           seen == a.num_events_seen + 1
           pct == Algorithm = "PCT" /\ initialized
           strata == IF pct THEN NextStrata(g, seen) ELSE a.pct_strata
           b == [a EXCEPT !.algo_initialized = initialized,
                          !.num_events_seen = seen,
                          !.pct_strata = strata]
<1>1. g \in Group /\ algo \in [Group -> AlgoRecord] /\ a \in AlgoRecord /\ AlgoTypeOK
  BY EidAssumption DEF AlgoInv, AlgoTypeOK, AlgoRecord
<1>2. algo' = [algo EXCEPT ![g] = b] /\ a.num_events_seen < EventMax /\ det' = det
  BY DEF AlgoEnqueuePark
<1>3. seen \in Nat /\ seen <= EventMax /\ strata \in Nat
  <2>1. a.num_events_seen \in Nat /\ a.pct_strata \in Nat
    BY <1>1 DEF AlgoRecord
  <2>2. NextStrata(g, seen) \in Nat
    BY <1>1, <2>1, NextStratum
  <2> QED BY <1>2, <2>1, <2>2, BoundsAssumption
<1> HIDE DEF strata, seen
<1>4. initialized \in BOOLEAN
  OBVIOUS
<1> HIDE DEF initialized
<1>5. /\ b \in AlgoRecord /\ b.algo_initialized = initialized
      /\ b.expected_events = a.expected_events
      /\ b.num_events_seen = seen /\ b.pct_strata = strata
  BY Zenon, <1>1, <1>3, <1>4 DEF AlgoRecord
<1> HIDE DEF b
<1>6. algo'[g] = b /\ algo' \in [Group -> AlgoRecord]
  BY <1>1, <1>2, <1>5
<1>7. \A h \in Group \ {g} : algo'[h] = algo[h]
  BY <1>1, <1>2
<1>8. Event(t)
  BY <1>1, <1>3, <1>5, <1>6, <1>7, Zenon DEF Event, seen, initialized
<1>9. PctEvent(t) <=> pct
  BY <1>5, <1>6 DEF PctEvent
<1> QED BY <1>2, <1>5, <1>6, <1>8, <1>9 DEF strata, seen

(* The slots of a PCT cycle are filled at the event that initialises it.   *)
LEMMA EventSlots ==
  ASSUME AlgoInv, NEW t \in Task, AlgoEnqueuePark(t)
  PROVE  /\ slots' \in [Group -> [Slot -> Nat]]
         /\ cps' \in [Group -> [ChangePoint -> Nat]]
         /\ \A h \in Group \ {Eid[t]} : slots'[h] = slots[h]
         /\ PctEvent(t) => slots'[Eid[t]] \in [Slot -> Start]
         /\ ~PctEvent(t) \/ algo[Eid[t]].algo_initialized => slots' = slots
<1> DEFINE g == Eid[t]
<1>1. /\ g \in Group /\ Event(t) /\ LapSound(g) /\ algo[g] \in AlgoRecord
      /\ slots \in [Group -> [Slot -> Nat]]
      /\ cps \in [Group -> [ChangePoint -> Nat]]
  BY EventFields DEF AlgoInv, AlgoTypeOK, AlgoRecord, Event
<1>2. PctEvent(t) <=> /\ Algorithm = "PCT"
                      /\ algo[g].algo_initialized \/ algo[g].expected_events # 0
  BY <1>1 DEF PctEvent, Event
<1>3. CASE PctEvent(t) /\ ~algo[g].algo_initialized
  <2>1. InitPct(g) /\ algo[g].pct_strata = 0
    BY <1>1, <1>2, <1>3 DEF AlgoEnqueuePark, LapSound
  <2>2. PICK r \in Draws : slots' = [slots EXCEPT ![g] = Shuffled(0, r)]
    BY <2>1, Zenon DEF InitPct
  <2>3. PICK q \in [ChangePoint -> 1..algo[g].expected_events] : cps' = [cps EXCEPT ![g] = q]
    BY <2>1, Zenon DEF InitPct
  <2>4. q \in [ChangePoint -> Nat]
    BY <1>1 DEF AlgoRecord
  <2>5. Shuffled(0, r) \in [Slot -> Start] /\ Shuffled(0, r) \in [Slot -> Nat]
    BY ShuffledStart DEF Start
  <2> QED BY <1>1, <1>3, <2>2, <2>3, <2>4, <2>5
<1>4. CASE ~(PctEvent(t) /\ ~algo[g].algo_initialized)
  <2>1. slots' = slots /\ cps' = cps
    BY <1>2, <1>4 DEF AlgoEnqueuePark
  <2> QED BY <1>1, <1>4, <2>1 DEF LapSound, PctEvent
<1> QED BY <1>3, <1>4

(* The lap after an event.                                                 *)
LEMMA EventLap ==
  ASSUME AlgoInv, NEW t \in Task, AlgoEnqueuePark(t)
  PROVE  LET old == algo[Eid[t]].pct_strata
             new == algo'[Eid[t]].pct_strata
         IN  /\ old \in 0..EventMax /\ new \in 0..EventMax
             /\ new <= algo'[Eid[t]].num_events_seen
             /\ \/ new = old
                \/ /\ new = old + 1 /\ PctEvent(t)
                   /\ HitPoints(Eid[t], algo[Eid[t]].num_events_seen + 1) # {}
             /\ StrataBase(new) \in Nat /\ StrataBase(new) > 0
             /\ StrataBase(old) \in Nat
             /\ StrataBase(new) <= StrataBase(old)
             /\ StrataBase(old) <= StrataBase(0)
             /\ new = old + 1 => StrataBase(new) = StrataBase(old) - MaxCycleThreads
<1> DEFINE g == Eid[t]
           old == algo[g].pct_strata
           new == algo'[g].pct_strata
           seen == algo[g].num_events_seen
<1>1. /\ g \in Group /\ Event(t) /\ LapSound(g) /\ algo[g] \in AlgoRecord /\ AlgoTypeOK
  BY EventFields DEF AlgoInv, AlgoTypeOK, AlgoRecord, Event
<1>2. old \in Nat /\ seen \in Nat /\ old <= seen /\ seen + 1 <= EventMax
      /\ algo'[g].num_events_seen = seen + 1
  BY <1>1 DEF AlgoRecord, Event, LapSound
<1>3. \/ new = old
      \/ new = old + 1 /\ PctEvent(t) /\ HitPoints(g, seen + 1) # {}
  BY <1>1, EventFields, NextStratum
<1>4. old \in 0..EventMax /\ new \in 0..EventMax /\ new <= seen + 1
  BY <1>2, <1>3, BoundsAssumption
<1>5. /\ StrataBase(old) \in Int /\ StrataBase(old) > 0 /\ StrataBase(old) <= StrataBase(0)
      /\ StrataBase(new) \in Int /\ StrataBase(new) > 0
      /\ StrataBase(old + 1) = StrataBase(old) - MaxCycleThreads
  BY <1>4, Strata
<1> HIDE DEF old, new, seen
<1>6. StrataBase(new) <= StrataBase(old)
  BY <1>3, <1>5, SlotsAssumption
<1>7. new = old + 1 => StrataBase(new) = StrataBase(old) - MaxCycleThreads
  BY <1>5
<1> QED BY <1>2, <1>3, <1>4, <1>5, <1>6, <1>7 DEF old, new, seen

(* The priority PCT gives at an event: the one the task started with, or   *)
(* one of the strata in use.  It is the one the task is inserted with.     *)
LEMMA EventRank ==
  ASSUME AlgoInv, NEW t \in Task, AlgoEnqueuePark(t), PctEvent(t)
  PROVE  LET p == prio'[t].priority
             new == algo'[Eid[t]].pct_strata
             hit == HitPoints(Eid[t], algo[Eid[t]].num_events_seen + 1)
         IN  /\ prio' \in [Task -> [priority : Nat, pct_initialized : BOOLEAN, access : Access]]
             /\ \A u \in Task \ {t} : prio'[u] = prio[u]
             /\ p \in Nat /\ p > 0 /\ vt'[t] = p
             /\ prio'[t].pct_initialized = TRUE
             /\ \/ p = slots'[Eid[t]][det[t] % MaxCycleThreads]
                \/ StrataBase(new) < p /\ p < StrataBase(0) + Depth
             /\ hit # {} => p < StrataBase(new) + Depth
<1> DEFINE g == Eid[t]
           seen == algo[g].num_events_seen + 1
           new == algo'[g].pct_strata
           old == algo[g].pct_strata
           hit == HitPoints(g, seen)
           p == PctPriority(t, seen)
<1>1. /\ g \in Group /\ Event(t) /\ AlgoTypeOK /\ LapSound(g) /\ RankSound(t)
  BY EventFields DEF AlgoInv, Event
<1>2. PctEvent(t) <=> /\ Algorithm = "PCT"
                      /\ algo[g].algo_initialized \/ algo[g].expected_events # 0
  BY <1>1 DEF PctEvent, Event
<1>3. PICK acc \in Access : UpdatePct(t, acc, seen)
  BY <1>2 DEF AlgoEnqueuePark
<1>4. det[t] \in Nat /\ det[t] % MaxCycleThreads \in Slot
  BY <1>1, SlotsAssumption DEF AlgoTypeOK, Slot
<1>5. slots'[g] \in [Slot -> Start] /\ slots'[g][det[t] % MaxCycleThreads] \in Start
  BY <1>4, EventSlots
<1>6. new = NextStrata(g, seen) /\ StrataBase(new) \in Nat /\ StrataBase(new) > 0
      /\ StrataBase(new) <= StrataBase(0) /\ StrataBase(0) \in Nat
  <2>1. StrataBase(0) \in Int
    BY Strata, BoundsAssumption
  <2>2. StrataBase(old) \in Nat /\ StrataBase(new) \in Nat /\ StrataBase(new) > 0
        /\ StrataBase(new) <= StrataBase(old) /\ StrataBase(old) <= StrataBase(0)
    BY EventLap
  <2> QED BY <2>1, <2>2, EventFields
<1>7. Depth \in Nat
  BY DepthAssumption, SlotsAssumption
<1> DEFINE home == slots'[g][det[t] % MaxCycleThreads]
           RankOK == /\ p \in Nat /\ p > 0
                     /\ p = home \/ (StrataBase(new) < p /\ p < StrataBase(0) + Depth)
                     /\ hit # {} => p < StrataBase(new) + Depth
<1>8. home \in Nat /\ home > 0
  BY <1>5, <1>6, <1>7 DEF Start
<1>9. RankOK
  <2>1. CASE hit # {}
    <3>1. Min(hit) \in Nat /\ Min(hit) <= Depth - 2
      BY <2>1, HitIsChangePoint
    <3>2. p = StrataBase(new) + Min(hit) + 1
      BY <1>6, <2>1 DEF PctPriority
    <3> HIDE DEF p, hit, new
    <3>3. /\ p \in Nat /\ p > 0 /\ StrataBase(new) < p
          /\ p < StrataBase(new) + Depth /\ p < StrataBase(0) + Depth
      BY <1>6, <1>7, <3>1, <3>2
    <3> QED BY <3>3
  <2>2. CASE hit = {} /\ prio[t].pct_initialized
    <3>1. p = prio[t].priority /\ new = old /\ p \in Nat
      BY <1>1, <2>2, EventLap, Zenon DEF PctPriority, AlgoTypeOK
    <3>2. algo[g].algo_initialized /\ slots' = slots
      BY <1>1, <2>2, EventSlots, Zenon DEF RankSound
    <3>3. p = home \/ (StrataBase(new) < p /\ p < StrataBase(0) + Depth)
      BY <1>1, <2>2, <3>1, <3>2, Zenon DEF RankSound, StartPriority
    <3> HIDE DEF p, hit, new, home
    <3> QED BY <1>6, <1>8, <2>2, <3>1, <3>3
  <2>3. CASE hit = {} /\ ~prio[t].pct_initialized
    <3>1. p = home
      BY <2>3, Zenon DEF PctPriority
    <3> HIDE DEF p, hit, new, home
    <3> QED BY <1>8, <2>3, <3>1
  <2> QED BY <2>1, <2>2, <2>3
<1>10. prio' = [prio EXCEPT ![t] = [priority |-> p, pct_initialized |-> TRUE, access |-> acc]]
  BY <1>3 DEF UpdatePct
<1>11. prio \in [Task -> [priority : Nat, pct_initialized : BOOLEAN, access : Access]]
  BY <1>1 DEF AlgoTypeOK
<1> HIDE DEF p
<1>12. /\ prio'[t].priority = p /\ prio'[t].pct_initialized = TRUE
       /\ \A u \in Task \ {t} : prio'[u] = prio[u]
  BY <1>10, <1>11
<1>13. prio' \in [Task -> [priority : Nat, pct_initialized : BOOLEAN, access : Access]]
  <2>1. [priority |-> p, pct_initialized |-> TRUE, access |-> acc]
          \in [priority : Nat, pct_initialized : BOOLEAN, access : Access]
    BY <1>9
  <2> QED BY <1>10, <1>11, <2>1
<1>14. vt'[t] = p
  <2>1. vt' = [vt EXCEPT ![t] = IF p > 0 THEN p ELSE 1] /\ vt \in [Task -> Nat]
    BY <1>1, <1>12 DEF AlgoEnqueuePark, InsertIntoCycleDsq, AlgoTypeOK
  <2> QED BY <1>9, <2>1
<1> QED BY <1>9, <1>12, <1>13, <1>14

(* The other algorithms give a random priority to tasks of the group; RP   *)
(* gives one to the enqueued task alone.                                   *)
LEMMA EventRandom ==
  ASSUME AlgoInv, NEW t \in Task, AlgoEnqueuePark(t), ~PctEvent(t)
  PROVE  /\ prio' \in [Task -> [priority : Nat, pct_initialized : BOOLEAN, access : Access]]
         /\ \A u \in Task : prio'[u].pct_initialized = prio[u].pct_initialized
         /\ \A u \in Task : Eid[u] # Eid[t] => prio'[u] = prio[u]
         /\ Algorithm = "RP" => /\ \A u \in Task \ {t} : prio'[u] = prio[u]
                                /\ prio'[t].priority > 0
                                /\ vt'[t] = prio'[t].priority
<1> DEFINE Prio == [priority : Nat, pct_initialized : BOOLEAN, access : Access]
           g == Eid[t]
<1>1. g \in Group /\ Event(t) /\ prio \in [Task -> Prio] /\ vt \in [Task -> Nat]
  BY EventFields DEF AlgoInv, Event, AlgoTypeOK
<1>2. PICK acc \in Access : UpdateRandom(t, acc)
  BY <1>1 DEF AlgoEnqueuePark, PctEvent, Event
<1> DEFINE before == [prio EXCEPT ![t].access = acc]
           updated == CASE Algorithm \in {"RW", "PCT"} -> GroupContexts(Eid[t])
                        [] Algorithm = "POS" -> {t} \cup RacingWith(before, t)
                        [] Algorithm = "RP" -> {t}
<1>3. prio' \in Randomised(before, updated)
  BY <1>2, Zenon DEF UpdateRandom
<1>4. /\ updated \subseteq {u \in Task : Eid[u] = g}
      /\ Algorithm = "RP" => updated = {t}
  <2>1. GroupContexts(g) \subseteq {u \in Task : Eid[u] = g}
    BY DEF GroupContexts, Members
  <2>2. RacingWith(before, t) \subseteq GroupContexts(g)
    BY DEF RacingWith
  <2> HIDE DEF before
  <2> QED BY <2>1, <2>2, AlgorithmAssumption
<1> HIDE DEF updated
<1>5. PICK f \in [updated -> RandomPriority] :
        prio' = [u \in Task |-> IF u \in updated THEN [before[u] EXCEPT !.priority = f[u]]
                                ELSE before[u]]
  BY <1>3 DEF Randomised
<1>6. /\ before \in [Task -> Prio]
      /\ \A u \in Task : before[u].pct_initialized = prio[u].pct_initialized
      /\ \A u \in Task \ {t} : before[u] = prio[u]
  BY <1>1
<1> HIDE DEF before
<1>7. ASSUME NEW u \in Task
      PROVE  /\ prio'[u] \in Prio
             /\ prio'[u].pct_initialized = prio[u].pct_initialized
             /\ u \notin updated => prio'[u] = before[u]
             /\ u \in updated => prio'[u].priority \in Nat \ {0}
  <2>1. CASE u \in updated
    <3>1. f[u] \in Nat \ {0} /\ prio'[u] = [before[u] EXCEPT !.priority = f[u]]
      BY <1>5, <2>1, RandomPriorityAssumption
    <3>2. before[u] \in Prio
      BY <1>6
    <3> QED BY <1>6, <2>1, <3>1, <3>2
  <2>2. CASE u \notin updated
    BY <1>5, <1>6, <2>2
  <2> QED BY <2>1, <2>2
<1>8. prio' \in [Task -> Prio]
  BY <1>5, <1>7
<1>9. ASSUME NEW u \in Task, Eid[u] # g PROVE prio'[u] = prio[u]
  BY <1>4, <1>6, <1>7, <1>9
<1>10. ASSUME Algorithm = "RP"
       PROVE  /\ \A u \in Task \ {t} : prio'[u] = prio[u]
              /\ prio'[t].priority > 0 /\ vt'[t] = prio'[t].priority
  <2>1. \A u \in Task \ {t} : prio'[u] = prio[u]
    BY <1>4, <1>6, <1>7, <1>10
  <2>2. prio'[t].priority \in Nat \ {0}
    BY <1>4, <1>7, <1>10
  <2>3. vt' = [vt EXCEPT ![t] = IF prio'[t].priority > 0 THEN prio'[t].priority ELSE 1]
    BY DEF AlgoEnqueuePark, InsertIntoCycleDsq
  <2> QED BY <1>1, <2>1, <2>2, <2>3
<1> QED BY <1>7, <1>8, <1>9, <1>10

(* handle_serialise_enqueue of a participant keeps the invariant.          *)
LEMMA ParkStep ==
  ASSUME IInv, AlgoInv, NEW t \in Task, AlgoEnqueuePark(t)
  PROVE  AlgoInv'
<1> DEFINE g == Eid[t]
           pct == PctEvent(t)
<1>1. /\ g \in Group /\ Event(t) /\ AlgoTypeOK /\ EnqueuePark(t) /\ det' = det
      /\ algo \in [Group -> AlgoRecord]
  BY EventFields, Zenon DEF AlgoInv, Event, AlgoEnqueuePark, AlgoTypeOK, AlgoRecord
<1>2. /\ vt' \in [Task -> Nat]
      /\ \A u \in Task \ {t} : vt'[u] = vt[u]
      /\ prio' \in [Task -> [priority : Nat, pct_initialized : BOOLEAN, access : Access]]
  <2>1. prio' \in [Task -> [priority : Nat, pct_initialized : BOOLEAN, access : Access]]
    BY EventRank, EventRandom, Zenon
  <2>2. prio'[t].priority \in Nat
    BY <2>1
  <2>3. vt' = [vt EXCEPT ![t] = IF prio'[t].priority > 0 THEN prio'[t].priority ELSE 1]
    BY DEF AlgoEnqueuePark, InsertIntoCycleDsq
  <2> QED BY <1>1, <2>1, <2>2, <2>3 DEF AlgoTypeOK
<1>3. AlgoTypeOK'
  BY <1>1, <1>2, EventSlots DEF AlgoTypeOK, AlgoRecord, Event
<1>4. /\ where'[t] = "dsq" /\ Joined(t)
      /\ \A u \in Task \ {t} : where'[u] = where[u]
      /\ \A u \in Task : Joined(u) => Joined(u)'
  BY <1>1, ParkFrame
<1>5. ASSUME NEW u \in Task PROVE RankSound(u)'
  <2>1. RankSound(u) /\ Eid[u] \in Group
    BY EidAssumption DEF AlgoInv
  <2>2. CASE Eid[u] # g
    <3>1. prio'[u] = prio[u] /\ algo'[Eid[u]] = algo[Eid[u]] /\ slots'[Eid[u]] = slots[Eid[u]]
      BY <1>1, <2>1, <2>2, EventRank, EventRandom, EventSlots, Zenon DEF Event
    <3> QED BY <1>1, <1>4, <2>1, <3>1 DEF RankSound, StartPriority
  <2>3. CASE Eid[u] = g /\ ~pct
    <3>1. prio'[u].pct_initialized = prio[u].pct_initialized
      BY <2>3, EventRandom
    <3>2. prio[u].pct_initialized => PctEvent(t)
      BY <1>1, <2>1, <2>3 DEF RankSound, PctEvent, Event
    <3> QED BY <2>3, <3>1, <3>2 DEF RankSound
  <2>4. CASE u = t /\ pct
    <3>1. /\ \/ prio'[u].priority = slots'[g][det[t] % MaxCycleThreads]
             \/ /\ StrataBase(algo'[g].pct_strata) < prio'[u].priority
                /\ prio'[u].priority < StrataBase(0) + Depth
      BY <2>4, EventRank, Zenon
    <3>2. prio'[u].priority \in Nat /\ StrataBase(algo'[g].pct_strata) \in Nat
      BY <2>4, EventRank, EventLap, Zenon
    <3> QED BY <1>1, <1>4, <2>4, <3>1, <3>2 DEF RankSound, PctEvent, StartPriority
  <2>5. CASE u # t /\ Eid[u] = g /\ pct
    <3>1. prio'[u] = prio[u] /\ prio[u].priority \in Nat
      BY <1>1, <2>5, EventRank, Zenon DEF AlgoTypeOK
    <3>2. CASE ~prio[u].pct_initialized
      BY <3>1, <3>2 DEF RankSound
    <3>3. CASE prio[u].pct_initialized
      <4>1. slots' = slots
        BY <2>1, <2>5, <3>3, EventSlots DEF RankSound
      <4>2. /\ StrataBase(algo'[g].pct_strata) \in Nat /\ StrataBase(algo[g].pct_strata) \in Nat
            /\ StrataBase(algo'[g].pct_strata) <= StrataBase(algo[g].pct_strata)
        BY EventLap
      <4>3. StartPriority(u)' = StartPriority(u)
        BY <1>1, <4>1 DEF StartPriority
      <4>4. \/ prio[u].priority = StartPriority(u)
            \/ /\ prio[u].priority > StrataBase(algo[g].pct_strata)
               /\ prio[u].priority < StrataBase(0) + Depth
        BY <2>1, <2>5, <3>3 DEF RankSound
      <4>5. \/ prio[u].priority = StartPriority(u)
            \/ /\ prio[u].priority > StrataBase(algo'[g].pct_strata)
               /\ prio[u].priority < StrataBase(0) + Depth
        BY <3>1, <4>2, <4>4
      <4>6. Algorithm = "PCT" /\ Joined(u)' /\ algo'[g].algo_initialized
        BY <1>4, <2>1, <2>5, <3>3 DEF RankSound, PctEvent
      <4> QED BY <2>5, <3>1, <4>3, <4>5, <4>6 DEF RankSound
    <3> QED BY <3>2, <3>3
  <2> QED BY <2>2, <2>3, <2>4, <2>5
<1>6. ASSUME NEW u \in Task PROVE DsqSound(u)'
  <2>1. DsqSound(u) /\ Eid[u] \in Group /\ LapSound(g)
    BY <1>1, EidAssumption DEF AlgoInv
  <2>2. CASE Eid[u] # g
    <3>1. prio'[u] = prio[u] /\ algo'[Eid[u]] = algo[Eid[u]] /\ vt'[u] = vt[u] /\ where'[u] = where[u]
      BY <1>1, <1>2, <1>4, <2>1, <2>2, EventRank, EventRandom, Zenon DEF Event
    <3> QED BY <2>1, <3>1 DEF DsqSound, Keeps
  <2>3. CASE Eid[u] = g /\ Algorithm = "RP"
    <3>1. ~PctEvent(t)
      BY <2>3 DEF PctEvent
    <3>2. CASE u = t
      BY <2>3, <3>1, <3>2, EventRandom DEF DsqSound
    <3>3. CASE u # t
      BY <1>2, <1>4, <2>1, <2>3, <3>1, <3>3, EventRandom DEF DsqSound, Keeps
    <3> QED BY <3>2, <3>3
  <2>4. CASE Eid[u] = g /\ Algorithm = "PCT" /\ pct
    <3>1. CASE u = t
      BY <2>4, <3>1, EventRank, Zenon DEF DsqSound
    <3>2. CASE u # t
      <4>1. prio'[u] = prio[u] /\ vt'[u] = vt[u] /\ where'[u] = where[u]
        BY <1>2, <1>4, <2>4, <3>2, EventRank, Zenon
      <4>2. where[u] = "dsq" => Parked(g) # {}
        BY <2>4 DEF Parked, Members
      <4>3. where[u] = "dsq" => algo[g].algo_initialized
        BY <1>1, <2>1, <2>4, <4>2 DEF LapSound, PctEvent, Event
      <4> QED BY <2>1, <2>4, <4>1, <4>3 DEF DsqSound, Keeps
    <3> QED BY <3>1, <3>2
  <2>5. CASE Eid[u] = g /\ Algorithm # "RP" /\ ~pct
    BY <2>5 DEF DsqSound, Keeps, PctEvent
  <2> QED BY <2>2, <2>3, <2>4, <2>5 DEF PctEvent
<1>7. ASSUME NEW h \in Group PROVE LapSound(h)'
  <2>1. LapSound(h)
    BY DEF AlgoInv
  <2>2. CASE h # g
    <3>1. algo'[h] = algo[h] /\ slots'[h] = slots[h]
      BY <1>1, <2>2, EventSlots DEF Event
    <3>2. Parked(h)' = Parked(h)
      BY <1>4, <2>2 DEF Parked, Members
    <3> QED BY <2>1, <3>1, <3>2 DEF LapSound, Start
  <2>3. CASE h = g
    <3>1. algo'[g].pct_strata <= algo'[g].num_events_seen
      BY EventLap
    <3>2. ~algo'[g].algo_initialized => algo'[g].pct_strata = 0
      <4>1. ~algo'[g].algo_initialized => ~PctEvent(t) /\ ~algo[g].algo_initialized
        BY <1>1 DEF PctEvent, Event
      <4> QED BY <2>1, <2>3, <4>1, EventFields DEF LapSound
    <3>3. Algorithm = "PCT" /\ algo'[g].algo_initialized => slots'[g] \in [Slot -> Start]
      BY EventSlots DEF PctEvent
    <3> QED BY <1>1, <2>3, <3>1, <3>2, <3>3 DEF LapSound, Event, Start
  <2> QED BY <2>2, <2>3
<1> QED BY <1>3, <1>5, <1>6, <1>7 DEF AlgoInv

-----------------------------------------------------------------------------
(* The theorems about the algorithms.                                      *)

LEMMA AlgoInitInv == AlgoInit => AlgoInv
<1> SUFFICES ASSUME AlgoInit PROVE AlgoInv
  OBVIOUS
<1>1. /\ algo = [g \in Group |-> NewAlgo]
      /\ slots = [g \in Group |-> [s \in Slot |-> 0]]
      /\ cps = [g \in Group |-> [i \in ChangePoint |-> 0]]
      /\ det = [t \in Task |-> 0]
      /\ prio = [t \in Task |-> NoPrio]
      /\ vt = [t \in Task |-> 0]
      /\ where = [t \in Task |-> "off"]
  BY DEF AlgoInit, Init
<1>2. /\ NewAlgo \in AlgoRecord
      /\ NoPrio \in [priority : Nat, pct_initialized : BOOLEAN, access : Access]
      /\ NoPrio.pct_initialized = FALSE
      /\ NewAlgo.algo_initialized = FALSE /\ NewAlgo.expected_events = 0
      /\ NewAlgo.num_events_seen = 0 /\ NewAlgo.pct_strata = 0
  BY DEF NewAlgo, NoPrio, AlgoRecord, Access
<1>3. AlgoTypeOK
  BY <1>1, <1>2 DEF AlgoTypeOK, AlgoRecord
<1>4. \A t \in Task : RankSound(t) /\ DsqSound(t)
  BY <1>1, <1>2 DEF RankSound, DsqSound
<1>5. \A g \in Group : LapSound(g)
  BY <1>1, <1>2, BoundsAssumption DEF LapSound
<1> QED BY <1>3, <1>4, <1>5 DEF AlgoInv

LEMMA AlgoInvStep ==
  ASSUME IInv, IInv', AlgoInv, [AlgoNext]_allVars
  PROVE  AlgoInv'
<1>1. CASE AlgoDispatchMove
  BY <1>1, MoveStep
<1>2. CASE DispatchEmpty /\ UNCHANGED algoVars
  <2>1. UNCHANGED <<algo, slots, cps, det, prio, vt, tctx, where>>
    BY <1>2 DEF DispatchEmpty, algoVars
  <2>2. AlgoTypeOK' /\ TypeOK
    BY <2>1 DEF AlgoInv, AlgoTypeOK, IInv
  <2> QED BY <2>1, <2>2, QuietStep DEF SameLap, Joined
<1>3. ASSUME NEW t \in Task,
             \/ AlgoRegister(t) \/ AlgoEnqueueGlobal(t)
             \/ AlgoEnqueuePark(t) \/ AlgoExitTask(t) \/ Plain(t)
      PROVE  AlgoInv'
  BY <1>3, OtherSteps, ParkStep, ExitStep
<1>4. CASE UNCHANGED allVars
  <2>1. UNCHANGED <<algo, slots, cps, det, prio, vt, tctx, where>>
    BY <1>4 DEF allVars, vars, algoVars
  <2>2. AlgoTypeOK' /\ TypeOK
    BY <2>1 DEF AlgoInv, AlgoTypeOK, IInv
  <2> QED BY <2>1, <2>2, QuietStep DEF SameLap, Joined
<1> QED BY <1>1, <1>2, <1>3, <1>4 DEF AlgoNext

(* The maps of the algorithms keep their types: no priority that PCT       *)
(* computes ever goes negative, whatever the shuffle (get_strata_base).    *)
THEOREM AlgoInvariant == AlgoSpec => [](AlgoInv /\ AlgoTypeOK)
<1>1. AlgoSpec => []IInv
  BY AlgoImplementsGate, Invariance, PTL
<1>2. IInv /\ IInv' /\ AlgoInv /\ [AlgoNext]_allVars => AlgoInv'
  BY AlgoInvStep
<1>3. AlgoInv => AlgoTypeOK
  BY DEF AlgoInv
<1> QED BY <1>1, <1>2, <1>3, AlgoInitInv, PTL DEF AlgoSpec

(* GROUP_DSQ is in the order of the priorities under PCT, from the first   *)
(* cycle of known length on, and under RP: serialise_dispatch moves the    *)
(* task the algorithm ranks highest.  POS and RW change the priority of    *)
(* tasks that are already parked.                                          *)
THEOREM DispatchFollowsPriority ==
  ASSUME Algorithm \in {"PCT", "RP"}
  PROVE  AlgoSpec => []DsqInPriorityOrder
<1>1. AlgoInv => DsqInPriorityOrder
  <2> SUFFICES ASSUME AlgoInv, NEW g \in Group,
                      Algorithm = "PCT" => algo[g].algo_initialized,
                      NEW t \in Parked(g), NEW u \in Parked(g),
                      prio[t].priority > prio[u].priority
               PROVE  vt[t] > vt[u]
    BY DEF DsqInPriorityOrder
  <2>1. DsqSound(t) /\ DsqSound(u) /\ Keeps(Eid[t]) /\ Keeps(Eid[u])
    BY DEF AlgoInv, Parked, Members, Keeps
  <2> QED BY <2>1 DEF DsqSound, Parked, Members
<1> QED BY <1>1, AlgoInvariant, PTL

(* A demoted participant ranks below every participant of its cycle that   *)
(* was not demoted, for every shuffle, change points and depth.            *)
THEOREM DemotionsWork == AlgoSpec => []DemotedRankBelow
<1>1. AlgoInv => DemotedRankBelow
  <2> SUFFICES ASSUME AlgoInv, NEW g \in Group,
                      NEW t \in Demoted(g), NEW u \in Ranked(g) \ Demoted(g)
               PROVE  prio[t].priority < prio[u].priority
    BY DEF DemotedRankBelow
  <2>1. /\ t \in Task /\ u \in Task /\ Eid[t] = g /\ Eid[u] = g
        /\ prio[t].pct_initialized /\ prio[u].pct_initialized
        /\ prio[t].priority # StartPriority(t) /\ prio[u].priority = StartPriority(u)
    BY DEF Demoted, Ranked, JoinedIn, Members
  <2>2. RankSound(t) /\ RankSound(u) /\ LapSound(g) /\ AlgoTypeOK
    BY <2>1 DEF AlgoInv
  <2>3. prio[t].priority < StrataBase(0) + Depth /\ prio[t].priority \in Nat
    BY <2>1, <2>2 DEF RankSound, AlgoTypeOK
  <2>4. slots[g] \in [Slot -> Start]
    BY <2>1, <2>2 DEF RankSound, LapSound
  <2>5. det[u] % MaxCycleThreads \in Slot
    BY <2>1, <2>2, SlotsAssumption DEF AlgoTypeOK, Slot
  <2>6. StartPriority(u) \in Start
    BY <2>1, <2>4, <2>5 DEF StartPriority
  <2>7. StrataBase(0) \in Int /\ Depth \in Nat
    BY Strata, BoundsAssumption, DepthAssumption, SlotsAssumption
  <2> QED BY <2>1, <2>3, <2>6, <2>7 DEF Start
<1> QED BY <1>1, AlgoInvariant, PTL

(* The first demotion of a new lap puts its task below every participant   *)
(* of the cycle, those demoted in earlier laps included.                   *)
THEOREM NewStratum == AlgoSpec => NewStratumIsLowest
<1> DEFINE Lowest == \A g \in Group : algo'[g].pct_strata > algo[g].pct_strata =>
             \E t \in Members(g) : \A u \in Ranked(g)' \ {t} :
               prio'[t].priority < prio'[u].priority
<1>1. IInv /\ IInv' /\ AlgoInv /\ AlgoInv' /\ [AlgoNext]_allVars => [Lowest]_allVars
  <2> SUFFICES ASSUME IInv, IInv', AlgoInv, AlgoInv', AlgoNext,
                      NEW g \in Group, algo'[g].pct_strata > algo[g].pct_strata
               PROVE  \E t \in Members(g) : \A u \in Ranked(g)' \ {t} :
                        prio'[t].priority < prio'[u].priority
    OBVIOUS
  <2>1. algo \in [Group -> AlgoRecord] /\ algo[g].pct_strata \in Nat
    BY DEF AlgoInv, AlgoTypeOK, AlgoRecord
  <2>2. ASSUME SameLap(g) PROVE FALSE
    BY <2>1, <2>2 DEF SameLap
  <2>3. CASE AlgoDispatchMove \/ (DispatchEmpty /\ UNCHANGED algoVars)
    BY <2>2, <2>3 DEF AlgoDispatchMove, algoVars, SameLap
  <2>4. ASSUME NEW t \in Task, AlgoRegister(t) \/ AlgoEnqueueGlobal(t) \/ Plain(t)
        PROVE  FALSE
    <3>1. /\ AlgoTypeOK /\ UNCHANGED <<slots, cps, prio, vt>>
          /\ AssignDetId(t) \/ UNCHANGED <<algo, det>>
      BY <2>4, Zenon DEF AlgoRegister, AlgoEnqueueGlobal, Plain, algoVars, AlgoInv
    <3>2. SameLap(g)
      BY <3>1, AssignTypes DEF SameLap
    <3> QED BY <2>2, <3>2
  <2>5. ASSUME NEW t \in Task, AlgoExitTask(t) PROVE FALSE
    <3>1. algo'[g] = algo[g] \/ algo'[g] = ResetAlgo(algo[g])
      BY <2>1, <2>5, Zenon DEF AlgoExitTask
    <3>2. ResetAlgo(algo[g]).pct_strata = 0
      BY DEF ResetAlgo, NewAlgo
    <3> QED BY <2>1, <3>1, <3>2
  <2>6. ASSUME NEW t \in Task, AlgoEnqueuePark(t)
        PROVE  \E v \in Members(g) : \A u \in Ranked(g)' \ {v} :
                 prio'[v].priority < prio'[u].priority
    <3> DEFINE old == algo[g].pct_strata
               new == algo'[g].pct_strata
    <3>1. Event(t) /\ Eid[t] = g
      BY <2>1, <2>6, EventFields DEF Event
    <3>2. /\ new = old + 1 /\ PctEvent(t)
          /\ HitPoints(g, algo[g].num_events_seen + 1) # {}
          /\ StrataBase(new) \in Nat /\ StrataBase(old) \in Nat
          /\ StrataBase(old) <= StrataBase(0)
          /\ StrataBase(new) = StrataBase(old) - MaxCycleThreads
      BY <2>1, <2>6, <3>1, EventLap
    <3>3. /\ prio'[t].priority < StrataBase(new) + Depth /\ prio'[t].priority \in Nat
          /\ \A u \in Task \ {t} : prio'[u] = prio[u]
      BY <2>6, <3>1, <3>2, EventRank, Zenon
    <3>4. MaxCycleThreads \in Nat \ {0} /\ Depth \in Nat /\ Depth <= MaxCycleThreads + 1
          /\ StrataBase(0) \in Int
      BY SlotsAssumption, DepthAssumption, Strata, BoundsAssumption
    <3>5. ASSUME NEW u \in Ranked(g)' \ {t} PROVE prio'[t].priority < prio'[u].priority
      <4>1. u \in Task \ {t} /\ Eid[u] = g /\ prio[u].pct_initialized /\ prio'[u] = prio[u]
        BY <3>3 DEF Ranked, JoinedIn, Members
      <4>2. RankSound(u) /\ LapSound(g) /\ AlgoTypeOK
        BY <4>1 DEF AlgoInv
      <4>3. slots[g] \in [Slot -> Start] /\ det[u] % MaxCycleThreads \in Slot
        BY <4>1, <4>2, SlotsAssumption DEF RankSound, LapSound, AlgoTypeOK, Slot
      <4>4. StartPriority(u) \in Start
        BY <4>1, <4>3 DEF StartPriority
      <4>5. prio[u].priority = StartPriority(u) \/ prio[u].priority > StrataBase(old)
        BY <4>1, <4>2 DEF RankSound
      <4>6. prio[u].priority \in Nat
        BY <4>1, <4>2 DEF AlgoTypeOK
      <4> HIDE DEF new, old
      <4> QED BY <3>2, <3>3, <3>4, <4>1, <4>4, <4>5, <4>6 DEF Start
    <3> QED BY <3>1, <3>5 DEF Members
  <2> QED BY <2>3, <2>4, <2>5, <2>6 DEF AlgoNext
<1>2. AlgoSpec => []IInv
  BY AlgoImplementsGate, Invariance, PTL
<1>3. AlgoSpec => [][Lowest]_allVars
  BY <1>1, <1>2, AlgoInvariant, PTL DEF AlgoSpec
<1> QED BY <1>3 DEF NewStratumIsLowest

=============================================================================
