--------------------------- MODULE SerialiseProofs ---------------------------
(***************************************************************************)
(* IInv is an invariant of Serialise for every set of tasks and groups,    *)
(* every cycle_thread_count and every queue size; the properties of        *)
(* Serialise follow from it.                                               *)
(***************************************************************************)
EXTENDS SerialiseInv, FiniteSetTheorems, TLAPS

USE SMT, Zenon, SMTT(30)    \* the provers of a step that names none, in this order

-----------------------------------------------------------------------------
(* Tokens in a queue.                                                      *)

HasToken(q, g) == \E i \in 1..Len(q) : q[i] = g
OneToken(q, g) == \A i, j \in 1..Len(q) : q[i] = g /\ q[j] = g => i = j

(* Popping the gate queue keeps the tokens of every group apart, and       *)
(* leaves no second token of a group that had one.                         *)
LEMMA PopTokens ==
  ASSUME NEW q \in Seq(Group), q # <<>>
  PROVE  /\ Tail(q) \in Seq(Group)
         /\ Head(q) \in Group
         /\ \A h \in Group : HasToken(Tail(q), h) => HasToken(q, h)
         /\ \A h \in Group : OneToken(q, h) => OneToken(Tail(q), h)
         /\ OneToken(q, Head(q)) => ~HasToken(Tail(q), Head(q))
<1>1. /\ Tail(q) \in Seq(Group)
      /\ Head(q) \in Group /\ Head(q) = q[1]
      /\ Len(q) \in Nat /\ Len(q) > 0
      /\ Len(Tail(q)) = Len(q) - 1
      /\ \A i \in 1..Len(Tail(q)) : Tail(q)[i] = q[i+1]
  OBVIOUS
<1>2. \A i \in 1..Len(Tail(q)) : i + 1 \in 1..Len(q) /\ Tail(q)[i] = q[i+1]
  BY <1>1
<1>3. ASSUME NEW h \in Group, HasToken(Tail(q), h) PROVE HasToken(q, h)
  BY <1>2, <1>3 DEF HasToken
<1>4. ASSUME NEW h \in Group, OneToken(q, h) PROVE OneToken(Tail(q), h)
  BY <1>1, <1>2, <1>4 DEF OneToken
<1>5. ASSUME OneToken(q, Head(q)) PROVE ~HasToken(Tail(q), Head(q))
  BY <1>1, <1>2, <1>5 DEF OneToken, HasToken
<1> QED BY <1>1, <1>3, <1>4, <1>5

(* A push adds a token of the pushed group only, even when it drops the    *)
(* oldest token of a full queue.                                           *)
LEMMA PushTokens ==
  ASSUME NEW q \in Seq(Group), NEW g \in Group
  PROVE  /\ PushGate(q, g) \in Seq(Group)
         /\ \A h \in Group \ {g} : HasToken(PushGate(q, g), h) => HasToken(q, h)
         /\ \A h \in Group \ {g} : OneToken(q, h) => OneToken(PushGate(q, g), h)
         /\ ~HasToken(q, g) => OneToken(PushGate(q, g), g)
<1> DEFINE r == IF Len(q) < QueueMax THEN q ELSE Tail(q)
<1>1. /\ r \in Seq(Group)
      /\ \A h \in Group : HasToken(r, h) => HasToken(q, h)
      /\ \A h \in Group : OneToken(q, h) => OneToken(r, h)
  <2>1. CASE Len(q) < QueueMax
    BY <2>1
  <2>2. CASE ~(Len(q) < QueueMax)
    <3>1. q # <<>>
      BY <2>2, QueueMaxAssumption
    <3> QED BY <2>2, <3>1, PopTokens
  <2> QED BY <2>1, <2>2
<1> HIDE DEF r
<1>2. /\ Append(r, g) \in Seq(Group)
      /\ Len(r) \in Nat
      /\ Len(Append(r, g)) = Len(r) + 1
      /\ \A i \in 1..Len(r) : Append(r, g)[i] = r[i]
      /\ Append(r, g)[Len(r) + 1] = g
  BY <1>1
<1>3. \A i \in 1..Len(Append(r, g)) :
         \/ i \in 1..Len(r) /\ Append(r, g)[i] = r[i]
         \/ i = Len(r) + 1 /\ Append(r, g)[i] = g
  BY <1>2
<1>4. ASSUME NEW h \in Group \ {g}, HasToken(Append(r, g), h) PROVE HasToken(q, h)
  BY <1>1, <1>3, <1>4 DEF HasToken
<1>5. ASSUME NEW h \in Group \ {g}, OneToken(q, h) PROVE OneToken(Append(r, g), h)
  BY <1>1, <1>3, <1>5 DEF OneToken
<1>6. ASSUME ~HasToken(q, g) PROVE OneToken(Append(r, g), g)
  BY <1>1, <1>3, <1>6 DEF OneToken, HasToken
<1> QED BY <1>2, <1>4, <1>5, <1>6 DEF PushGate, r

-----------------------------------------------------------------------------
(* Frames: what a step that leaves a group, or its participants, alone     *)
(* does to the group's part of the invariant.                              *)

OnlyTask(t) ==
  \A u \in Task \ {t} : tctx'[u] = tctx[u] /\ where'[u] = where[u]

(* Sets of tasks have a size.                                              *)
LEMMA TaskSets ==
  ASSUME NEW S \in SUBSET Task
  PROVE  IsFiniteSet(S) /\ Cardinality(S) \in Nat
BY TaskAssumption, FS_Subset, FS_CardinalityType

(* A group whose tasks and cycle a step leaves alone stays sound, provided *)
(* the step adds no token of the group.                                    *)
LEMMA OtherGroup ==
  ASSUME IInv, NEW h \in Group,
         \A u \in Members(h) : tctx'[u] = tctx[u] /\ where'[u] = where[u],
         cycle'[h] = cycle[h], leftover'[h] = leftover[h],
         HasToken(gateq', h) => HasToken(gateq, h),
         OneToken(gateq, h) => OneToken(gateq', h)
  PROVE  GroupSound(h)'
<1>1. GroupSound(h)
  BY DEF IInv
<1>2. /\ JoinedIn(h)' = JoinedIn(h)
      /\ Parked(h)' = Parked(h)
  BY DEF JoinedIn, Parked, Joined
<1>3. /\ AsleepIn(h)' = AsleepIn(h)
      /\ Released(h)' = Released(h)
      /\ Ungated(h)' = Ungated(h)
      /\ \A t \in JoinedIn(h) : where'[t] = where[t]
  BY <1>2 DEF AsleepIn, Released, Ungated, JoinedIn
<1>4. AccountingOf(h)'
  BY <1>1, <1>2, <1>3 DEF GroupSound, AccountingOf
<1>5. StateSoundOf(h)' /\ NobodyUngated(h)'
  BY <1>1, <1>3 DEF GroupSound, StateSoundOf, NobodyUngated
<1>6. ~leftover'[h] => GateSoundOf(h)'
  BY <1>1, <1>2, <1>3
     DEF GroupSound, GateSoundOf, UniqueToken, TokenFor, HasToken, OneToken
<1> QED BY <1>4, <1>5, <1>6 DEF GroupSound

(* A step of a thread that is no participant, before and after it, leaves  *)
(* every group sound.                                                      *)
LEMMA OutsiderStep ==
  ASSUME IInv, NEW t \in Task, OnlyTask(t),
         ~Joined(t), ~Joined(t)', where[t] # "dsq", where'[t] # "dsq",
         UNCHANGED <<cycle, gateq, leftover>>
  PROVE  \A g \in Group : GroupSound(g)'
<1> SUFFICES ASSUME NEW g \in Group PROVE GroupSound(g)'
  OBVIOUS
<1>1. GroupSound(g)
  BY DEF IInv
<1>2. /\ JoinedIn(g)' = JoinedIn(g)
      /\ Parked(g)' = Parked(g)
  BY DEF JoinedIn, Parked, Joined, OnlyTask, Members
<1>3. t \notin JoinedIn(g) /\ JoinedIn(g) \subseteq Task
  BY DEF JoinedIn, Members
<1>4. /\ AsleepIn(g)' = AsleepIn(g)
      /\ Released(g)' = Released(g)
      /\ Ungated(g)' = Ungated(g)
      /\ \A u \in JoinedIn(g) : where'[u] = where[u]
  BY <1>2, <1>3 DEF AsleepIn, Released, Ungated, OnlyTask
<1>5. AccountingOf(g)'
  BY <1>1, <1>2, <1>4 DEF GroupSound, AccountingOf
<1>6. StateSoundOf(g)' /\ NobodyUngated(g)'
  BY <1>1, <1>4 DEF GroupSound, StateSoundOf, NobodyUngated
<1>7. ~leftover'[g] => GateSoundOf(g)'
  BY <1>1, <1>2, <1>4 DEF GroupSound, GateSoundOf, UniqueToken, TokenFor
<1> QED BY <1>5, <1>6, <1>7 DEF GroupSound

-----------------------------------------------------------------------------
(* Types.                                                                  *)

(* Every critical section takes cycles to cycles; that of the exit does    *)
(* because a participant is always expected.                               *)
LEMMA SectionTypes ==
  ASSUME NEW c \in Cycle
  PROVE  /\ CountEnqueue(c) \in Cycle
         /\ CountMoved(c) \in Cycle
         /\ CountEmpty(c) \in Cycle
         /\ CountWake(c) \in Cycle
         /\ CountJoin(c) \in Cycle
         /\ \A b : CountSleep(c, b) \in Cycle
         /\ \A b : ClaimGate(c, b) \in Cycle
         /\ c.num_expected_threads > 0 => \A a, b : CountExit(c, a, b) \in Cycle
         /\ NewCycle \in Cycle
         /\ ResetCycle(c) = NewCycle
<1>1. /\ \A n \in Nat : DecIfPositive(n) \in Nat
      /\ CycleThreadCount \in Nat
      /\ c.state \in CycleState
      /\ {"UNAVAILABLE", "READY", "RUNNING", "TIMEOUT"} \subseteq CycleState
  BY CycleThreadCountAssumption DEF DecIfPositive, CycleState, Cycle
<1>2. CountEnqueue(c) \in Cycle
  BY DEF CountEnqueue, Cycle
<1>3. CountMoved(c) \in Cycle /\ CountEmpty(c) \in Cycle /\ CountWake(c) \in Cycle
  BY Zenon, <1>1 DEF CountMoved, CountEmpty, CountWake, Cycle
<1>4. CountJoin(c) \in Cycle
  <2>1. /\ c.num_alive + 1 \in Nat
        /\ (IF c.num_alive + 1 = c.num_expected_threads THEN "READY" ELSE c.state)
             \in CycleState
    BY <1>1 DEF Cycle
  <2> QED BY Zenon, <2>1 DEF CountJoin, Cycle
<1>5. ASSUME NEW b PROVE CountSleep(c, b) \in Cycle /\ ClaimGate(c, b) \in Cycle
  <2>1. (IF b THEN "TIMEOUT" ELSE "RUNNING") \in CycleState
    BY <1>1
  <2>2. /\ (IF b THEN DecIfPositive(c.num_queued) ELSE c.num_queued) \in Nat
        /\ c.num_asleep + 1 \in Nat
    BY <1>1 DEF Cycle
  <2>3. CountSleep(c, b) \in Cycle
    BY Zenon, <2>2 DEF CountSleep, Cycle
  <2>4. ClaimGate(c, b) \in Cycle
    BY Zenon, <2>1 DEF ClaimGate, Cycle
  <2> QED BY <2>3, <2>4
<1>6. ASSUME c.num_expected_threads > 0, NEW a, NEW b
      PROVE  CountExit(c, a, b) \in Cycle
  <2>1. /\ (IF c.state \in {"READY", "UNAVAILABLE"}
            THEN c.num_expected_threads - 1 ELSE c.num_expected_threads) \in Nat
        /\ (IF a THEN DecIfPositive(c.num_queued) ELSE c.num_queued) \in Nat
        /\ (IF b THEN DecIfPositive(c.num_asleep) ELSE c.num_asleep) \in Nat
        /\ DecIfPositive(c.num_alive) \in Nat
    BY <1>1, <1>6 DEF Cycle
  <2> QED BY Zenon, <2>1 DEF CountExit, Cycle
<1>7. NewCycle \in Cycle /\ ResetCycle(c) \in Cycle
  BY Zenon, <1>1 DEF NewCycle, ResetCycle, Cycle
<1>8. ResetCycle(c) = NewCycle
  <2> DEFINE r == ResetCycle(c)
  <2>1. r = [num_expected_threads |-> r.num_expected_threads,
             num_queued |-> r.num_queued,
             num_asleep |-> r.num_asleep,
             num_alive |-> r.num_alive,
             pending_dispatch |-> r.pending_dispatch,
             state |-> r.state]
    BY <1>7 DEF Cycle
  <2>2. /\ r.num_expected_threads = CycleThreadCount
        /\ r.num_queued = 0 /\ r.num_asleep = 0 /\ r.num_alive = 0
        /\ r.pending_dispatch = FALSE /\ r.state = "UNAVAILABLE"
    BY DEF ResetCycle, Cycle
  <2> QED BY <2>1, <2>2 DEF NewCycle
<1> QED BY <1>2, <1>3, <1>4, <1>5, <1>6, <1>7, <1>8

(* Claiming the gate keeps the queue a queue of groups.                    *)
LEMMA ClaimTypes ==
  ASSUME NEW q \in Seq(Group), NEW g \in Group, NEW c
  PROVE  ClaimedQueue(q, g, c) \in Seq(Group)
BY PushTokens DEF ClaimedQueue

(* Contexts have their type.                                               *)
LEMMA CtxTypes ==
  ASSUME TypeOK, NEW t \in Task
  PROVE  /\ NoCtx \in TaskCtx
         /\ NewCtx \in TaskCtx
         /\ EnsuredCtx(t) \in TaskCtx
         /\ \A s \in ThreadState : [EnsuredCtx(t) EXCEPT !.state = s] \in TaskCtx
<1>1. tctx[t] \in TaskCtx
  BY DEF TypeOK
<1>2. NoCtx \in TaskCtx /\ NewCtx \in TaskCtx
  BY DEF TaskCtx, NoCtx, NewCtx, ThreadState, JoinedState
<1>3. EnsuredCtx(t) \in TaskCtx
  BY <1>1, <1>2 DEF EnsuredCtx
<1>4. ASSUME NEW x \in TaskCtx, NEW s \in ThreadState
      PROVE  [x EXCEPT !.state = s] \in TaskCtx
  BY DEF TaskCtx
<1> QED BY <1>2, <1>3, <1>4

(* Every step keeps the types.                                             *)
LEMMA TypeStep ==
  ASSUME IInv, Next
  PROVE  TypeOK'
<1> USE DEF TypeOK
<1>1. TypeOK /\ \A t \in Task : Eid[t] \in Group /\ where[t] \in Location
  BY EidAssumption DEF IInv
<1>2. \A g \in Group : cycle[g] \in Cycle /\ cycle[g].num_expected_threads > 0
  BY DEF IInv, GroupSound, StateSoundOf
<1>3. ASSUME NEW t \in Task, TaskNext(t) PROVE TypeOK'
  <2> DEFINE g == Eid[t]
  <2>1. g \in Group /\ cycle[g] \in Cycle
    BY <1>1, <1>2
  <2>2. ASSUME NEW c \in Cycle, NEW open, NEW timeout,
               SetCycleAndGate(g, c, open, timeout)
        PROVE  cycle' \in [Group -> Cycle] /\ gateq' \in Seq(Group)
    BY Zenon, <1>1, <2>1, <2>2, SectionTypes, ClaimTypes DEF SetCycleAndGate
  <2>3. CASE SetSchedPolicy(t)
    BY <1>1, <2>3 DEF SetSchedPolicy, Location
  <2>4. CASE InitTask(t)
    BY <1>1, <2>4, CtxTypes DEF InitTask, EnsureTaskCtx, Location
  <2>5. CASE YieldJoin(t)
    BY Zenon, <1>1, <2>1, <2>5, CtxTypes, SectionTypes
       DEF YieldJoin, Location, ThreadState, JoinedState
  <2>6. CASE YieldLate(t)
    BY Zenon, <1>1, <2>1, <2>6, CtxTypes DEF YieldLate, ThreadState
  <2>7. CASE YieldNoCtx(t)
    BY <1>1, <2>7, CtxTypes DEF YieldNoCtx, EnsureTaskCtx
  <2>8. CASE EnqueueGlobal(t)
    BY <1>1, <2>8, CtxTypes DEF EnqueueGlobal, EnsureTaskCtx, Location
  <2>9. CASE EnqueuePark(t)
    <3>1. cycle' \in [Group -> Cycle] /\ gateq' \in Seq(Group)
      BY Zenon, <2>1, <2>2, <2>9, SectionTypes DEF EnqueuePark
    <3> QED BY ZenonT(30), <1>1, <2>9, <3>1
            DEF EnqueuePark, Location, TaskCtx, ThreadState, JoinedState
  <2>10. CASE Running(t)
    BY ZenonT(30), <1>1, <2>10 DEF Running, Location, TaskCtx, ThreadState, JoinedState
  <2>11. ASSUME HandleExecutorSleep(t)
         PROVE  /\ cycle' \in [Group -> Cycle] /\ gateq' \in Seq(Group)
                /\ tctx' \in [Task -> TaskCtx]
    <3>1. CountSleep(cycle[g], Queued(t)) \in Cycle
      BY Zenon, <2>1, SectionTypes
    <3>2. CASE Joined(t) /\ ~tctx[t].is_asleep
      <4>1. cycle' \in [Group -> Cycle] /\ gateq' \in Seq(Group)
        BY Zenon, <2>2, <2>11, <3>1, <3>2 DEF HandleExecutorSleep
      <4>2. tctx' = [tctx EXCEPT ![t] = [tctx[t] EXCEPT !.is_asleep = TRUE,
                        !.timed = IF Queued(t) THEN FALSE ELSE tctx[t].timed]]
        BY Zenon, <1>1, <2>11, <3>2 DEF HandleExecutorSleep
      <4>3. [tctx[t] EXCEPT !.is_asleep = TRUE,
               !.timed = IF Queued(t) THEN FALSE ELSE tctx[t].timed] \in TaskCtx
        <5>1. tctx[t] \in TaskCtx /\ (IF Queued(t) THEN FALSE ELSE tctx[t].timed) \in BOOLEAN
          BY Zenon, <1>1 DEF TaskCtx
        <5> QED BY Zenon, <5>1 DEF TaskCtx
      <4> QED BY <1>1, <4>1, <4>2, <4>3
    <3> QED BY Zenon, <1>1, <2>11, <3>2 DEF HandleExecutorSleep
  <2>12. CASE Block(t)
    BY <1>1, <2>11, <2>12 DEF Block, Location
  <2>13. CASE Die(t)
    BY <1>1, <2>11, <2>13 DEF Die, Location
  <2>14. CASE Runnable(t)
    <3>1. CountWake(cycle[g]) \in Cycle
      BY <2>1, SectionTypes
    <3>2. CASE tctx[t].is_asleep
      <4>1. cycle' \in [Group -> Cycle] /\ gateq' \in Seq(Group)
        BY Zenon, <2>2, <2>14, <3>1, <3>2 DEF Runnable
      <4> QED BY ZenonT(30), <1>1, <2>14, <3>2, <4>1 DEF Runnable, TaskCtx, Location
    <3>3. CASE ~tctx[t].is_asleep
      BY <1>1, <2>14, <3>3 DEF Runnable, Location
    <3> QED BY <3>2, <3>3
  <2>15. CASE PlaceOnIdleCpu(t)
    BY <1>1, <2>15 DEF PlaceOnIdleCpu, Location
  <2>16. CASE ExitTask(t)
    <3> DEFINE c == CountExit(cycle[g], Queued(t), tctx[t].is_asleep)
               claimed == IF ExitGateOpens(c) THEN ClaimGate(c, c.state = "TIMEOUT") ELSE c
    <3>1. c \in Cycle
      BY <1>2, <2>1, SectionTypes
    <3>2. claimed \in Cycle /\ ResetCycle(claimed) \in Cycle
      BY <3>1, SectionTypes
    <3>3. ClaimedQueue(gateq, g, c) \in Seq(Group)
      BY <1>1, <2>1, ClaimTypes
    <3>4. /\ cycle' \in [Group -> Cycle] /\ gateq' \in Seq(Group)
          /\ leftover' \in [Group -> BOOLEAN]
      BY Zenon, <1>1, <2>1, <2>16, <3>1, <3>2, <3>3 DEF ExitTask
    <3> QED BY <1>1, <2>16, <3>4, CtxTypes DEF ExitTask, Location
  <2>17. CASE CheckDispatchTimeout(t)
    <3>1. cycle' \in [Group -> Cycle] /\ gateq' \in Seq(Group)
      BY Zenon, <2>1, <2>2, <2>17 DEF CheckDispatchTimeout
    <3> QED BY <1>1, <2>17, <3>1
            DEF CheckDispatchTimeout, TaskCtx, ThreadState, JoinedState
  <2> QED BY <1>3, <2>3, <2>4, <2>5, <2>6, <2>7, <2>8, <2>9, <2>10, <2>12, <2>13,
             <2>14, <2>15, <2>16, <2>17 DEF TaskNext
<1>4. CASE DispatchMove
  <2> DEFINE g == Head(gateq)
             c == CountMoved(cycle[g])
  <2>1. g \in Group /\ Tail(gateq) \in Seq(Group) /\ c \in Cycle
    BY <1>1, <1>4, PopTokens, SectionTypes DEF DispatchMove
  <2>2. ClaimGate(c, TRUE) \in Cycle /\ ClaimedQueue(Tail(gateq), g, c) \in Seq(Group)
    BY Zenon, <2>1, SectionTypes, ClaimTypes
  <2> QED BY Zenon, <1>1, <1>4, <2>1, <2>2 DEF DispatchMove, Location
<1>5. CASE DispatchEmpty
  <2> DEFINE g == Head(gateq)
             c == CountEmpty(cycle[g])
  <2>1. g \in Group /\ Tail(gateq) \in Seq(Group) /\ c \in Cycle
    BY <1>1, <1>5, PopTokens, SectionTypes DEF DispatchEmpty
  <2>2. /\ ClaimGate(c, c.state = "TIMEOUT") \in Cycle
        /\ ClaimedQueue(Tail(gateq), g, c) \in Seq(Group)
    BY Zenon, <2>1, SectionTypes, ClaimTypes
  <2> QED BY <1>1, <1>5, <2>1, <2>2 DEF DispatchEmpty
<1> QED BY <1>3, <1>4, <1>5 DEF Next

-----------------------------------------------------------------------------
(* Contexts.                                                               *)

(* A callback for a task touches the context and the place of no other.    *)
LEMMA TaskNextFrame ==
  ASSUME TypeOK, NEW t \in Task, TaskNext(t)
  PROVE  OnlyTask(t) /\ created \subseteq created'
<1> USE DEF TypeOK, OnlyTask
<1>1. CASE SetSchedPolicy(t) \/ InitTask(t) \/ PlaceOnIdleCpu(t)
  BY <1>1 DEF SetSchedPolicy, InitTask, PlaceOnIdleCpu, EnsureTaskCtx
<1>2. CASE YieldJoin(t) \/ YieldLate(t) \/ YieldNoCtx(t)
  BY <1>2 DEF YieldJoin, YieldLate, YieldNoCtx, EnsureTaskCtx
<1>3. CASE EnqueueGlobal(t) \/ EnqueuePark(t) \/ Running(t)
  BY Zenon, <1>3 DEF EnqueueGlobal, EnqueuePark, Running, EnsureTaskCtx
<1>4. CASE Block(t) \/ Die(t)
  BY Zenon, <1>4 DEF Block, Die, HandleExecutorSleep
<1>5. CASE Runnable(t) \/ ExitTask(t) \/ CheckDispatchTimeout(t)
  BY Zenon, <1>5 DEF Runnable, ExitTask, CheckDispatchTimeout
<1> QED BY <1>1, <1>2, <1>3, <1>4, <1>5 DEF TaskNext

(* Only the task of the callback need be looked at.                        *)
LEMMA ContextFrame ==
  ASSUME ContextSound, NEW t \in Task, OnlyTask(t), created \subseteq created',
         ContextSoundOf(t)'
  PROVE  ContextSound'
BY DEF ContextSound, ContextSoundOf, OnlyTask, Queued, Joined

(* ensure_task_ctx returns the context of a task that has one, and a fresh *)
(* one or none to a task that has none.                                    *)
LEMMA EnsuredCases ==
  ASSUME NEW t \in Task
  PROVE  \/ tctx[t].state # "NONE" /\ EnsuredCtx(t) = tctx[t]
         \/ tctx[t].state = "NONE" /\ EnsuredCtx(t) = NoCtx
         \/ tctx[t].state = "NONE" /\ EnsuredCtx(t) = NewCtx
BY DEF EnsuredCtx

(* What handle_executor_sleep writes into the context of its task.         *)
LEMMA SleepContext ==
  ASSUME TypeOK, NEW t \in Task, HandleExecutorSleep(t)
  PROVE  /\ Joined(t) /\ ~tctx[t].is_asleep =>
              /\ tctx'[t].state = tctx[t].state
              /\ tctx'[t].is_asleep = TRUE
              /\ tctx'[t].timed = IF Queued(t) THEN FALSE ELSE tctx[t].timed
         /\ ~(Joined(t) /\ ~tctx[t].is_asleep) => tctx' = tctx
<1>1. tctx \in [Task -> TaskCtx] /\ tctx[t] \in TaskCtx
  BY DEF TypeOK
<1>2. ASSUME Joined(t), ~tctx[t].is_asleep
      PROVE  tctx'[t] = [tctx[t] EXCEPT !.is_asleep = TRUE,
                           !.timed = IF Queued(t) THEN FALSE ELSE tctx[t].timed]
  BY Zenon, <1>1, <1>2 DEF HandleExecutorSleep
<1> QED BY Zenon, <1>1, <1>2 DEF HandleExecutorSleep, TaskCtx

(* Every step keeps the contexts in agreement with the kernel.             *)
LEMMA ContextStep ==
  ASSUME IInv, Next
  PROVE  ContextSound'
<1>1. TypeOK /\ ContextSound
  BY DEF IInv
<1>2. ASSUME NEW t \in Task, TaskNext(t) PROVE ContextSound'
  <2> SUFFICES ContextSoundOf(t)'
    BY <1>1, <1>2, TaskNextFrame, ContextFrame
  <2>1. /\ ContextSoundOf(t) /\ tctx[t] \in TaskCtx /\ where[t] \in Location
        /\ Eid[t] \in Group
        /\ tctx \in [Task -> TaskCtx] /\ where \in [Task -> Location]
    BY <1>1, EidAssumption DEF ContextSound, TypeOK
  <2> USE DEF ContextSoundOf, Queued, Joined, JoinedState
  <2>2. CASE SetSchedPolicy(t)
    BY <2>1, <2>2 DEF SetSchedPolicy
  <2>3. CASE InitTask(t)
    BY <2>1, <2>3, EnsuredCases DEF InitTask, EnsureTaskCtx, NoCtx, NewCtx, EnsuredCtx
  <2>4. CASE YieldJoin(t)
    BY <2>1, <2>4, EnsuredCases DEF YieldJoin, NoCtx, NewCtx, OnCpu, TaskCtx
  <2>5. CASE YieldLate(t)
    BY <2>1, <2>5, EnsuredCases DEF YieldLate, NoCtx, NewCtx, OnCpu, TaskCtx
  <2>6. CASE YieldNoCtx(t)
    BY <2>1, <2>6, EnsuredCases DEF YieldNoCtx, EnsureTaskCtx, NoCtx, NewCtx, OnCpu
  <2>7. CASE EnqueueGlobal(t)
    BY <2>1, <2>7, EnsuredCases
       DEF EnqueueGlobal, EnsureTaskCtx, NoCtx, NewCtx, CallsEnqueue
  <2>8. CASE EnqueuePark(t)
    BY <2>1, <2>8 DEF EnqueuePark, CallsEnqueue, TaskCtx
  <2>9. CASE Running(t)
    BY <2>1, <2>9 DEF Running, TaskCtx
  <2>10. CASE Block(t)
    BY Zenon, <1>1, <2>1, <2>10, SleepContext DEF Block, OnCpu
  <2>11. CASE Die(t)
    BY Zenon, <1>1, <2>1, <2>11, SleepContext DEF Die, OnCpu
  <2>12. CASE Runnable(t)
    BY ZenonT(30), <2>1, <2>12 DEF Runnable, TaskCtx
  <2>13. CASE PlaceOnIdleCpu(t)
    BY <2>1, <2>13 DEF PlaceOnIdleCpu
  <2>14. CASE ExitTask(t)
    BY <2>1, <2>14 DEF ExitTask, NoCtx
  <2>15. CASE CheckDispatchTimeout(t)
    BY <2>1, <2>15 DEF CheckDispatchTimeout, TaskCtx
  <2> QED BY <1>2, <2>2, <2>3, <2>4, <2>5, <2>6, <2>7, <2>8, <2>9, <2>10, <2>11,
             <2>12, <2>13, <2>14, <2>15 DEF TaskNext
<1>3. CASE DispatchMove
  <2>1. PICK t \in Parked(Head(gateq)) : where' = [where EXCEPT ![t] = "local"]
    BY Zenon, <1>3 DEF DispatchMove
  <2>2. t \in Task /\ where[t] = "dsq" /\ tctx' = tctx /\ created' = created
    BY <1>3 DEF DispatchMove, Parked, Members
  <2> QED BY <1>1, <2>1, <2>2
          DEF TypeOK, ContextSound, ContextSoundOf, Queued, Joined
<1>4. CASE DispatchEmpty
  BY <1>1, <1>4 DEF DispatchEmpty, ContextSound, ContextSoundOf, Queued, Joined
<1> QED BY <1>2, <1>3, <1>4 DEF Next

-----------------------------------------------------------------------------
(* Sizes.                                                                  *)

(* Adding a task to a set, or removing one, changes its size by one.       *)
LEMMA OneMore ==
  ASSUME NEW S \in SUBSET Task, NEW t \in Task
  PROVE  /\ t \notin S => Cardinality(S \cup {t}) = Cardinality(S) + 1
         /\ t \in S => /\ Cardinality(S \ {t}) = Cardinality(S) - 1
                       /\ Cardinality(S) > 0
<1>1. IsFiniteSet(S) /\ Cardinality(S) \in Nat
  BY TaskSets
<1>2. ASSUME t \notin S PROVE Cardinality(S \cup {t}) = Cardinality(S) + 1
  BY Zenon, <1>1, <1>2, FS_AddElement
<1>3. ASSUME t \in S
      PROVE  Cardinality(S \ {t}) = Cardinality(S) - 1 /\ Cardinality(S) > 0
  <2>1. Cardinality(S \ {t}) = Cardinality(S) - 1
    BY Zenon, <1>1, <1>3, FS_RemoveElement
  <2>2. S \ {t} \in SUBSET Task
    OBVIOUS
  <2>3. Cardinality(S \ {t}) \in Nat
    BY <2>2, TaskSets
  <2> QED BY <1>1, <2>1, <2>3
<1> QED BY <1>2, <1>3

(* Parked participants are awake participants; if they are as many, nobody *)
(* is out.  This is what makes the counters a sound test of the gate.      *)
SizesOf(g) ==
  /\ Cardinality(Parked(g)) \in Nat
  /\ Cardinality(AsleepIn(g)) \in Nat
  /\ Cardinality(JoinedIn(g)) \in Nat
  /\ Cardinality(Parked(g)) <= Cardinality(JoinedIn(g)) - Cardinality(AsleepIn(g))
  /\ Cardinality(Parked(g)) = Cardinality(JoinedIn(g)) - Cardinality(AsleepIn(g))
       => Released(g) = {}

SizesFact == TypeOK /\ ContextSound => \A g \in Group : SizesOf(g)

(* The sizes are as SizesOf says in every state with sound contexts.       *)
LEMMA Sizes == SizesFact
<1> SUFFICES ASSUME TypeOK, ContextSound, NEW g \in Group PROVE SizesOf(g)
  BY DEF SizesFact
<1> DEFINE J == JoinedIn(g)
           A == AsleepIn(g)
           P == Parked(g)
           D == J \ A
<1>1. /\ J \in SUBSET Task /\ A \in SUBSET Task /\ P \in SUBSET Task /\ D \in SUBSET Task
      /\ A \subseteq J
  BY DEF JoinedIn, AsleepIn, Parked, Members
<1>2. P \subseteq D
  BY DEF JoinedIn, AsleepIn, Parked, Members, ContextSound, ContextSoundOf, Queued,
         Joined, JoinedState
<1>3. Released(g) \subseteq D /\ Released(g) \cap P = {}
  BY DEF Released, JoinedIn, AsleepIn, Parked, Members, ContextSound, ContextSoundOf
<1> HIDE DEF J, A, P
<1>4. /\ IsFiniteSet(J) /\ IsFiniteSet(D)
      /\ Cardinality(J) \in Nat /\ Cardinality(A) \in Nat
      /\ Cardinality(P) \in Nat /\ Cardinality(D) \in Nat
  BY <1>1, TaskSets
<1>5. Cardinality(D) = Cardinality(J) - Cardinality(A)
  <2>1. J \cap A = A
    BY <1>1
  <2> QED BY Zenon, <1>4, <2>1, FS_Difference
<1>6. Cardinality(P) <= Cardinality(D)
  BY <1>2, <1>4, FS_Subset
<1>7. ASSUME Cardinality(P) = Cardinality(D) PROVE Released(g) = {}
  <2>1. P = D
    BY <1>2, <1>4, <1>7, FS_Subset
  <2> QED BY <1>3, <2>1
<1> QED BY <1>4, <1>5, <1>6, <1>7 DEF SizesOf, J, A, P

(* The same in the state after a step.                                     *)
LEMMA SizesNext == SizesFact'
BY Sizes, PTL

-----------------------------------------------------------------------------
(* The steps of a participant.                                             *)

(* What a step of group g owes the invariant when it makes c of the cycle  *)
(* and then, if open, claims the gate: the shape of the step, the counters *)
(* against the tasks, the state against the counters, and the gate.        *)
StepShape(g, c, open, timeout) ==
  /\ c \in Cycle
  /\ cycle'[g] = IF open THEN ClaimGate(c, timeout) ELSE c
  /\ gateq' = IF open THEN ClaimedQueue(gateq, g, c) ELSE gateq
  /\ leftover'[g] = leftover[g]
  /\ c.pending_dispatch = cycle[g].pending_dispatch

StepCounts(g, c) ==
  /\ c.num_alive = Cardinality(JoinedIn(g)')
  /\ c.num_asleep = Cardinality(AsleepIn(g)')
  /\ c.num_queued = Cardinality(Parked(g)')

StepState(c, open) ==
  /\ c.state = "UNAVAILABLE" => c.num_alive < c.num_expected_threads
  /\ c.state = "READY" => c.num_alive = c.num_expected_threads
  /\ c.state # "UNAVAILABLE" \/ open => c.num_alive > 0
  /\ c.num_expected_threads > 0
  /\ c.pending_dispatch => c.state \in {"RUNNING", "TIMEOUT"}

StepGate(g, c, open, timeout) ==
  /\ c.state = "TIMEOUT" /\ open => timeout
  /\ ~IdleWake /\ c.state # "TIMEOUT" => Ungated(g)' = {}
  /\ ~leftover[g] =>
       /\ c.state \in {"UNAVAILABLE", "READY"} =>
            \A u \in JoinedIn(g)' : where'[u] \in {"yield", "dsq"}
       /\ c.state = "RUNNING" => \A u, v \in Released(g)' : u = v
       /\ c.state = "RUNNING" /\ TokenFor(g) => Released(g)' = {}
       /\ open /\ ~timeout /\ ~c.pending_dispatch => Released(g)' = {}

StepSound(g, c, open, timeout) ==
  /\ StepShape(g, c, open, timeout) /\ StepCounts(g, c)
  /\ StepState(c, open) /\ StepGate(g, c, open, timeout)

(* A step that owes nothing more leaves its group sound.                   *)
LEMMA StepKeepsGroup ==
  ASSUME IInv, NEW g \in Group, NEW c, NEW open \in BOOLEAN, NEW timeout \in BOOLEAN,
         StepSound(g, c, open, timeout)
  PROVE  GroupSound(g)'
<1> DEFINE push == open /\ ~c.pending_dispatch
           d == cycle'[g]
<1>1. /\ c \in Cycle /\ gateq \in Seq(Group) /\ GroupSound(g)
      /\ c.state \in CycleState /\ c.pending_dispatch \in BOOLEAN
      /\ c.num_alive \in Nat /\ c.num_expected_threads \in Nat
  BY DEF IInv, TypeOK, StepSound, StepShape, Cycle
<1>2. /\ d.num_alive = c.num_alive /\ d.num_asleep = c.num_asleep
      /\ d.num_queued = c.num_queued
      /\ d.num_expected_threads = c.num_expected_threads
  BY <1>1 DEF StepSound, StepShape, ClaimGate, Cycle
<1>3. /\ push => /\ d.state = IF timeout THEN "TIMEOUT" ELSE "RUNNING"
                 /\ d.pending_dispatch = TRUE
      /\ ~push => d.state = c.state /\ d.pending_dispatch = c.pending_dispatch
  <2>1. ASSUME push
        PROVE  d = [c EXCEPT !.state = IF timeout THEN "TIMEOUT" ELSE "RUNNING",
                             !.pending_dispatch = TRUE]
    BY <2>1 DEF StepSound, StepShape, ClaimGate
  <2>2. ASSUME ~push PROVE d = c
    BY <2>2 DEF StepSound, StepShape, ClaimGate
  <2> QED BY Zenon, <1>1, <2>1, <2>2 DEF Cycle
<1>4. gateq' = IF push THEN PushGate(gateq, g) ELSE gateq
  BY DEF StepSound, StepShape, ClaimedQueue
<1>5. AccountingOf(g)'
  BY <1>2 DEF StepSound, StepCounts, AccountingOf
<1>6. StateSoundOf(g)'
  BY <1>1, <1>2, <1>3 DEF StepSound, StepState, StateSoundOf
<1>7. NobodyUngated(g)'
  BY <1>3 DEF StepSound, StepGate, NobodyUngated
<1>8. ASSUME ~leftover'[g] PROVE GateSoundOf(g)'
  <2>1. ~leftover[g] /\ GateSoundOf(g)
    BY <1>1, <1>8 DEF StepSound, StepShape, GroupSound
  <2>2. /\ OneToken(gateq, g)
        /\ HasToken(gateq, g) => c.pending_dispatch
        /\ TokenFor(g) <=> HasToken(gateq, g)
        /\ TokenFor(g)' <=> HasToken(gateq', g)
    BY <2>1 DEF GateSoundOf, UniqueToken, TokenFor, OneToken, HasToken, StepSound,
           StepShape
  <2>3. CASE push
    <3>1. OneToken(gateq', g)
      BY <1>1, <1>4, <2>2, <2>3, PushTokens
    <3>2. UniqueToken(g)'
      BY <3>1 DEF OneToken, UniqueToken
    <3>3. d.state = "RUNNING" => Released(g)' = {}
      BY <1>3, <2>1, <2>3 DEF StepSound, StepGate
    <3> QED BY <1>3, <2>3, <3>2, <3>3 DEF GateSoundOf
  <2>4. CASE ~push
    <3>1. gateq' = gateq /\ UniqueToken(g)'
      BY <1>4, <2>1, <2>4 DEF GateSoundOf, UniqueToken
    <3>2. TokenFor(g)' => TokenFor(g)
      BY <2>2, <3>1
    <3> QED BY <1>3, <2>1, <2>2, <2>4, <3>1, <3>2 DEF GateSoundOf, StepSound, StepGate
  <2> QED BY <2>3, <2>4
<1> QED BY <1>5, <1>6, <1>7, <1>8 DEF GroupSound

(* A callback for a participant need only be looked at in its own group.   *)
LEMMA OwnGroup ==
  ASSUME IInv, NEW t \in Task, OnlyTask(t),
         \A h \in Group \ {Eid[t]} : cycle'[h] = cycle[h] /\ leftover'[h] = leftover[h],
         gateq' = gateq \/ gateq' = PushGate(gateq, Eid[t]),
         GroupSound(Eid[t])'
  PROVE  \A g \in Group : GroupSound(g)'
<1> SUFFICES ASSUME NEW h \in Group \ {Eid[t]} PROVE GroupSound(h)'
  OBVIOUS
<1>1. Eid[t] \in Group /\ gateq \in Seq(Group)
  BY EidAssumption DEF IInv, TypeOK
<1>2. \A u \in Members(h) : tctx'[u] = tctx[u] /\ where'[u] = where[u]
  BY DEF Members, OnlyTask
<1>3. /\ HasToken(gateq', h) => HasToken(gateq, h)
      /\ OneToken(gateq, h) => OneToken(gateq', h)
  BY <1>1, PushTokens
<1> QED BY <1>2, <1>3, OtherGroup

(* What the invariant says of a task and of its group before a step.       *)
SoundBefore(t) ==
  /\ Eid[t] \in Group /\ t \in Members(Eid[t])
  /\ tctx \in [Task -> TaskCtx] /\ where \in [Task -> Location]
  /\ cycle \in [Group -> Cycle] /\ cycle[Eid[t]] \in Cycle
  /\ cycle[Eid[t]].num_alive \in Nat /\ cycle[Eid[t]].num_queued \in Nat
  /\ cycle[Eid[t]].num_asleep \in Nat
  /\ cycle[Eid[t]].num_expected_threads \in Nat
  /\ tctx[t] \in TaskCtx /\ ContextSoundOf(t)
  /\ AccountingOf(Eid[t]) /\ StateSoundOf(Eid[t]) /\ NobodyUngated(Eid[t])
  /\ ~leftover[Eid[t]] => GateSoundOf(Eid[t])
  /\ JoinedIn(Eid[t]) \in SUBSET Task /\ AsleepIn(Eid[t]) \in SUBSET Task
  /\ Parked(Eid[t]) \in SUBSET Task
  /\ leftover \in [Group -> BOOLEAN]

(* The invariant says it.                                                  *)
LEMMA Before ==
  ASSUME IInv, NEW t \in Task
  PROVE  SoundBefore(t)
BY EidAssumption
   DEF IInv, TypeOK, ContextSound, Members, JoinedIn, AsleepIn, Parked, Cycle,
       GroupSound, SoundBefore

(* serialise_yield of a joining thread.                                    *)
LEMMA YieldJoinGroup ==
  ASSUME IInv, NEW t \in Task, YieldJoin(t), OnlyTask(t)
  PROVE  GroupSound(Eid[t])'
<1> DEFINE g == Eid[t]
           c == CountJoin(cycle[g])
<1>0. SoundBefore(t)
  BY Before
<1>1. /\ g \in Group /\ t \in Members(g) /\ cycle[g] \in Cycle
      /\ ContextSoundOf(t) /\ AccountingOf(g) /\ StateSoundOf(g)
      /\ NobodyUngated(g) /\ (~leftover[g] => GateSoundOf(g))
  BY <1>0 DEF SoundBefore
<1>2. /\ ~Joined(t) /\ where[t] = "cpu"
      /\ tctx'[t].state = "RUNNING" /\ tctx'[t].is_asleep = FALSE
      /\ where'[t] = "yield"
  BY <1>0, EnsuredCases
     DEF YieldJoin, OnCpu, Joined, JoinedState, ContextSoundOf, TaskCtx, NewCtx,
         NoCtx, SoundBefore
<1>3. /\ JoinedIn(g)' = JoinedIn(g) \cup {t}
      /\ t \notin JoinedIn(g)
      /\ Parked(g)' = Parked(g)
  BY <1>1, <1>2 DEF JoinedIn, Parked, Joined, JoinedState, OnlyTask, Members
<1>4. /\ AsleepIn(g)' = AsleepIn(g)
      /\ Released(g)' = Released(g)
      /\ Ungated(g)' = Ungated(g)
      /\ \A u \in JoinedIn(g) : where'[u] = where[u]
  <2>1. \A u \in JoinedIn(g) : tctx'[u] = tctx[u] /\ where'[u] = where[u]
    BY <1>3 DEF OnlyTask, JoinedIn, Members
  <2> QED BY <1>2, <1>3, <2>1 DEF AsleepIn, Released, Ungated
<1>5. Cardinality(JoinedIn(g)') = Cardinality(JoinedIn(g)) + 1
  BY <1>3, <1>0, OneMore DEF SoundBefore
<1>6. /\ c \in Cycle
      /\ c.num_alive = cycle[g].num_alive + 1
      /\ c.num_asleep = cycle[g].num_asleep /\ c.num_queued = cycle[g].num_queued
      /\ c.num_expected_threads = cycle[g].num_expected_threads
      /\ c.pending_dispatch = cycle[g].pending_dispatch
      /\ c.state = IF cycle[g].num_alive + 1 = cycle[g].num_expected_threads
                   THEN "READY" ELSE "UNAVAILABLE"
  BY Zenon, <1>1, SectionTypes DEF CountJoin, Cycle, YieldJoin
<1>7. cycle'[g] = c /\ gateq' = gateq /\ leftover' = leftover
      /\ cycle[g].state = "UNAVAILABLE"
  BY <1>1, <1>0 DEF YieldJoin, SoundBefore
<1> HIDE DEF c
<1>8. StepSound(g, c, FALSE, FALSE)
  <2>1. StepShape(g, c, FALSE, FALSE)
    BY <1>1, <1>6, <1>7
       DEF StepShape
  <2>2. StepCounts(g, c)
    BY <1>1, <1>3, <1>4, <1>5, <1>6
       DEF StepCounts, AccountingOf
  <2>3. StepState(c, FALSE)
    BY <1>0, <1>1, <1>6, <1>7
       DEF StepState, StateSoundOf, SoundBefore
  <2>4. StepGate(g, c, FALSE, FALSE)
    BY Zenon, <1>1, <1>2, <1>3, <1>4, <1>6, <1>7
       DEF StepGate, StateSoundOf, NobodyUngated, GateSoundOf
  <2> QED BY Zenon, <2>1, <2>2, <2>3, <2>4 DEF StepSound
<1> QED BY Zenon, <1>1, <1>8, StepKeepsGroup

(* A step that moves a participant but neither counts nor opens the gate.  *)
LEMMA QuietGroup ==
  ASSUME IInv, NEW t \in Task, OnlyTask(t), UNCHANGED <<cycle, gateq, leftover>>,
         Joined(t), Joined(t)', tctx'[t].is_asleep = tctx[t].is_asleep,
         where[t] # "dsq", where'[t] # "dsq",
         where'[t] \in {"local", "gated"} => where[t] \in {"local", "gated"},
         where'[t] = "cpu" => cycle[Eid[t]].state = "TIMEOUT" \/ IdleWake,
         where[t] = "yield" => cycle[Eid[t]].state = "TIMEOUT"
  PROVE  GroupSound(Eid[t])'
<1> DEFINE g == Eid[t]
           c == cycle[g]
<1>0. SoundBefore(t)
  BY Before
<1>1. /\ g \in Group /\ t \in Members(g) /\ c \in Cycle
      /\ AccountingOf(g) /\ StateSoundOf(g)
      /\ NobodyUngated(g) /\ (~leftover[g] => GateSoundOf(g))
  BY <1>0 DEF SoundBefore
<1>2. /\ JoinedIn(g)' = JoinedIn(g)
      /\ Parked(g)' = Parked(g)
      /\ t \in JoinedIn(g)
  BY <1>1 DEF JoinedIn, Parked, Joined, OnlyTask, Members
<1>3. /\ \A u \in JoinedIn(g) \ {t} : tctx'[u] = tctx[u] /\ where'[u] = where[u]
      /\ AsleepIn(g)' = AsleepIn(g)
      /\ Released(g)' \subseteq Released(g)
      /\ Ungated(g)' \subseteq Ungated(g) \/ c.state = "TIMEOUT" \/ IdleWake
  BY <1>2 DEF AsleepIn, Released, Ungated, OnlyTask, JoinedIn, Members
<1>4. StepSound(g, c, FALSE, FALSE)
  <2>1. StepShape(g, c, FALSE, FALSE)
    BY <1>1
       DEF StepShape
  <2>2. StepCounts(g, c)
    BY <1>1, <1>2, <1>3
       DEF StepCounts, AccountingOf
  <2>3. StepState(c, FALSE)
    BY <1>0, <1>1
       DEF StepState, StateSoundOf, SoundBefore
  <2>4. StepGate(g, c, FALSE, FALSE)
    BY <1>1, <1>2, <1>3
       DEF StepGate, StateSoundOf, NobodyUngated, GateSoundOf
  <2> QED BY Zenon, <2>1, <2>2, <2>3, <2>4 DEF StepSound
<1> QED BY Zenon, <1>1, <1>4, StepKeepsGroup

(* handle_serialise_enqueue of a participant.                              *)
LEMMA EnqueueParkGroup ==
  ASSUME IInv, NEW t \in Task, EnqueuePark(t), OnlyTask(t), TypeOK', ContextSound'
  PROVE  GroupSound(Eid[t])'
<1> DEFINE g == Eid[t]
           c == CountEnqueue(cycle[g])
           open == EnqueueGateOpens(c)
<1>0. SoundBefore(t)
  BY Before
<1>1. /\ g \in Group /\ t \in Members(g) /\ cycle[g] \in Cycle
      /\ ContextSoundOf(t) /\ AccountingOf(g) /\ StateSoundOf(g)
      /\ NobodyUngated(g) /\ (~leftover[g] => GateSoundOf(g))
  BY <1>0 DEF SoundBefore
<1>2. /\ Joined(t) /\ Joined(t)' /\ where'[t] = "dsq"
      /\ where[t] \in {"cpu", "gated", "yield", "waking"}
      /\ tctx'[t].is_asleep = tctx[t].is_asleep
  BY <1>0 DEF EnqueuePark, CallsEnqueue, Joined, JoinedState, TaskCtx, SoundBefore
<1>3. /\ JoinedIn(g)' = JoinedIn(g)
      /\ Parked(g)' = Parked(g) \cup {t}
      /\ t \notin Parked(g) /\ t \in JoinedIn(g)
  BY Zenon, <1>1, <1>2 DEF JoinedIn, Parked, Joined, OnlyTask, Members
<1>4. /\ \A u \in JoinedIn(g) \ {t} : tctx'[u] = tctx[u] /\ where'[u] = where[u]
      /\ AsleepIn(g)' = AsleepIn(g)
      /\ Released(g)' \subseteq Released(g)
      /\ Ungated(g)' \subseteq Ungated(g)
  BY <1>2, <1>3 DEF AsleepIn, Released, Ungated, OnlyTask, JoinedIn, Members
<1>5. Cardinality(Parked(g)') = Cardinality(Parked(g)) + 1
  BY <1>3, <1>0, OneMore DEF SoundBefore
<1>6. /\ c \in Cycle
      /\ c.num_alive = cycle[g].num_alive
      /\ c.num_asleep = cycle[g].num_asleep /\ c.num_queued = cycle[g].num_queued + 1
      /\ c.num_expected_threads = cycle[g].num_expected_threads
      /\ c.pending_dispatch = cycle[g].pending_dispatch
      /\ c.state = cycle[g].state
  BY <1>1, SectionTypes DEF CountEnqueue, Cycle
<1>7. /\ cycle'[g] = IF open THEN ClaimGate(c, FALSE) ELSE c
      /\ gateq' = IF open THEN ClaimedQueue(gateq, g, c) ELSE gateq
      /\ leftover' = leftover /\ cycle[g].state # "TIMEOUT"
  BY ZenonT(30), <1>1, <1>0 DEF EnqueuePark, SetCycleAndGate, SoundBefore
<1>8. /\ cycle[g].num_alive = Cardinality(JoinedIn(g)')
      /\ cycle[g].num_asleep = Cardinality(AsleepIn(g)')
      /\ cycle[g].num_queued + 1 = Cardinality(Parked(g)')
  BY <1>1, <1>3, <1>4, <1>5 DEF AccountingOf
<1>9. SizesOf(g)'
  BY <1>1, SizesNext DEF SizesFact
<1>10. cycle[g].num_alive > 0
  BY Zenon, <1>3, <1>8, <1>0, OneMore DEF SoundBefore
<1> HIDE DEF c
<1>11. open => Released(g)' = {}
  BY <1>1, <1>6, <1>8, <1>9, <1>0
     DEF SizesOf, EnqueueGateOpens, RunningGateOpens, AllAwakeQueued,
         StateSoundOf, SoundBefore
<1>12. open \in BOOLEAN /\ (open => c.state # "TIMEOUT")
  BY DEF EnqueueGateOpens, RunningGateOpens, AllAwakeQueued
<1> HIDE DEF open
<1>13. StepSound(g, c, open, FALSE)
  <2>1. StepShape(g, c, open, FALSE)
    BY <1>1, <1>6, <1>7
       DEF StepShape
  <2>2. StepCounts(g, c)
    BY <1>1, <1>6, <1>8
       DEF StepCounts, AccountingOf
  <2>3. StepState(c, open)
    BY <1>0, <1>1, <1>6, <1>10, <1>11, <1>12
       DEF StepState, StateSoundOf, SoundBefore
  <2>4. StepGate(g, c, open, FALSE)
    BY <1>1, <1>2, <1>3, <1>4, <1>6, <1>10, <1>11, <1>12
       DEF StepGate, StateSoundOf, NobodyUngated, GateSoundOf
  <2> QED BY Zenon, <2>1, <2>2, <2>3, <2>4 DEF StepSound
<1> QED BY Zenon, <1>1, <1>12, <1>13, StepKeepsGroup

(* handle_executor_sleep of a participant that blocks or dies.             *)
LEMMA SleepGroup ==
  ASSUME IInv, NEW t \in Task, HandleExecutorSleep(t), OnCpu(t), Joined(t),
         where'[t] \in {"asleep", "dead"}, leftover' = leftover,
         OnlyTask(t), TypeOK', ContextSound'
  PROVE  GroupSound(Eid[t])'
<1> DEFINE g == Eid[t]
           c == CountSleep(cycle[g], Queued(t))
           open == RunningGateOpens(c)
<1>0. SoundBefore(t)
  BY Before
<1>1. /\ g \in Group /\ t \in Members(g) /\ cycle[g] \in Cycle
      /\ ContextSoundOf(t) /\ AccountingOf(g) /\ StateSoundOf(g)
      /\ NobodyUngated(g) /\ (~leftover[g] => GateSoundOf(g))
  BY <1>0 DEF SoundBefore
<1>2. /\ where[t] \in {"cpu", "gated"}
      /\ ~tctx[t].is_asleep /\ ~Queued(t)
  BY <1>1 DEF OnCpu, ContextSoundOf
<1>3. /\ Joined(t)' /\ tctx'[t].is_asleep = TRUE
  BY Zenon, <1>2, SleepContext DEF IInv, Joined
<1>4. /\ JoinedIn(g)' = JoinedIn(g)
      /\ Parked(g)' = Parked(g)
      /\ t \in JoinedIn(g)
  BY <1>1, <1>2, <1>3 DEF JoinedIn, Parked, Joined, OnlyTask, Members
<1>5. /\ \A u \in JoinedIn(g) \ {t} : tctx'[u] = tctx[u] /\ where'[u] = where[u]
      /\ AsleepIn(g)' = AsleepIn(g) \cup {t} /\ t \notin AsleepIn(g)
      /\ Released(g)' \subseteq Released(g)
      /\ Ungated(g)' \subseteq Ungated(g)
  BY <1>2, <1>3, <1>4
     DEF AsleepIn, Released, Ungated, OnlyTask, JoinedIn, Members
<1>6. Cardinality(AsleepIn(g)') = Cardinality(AsleepIn(g)) + 1
  BY <1>5, <1>0, OneMore DEF SoundBefore
<1>7. /\ c \in Cycle
      /\ c.num_alive = cycle[g].num_alive
      /\ c.num_asleep = cycle[g].num_asleep + 1 /\ c.num_queued = cycle[g].num_queued
      /\ c.num_expected_threads = cycle[g].num_expected_threads
      /\ c.pending_dispatch = cycle[g].pending_dispatch
      /\ c.state = cycle[g].state
  BY Zenon, <1>1, <1>2, SectionTypes DEF CountSleep, Cycle
<1>8. /\ cycle'[g] = IF open THEN ClaimGate(c, FALSE) ELSE c
      /\ gateq' = IF open THEN ClaimedQueue(gateq, g, c) ELSE gateq
  BY ZenonT(30), <1>1, <1>2, <1>0 DEF HandleExecutorSleep, SetCycleAndGate, SoundBefore
<1>9. /\ cycle[g].num_alive = Cardinality(JoinedIn(g)')
      /\ cycle[g].num_asleep + 1 = Cardinality(AsleepIn(g)')
      /\ cycle[g].num_queued = Cardinality(Parked(g)')
  BY <1>1, <1>4, <1>5, <1>6 DEF AccountingOf
<1>10. SizesOf(g)'
  BY <1>1, SizesNext DEF SizesFact
<1> HIDE DEF c
<1>11. open => Released(g)' = {}
  BY <1>7, <1>9, <1>10 DEF SizesOf, RunningGateOpens, AllAwakeQueued
<1>12. open \in BOOLEAN /\ (open => c.state = "RUNNING")
  BY DEF RunningGateOpens, AllAwakeQueued
<1> HIDE DEF open
<1>13. StepSound(g, c, open, FALSE)
  <2>1. StepShape(g, c, open, FALSE)
    BY <1>1, <1>7, <1>8
       DEF StepShape
  <2>2. StepCounts(g, c)
    BY Zenon, <1>1, <1>7, <1>9
       DEF StepCounts, AccountingOf
  <2>3. StepState(c, open)
    BY Zenon, <1>0, <1>1, <1>7, <1>11, <1>12
       DEF StepState, StateSoundOf, SoundBefore
  <2>4. StepGate(g, c, open, FALSE)
    BY Zenon, <1>1, <1>2, <1>4, <1>5, <1>7, <1>11, <1>12
       DEF StepGate, StateSoundOf, NobodyUngated, GateSoundOf
  <2> QED BY Zenon, <2>1, <2>2, <2>3, <2>4 DEF StepSound
<1> QED BY Zenon, <1>1, <1>12, <1>13, StepKeepsGroup

(* serialise_runnable of a participant that was asleep.                    *)
LEMMA RunnableGroup ==
  ASSUME IInv, NEW t \in Task, Runnable(t), tctx[t].is_asleep,
         OnlyTask(t), TypeOK', ContextSound'
  PROVE  GroupSound(Eid[t])'
<1> DEFINE g == Eid[t]
           c == CountWake(cycle[g])
           open == RunningGateOpens(c)
<1>0. SoundBefore(t)
  BY Before
<1>1. /\ g \in Group /\ t \in Members(g) /\ cycle[g] \in Cycle
      /\ ContextSoundOf(t) /\ AccountingOf(g) /\ StateSoundOf(g)
      /\ NobodyUngated(g) /\ (~leftover[g] => GateSoundOf(g))
  BY <1>0 DEF SoundBefore
<1>2. /\ Joined(t) /\ Joined(t)' /\ where[t] = "asleep" /\ where'[t] = "waking"
      /\ tctx'[t].is_asleep = FALSE
  BY <1>1, <1>0 DEF Runnable, ContextSoundOf, Joined, TaskCtx, SoundBefore
<1>3. /\ JoinedIn(g)' = JoinedIn(g)
      /\ Parked(g)' = Parked(g)
      /\ t \in JoinedIn(g)
  BY <1>1, <1>2 DEF JoinedIn, Parked, Joined, OnlyTask, Members
<1>4. /\ \A u \in JoinedIn(g) \ {t} : tctx'[u] = tctx[u] /\ where'[u] = where[u]
      /\ AsleepIn(g)' = AsleepIn(g) \ {t} /\ t \in AsleepIn(g)
      /\ Released(g)' \subseteq Released(g)
      /\ Ungated(g)' \subseteq Ungated(g)
  BY <1>2, <1>3 DEF AsleepIn, Released, Ungated, OnlyTask, JoinedIn, Members
<1>5. /\ Cardinality(AsleepIn(g)') = Cardinality(AsleepIn(g)) - 1
      /\ Cardinality(AsleepIn(g)) > 0
  BY Zenon, <1>4, <1>0, OneMore DEF SoundBefore
<1>6. /\ cycle[g].num_alive = Cardinality(JoinedIn(g)')
      /\ cycle[g].num_asleep - 1 = Cardinality(AsleepIn(g)') /\ cycle[g].num_asleep > 0
      /\ cycle[g].num_queued = Cardinality(Parked(g)')
  BY <1>1, <1>3, <1>4, <1>5 DEF AccountingOf
<1>7. /\ c \in Cycle
      /\ c.num_alive = cycle[g].num_alive
      /\ c.num_asleep = cycle[g].num_asleep - 1 /\ c.num_queued = cycle[g].num_queued
      /\ c.num_expected_threads = cycle[g].num_expected_threads
      /\ c.pending_dispatch = cycle[g].pending_dispatch
      /\ c.state = cycle[g].state
  BY <1>1, <1>6, SectionTypes DEF CountWake, DecIfPositive, Cycle
<1>8. /\ cycle'[g] = IF open THEN ClaimGate(c, FALSE) ELSE c
      /\ gateq' = IF open THEN ClaimedQueue(gateq, g, c) ELSE gateq
      /\ leftover' = leftover
  BY Zenon, <1>1, <1>0 DEF Runnable, SetCycleAndGate, SoundBefore
<1>9. SizesOf(g)'
  BY <1>1, SizesNext DEF SizesFact
<1> HIDE DEF c
<1>10. open => Released(g)' = {}
  BY <1>6, <1>7, <1>9 DEF SizesOf, RunningGateOpens, AllAwakeQueued
<1>11. open \in BOOLEAN /\ (open => c.state = "RUNNING")
  BY DEF RunningGateOpens, AllAwakeQueued
<1> HIDE DEF open
<1>12. StepSound(g, c, open, FALSE)
  <2>1. StepShape(g, c, open, FALSE)
    BY <1>1, <1>7, <1>8
       DEF StepShape
  <2>2. StepCounts(g, c)
    BY <1>1, <1>6, <1>7
       DEF StepCounts, AccountingOf
  <2>3. StepState(c, open)
    BY <1>0, <1>1, <1>7, <1>10, <1>11
       DEF StepState, StateSoundOf, SoundBefore
  <2>4. StepGate(g, c, open, FALSE)
    BY Zenon, <1>1, <1>2, <1>3, <1>4, <1>7, <1>10, <1>11
       DEF StepGate, StateSoundOf, NobodyUngated, GateSoundOf
  <2> QED BY Zenon, <2>1, <2>2, <2>3, <2>4 DEF StepSound
<1> QED BY Zenon, <1>1, <1>11, <1>12, StepKeepsGroup

(* check_dispatch_timeout of a parked or released participant.             *)
LEMMA TimeoutGroup ==
  ASSUME IInv, NEW t \in Task, CheckDispatchTimeout(t), OnlyTask(t)
  PROVE  GroupSound(Eid[t])'
<1> DEFINE g == Eid[t]
           c == cycle[g]
<1>0. SoundBefore(t)
  BY Before
<1>1. /\ g \in Group /\ t \in Members(g) /\ c \in Cycle
      /\ ContextSoundOf(t) /\ AccountingOf(g) /\ StateSoundOf(g)
      /\ NobodyUngated(g) /\ (~leftover[g] => GateSoundOf(g))
  BY <1>0 DEF SoundBefore
<1>2. /\ Joined(t) /\ Joined(t)' /\ where' = where
      /\ tctx'[t].is_asleep = tctx[t].is_asleep
  BY <1>1, <1>0
     DEF CheckDispatchTimeout, Joined, JoinedState, Queued, TaskCtx, SoundBefore
<1>3. /\ JoinedIn(g)' = JoinedIn(g)
      /\ Parked(g)' = Parked(g)
      /\ t \in JoinedIn(g)
  BY <1>1, <1>2 DEF JoinedIn, Parked, Joined, OnlyTask, Members
<1>4. /\ AsleepIn(g)' = AsleepIn(g)
      /\ Released(g)' = Released(g)
      /\ Ungated(g)' = Ungated(g)
  BY <1>2, <1>3 DEF AsleepIn, Released, Ungated, OnlyTask, JoinedIn, Members
<1>5. /\ cycle'[g] = ClaimGate(c, TRUE)
      /\ gateq' = ClaimedQueue(gateq, g, c)
      /\ leftover' = leftover
  BY Zenon, <1>1, <1>0 DEF CheckDispatchTimeout, SetCycleAndGate, SoundBefore
<1>6. c.num_alive > 0
  BY Zenon, <1>1, <1>3, <1>0, OneMore DEF AccountingOf, SoundBefore
<1>7. StepSound(g, c, TRUE, TRUE)
  <2>1. StepShape(g, c, TRUE, TRUE)
    BY <1>1, <1>5
       DEF StepShape
  <2>2. StepCounts(g, c)
    BY <1>1, <1>3, <1>4
       DEF StepCounts, AccountingOf
  <2>3. StepState(c, TRUE)
    BY <1>0, <1>1, <1>6
       DEF StepState, StateSoundOf, SoundBefore
  <2>4. StepGate(g, c, TRUE, TRUE)
    BY Zenon, <1>1, <1>2, <1>3, <1>4, <1>6
       DEF StepGate, StateSoundOf, NobodyUngated, GateSoundOf
  <2> QED BY Zenon, <2>1, <2>2, <2>3, <2>4 DEF StepSound
<1> QED BY Zenon, <1>1, <1>7, StepKeepsGroup

(* handle_executor_exit of a participant.                                  *)
LEMMA ExitGroup ==
  ASSUME IInv, NEW t \in Task, ExitTask(t), Joined(t), OnlyTask(t),
         TypeOK', ContextSound'
  PROVE  GroupSound(Eid[t])'
<1> DEFINE g == Eid[t]
           c == CountExit(cycle[g], Queued(t), tctx[t].is_asleep)
           open == ExitGateOpens(c)
           late == c.state = "TIMEOUT"
           fresh == cycle[g].state \in {"READY", "UNAVAILABLE"}
<1>0. SoundBefore(t)
  BY Before
<1>1. /\ g \in Group /\ t \in Members(g) /\ cycle[g] \in Cycle
      /\ ContextSoundOf(t) /\ GroupSound(g)
  BY Zenon, <1>0 DEF SoundBefore, GroupSound
<1>2. /\ where[t] = "dead" /\ where'[t] = "off" /\ ~Joined(t)'
      /\ ~Queued(t) /\ tctx[t].is_asleep
  BY Zenon, <1>1, <1>0
     DEF ExitTask, ContextSoundOf, Joined, JoinedState, NoCtx, SoundBefore
<1>3. /\ JoinedIn(g)' = JoinedIn(g) \ {t}
      /\ Parked(g)' = Parked(g)
      /\ t \in JoinedIn(g)
  BY Zenon, <1>1, <1>2 DEF JoinedIn, Parked, Joined, OnlyTask, Members
<1>4. /\ \A u \in JoinedIn(g)' : tctx'[u] = tctx[u] /\ where'[u] = where[u]
      /\ AsleepIn(g)' = AsleepIn(g) \ {t} /\ t \in AsleepIn(g)
      /\ Released(g)' \subseteq Released(g)
      /\ Ungated(g)' \subseteq Ungated(g)
  BY <1>2, <1>3 DEF AsleepIn, Released, Ungated, OnlyTask, JoinedIn, Members
<1>5. /\ Cardinality(AsleepIn(g)') = Cardinality(AsleepIn(g)) - 1
      /\ Cardinality(AsleepIn(g)) > 0
      /\ Cardinality(JoinedIn(g)') = Cardinality(JoinedIn(g)) - 1
      /\ Cardinality(JoinedIn(g)) > 0
  BY Zenon, <1>3, <1>4, <1>0, OneMore DEF SoundBefore
<1>6. /\ cycle[g].num_alive - 1 = Cardinality(JoinedIn(g)') /\ cycle[g].num_alive > 0
      /\ cycle[g].num_asleep - 1 = Cardinality(AsleepIn(g)') /\ cycle[g].num_asleep > 0
      /\ cycle[g].num_queued = Cardinality(Parked(g)')
  BY Zenon, <1>1, <1>3, <1>4, <1>5 DEF GroupSound, AccountingOf
<1>7. /\ c \in Cycle
      /\ c.num_alive = cycle[g].num_alive - 1
      /\ c.num_asleep = cycle[g].num_asleep - 1 /\ c.num_queued = cycle[g].num_queued
      /\ c.num_expected_threads = IF fresh THEN cycle[g].num_expected_threads - 1
                                  ELSE cycle[g].num_expected_threads
      /\ c.pending_dispatch = cycle[g].pending_dispatch
      /\ c.state = cycle[g].state
  <2>1. c \in Cycle
    BY <1>1, SectionTypes DEF GroupSound, StateSoundOf
  <2> QED BY <1>1, <1>2, <1>6, <2>1 DEF CountExit, DecIfPositive, Cycle
<1>8. /\ gateq' = IF open THEN ClaimedQueue(gateq, g, c) ELSE gateq
      /\ LastExit(c) => /\ cycle'[g] = NewCycle
                        /\ leftover'[g] = TokenFor(g)'
      /\ ~LastExit(c) => /\ cycle'[g] = IF open THEN ClaimGate(c, late) ELSE c
                         /\ leftover'[g] = leftover[g]
  <2>1. ClaimGate(c, late) \in Cycle /\ c \in Cycle
    BY ZenonT(30), <1>7, SectionTypes
  <2>2. ResetCycle(IF open THEN ClaimGate(c, late) ELSE c) = NewCycle
    BY <2>1, SectionTypes
  <2> QED BY Zenon, <1>1, <2>2, <1>0 DEF ExitTask, TokenFor, SoundBefore
<1>9. SizesOf(g)'
  BY <1>1, SizesNext DEF SizesFact
<1> HIDE DEF c
<1>10. CASE LastExit(c)
  <2>1. c.num_alive = 0 /\ c.num_alive \in Nat
    BY <1>1, <1>6, <1>7, <1>10, <1>0
       DEF LastExit, GroupSound, StateSoundOf, SoundBefore
  <2>2. JoinedIn(g)' = {}
    <3>1. JoinedIn(g)' \in SUBSET Task
      BY <1>3, <1>0 DEF SoundBefore
    <3>2. ASSUME NEW u \in JoinedIn(g)' PROVE FALSE
      <4>1. Cardinality(JoinedIn(g)') > 0
        BY Zenon, <3>1, <3>2, OneMore
      <4> QED BY <1>6, <1>7, <2>1, <4>1
    <3> QED BY <3>2
  <2>3. /\ Cardinality(Parked(g)') = 0 /\ Cardinality(AsleepIn(g)') = 0
        /\ Cardinality(JoinedIn(g)') = 0
    BY <1>6, <1>7, <1>9, <2>1 DEF SizesOf
  <2>4. Ungated(g)' = {} /\ Released(g)' = {}
    BY <2>2 DEF Ungated, Released
  <2>5. /\ NewCycle.num_alive = 0 /\ NewCycle.num_asleep = 0 /\ NewCycle.num_queued = 0
        /\ NewCycle.state = "UNAVAILABLE" /\ NewCycle.pending_dispatch = FALSE
        /\ NewCycle.num_expected_threads > 0
    BY CycleThreadCountAssumption DEF NewCycle
  <2>6. AccountingOf(g)' /\ StateSoundOf(g)' /\ NobodyUngated(g)'
    BY <1>8, <1>10, <2>3, <2>4, <2>5 DEF AccountingOf, StateSoundOf, NobodyUngated
  <2>7. ~leftover'[g] => GateSoundOf(g)'
    BY Zenon, <1>8, <1>10, <2>2, <2>5 DEF GateSoundOf, UniqueToken, TokenFor
  <2> QED BY <2>6, <2>7 DEF GroupSound
<1>11. CASE ~LastExit(c)
  <2>1. open => /\ c.num_alive > 0
               /\ Released(g)' = {}
    BY <1>6, <1>7, <1>9, <1>0 DEF SizesOf, ExitGateOpens, AllAwakeQueued, SoundBefore
  <2>2. open \in BOOLEAN /\ late \in BOOLEAN
    BY DEF ExitGateOpens, AllAwakeQueued
  <2>3. /\ c.num_expected_threads > 0
        /\ c.state = "UNAVAILABLE" => c.num_alive < c.num_expected_threads
        /\ c.state = "READY" => c.num_alive = c.num_expected_threads
        /\ c.state # "UNAVAILABLE" => c.num_alive > 0
    BY <1>1, <1>6, <1>7, <1>11, <1>0 DEF LastExit, GroupSound, StateSoundOf, SoundBefore
  <2> HIDE DEF open
  <2>4. StepSound(g, c, open, late)
    <3>1. StepShape(g, c, open, late)
      BY Zenon, <1>1, <1>2, <1>3, <1>4, <1>6, <1>7, <1>8, <1>11, <2>1, <2>2, <2>3
         DEF StepShape, SoundBefore
    <3>2. StepCounts(g, c)
      BY Zenon, <1>1, <1>2, <1>3, <1>4, <1>6, <1>7, <1>8, <1>11, <2>1, <2>2, <2>3
         DEF StepCounts, GroupSound, AccountingOf
    <3>3. StepState(c, open)
      BY Zenon, <1>1, <1>2, <1>3, <1>4, <1>6, <1>7, <1>8, <1>11, <2>1, <2>2, <2>3
         DEF StepState, GroupSound, StateSoundOf, SoundBefore
    <3>4. StepGate(g, c, open, late)
      BY Zenon, <1>1, <1>2, <1>3, <1>4, <1>6, <1>7, <1>8, <1>11, <2>1, <2>2, <2>3
         DEF StepGate, GroupSound, NobodyUngated, GateSoundOf, StateSoundOf
    <3> QED BY <3>1, <3>2, <3>3, <3>4 DEF StepSound
  <2> QED BY Zenon, <1>1, <2>2, <2>4, StepKeepsGroup
<1> QED BY <1>10, <1>11

-----------------------------------------------------------------------------
(* The dispatch callback.                                                  *)

(* serialise_dispatch that finds a parked task.                            *)
LEMMA DispatchMoveGroups ==
  ASSUME IInv, DispatchMove, TypeOK', ContextSound'
  PROVE  \A h \in Group : GroupSound(h)'
<1>0. PICK g \in Group : g = Head(gateq)
  BY PopTokens DEF IInv, TypeOK, DispatchMove, DispatchEmpty
<1> DEFINE c == CountMoved(cycle[g])
           open == c.state = "TIMEOUT" /\ c.num_queued > 0
           q == Tail(gateq)
           d == cycle'[g]
<1>1. PICK t \in Parked(g) : where' = [where EXCEPT ![t] = "local"]
  BY ZenonT(30), <1>0 DEF DispatchMove
<1>2. /\ gateq \in Seq(Group) /\ gateq # <<>> /\ g \in Group /\ q \in Seq(Group)
      /\ t \in Task /\ Eid[t] = g /\ t \in Members(g) /\ where[t] = "dsq"
      /\ cycle \in [Group -> Cycle] /\ cycle[g] \in Cycle /\ where \in [Task -> Location]
      /\ ContextSoundOf(t) /\ GroupSound(g)
      /\ tctx' = tctx /\ leftover' = leftover
  BY <1>0, <1>1, PopTokens
     DEF DispatchMove, IInv, TypeOK, ContextSound, Parked, Members
<1>3. /\ c \in Cycle
      /\ cycle' = [cycle EXCEPT ![g] = IF open THEN ClaimGate(c, TRUE) ELSE c]
      /\ gateq' = IF open THEN PushGate(q, g) ELSE q
      /\ c.pending_dispatch = FALSE /\ c.state = cycle[g].state
      /\ c.num_alive = cycle[g].num_alive /\ c.num_asleep = cycle[g].num_asleep
      /\ c.num_expected_threads = cycle[g].num_expected_threads
  <2>1. /\ c \in Cycle
        /\ c.pending_dispatch = FALSE /\ c.state = cycle[g].state
        /\ c.num_alive = cycle[g].num_alive /\ c.num_asleep = cycle[g].num_asleep
        /\ c.num_expected_threads = cycle[g].num_expected_threads
    BY Zenon, <1>2, SectionTypes DEF CountMoved, Cycle
  <2> QED BY <1>0, <2>1 DEF DispatchMove, ClaimedQueue
<1>4. ASSUME NEW h \in Group \ {g} PROVE GroupSound(h)'
  <2>1. \A u \in Members(h) : tctx'[u] = tctx[u] /\ where'[u] = where[u]
    BY <1>1, <1>2 DEF Members
  <2>2. cycle'[h] = cycle[h] /\ leftover'[h] = leftover[h]
    BY <1>2, <1>3
  <2>3. /\ HasToken(gateq', h) => HasToken(gateq, h)
        /\ OneToken(gateq, h) => OneToken(gateq', h)
    BY Zenon, <1>2, <1>3, PopTokens, PushTokens
  <2> QED BY <2>1, <2>2, <2>3, OtherGroup
<1>5. /\ JoinedIn(g)' = JoinedIn(g) /\ AsleepIn(g)' = AsleepIn(g)
      /\ Parked(g)' = Parked(g) \ {t}
      /\ Released(g)' = Released(g) \cup {t}
      /\ Ungated(g)' = Ungated(g)
  <2>1. Joined(t)
    BY <1>2 DEF ContextSoundOf, Queued, Joined, JoinedState
  <2>2. JoinedIn(g)' = JoinedIn(g) /\ AsleepIn(g)' = AsleepIn(g) /\ t \in JoinedIn(g)
    BY <1>2, <2>1 DEF JoinedIn, AsleepIn, Joined
  <2> QED BY <1>1, <1>2, <2>2 DEF Parked, Released, Ungated, JoinedIn, Members
<1>6. /\ Parked(g) \in SUBSET Task /\ Cardinality(Parked(g)) > 0
      /\ Cardinality(Parked(g)') = Cardinality(Parked(g)) - 1
  <2>1. Parked(g) \in SUBSET Task
    BY DEF Parked, Members
  <2> QED BY <1>1, <1>2, <1>5, <2>1, OneMore
<1>7. c.num_queued = Cardinality(Parked(g)')
  BY <1>2, <1>6 DEF GroupSound, AccountingOf, CountMoved, DecIfPositive, Cycle
<1> HIDE DEF c
<1>8. /\ d.num_alive = c.num_alive /\ d.num_asleep = c.num_asleep
      /\ d.num_queued = c.num_queued /\ d.state = c.state
      /\ d.num_expected_threads = c.num_expected_threads
      /\ d.pending_dispatch <=> open
  <2>1. CASE open
    <3>1. d = [c EXCEPT !.state = "TIMEOUT", !.pending_dispatch = TRUE]
      BY <1>2, <1>3, <2>1 DEF ClaimGate
    <3>2. /\ d.num_alive = c.num_alive /\ d.num_asleep = c.num_asleep
          /\ d.num_queued = c.num_queued /\ d.state = "TIMEOUT"
          /\ d.num_expected_threads = c.num_expected_threads
          /\ d.pending_dispatch = TRUE
      <4>1. c \in Cycle
        BY <1>3
      <4> HIDE DEF d
      <4> QED BY <3>1, <4>1 DEF Cycle
    <3> QED BY <2>1, <3>2
  <2>2. CASE ~open
    BY Zenon, <1>2, <1>3, <2>2
  <2> QED BY <2>1, <2>2
<1>9. AccountingOf(g)' /\ StateSoundOf(g)' /\ NobodyUngated(g)'
  BY Zenon, <1>2, <1>3, <1>5, <1>7, <1>8
     DEF GroupSound, AccountingOf, StateSoundOf, NobodyUngated
<1>10. ASSUME ~leftover'[g] PROVE GateSoundOf(g)'
  <2>1. /\ OneToken(gateq, g)
        /\ TokenFor(g) => cycle[g].pending_dispatch
        /\ cycle[g].state = "RUNNING" /\ TokenFor(g) => Released(g) = {}
    BY <1>2, <1>10 DEF GroupSound, GateSoundOf, UniqueToken, OneToken
  <2>2. TokenFor(g)
    <3>1. 1 \in 1..Len(gateq) /\ gateq[1] = g
      BY <1>0, <1>2
    <3> QED BY <3>1 DEF TokenFor
  <2>3. c.state \in {"RUNNING", "TIMEOUT"}
    BY <1>2, <1>3, <2>1, <2>2 DEF GroupSound, StateSoundOf
  <2>4. ~HasToken(q, g)
    BY <1>0, <1>2, <2>1, PopTokens
  <2>5. OneToken(gateq', g) /\ (HasToken(gateq', g) => open)
    <3>1. OneToken(q, g)
      BY <2>4 DEF OneToken, HasToken
    <3> QED BY Zenon, <1>2, <1>3, <2>4, <3>1, PushTokens
  <2>6. UniqueToken(g)' /\ (TokenFor(g)' => open)
    BY <2>5 DEF UniqueToken, TokenFor, OneToken, HasToken
  <2>7. c.state = "RUNNING" => Released(g)' = {t}
    BY <1>3, <1>5, <2>1, <2>2
  <2> QED BY <1>8, <2>3, <2>6, <2>7 DEF GateSoundOf
<1> QED BY <1>4, <1>9, <1>10 DEF GroupSound

(* serialise_dispatch that finds GROUP_DSQ empty.                          *)
LEMMA DispatchEmptyGroups ==
  ASSUME IInv, DispatchEmpty
  PROVE  \A h \in Group : GroupSound(h)'
<1>0. PICK g \in Group : g = Head(gateq)
  BY PopTokens DEF IInv, TypeOK, DispatchMove, DispatchEmpty
<1> DEFINE c == CountEmpty(cycle[g])
           q == Tail(gateq)
<1>1. /\ gateq \in Seq(Group) /\ gateq # <<>> /\ g \in Group
      /\ cycle \in [Group -> Cycle] /\ cycle[g] \in Cycle /\ GroupSound(g)
      /\ Parked(g) = {}
      /\ tctx' = tctx /\ where' = where /\ leftover' = leftover
  BY <1>0 DEF DispatchEmpty, IInv, TypeOK
<1>2. cycle[g].num_queued = 0
  BY <1>1, FS_EmptySet DEF GroupSound, AccountingOf
<1>3. /\ c.num_queued = 0
      /\ c.pending_dispatch = FALSE /\ c.state = cycle[g].state
      /\ c.num_alive = cycle[g].num_alive /\ c.num_asleep = cycle[g].num_asleep
      /\ c.num_expected_threads = cycle[g].num_expected_threads
  BY <1>1, <1>2 DEF CountEmpty, Cycle
<1> HIDE DEF c
<1>4. cycle' = [cycle EXCEPT ![g] = c] /\ gateq' = q
  BY <1>0, <1>3 DEF DispatchEmpty, c
<1>5. ASSUME NEW h \in Group \ {g} PROVE GroupSound(h)'
  <2>1. cycle'[h] = cycle[h]
    BY <1>1, <1>4
  <2>2. /\ HasToken(gateq', h) => HasToken(gateq, h)
        /\ OneToken(gateq, h) => OneToken(gateq', h)
    BY <1>1, <1>4, PopTokens
  <2> QED BY <1>1, <2>1, <2>2, OtherGroup
<1>6. /\ JoinedIn(g)' = JoinedIn(g) /\ Parked(g)' = Parked(g)
      /\ AsleepIn(g)' = AsleepIn(g) /\ Ungated(g)' = Ungated(g)
      /\ Released(g)' = Released(g)
  BY <1>1 DEF JoinedIn, Parked, AsleepIn, Ungated, Released, Joined
<1>7. AccountingOf(g)' /\ StateSoundOf(g)' /\ NobodyUngated(g)'
  BY <1>1, <1>2, <1>3, <1>4, <1>6
     DEF GroupSound, AccountingOf, StateSoundOf, NobodyUngated
<1>8. ASSUME ~leftover'[g] PROVE GateSoundOf(g)'
  <2>1. GateSoundOf(g)
    BY <1>1, <1>8 DEF GroupSound
  <2>2. ~HasToken(gateq', g)
    BY <1>0, <1>1, <1>4, <2>1, PopTokens DEF GateSoundOf, UniqueToken, OneToken
  <2>3. UniqueToken(g)' /\ ~TokenFor(g)'
    BY <2>2 DEF UniqueToken, TokenFor, HasToken
  <2>4. cycle'[g].state = cycle[g].state
    BY <1>1, <1>3, <1>4
  <2> QED BY Zenon, <1>1, <1>6, <2>1, <2>3, <2>4 DEF GateSoundOf
<1> QED BY <1>5, <1>7, <1>8 DEF GroupSound

-----------------------------------------------------------------------------
(* The theorems.                                                           *)

(* The scheduler starts sound: no group has a participant.                 *)
LEMMA InitSound == Init => IInv
<1> SUFFICES ASSUME Init PROVE IInv
  OBVIOUS
<1>1. NewCycle \in Cycle
  BY CycleThreadCountAssumption DEF NewCycle, Cycle, CycleState
<1>2. TypeOK
  BY <1>1 DEF Init, TypeOK, TaskCtx, NoCtx, ThreadState, Location
<1>3. \A t \in Task : tctx[t] = NoCtx /\ where[t] = "off" /\ ~Joined(t)
  BY DEF Init, Joined, JoinedState, NoCtx
<1>4. ContextSound
  BY <1>3 DEF ContextSound, ContextSoundOf, Queued, Joined, JoinedState, NoCtx
<1>5. ASSUME NEW g \in Group PROVE GroupSound(g)
  <2>1. /\ JoinedIn(g) = {} /\ AsleepIn(g) = {} /\ Parked(g) = {}
        /\ Released(g) = {} /\ Ungated(g) = {}
    BY <1>3 DEF JoinedIn, AsleepIn, Parked, Released, Ungated, Members
  <2>2. AccountingOf(g)
    BY <2>1, FS_EmptySet DEF Init, AccountingOf, NewCycle
  <2>3. StateSoundOf(g) /\ NobodyUngated(g)
    BY <2>1, CycleThreadCountAssumption DEF Init, StateSoundOf, NobodyUngated, NewCycle
  <2>4. GateSoundOf(g)
    BY <2>1 DEF Init, GateSoundOf, UniqueToken, TokenFor
  <2> QED BY <2>2, <2>3, <2>4 DEF GroupSound
<1> QED BY <1>2, <1>4, <1>5 DEF IInv

(* Every callback keeps every group sound.                                 *)
LEMMA GroupStep ==
  ASSUME IInv, Next, TypeOK', ContextSound'
  PROVE  \A g \in Group : GroupSound(g)'
<1>1. ASSUME NEW t \in Task, TaskNext(t) PROVE \A g \in Group : GroupSound(g)'
  <2>1. /\ OnlyTask(t) /\ TypeOK /\ ContextSoundOf(t)
        /\ tctx \in [Task -> TaskCtx] /\ where \in [Task -> Location]
        /\ cycle \in [Group -> Cycle] /\ leftover \in [Group -> BOOLEAN]
    BY <1>1, TaskNextFrame DEF IInv, ContextSound, TypeOK
  <2>2. ASSUME NEW c, NEW open, NEW timeout, SetCycleAndGate(Eid[t], c, open, timeout)
        PROVE  /\ \A h \in Group \ {Eid[t]} : cycle'[h] = cycle[h]
               /\ gateq' = gateq \/ gateq' = PushGate(gateq, Eid[t])
    BY <2>1, <2>2 DEF SetCycleAndGate, ClaimedQueue
  <2>3. CASE SetSchedPolicy(t) \/ InitTask(t)
    <3>1. ~Joined(t) /\ ~Joined(t)'
      BY <2>1, <2>3, EnsuredCases
         DEF SetSchedPolicy, InitTask, EnsureTaskCtx, ContextSoundOf, Joined,
             JoinedState, NoCtx, NewCtx
    <3>2. where[t] # "dsq" /\ where'[t] # "dsq" /\ UNCHANGED <<cycle, gateq, leftover>>
      BY <2>1, <2>3 DEF SetSchedPolicy, InitTask
    <3> QED BY <2>1, <3>1, <3>2, OutsiderStep
  <2>4. CASE YieldJoin(t)
    <3>1. GroupSound(Eid[t])'
      BY <2>1, <2>4, YieldJoinGroup
    <3> QED BY <2>1, <2>4, <3>1, OwnGroup DEF YieldJoin
  <2>5. CASE YieldLate(t) \/ YieldNoCtx(t)
    <3>1. ~Joined(t) /\ ~Joined(t)'
      BY <2>1, <2>5, EnsuredCases
         DEF YieldLate, YieldNoCtx, EnsureTaskCtx, Joined, JoinedState, NoCtx, NewCtx,
             TaskCtx
    <3>2. where[t] # "dsq" /\ where'[t] # "dsq" /\ UNCHANGED <<cycle, gateq, leftover>>
      BY <2>1, <2>5 DEF YieldLate, YieldNoCtx, OnCpu
    <3> QED BY <2>1, <3>1, <3>2, OutsiderStep
  <2>6. CASE EnqueueGlobal(t)
    <3>1. /\ where[t] \in {"cpu", "gated", "yield", "waking"} /\ where'[t] = "cpu"
          /\ UNCHANGED <<cycle, gateq, leftover>>
      BY <2>1, <2>6 DEF EnqueueGlobal, CallsEnqueue
    <3>2. CASE Joined(t)
      <4>1. tctx' = tctx /\ cycle[Eid[t]].state = "TIMEOUT"
        BY <2>1, <2>6, <3>2, EnsuredCases
           DEF EnqueueGlobal, ContextSoundOf, Joined, JoinedState
      <4>2. Joined(t)'
        BY <3>2, <4>1 DEF Joined
      <4>3. GroupSound(Eid[t])'
        BY <2>1, <3>1, <3>2, <4>1, <4>2, QuietGroup
      <4> QED BY <2>1, <3>1, <4>3, OwnGroup
    <3>3. CASE ~Joined(t)
      <4>1. ~Joined(t)'
        BY <2>1, <2>6, <3>3, EnsuredCases
           DEF EnqueueGlobal, EnsureTaskCtx, Joined, JoinedState, NoCtx, NewCtx
      <4> QED BY <2>1, <3>1, <3>3, <4>1, OutsiderStep
    <3> QED BY <3>2, <3>3
  <2>7. CASE EnqueuePark(t)
    <3>1. GroupSound(Eid[t])'
      BY <2>1, <2>7, EnqueueParkGroup
    <3> QED BY Zenon, <2>1, <2>2, <2>7, <3>1, OwnGroup DEF EnqueuePark
  <2>8. CASE Running(t)
    <3>1. /\ Joined(t) /\ Joined(t)' /\ tctx'[t].is_asleep = tctx[t].is_asleep
          /\ where[t] = "local" /\ where'[t] = "gated"
          /\ UNCHANGED <<cycle, gateq, leftover>>
      BY <2>1, <2>8
         DEF Running, ContextSoundOf, Queued, Joined, JoinedState, TaskCtx
    <3>2. GroupSound(Eid[t])'
      BY <2>1, <3>1, QuietGroup
    <3> QED BY <2>1, <3>1, <3>2, OwnGroup
  <2>9. CASE Block(t) \/ Die(t)
    <3>1. /\ HandleExecutorSleep(t) /\ OnCpu(t) /\ where[t] # "dsq"
          /\ where'[t] \in {"asleep", "dead"} /\ leftover' = leftover
      BY <2>1, <2>9 DEF Block, Die, OnCpu
    <3>2. CASE Joined(t)
      <4>1. GroupSound(Eid[t])'
        BY <2>1, <3>1, <3>2, SleepGroup
      <4>2. ~tctx[t].is_asleep
        BY <2>1, <3>1 DEF OnCpu, ContextSoundOf
      <4> QED BY Zenon, <2>1, <2>2, <3>1, <3>2, <4>1, <4>2, OwnGroup
         DEF HandleExecutorSleep
    <3>3. CASE ~Joined(t)
      <4>1. ~Joined(t)' /\ UNCHANGED <<cycle, gateq, leftover>>
        BY <3>1, <3>3 DEF HandleExecutorSleep, Joined
      <4> QED BY <2>1, <3>1, <3>3, <4>1, OutsiderStep
    <3> QED BY <3>2, <3>3
  <2>10. CASE Runnable(t)
    <3>1. CASE tctx[t].is_asleep
      <4>1. GroupSound(Eid[t])'
        BY <2>1, <2>10, <3>1, RunnableGroup
      <4> QED BY Zenon, <2>1, <2>2, <2>10, <3>1, <4>1, OwnGroup DEF Runnable
    <3>2. CASE ~tctx[t].is_asleep
      <4>1. /\ ~Joined(t) /\ ~Joined(t)' /\ where[t] # "dsq" /\ where'[t] # "dsq"
            /\ UNCHANGED <<cycle, gateq, leftover>>
        BY <2>1, <2>10, <3>2 DEF Runnable, ContextSoundOf, Joined
      <4> QED BY <2>1, <4>1, OutsiderStep
    <3> QED BY <3>1, <3>2
  <2>11. CASE PlaceOnIdleCpu(t)
    <3>1. /\ where[t] = "waking" /\ where'[t] = "cpu" /\ IdleWake /\ tctx' = tctx
          /\ UNCHANGED <<cycle, gateq, leftover>>
      BY <2>1, <2>11 DEF PlaceOnIdleCpu
    <3>2. Joined(t)' <=> Joined(t)
      BY <3>1 DEF Joined
    <3>3. CASE Joined(t)
      <4>1. GroupSound(Eid[t])'
        BY <2>1, <3>1, <3>2, <3>3, QuietGroup
      <4> QED BY <2>1, <3>1, <4>1, OwnGroup
    <3> QED BY <2>1, <3>1, <3>2, <3>3, OutsiderStep
  <2>12. CASE ExitTask(t)
    <3>1. CASE Joined(t)
      <4>1. GroupSound(Eid[t])'
        BY <2>1, <2>12, <3>1, ExitGroup
      <4>2. /\ \A h \in Group \ {Eid[t]} : cycle'[h] = cycle[h] /\ leftover'[h] = leftover[h]
            /\ gateq' = gateq \/ gateq' = PushGate(gateq, Eid[t])
        BY Zenon, <2>1, <2>12, <3>1 DEF ExitTask, ClaimedQueue
      <4> QED BY <2>1, <4>1, <4>2, OwnGroup
    <3>2. CASE ~Joined(t)
      <4>1. /\ ~Joined(t)' /\ where[t] # "dsq" /\ where'[t] # "dsq"
            /\ UNCHANGED <<cycle, gateq, leftover>>
        BY Zenon, <2>1, <2>12, <3>2 DEF ExitTask, Joined, JoinedState, NoCtx
      <4> QED BY <2>1, <3>2, <4>1, OutsiderStep
    <3> QED BY <3>1, <3>2
  <2>13. CASE CheckDispatchTimeout(t)
    <3>1. GroupSound(Eid[t])'
      BY <2>1, <2>13, TimeoutGroup
    <3> QED BY Zenon, <2>1, <2>2, <2>13, <3>1, OwnGroup DEF CheckDispatchTimeout
  <2> QED BY <1>1, <2>3, <2>4, <2>5, <2>6, <2>7, <2>8, <2>9, <2>10, <2>11, <2>12,
             <2>13 DEF TaskNext
<1> QED BY <1>1, DispatchMoveGroups, DispatchEmptyGroups DEF Next

(* IInv is an inductive invariant, for every set of tasks and groups.      *)
THEOREM Invariance == Spec => []IInv
<1>1. IInv /\ [Next]_vars => IInv'
  <2> SUFFICES ASSUME IInv, [Next]_vars PROVE IInv'
    OBVIOUS
  <2>1. CASE Next
    <3>1. TypeOK' /\ ContextSound'
      BY <2>1, TypeStep, ContextStep
    <3> QED BY <2>1, <3>1, GroupStep DEF IInv
  <2>2. CASE UNCHANGED vars
    <3>1. TypeOK' /\ ContextSound'
      BY <2>2 DEF vars, IInv, TypeOK, ContextSound, ContextSoundOf, Queued, Joined
    <3>2. ASSUME NEW g \in Group PROVE GroupSound(g)'
      BY <2>2, OtherGroup DEF vars
    <3> QED BY <3>1, <3>2 DEF IInv
  <2> QED BY <2>1, <2>2
<1> QED BY <1>1, InitSound, PTL DEF Spec

(* The maps, the queue and the kernel's side keep their types: the guarded *)
(* decrements of the callbacks never take a counter below zero.            *)
THEOREM TypeCorrect == Spec => []TypeOK
<1>1. IInv => TypeOK
  BY DEF IInv
<1> QED BY <1>1, Invariance, PTL

(* The counters of every cycle count its tasks exactly.                    *)
THEOREM CountersExact == Spec => []Accounting
<1>1. IInv => Accounting
  BY DEF IInv, GroupSound, AccountingOf, Accounting
<1> QED BY <1>1, Invariance, PTL

(* The state of a cycle agrees with the number of its participants; a      *)
(* started cycle always has one left, whose exit will reset it.            *)
THEOREM StatesSound == Spec => []CycleStateSound
<1>1. IInv => CycleStateSound
  BY DEF IInv, GroupSound, StateSoundOf, CycleStateSound
<1> QED BY <1>1, Invariance, PTL

(* Serialisation: in a cycle that has not timed out and found no token of  *)
(* its predecessor, at most one participant is released at a time.         *)
THEOREM Serialisation == Spec => []Serialised
<1>1. IInv => Serialised
  <2> SUFFICES ASSUME IInv, NEW g \in Group, ~leftover[g], cycle[g].state # "TIMEOUT"
               PROVE  /\ \A t, u \in Released(g) : t = u
                      /\ ~IdleWake => Ungated(g) = {}
    BY DEF Serialised
  <2>1. /\ GroupSound(g) /\ GateSoundOf(g) /\ cycle[g].state \in CycleState
    BY DEF IInv, GroupSound, TypeOK, Cycle
  <2>2. cycle[g].state # "RUNNING" => Released(g) = {}
    BY <2>1 DEF GateSoundOf, Released, CycleState
  <2> QED BY <2>1, <2>2 DEF GroupSound, GateSoundOf, NobodyUngated
<1> QED BY <1>1, Invariance, PTL

(* The start barrier: nobody runs past the first yield before every        *)
(* expected participant is parked.                                         *)
THEOREM Barrier == Spec => []StartBarrier
<1>1. IInv => StartBarrier
  BY DEF IInv, GroupSound, GateSoundOf, StartBarrier
<1> QED BY <1>1, Invariance, PTL

(* No section but the last exit's takes a timed-out cycle out of TIMEOUT.   *)
LEMMA SectionsKeepTimeout ==
  ASSUME NEW c \in Cycle, c.state = "TIMEOUT", c.num_expected_threads > 0
  PROVE  /\ ClaimGate(c, TRUE).state = "TIMEOUT"
         /\ CountMoved(c) \in Cycle /\ CountMoved(c).state = "TIMEOUT"
         /\ CountEmpty(c) \in Cycle /\ CountEmpty(c).state = "TIMEOUT"
         /\ CountWake(c).state = "TIMEOUT"
         /\ ~RunningGateOpens(CountWake(c))
         /\ \A b : CountSleep(c, b).state = "TIMEOUT" /\ ~RunningGateOpens(CountSleep(c, b))
         /\ \A a, b : CountExit(c, a, b) \in Cycle /\ CountExit(c, a, b).state = "TIMEOUT"
<1>1. ClaimGate(c, TRUE).state = "TIMEOUT"
  BY DEF ClaimGate, Cycle
<1>2. CountMoved(c).state = "TIMEOUT" /\ CountEmpty(c).state = "TIMEOUT"
  BY DEF CountMoved, CountEmpty, Cycle
<1>3. CountWake(c).state = "TIMEOUT" /\ ~RunningGateOpens(CountWake(c))
  BY DEF CountWake, Cycle, RunningGateOpens
<1>4. ASSUME NEW b
      PROVE  CountSleep(c, b).state = "TIMEOUT" /\ ~RunningGateOpens(CountSleep(c, b))
  BY DEF CountSleep, Cycle, RunningGateOpens
<1>5. ASSUME NEW a, NEW b PROVE CountExit(c, a, b).state = "TIMEOUT"
  BY DEF CountExit, Cycle
<1> QED BY Zenon, <1>1, <1>2, <1>3, <1>4, <1>5, SectionTypes

(* A timed-out cycle stays timed out until its last participant leaves.    *)
THEOREM TimeoutLasts == Spec => TimeoutUntilReset
<1> DEFINE Lasts(g) == cycle[g].state = "TIMEOUT" /\ cycle'[g].state # "TIMEOUT" =>
                         cycle'[g] = NewCycle /\ \A t \in Members(g) : ~Joined(t)'
<1>1. IInv /\ IInv' /\ [Next]_vars => [\A g \in Group : Lasts(g)]_vars
  <2> SUFFICES ASSUME IInv, IInv', Next, NEW g \in Group,
                      cycle[g].state = "TIMEOUT", cycle'[g].state # "TIMEOUT"
               PROVE  cycle'[g] = NewCycle /\ \A t \in Members(g) : ~Joined(t)'
    OBVIOUS
  <2>1. /\ cycle \in [Group -> Cycle] /\ cycle[g] \in Cycle
        /\ cycle[g].num_expected_threads > 0
    BY DEF IInv, TypeOK, GroupSound, StateSoundOf
  <2>2. ASSUME NEW c \in Cycle, c.state = "TIMEOUT"
        PROVE  ClaimGate(c, TRUE).state = "TIMEOUT"
    BY <2>2 DEF ClaimGate, Cycle
  <2>3. cycle'[g] = NewCycle
    <3>1. ASSUME DispatchMove \/ DispatchEmpty PROVE FALSE
      <4> DEFINE m == CountMoved(cycle[g])
                 e == CountEmpty(cycle[g])
      <4>1. /\ m \in Cycle /\ m.state = "TIMEOUT" /\ ClaimGate(m, TRUE).state = "TIMEOUT"
            /\ e \in Cycle /\ e.state = "TIMEOUT" /\ ClaimGate(e, TRUE).state = "TIMEOUT"
        BY ZenonT(30), <2>1, <2>2, SectionsKeepTimeout
      <4>2. (e.state = "TIMEOUT") = TRUE
        BY <4>1
      <4> HIDE DEF m, e
      <4>3. CASE Head(gateq) = g
        <5>1. \/ cycle'[g] = m \/ cycle'[g] = ClaimGate(m, TRUE)
              \/ cycle'[g] = e \/ cycle'[g] = ClaimGate(e, e.state = "TIMEOUT")
          BY Zenon, <2>1, <3>1, <4>3 DEF DispatchMove, DispatchEmpty, m, e
        <5> QED BY Zenon, <4>1, <4>2, <5>1
      <4>4. CASE Head(gateq) # g
        BY ZenonT(30), <2>1, <3>1, <4>4 DEF DispatchMove, DispatchEmpty
      <4> QED BY <4>3, <4>4
    <3>2. ASSUME NEW t \in Task, TaskNext(t) PROVE cycle'[g] = NewCycle
      <4>1. CASE \/ SetSchedPolicy(t) \/ InitTask(t) \/ YieldLate(t) \/ YieldNoCtx(t)
                 \/ EnqueueGlobal(t) \/ Running(t) \/ PlaceOnIdleCpu(t)
        BY <4>1 DEF SetSchedPolicy, InitTask, YieldLate, YieldNoCtx, EnqueueGlobal,
                    Running, PlaceOnIdleCpu
      <4>2. CASE YieldJoin(t) \/ EnqueuePark(t)
        BY Zenon, <2>1, <4>2 DEF YieldJoin, EnqueuePark, SetCycleAndGate
      <4>3. CASE Block(t) \/ Die(t)
        <5> DEFINE c == CountSleep(cycle[g], Queued(t))
        <5>1. c.state = "TIMEOUT" /\ ~RunningGateOpens(c)
          BY Zenon, <2>1, SectionsKeepTimeout
        <5> HIDE DEF c
        <5>2. HandleExecutorSleep(t)
          BY <4>3 DEF Block, Die
        <5>3. cycle'[g] = cycle[g] \/ cycle'[g] = c
          BY Zenon, <2>1, <5>1, <5>2 DEF HandleExecutorSleep, SetCycleAndGate, c
        <5> QED BY <5>1, <5>3
      <4>4. CASE Runnable(t)
        BY ZenonT(30), <2>1, <4>4, SectionsKeepTimeout DEF Runnable, SetCycleAndGate
      <4>5. CASE CheckDispatchTimeout(t)
        BY Zenon, <2>1, <4>5, SectionsKeepTimeout
           DEF CheckDispatchTimeout, SetCycleAndGate
      <4>6. CASE ExitTask(t)
        <5> DEFINE c == CountExit(cycle[g], Queued(t), tctx[t].is_asleep)
        <5>0. \A a, b : CountExit(cycle[g], a, b) \in Cycle
                          /\ CountExit(cycle[g], a, b).state = "TIMEOUT"
          BY Zenon, <2>1, SectionsKeepTimeout
        <5>1. c \in Cycle /\ c.state = "TIMEOUT"
          BY <5>0, Zenon
        <5>2. (c.state = "TIMEOUT") = TRUE
          BY <5>1
        <5>3. /\ ClaimGate(c, c.state = "TIMEOUT") \in Cycle
              /\ ClaimGate(c, c.state = "TIMEOUT").state = "TIMEOUT"
          BY Zenon, <2>2, <5>1, <5>2, SectionTypes
        <5>4. ResetCycle(IF ExitGateOpens(c) THEN ClaimGate(c, c.state = "TIMEOUT") ELSE c)
                = NewCycle
          BY Zenon, <5>1, <5>3, SectionTypes
        <5> HIDE DEF c
        <5>5. Eid[t] = g /\ Joined(t)
          BY Zenon, <2>1, <4>6 DEF ExitTask
        <5>6. cycle'[g] = IF LastExit(c)
                THEN ResetCycle(IF ExitGateOpens(c)
                                THEN ClaimGate(c, c.state = "TIMEOUT") ELSE c)
                ELSE IF ExitGateOpens(c) THEN ClaimGate(c, c.state = "TIMEOUT") ELSE c
          BY ZenonT(30), <2>1, <4>6, <5>5 DEF ExitTask, c
        <5> QED BY <5>1, <5>3, <5>4, <5>6
      <4> QED BY <3>2, <4>1, <4>2, <4>3, <4>4, <4>5, <4>6 DEF TaskNext
    <3> QED BY <3>1, <3>2 DEF Next
  <2>4. Cardinality(JoinedIn(g)') = 0
    BY <2>3 DEF IInv, GroupSound, AccountingOf, NewCycle
  <2>5. JoinedIn(g)' \in SUBSET Task
    BY DEF JoinedIn, Members
  <2>6. ASSUME NEW t \in JoinedIn(g)' PROVE FALSE
    <3>1. Cardinality(JoinedIn(g)') > 0
      BY Zenon, <2>5, <2>6, OneMore
    <3> QED BY <2>4, <3>1
  <2>7. \A t \in Members(g) : ~Joined(t)'
    BY <2>6 DEF JoinedIn
  <2> QED BY <2>3, <2>7
<1> QED BY <1>1, Invariance, PTL DEF Spec, TimeoutUntilReset
=============================================================================
