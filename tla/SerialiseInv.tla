---------------------------- MODULE SerialiseInv ----------------------------
(***************************************************************************)
(* The inductive invariant of Serialise.  Accounting and CycleStateSound   *)
(* tie the counters to the tasks; ContextSound ties a task's context to    *)
(* the place the kernel keeps it in; GateSound ties the tokens in the gate *)
(* queue to pending_dispatch and to the participants that are out.         *)
(***************************************************************************)
EXTENDS Serialise

ContextSoundOf(t) ==
  /\ tctx[t].state # "NONE" => where[t] # "off" /\ Eid[t] \in created
  /\ Queued(t) <=> where[t] \in {"dsq", "local"}
  /\ tctx[t].timed <=> Queued(t)
  /\ tctx[t].is_asleep <=> Joined(t) /\ where[t] \in {"asleep", "dead"}
  /\ where[t] \in {"yield", "gated"} => Joined(t)

ContextSound == \A t \in Task : ContextSoundOf(t)

AccountingOf(g) ==
  /\ cycle[g].num_alive = Cardinality(JoinedIn(g))
  /\ cycle[g].num_asleep = Cardinality(AsleepIn(g))
  /\ cycle[g].num_queued = Cardinality(Parked(g))

StateSoundOf(g) ==
  LET c == cycle[g] IN
  /\ c.state = "UNAVAILABLE" => c.num_alive < c.num_expected_threads
  /\ c.state = "READY" => c.num_alive = c.num_expected_threads
  /\ c.state # "UNAVAILABLE" => c.num_alive > 0
  /\ c.num_expected_threads > 0
  /\ c.pending_dispatch => c.state \in {"RUNNING", "TIMEOUT"}

UniqueToken(g) ==
  \A i, j \in 1..Len(gateq) : gateq[i] = g /\ gateq[j] = g => i = j

GateSoundOf(g) ==
  /\ UniqueToken(g)
  /\ TokenFor(g) => cycle[g].pending_dispatch
  /\ cycle[g].state \in {"UNAVAILABLE", "READY"} =>
       \A t \in JoinedIn(g) : where[t] \in {"yield", "dsq"}
  /\ cycle[g].state = "RUNNING" => \A t, u \in Released(g) : t = u
  /\ cycle[g].state = "RUNNING" /\ TokenFor(g) => Released(g) = {}

NobodyUngated(g) ==
  ~IdleWake /\ cycle[g].state # "TIMEOUT" => Ungated(g) = {}

GroupSound(g) ==
  /\ AccountingOf(g)
  /\ StateSoundOf(g)
  /\ NobodyUngated(g)
  /\ ~leftover[g] => GateSoundOf(g)

(* The inductive invariant: contexts, counters, cycle states and gate      *)
(* tokens agree with the tasks, in every group.                            *)
IInv == TypeOK /\ ContextSound /\ \A g \in Group : GroupSound(g)
=============================================================================
