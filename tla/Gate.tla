-------------------------------- MODULE Gate --------------------------------
(***************************************************************************)
(* pkg/ipc/gate.go: the gate that limits how many programs run at once and *)
(* how far apart in the log they may be, and that stops the world for the  *)
(* leak checker.  A step is a section of cv.L; cv.Wait gives the lock up   *)
(* and sleeps until a Broadcast.                                           *)
(***************************************************************************)
EXTENDS Naturals, FiniteSets

CONSTANTS
  Proc,  \* the goroutines that use the gate
  Size   \* NewGate's c

ASSUME SizeAssumption == Size \in Nat \ {0}
ASSUME ProcAssumption == IsFiniteSet(Proc)

VARIABLES
  busy,      \* the slots of Gate.busy that are set
  pos, running, stop,
  hasF,      \* whether its f is not nil
  at,        \* where each goroutine is
  ticket,    \* what Enter returned to it
  broken     \* a panic("broken gate") was reached

gateVars == <<busy, pos, running, stop, hasF, at, ticket, broken>>

Slot == 0 .. Size - 1

(* out: no call; enter: in Enter, ready to take cv.L; parked: in Enter,    *)
(* asleep in cv.Wait; in: between Enter and Leave; drain, drainParked: the *)
(* same in the loop of Leave; callback: in f, holding cv.L.                *)
Place == {"out", "enter", "parked", "in", "drain", "drainParked", "callback"}

GateTypeOK ==
  /\ busy \subseteq Slot
  /\ pos \in Slot
  /\ running \in Nat
  /\ stop \in BOOLEAN
  /\ hasF \in BOOLEAN
  /\ at \in [Proc -> Place]
  /\ ticket \in [Proc -> Slot]
  /\ broken \in BOOLEAN

GateInit ==
  /\ busy = {}
  /\ pos = 0
  /\ running = 0
  /\ stop = FALSE
  /\ hasF \in BOOLEAN
  /\ at = [p \in Proc |-> "out"]
  /\ ticket = [p \in Proc |-> 0]
  /\ broken = FALSE

LockFree == \A p \in Proc : at[p] # "callback"

(* cv.Broadcast *)
Woken(a) ==
  [p \in Proc |-> IF a[p] = "parked" THEN "enter"
                  ELSE IF a[p] = "drainParked" THEN "drain" ELSE a[p]]

(* The goroutine calls Enter and tries to take cv.L. *)
Arrive(p) ==
  /\ at[p] = "out"
  /\ at' = [at EXCEPT ![p] = "enter"]
  /\ UNCHANGED <<busy, pos, running, stop, hasF, ticket, broken>>

(* Mutants: only the level of concurrency is limited; a stopped world is  *)
(* entered; the slot's last activity is not waited for.                    *)
EnterBlocked_LevelOnly == running >= Size \/ stop
EnterBlocked_NoStop == pos \in busy
EnterBlocked_StopOnly == stop

EnterBlocked == pos \in busy \/ stop

EnterPark(p) ==
  /\ at[p] = "enter"
  /\ LockFree
  /\ EnterBlocked
  /\ at' = [at EXCEPT ![p] = "parked"]
  /\ UNCHANGED <<busy, pos, running, stop, hasF, ticket, broken>>

NextPos == IF pos + 1 >= Size THEN 0 ELSE pos + 1

Enter(p) ==
  /\ at[p] = "enter"
  /\ LockFree
  /\ ~EnterBlocked
  /\ ticket' = [ticket EXCEPT ![p] = pos]
  /\ pos' = NextPos
  /\ busy' = busy \cup {pos}
  /\ running' = running + 1
  /\ broken' = (broken \/ running + 1 > Size)
  /\ at' = [at EXCEPT ![p] = "in"]
  /\ UNCHANGED <<stop, hasF>>

(* The first lines of Leave: the ticket is given back. *)
GiveBack(p) ==
  /\ busy' = busy \ {ticket[p]}
  /\ running' = running - 1
  /\ broken' = (broken \/ ticket[p] \notin busy \/ running = 0 \/ (ticket[p] = 0 /\ hasF /\ stop))

(* Mutant: the goroutines that wait for the slot are not woken. *)
LeaveWakes_DrainOnly(p) == running - 1 = 0 /\ stop

LeaveWakes(p) == (ticket[p] = pos /\ ~stop) \/ (running - 1 = 0 /\ stop)

LeavePlain(p) ==
  /\ at[p] = "in"
  /\ LockFree
  /\ ticket[p] # 0 \/ ~hasF
  /\ GiveBack(p)
  /\ LET left == [at EXCEPT ![p] = "out"]
     IN at' = IF LeaveWakes(p) THEN Woken(left) ELSE left
  /\ ticket' = [ticket EXCEPT ![p] = 0]
  /\ UNCHANGED <<pos, stop, hasF>>

(* The holder of ticket 0 stops the world: it sleeps in the loop of Leave, *)
(* or calls f at once when nobody else is in.                              *)
LeaveFirst(p) ==
  /\ at[p] = "in"
  /\ LockFree
  /\ ticket[p] = 0 /\ hasF
  /\ GiveBack(p)
  /\ stop' = (running # 1)
  /\ at' = [at EXCEPT ![p] = IF running = 1 THEN "callback" ELSE "drainParked"]
  /\ UNCHANGED <<pos, hasF, ticket>>

DrainPark(p) ==
  /\ at[p] = "drain"
  /\ LockFree
  /\ running # 0
  /\ at' = [at EXCEPT ![p] = "drainParked"]
  /\ UNCHANGED <<busy, pos, running, stop, hasF, ticket, broken>>

(* After a wake-up the loop is over: stop is cleared and f called, with cv.L held. *)
StartCallback(p) ==
  /\ at[p] = "drain"
  /\ LockFree
  /\ running = 0
  /\ stop' = FALSE
  /\ at' = [at EXCEPT ![p] = "callback"]
  /\ UNCHANGED <<busy, pos, running, hasF, ticket, broken>>

EndCallback(p) ==
  /\ at[p] = "callback"
  /\ at' = Woken([at EXCEPT ![p] = "out"])
  /\ UNCHANGED <<busy, pos, running, stop, hasF, ticket, broken>>

GateStep(p) ==
  \/ Arrive(p) \/ EnterPark(p) \/ Enter(p)
  \/ LeavePlain(p) \/ LeaveFirst(p)
  \/ DrainPark(p) \/ StartCallback(p) \/ EndCallback(p)

GateNext == \E p \in Proc : GateStep(p)

GateSpec == GateInit /\ [][GateNext]_gateVars
=============================================================================
