------------------------------ MODULE GateAbs ------------------------------
(***************************************************************************)
(* What a gate of size Size promises its users: an activity that runs is   *)
(* among the last Size that were started, so a slow one holds new ones     *)
(* up; and with a callback, when the first activity of every Size ends,    *)
(* nobody starts until all others have ended and the callback was made.    *)
(***************************************************************************)
EXTENDS Naturals

CONSTANT Size  \* the concurrency window

VARIABLES
  ages,      \* for every activity that runs, the number of starts since its own
  starts,    \* the number of starts so far, modulo Size
  draining,  \* the callback is due and nobody may start
  callback   \* whether there is a callback

absVars == <<ages, starts, draining, callback>>

AbsInit ==
  /\ ages = {}
  /\ starts = 0
  /\ draining = FALSE
  /\ callback \in BOOLEAN

AbsStart ==
  /\ ~draining
  /\ Size - 1 \notin ages
  /\ ages' = {a + 1 : a \in ages} \cup {0}
  /\ starts' = IF starts = Size - 1 THEN 0 ELSE starts + 1
  /\ UNCHANGED <<draining, callback>>

(* The number, modulo Size, of the activity of age a when n have started. *)
NumberOf(n, a) == IF a < n THEN n - 1 - a ELSE Size + n - 1 - a

(* An activity ends; when it is the first of its batch everybody else has  *)
(* to end too, and when nobody else is left the callback follows at once.  *)
AbsFinish ==
  \E a \in ages :
    /\ ages' = ages \ {a}
    /\ draining' = (draining \/ (callback /\ NumberOf(starts, a) = 0 /\ ages' # {}))
    /\ UNCHANGED <<starts, callback>>

AbsCallback ==
  /\ draining
  /\ ages = {}
  /\ draining' = FALSE
  /\ UNCHANGED <<ages, starts, callback>>

AbsNext == AbsStart \/ AbsFinish \/ AbsCallback

AbsSpec == AbsInit /\ [][AbsNext]_absVars
=============================================================================
