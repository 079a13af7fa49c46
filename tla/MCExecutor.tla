---------------------------- MODULE MCExecutor ----------------------------
(* Executor for TLC: three processes on a gate of three tickets, one of    *)
(* them with an executor that fails in all the ways the code knows.        *)
EXTENDS Executor, TLC

CONSTANTS p1, p2, p3

OneProc == {p1}
ThreeProcs == {p1, p2, p3}
=============================================================================
