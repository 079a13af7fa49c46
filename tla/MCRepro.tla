------------------------------ MODULE MCRepro -------------------------------
(* Repro for TLC. *)
EXTENDS Repro

(* Programs 2 and 4 are of one process, the others have their own. *)
Procs == <<1, 2, 3, 2, 4, 5, 6>>
Options ==
  [sandbox |-> "namespace",
   on |-> {"Threaded", "Repeat", "Procs", "NetReset", "Cgroups", "CloseFDs", "UseTmpDir"}]
=============================================================================
