------------------------------ MODULE MCVmLoop ------------------------------
(* VmLoop for TLC. *)
EXTENDS VmLoop

OneTitle == {"A"}
=============================================================================
