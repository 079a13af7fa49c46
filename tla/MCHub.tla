------------------------------- MODULE MCHub -------------------------------
(* Hub for TLC: two managers, one of which cannot run repro2. *)
EXTENDS Hub, TLC

CONSTANTS prog1, prog2, repro1, repro2

TwoProgs == {prog1, prog2}
TwoRepros == {repro1, repro2}
Supported == [m \in 1 .. NMgr |-> Prog \cup (IF m = 1 THEN Repro ELSE {repro1})]
None == {}
Symmetry == Permutations(TwoProgs)
=============================================================================
