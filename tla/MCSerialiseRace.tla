--------------------------- MODULE MCSerialiseRace ---------------------------
(* Small instances of SerialiseRace.                                       *)
EXTENDS SerialiseRace, TLC

CONSTANTS t1, t2, c1, c2

TwoTasks == {t1, t2}
TwoCpus == {c1, c2}

Symmetry == Permutations(Task) \cup Permutations(Cpu)
=============================================================================
