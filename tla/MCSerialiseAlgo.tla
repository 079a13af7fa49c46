--------------------------- MODULE MCSerialiseAlgo ---------------------------
(* A small instance of SerialiseAlgo. *)
EXTENDS SerialiseAlgo, TLC

CONSTANTS t1, t2, g1

TwoTasks == {t1, t2}
OneGroup == {g1}
AllInG1 == [t \in Task |-> g1]
NoAddr == {}
OnePriority == {1}

Symmetry == Permutations(Task)
=============================================================================
