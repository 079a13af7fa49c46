---------------------------- MODULE MCSerialise ----------------------------
(* A small instance of Serialise for TLC. *)
EXTENDS SerialiseInv

CONSTANTS t1, t2, t3, g1

ThreeTasks == {t1, t2, t3}
OneGroup == {g1}
AllInG1 == [t \in Task |-> g1]
=============================================================================
