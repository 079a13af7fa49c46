------------------------------ MODULE MCFuzzer ------------------------------
(* Fuzzer for TLC.  Candidates are new or come from the corpus. *)
EXTENDS Fuzzer, TLC

CONSTANTS p1, p2, s1, s2

TwoProcs == {p1, p2}
OneSignal == {s1}
TwoSignals == {s1, s2}
NewOrTriaged == {{"ProgCandidate"}, {"ProgCandidate", "ProgMinimized", "ProgSmashed"}}
Symmetry == Permutations(Proc)
=============================================================================
