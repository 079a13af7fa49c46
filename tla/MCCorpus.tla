------------------------------ MODULE MCCorpus ------------------------------
(* Corpus for TLC: b covers what a covers; d is disabled, x cannot be parsed. *)
EXTENDS Corpus, TLC

CONSTANTS v1, v2, a, b, d, x

TwoVMs == {v1, v2}
OneFinder == {v1}
Progs == {a, b, d, x}
Signals == {1, 2}
BCoversA == a :> {{1}} @@ b :> {{1, 2}} @@ d :> {} @@ x :> {}
HubSends == {a}
DisabledProgs == {d}
BadProgs == {x}
AIsLeft == d :> a

File(v, keys) == [version |-> v, entries |-> InSomeOrder({Entry(k, 0) : k \in keys})]
Files == {File(3, {a, d, x})}
=============================================================================
