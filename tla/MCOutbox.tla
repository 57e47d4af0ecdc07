------------------------------ MODULE MCOutbox ------------------------------
(* Instances of Outbox for TLC. *)
EXTENDS Outbox

CONSTANTS t1, t2, v1, g1, s1

Empty == {}
OneText == {t1}
TwoTexts == {t1, t2}
OneMedia == {v1}
OneGroup == {g1}
OneSaved == {s1}

(* The two texts are interchangeable; used with invariants only. *)
TextSymmetry == Permutations(TwoTexts)

(* A bound: no more than two messages are sent, of whatever kinds.         *)
TwoSent == Cardinality({m \in Ids : stage[m] # "unsent"}) <= 2
=============================================================================
