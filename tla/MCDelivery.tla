----------------------------- MODULE MCDelivery -----------------------------
(* Instances of Delivery for TLC. *)
EXTENDS Delivery

CONSTANTS m1, m2

None == {}
OneMsg == {m1}
TwoMsgs == {m1, m2}
=============================================================================
