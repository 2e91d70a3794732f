--------------------------- MODULE MCEfaQpLifecycle ---------------------------
(* TLC instance of EfaQpLifecycle: two QPs with the two CQs in crossed roles, *)
(* and one with a single CQ for both.                                         *)
EXTENDS EfaQpLifecycle, TLC

CONSTANTS p1, p2, p3, c1, c2

MCQps == {p1, p2, p3}
MCCqs == {c1, c2}
CrossedSendCq == (p1 :> c1) @@ (p2 :> c2) @@ (p3 :> c1)
CrossedRecvCq == (p1 :> c2) @@ (p2 :> c1) @@ (p3 :> c1)
=============================================================================
