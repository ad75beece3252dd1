----------------------------- MODULE MCHostPort -----------------------------
(* A small instance of HostPort. *)
EXTENDS HostPort

CONSTANTS f1, f2, p1

TwoFlows == {f1, f2}
OnePeer == {p1}
Sizes == [f \in TwoFlows |-> IF f = f1 THEN 2 ELSE 5]
=============================================================================
