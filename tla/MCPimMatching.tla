---------------------------- MODULE MCPimMatching ----------------------------
(* Two senders and two receivers, with a flow for every pair but one. *)
EXTENDS PimMatching, TLC

CONSTANTS f1, f2, f3, s1, s2, r1, r2

ThreeFlows == {f1, f2, f3}
Sources == f1 :> s1 @@ f2 :> s1 @@ f3 :> s2
Sinks == f1 :> r1 @@ f2 :> r2 @@ f3 :> r1
=============================================================================
