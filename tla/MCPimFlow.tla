------------------------------ MODULE MCPimFlow ------------------------------
(* A large and a short flow of one sender. *)
EXTENDS PimFlow, TLC

CONSTANTS large, short, a, b

TwoFlows == {large, short}
InFlight == [f \in Flows |-> 2]
Sizes == large :> 2 @@ short :> 1
OneSource == [f \in Flows |-> a]
OneSink == [f \in Flows |-> b]
=============================================================================
