------------------------------- MODULE MCPHost -------------------------------
(* Small instances of PHost: flows of one sender for one receiver. *)
EXTENDS PHost, TLC

CONSTANTS long, short, a, b

TwoFlows == {long, short}
Sizes == long :> 2 @@ short :> 1
OneSource == [f \in Flows |-> a]
OneSink == [f \in Flows |-> b]
=============================================================================
