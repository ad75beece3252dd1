------------------------------- MODULE PimHosts -------------------------------
(***************************************************************************)
(* The hosts and flows of PIM in the simulator (src/simulator/ext/         *)
(* pimhost.cpp, pimflow.cpp), which PimMatching and PimFlow share.         *)
(***************************************************************************)
EXTENDS FiniteSets

CONSTANTS
  Flows,
  Src, Dst,   \* the hosts of a flow
  NoHost      \* NULL

ASSUME FlowsAssumption == IsFiniteSet(Flows)
ASSUME HostsAssumption == /\ DOMAIN Src = Flows /\ DOMAIN Dst = Flows
                          /\ \A f \in Flows : Src[f] # NoHost /\ Dst[f] # NoHost

Senders == {Src[f] : f \in Flows}
Receivers == {Dst[f] : f \in Flows}

=============================================================================
