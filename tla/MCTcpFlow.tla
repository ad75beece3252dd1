----------------------------- MODULE MCTcpFlow -----------------------------
(* Small instances of TcpFlow. *)
EXTENDS TcpFlow
=============================================================================
