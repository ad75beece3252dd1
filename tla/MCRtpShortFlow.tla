--------------------------- MODULE MCRtpShortFlow ---------------------------
(* Small instances of RtpShortFlow. *)
EXTENDS RtpShortFlow, TLC

CONSTANTS f1, f2

TwoFlows == {f1, f2}
OneFlow == {f1}

TwoSizes == f1 :> 1 @@ f2 :> 2
OneSize == f1 :> 2

(* All that f2 sends may be lost, of f1 what is sent again. *)
TwoLossy == f1 :> {"TOKEN", "DATA"} @@ f2 :> Kinds
OneLossy == f1 :> {"TOKEN", "DATA"}
=============================================================================
