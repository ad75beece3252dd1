---------------------------- MODULE MCRtpReceiver ----------------------------
(* Small instances of RtpReceiver. *)
EXTENDS RtpReceiver, TLC

CONSTANTS f1, f2, f3, null

AllFlows == {f1, f2, f3}
Sizes == f1 :> 2 @@ f2 :> 1 @@ f3 :> 3
Sources == f1 :> 20 @@ f2 :> 24 @@ f3 :> 20
TwoOrOne == {{f1, f2}, {f3}}
TokenCounts == f1 :> 3 @@ f2 :> 3 @@ f3 :> 6
=============================================================================
