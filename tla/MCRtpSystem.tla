----------------------------- MODULE MCRtpSystem -----------------------------
(* Small instances of RtpSystem: two senders, two receivers. *)
EXTENDS RtpSystem, TLC

FourHosts == 0..3

(* Every pair has flows; those of one receiver and of one sender differ. *)
ThreeSizes == <<0, 1>> :> {2} @@ <<0, 2>> :> {2} @@ <<3, 1>> :> {3} @@ <<3, 2>> :> {1}
OneSize == [p \in Senders \X Receivers |-> {1}]
=============================================================================
