------------------------------ MODULE GrantLease ------------------------------
(***************************************************************************)
(* What the controller and one receiver of the RUF prototype promise each  *)
(* other about grants (GOSRC): there is one at a time.  A grant is on its  *)
(* way, held, and returned by an NRTS before the next one is made.  It may *)
(* also be lost with the packet or the request that carries it or gives it *)
(* back; then the receiver is never granted anything again, for the        *)
(* controller does not time grants out (src/prototype/src/rtp_host.c).     *)
(***************************************************************************)
VARIABLE lease

TypeOK == lease \in {"free", "granted", "held", "returning", "lost"}

Init == lease = "free"

(* handle_requests finds the receiver free. *)
Grant == lease = "free" /\ lease' = "granted"

(* rtp_receive_gosrc finds a flow to serve, or refuses the grant. *)
Take == lease = "granted" /\ lease' = "held"
Refuse == lease = "granted" /\ lease' = "returning"

(* send_token_evt_handler gives the grant back. *)
Return == lease = "held" /\ lease' = "returning"

(* rtp_receive_listsrc frees the receiver. *)
Free == lease = "returning" /\ lease' = "free"

(* A packet or the request that carries the NRTS is lost. *)
Lose == lease \in {"granted", "returning"} /\ lease' = "lost"

Next == Grant \/ Take \/ Refuse \/ Return \/ Free \/ Lose

Spec == Init /\ [][Next]_lease

=============================================================================
