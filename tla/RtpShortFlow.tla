---------------------------- MODULE RtpShortFlow ----------------------------
(***************************************************************************)
(* Short flows of the RUF prototype (src/prototype/src): flows of at most  *)
(* small_flow_thre packets, which are not scheduled by the controller.     *)
(*                                                                         *)
(* The sender announces the flow (RTS) and puts one token per packet in    *)
(* its own short_flow_token_q; its pacer turns every token into a data     *)
(* packet.  The receiver records the packets in a bitmap, re-creates       *)
(* tokens for the missing ones each time the flow's redundancy control     *)
(* timer fires, acknowledges the complete flow and drops its state when    *)
(* the finish timer fires.  Data that overtakes its RTS waits in           *)
(* temp_pkt_buffer.  The network loses the kinds of packets in Lossy and   *)
(* reorders everything.                                                    *)
(*                                                                         *)
(* Abstractions: a queue is the set of its entries, so the order in a      *)
(* queue and equal entries are not told apart (recording a packet twice    *)
(* changes nothing); the control queue between a handler and the wire is   *)
(* part of net; a token has no sequence number (nothing reads it for a     *)
(* short flow); a timer that is armed may fire at any time.                *)
(* Operators named Mut... are faulty variants of the operator after them.  *)
(***************************************************************************)
EXTENDS Naturals, FiniteSets

CONSTANTS
  Flows,          \* ids of the short flows
  Size,           \* their sizes in packets (size_in_pkt)
  SmallFlowThre,  \* params.small_flow_thre
  TempCap,        \* capacity of temp_pkt_buffer
  Lossy           \* kinds of packets of each flow the network may lose

Kinds == {"RTS", "DATA", "TOKEN", "ACK"}

ASSUME FlowsAssumption == IsFiniteSet(Flows)
ASSUME SizeAssumption == /\ SmallFlowThre \in Nat
                         /\ Size \in [Flows -> 1..SmallFlowThre]
ASSUME TempCapAssumption == TempCap \in Nat \ {0}
ASSUME LossyAssumption == Lossy \in [Flows -> SUBSET Kinds]

VARIABLES
  tx,            \* tx_flow_table: a flow is absent, active or finished
  finishedFlow,  \* sender->finished_flow
  txTokens,      \* sender->short_flow_token_q
  rx,            \* rx_flow_table with the receiver's state of each flow
  temp,          \* temp_pkt_buffer
  rxTokens,      \* receiver->short_flow_token_q
  net,           \* packets in flight
  delivered      \* history: the packets each flow's receiver has recorded

senderVars == <<tx, finishedFlow, txTokens>>
receiverVars == <<rx, temp, rxTokens, delivered>>
vars == <<senderVars, receiverVars, net>>

Packets(f) == 0..Size[f] - 1
FlowPackets == UNION {{f} \X Packets(f) : f \in Flows}

Rts(f) == [kind |-> "RTS", flow |-> f, seq |-> 0]
Ack(f) == [kind |-> "ACK", flow |-> f, seq |-> 0]
Data(p) == [kind |-> "DATA", flow |-> p[1], seq |-> p[2]]
Token(p) == [kind |-> "TOKEN", flow |-> p[1], seq |-> p[2]]

(* lookup_table_entry(rx_flow_table, f) = NULL *)
Absent == [st |-> "absent", got |-> {}, count |-> 0,
           rdCtrl |-> FALSE, finishTimer |-> FALSE]

FlowState == [st : {"absent", "open", "finished"}, got : SUBSET Nat,
              count : Nat, rdCtrl : BOOLEAN, finishTimer : BOOLEAN]

TypeOK ==
  /\ tx \in [Flows -> {"absent", "active", "finished"}]
  /\ finishedFlow \in Nat
  /\ txTokens \subseteq FlowPackets
  /\ rx \in [Flows -> FlowState]
  /\ temp \subseteq FlowPackets
  /\ rxTokens \subseteq FlowPackets
  /\ net \subseteq [kind : Kinds, flow : Flows, seq : Nat]
  /\ delivered \in [Flows -> SUBSET Nat]
  /\ \A m \in net : m.seq \in Packets(m.flow)
  /\ \A f \in Flows : rx[f].got \subseteq Packets(f)
  /\ \A f \in Flows : delivered[f] \subseteq Packets(f)

-----------------------------------------------------------------------------
(* The receiver's record of a flow *)

(* A duplicate counted as a new packet. *)
MutRecord(r, S) ==
  [r EXCEPT !.got = @ \cup S, !.count = @ + Cardinality(S)]

(* Set the bits of the packets S; received_count counts only the new ones. *)
Record(r, S) ==
  [r EXCEPT !.got = @ \cup S, !.count = @ + Cardinality(S \ r.got)]

(* The redundancy control timer survives the end of the flow. *)
MutFinishIfComplete(r, f) ==
  IF r.count >= Size[f]
  THEN [r EXCEPT !.st = "finished", !.finishTimer = TRUE]
  ELSE r

(* Once complete: stop the redundancy control timer, arm the finish timer. *)
FinishIfComplete(r, f) ==
  IF r.count >= Size[f]
  THEN [r EXCEPT !.st = "finished", !.rdCtrl = FALSE, !.finishTimer = TRUE]
  ELSE r

(* The record of flow f after the packets S, and the ACK if that ends it. *)
Accept(f, r, S, consumed) ==
  LET new == FinishIfComplete(Record(r, S), f)
  IN  /\ rx' = [rx EXCEPT ![f] = new]
      /\ delivered' = [delivered EXCEPT ![f] = @ \cup S]
      /\ net' = (net \ {consumed}) \cup
                  (IF new.st = "finished" THEN {Ack(f)} ELSE {})

(* The packets rd_ctrl_timeout_handler asks for. *)
Missing(f) == {<<f, i>> : i \in Packets(f) \ rx[f].got}

-----------------------------------------------------------------------------
(* Sender *)

(* rtp_new_flow_comes: the RTS and one token per packet. *)
NewFlow(f) ==
  /\ tx[f] = "absent"
  /\ tx' = [tx EXCEPT ![f] = "active"]
  /\ net' = net \cup {Rts(f)}
  /\ txTokens' = txTokens \cup ({f} \X Packets(f))
  /\ UNCHANGED <<finishedFlow, receiverVars>>

(* rtp_pacer_send_data_pkt_handler: a token becomes a data packet, whether
   or not the flow has been acknowledged meanwhile. *)
SendData(p) ==
  /\ p \in txTokens
  /\ txTokens' = txTokens \ {p}
  /\ net' = net \cup {Data(p)}
  /\ UNCHANGED <<tx, finishedFlow, receiverVars>>

(* rtp_receive_token *)
ReceiveToken(p) ==
  /\ Token(p) \in net
  /\ net' = net \ {Token(p)}
  /\ txTokens' = IF tx[p[1]] = "active" THEN txTokens \cup {p} ELSE txTokens
  /\ UNCHANGED <<tx, finishedFlow, receiverVars>>

(* rtp_receive_ack *)
ReceiveAck(f) ==
  /\ Ack(f) \in net
  /\ net' = net \ {Ack(f)}
  /\ tx' = [tx EXCEPT ![f] = "finished"]
  /\ finishedFlow' = finishedFlow + 1
  /\ UNCHANGED <<txTokens, receiverVars>>

-----------------------------------------------------------------------------
(* Receiver *)

(* rtp_receive_rts for a short flow: start its record with the redundancy
   control timer armed, and take its data out of temp_pkt_buffer
   (iterate_temp_pkt_buf); ignored if the flow is known. *)
ReceiveRts(f) ==
  /\ Rts(f) \in net
  /\ \/ /\ rx[f].st = "absent"
        /\ LET parked == {p \in temp : p[1] = f} IN
             /\ Accept(f, [Absent EXCEPT !.st = "open", !.rdCtrl = TRUE],
                       {p[2] : p \in parked}, Rts(f))
             /\ temp' = temp \ parked
     \/ /\ rx[f].st # "absent"
        /\ net' = net \ {Rts(f)}
        /\ UNCHANGED <<rx, temp, delivered>>
  /\ UNCHANGED <<senderVars, rxTokens>>

(* rtp_receive_data before the RTS, or after the flow's record is gone: the
   packet is parked, in place of the oldest one when the buffer is full. *)
ParkData(p) ==
  /\ \/ /\ Cardinality(temp) < TempCap
        /\ temp' = temp \cup {p}
     \/ /\ Cardinality(temp) = TempCap
        /\ \E oldest \in temp : temp' = (temp \ {oldest}) \cup {p}
  /\ net' = net \ {Data(p)}
  /\ UNCHANGED <<rx, delivered>>

(* rtp_receive_data of a flow that is complete already. *)
DropData(p) ==
  /\ net' = net \ {Data(p)}
  /\ UNCHANGED <<rx, temp, delivered>>

(* Without the test of finished_at_receiver. *)
MutReceiveData(p) ==
  /\ Data(p) \in net
  /\ \/ rx[p[1]].st = "absent" /\ ParkData(p)
     \/ /\ rx[p[1]].st \in {"open", "finished"}
        /\ Accept(p[1], rx[p[1]], {p[2]}, Data(p))
        /\ UNCHANGED temp
  /\ UNCHANGED <<senderVars, rxTokens>>

(* rtp_receive_data *)
ReceiveData(p) ==
  /\ Data(p) \in net
  /\ \/ rx[p[1]].st = "absent" /\ ParkData(p)
     \/ rx[p[1]].st = "finished" /\ DropData(p)
     \/ /\ rx[p[1]].st = "open"
        /\ Accept(p[1], rx[p[1]], {p[2]}, Data(p))
        /\ UNCHANGED temp
  /\ UNCHANGED <<senderVars, rxTokens>>

(* The handler does not arm the timer again. *)
MutRdCtrlTimeout(f) ==
  /\ rx[f].rdCtrl
  /\ rx' = [rx EXCEPT ![f].rdCtrl = FALSE]
  /\ rxTokens' = rxTokens \cup Missing(f)
  /\ UNCHANGED <<senderVars, temp, net, delivered>>

(* rd_ctrl_timeout_handler: a token for every missing packet and the timer
   armed again, for flows of fewer than small_flow_thre packets (strictly:
   everywhere else a flow of exactly small_flow_thre packets is short). *)
RdCtrlTimeout(f) ==
  /\ rx[f].rdCtrl
  /\ \/ /\ Size[f] < SmallFlowThre
        /\ rxTokens' = rxTokens \cup Missing(f)
        /\ UNCHANGED rx
     \/ /\ Size[f] >= SmallFlowThre
        /\ rx' = [rx EXCEPT ![f].rdCtrl = FALSE]
        /\ UNCHANGED rxTokens
  /\ UNCHANGED <<senderVars, temp, net, delivered>>

(* finish_timeout_handler: the flow leaves the table and is freed. *)
FinishTimeout(f) ==
  /\ rx[f].finishTimer
  /\ rx' = [rx EXCEPT ![f] = Absent]
  /\ UNCHANGED <<senderVars, temp, rxTokens, net, delivered>>

(* rtp_pacer_send_token_handler: tokens of flows that are finished or gone
   are discarded until a live one is found and sent. *)
Dead(p) == rx[p[1]].st # "open"

SendToken(p) ==
  /\ p \in rxTokens
  /\ ~Dead(p)
  /\ \E discarded \in SUBSET {q \in rxTokens : Dead(q)} :
       rxTokens' = rxTokens \ (discarded \cup {p})
  /\ net' = net \cup {Token(p)}
  /\ UNCHANGED <<senderVars, rx, temp, delivered>>

DiscardTokens ==
  /\ rxTokens # {}
  /\ \A p \in rxTokens : Dead(p)
  /\ rxTokens' = {}
  /\ UNCHANGED <<senderVars, rx, temp, net, delivered>>

-----------------------------------------------------------------------------
(* The network loses a packet. *)
Lose(m) ==
  /\ m \in net
  /\ m.kind \in Lossy[m.flow]
  /\ net' = net \ {m}
  /\ UNCHANGED <<senderVars, receiverVars>>

Init ==
  /\ tx = [f \in Flows |-> "absent"]
  /\ finishedFlow = 0
  /\ txTokens = {}
  /\ rx = [f \in Flows |-> Absent]
  /\ temp = {}
  /\ rxTokens = {}
  /\ net = {}
  /\ delivered = [f \in Flows |-> {}]

Next ==
  \/ \E f \in Flows : \/ NewFlow(f)
                      \/ ReceiveRts(f)
                      \/ ReceiveAck(f)
                      \/ RdCtrlTimeout(f)
                      \/ FinishTimeout(f)
  \/ \E p \in FlowPackets : \/ SendData(p)
                            \/ ReceiveToken(p)
                            \/ ReceiveData(p)
                            \/ SendToken(p)
  \/ DiscardTokens
  \/ \E m \in net : Lose(m)

Spec == Init /\ [][Next]_vars

(* The flows whose RTS and ACK arrive: nothing repeats these packets. *)
Announced == {f \in Flows : Lossy[f] \cap {"RTS", "ACK"} = {}}

(* The poll loops run every handler that has work and every timer fires; a
   packet that is sent again and again arrives in the end.  Nothing makes a
   new flow arrive, and of the other flows nothing is asked. *)
Fairness ==
  /\ \A f \in Announced : /\ WF_vars(ReceiveRts(f))
                          /\ WF_vars(ReceiveAck(f))
                          /\ WF_vars(RdCtrlTimeout(f))
  /\ \A p \in FlowPackets :
       p[1] \in Announced => /\ WF_vars(SendData(p))
                             /\ WF_vars(SendToken(p))
                             /\ SF_vars(ReceiveToken(p))
                             /\ SF_vars(ReceiveData(p))

FairSpec == Spec /\ Fairness

-----------------------------------------------------------------------------
(* Properties *)

(* A sender is told that a flow is finished only when its receiver has
   recorded every packet, although retransmissions make packets arrive twice
   and the record is freed soon after: received_count never runs ahead of
   the bitmap. *)
AckedIsDelivered ==
  \A f \in Flows :
    (tx[f] = "finished" \/ Ack(f) \in net) => delivered[f] = Packets(f)

(* One flow ends once: whatever is duplicated or late, finished_flow is the
   number of flows acknowledged, and an ACK is never in flight for a flow
   that has been counted already. *)
CountedOnce ==
  /\ finishedFlow = Cardinality({f \in Flows : tx[f] = "finished"})
  /\ \A f \in Flows : ~(tx[f] = "finished" /\ Ack(f) \in net)

(* The redundancy control timer is armed only while its flow is in the
   table and incomplete (its handler uses a pointer to the flow), and the
   finish timer exactly for the complete flows that wait to be freed. *)
TimersMatchRecord ==
  \A f \in Flows :
    /\ rx[f].rdCtrl => rx[f].st = "open"
    /\ rx[f].finishTimer <=> rx[f].st = "finished"

(* The inductive invariant behind these: received_count counts the bits, the
   bitmap is what was delivered, only a complete flow is finished, and a flow
   lives once -- nothing of it exists before it is announced, its record
   starts from an RTS that is never sent again, and it is over when its ACK
   is sent. *)
RecordIsDelivered ==
  \A f \in Flows :
    /\ rx[f].count = Cardinality(rx[f].got)
    /\ rx[f].st # "absent" => rx[f].got = delivered[f]
    /\ rx[f].st = "finished" => rx[f].got = Packets(f)

OneLife ==
  \A f \in Flows :
    /\ tx[f] = "absent" => /\ Rts(f) \notin net
                           /\ Ack(f) \notin net
                           /\ rx[f].st = "absent"
                           /\ delivered[f] = {}
    /\ Rts(f) \in net => /\ rx[f].st = "absent"
                         /\ delivered[f] = {}
    /\ (tx[f] = "finished" \/ Ack(f) \in net) => rx[f].st # "open"

IInv == /\ TypeOK
        /\ RecordIsDelivered
        /\ OneLife
        /\ AckedIsDelivered
        /\ CountedOnce
        /\ TimersMatchRecord

(* Each announced short flow is acknowledged in the end, whatever data
   packets and tokens the network loses, and whatever becomes of the flows it
   shares the receiver's buffers with. *)
EveryFlowCompletes ==
  \A f \in Announced : tx[f] = "active" ~> tx[f] = "finished"

=============================================================================
