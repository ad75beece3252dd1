------------------------------- MODULE PimFlow -------------------------------
(***************************************************************************)
(* How a sender of PIM sends its flows (src/simulator/ext/pimflow.cpp and  *)
(* PimHost::send in pimhost.cpp).  A short flow is sent at once, a large   *)
(* one while the host is matched with its destination.  Every data packet  *)
(* is acknowledged; the sender goes round the packets that are not, and    *)
(* rests for pim_resend_timeout after each round.                          *)
(*                                                                         *)
(* One host_proc_event serves all flows of a host: it sends a packet, or   *)
(* is set to the first timeout of the flows it tried.  ACKs, new flows and *)
(* matches put an earlier event in its place.                              *)
(*                                                                         *)
(* The simulator has one thread, so each event is one action.  Time is     *)
(* left out: a timeout may be over at any step and an event come at any    *)
(* step.  Comparators of flows are left open.  The matching is that of     *)
(* PimMatching; here a sender gains and loses its receiver at any step.    *)
(* Packets are reordered, late, and lost.  seq_no of a packet is kept      *)
(* relative to next_seq_no, as its age, for the code uses it in gap only;  *)
(* ages over MaxGap are not told apart.  Operators named Mut... are faulty *)
(* variants of the operator after them.                                    *)
(***************************************************************************)
EXTENDS Integers, FiniteSetsExt, PimHosts

CONSTANTS
  Size,        \* size_in_pkt
  SmallFlow,   \* pim_small_flow: largest short flow
  Window,      \* pim_window_size
  Lossy,       \* kinds of packets the network may lose
  MaxItems     \* bound: packets and ACKs of a flow on their way; data sent beyond it is dropped

ASSUME SizeAssumption == Size \in [Flows -> Nat \ {0}]
ASSUME WindowAssumption == SmallFlow \in Nat /\ Window \in Nat \ {0} /\ MaxItems \in [Flows -> Nat]
ASSUME LossyAssumption == Lossy \subseteq {"data", "ack"}

VARIABLES
  flow,      \* the flows
  items,     \* data packets and ACKs of a flow
  receiver,  \* PimHost::receiver of a sender
  hostProc   \* host_proc_event of a sender: none, set, or set as a timeout

flowVars == <<flow, items, receiver, hostProc>>

Packets(f) == 0..Size[f] - 1
MaxGap == Window + 1

(* is_small_flow *)
Short(f) == Size[f] <= SmallFlow

(* got is packets_received, gap is gap(), rd says whether redundancy_ctrl_-
   timeout is off, set or past, windowDue whether pim_window_timeout has gone
   by since the last packet (looked at when the gap is over the window).  sent
   is history: the packets sent since rd was last reset. *)
FlowState(f) ==
  [st : {"idle", "active", "finished"}, acked : SUBSET Packets(f), got : SUBSET Packets(f),
   last : -1..Size[f] - 1, gap : 0..MaxGap, rd : {"off", "set", "due"},
   windowDue : BOOLEAN, sent : SUBSET Packets(f)]

NewFlow == [st |-> "idle", acked |-> {}, got |-> {}, last |-> -1, gap |-> 1,
            rd |-> "off", windowDue |-> FALSE, sent |-> {}]

Item(f) == [at : {"data", "ack"}, seq : Packets(f), age : 1..MaxGap]

FlowTypeOK ==
  /\ DOMAIN flow = Flows /\ DOMAIN items = Flows
  /\ \A f \in Flows : flow[f] \in FlowState(f) /\ items[f] \subseteq Item(f)
  /\ receiver \in [Senders -> Receivers \cup {NoHost}]
  /\ hostProc \in [Senders -> {"none", "set", "timeout"}]

Active(f) == flow[f].st = "active"

-----------------------------------------------------------------------------
(* The packet after the last one sent that is not acknowledged, from the
   first one on (ack_until) when the end is reached. *)
NextDataSeqNum(r, f) ==
  LET above == {s \in (r.last + 1) % Size[f]..Size[f] - 1 : s \notin r.acked}
  IN  Min(IF above # {} THEN above ELSE Packets(f) \ r.acked)

(* start_flow: an event at once, in the place of a timeout or of none. *)
BeginFlow(f) ==
  /\ flow[f].st = "idle"
  /\ flow' = [flow EXCEPT ![f].st = "active"]
  /\ hostProc' = [hostProc EXCEPT ![Src[f]] = "set"]
  /\ UNCHANGED <<items, receiver>>

(* handle_all_grants: a match, for a flow that may be over by now. *)
Match(h, r) ==
  /\ receiver[h] = NoHost
  /\ \E f \in Flows : Src[f] = h /\ Dst[f] = r /\ ~Short(f) /\ flow[f].st # "idle"
  /\ receiver' = [receiver EXCEPT ![h] = r]
  /\ hostProc' = [hostProc EXCEPT ![h] = "set"]
  /\ UNCHANGED <<flow, items>>

(* start_new_epoch, receive_grantsr *)
Unmatch(h) ==
  /\ receiver[h] # NoHost
  /\ receiver' = [receiver EXCEPT ![h] = NoHost]
  /\ UNCHANGED <<flow, items, hostProc>>

-----------------------------------------------------------------------------
(* send *)

ShortFlows(h) == {f \in Flows : Src[f] = h /\ Active(f) /\ Short(f)}
LargeFlows(h) == {f \in Flows : Src[f] = h /\ Active(f) /\ ~Short(f) /\ Dst[f] = receiver[h]}

(* get_top_unfinish_flow: a large flow that does not rest, or else one that
   does; the set of it, empty if there is none. *)
TopFlow(h) ==
  LET ready == {f \in LargeFlows(h) : flow[f].rd # "set"}
  IN  IF ready # {} THEN {{f} : f \in ready}
      ELSE IF LargeFlows(h) # {} THEN {{f} : f \in LargeFlows(h)} ELSE {{}}

CanSend(f) == flow[f].rd # "set" /\ (flow[f].gap <= Window \/ flow[f].windowDue)

(* send comes to a flow: a rest that is over ends. *)
Visited(r) == IF r.rd = "due" THEN [r EXCEPT !.rd = "off", !.sent = {}] ELSE r

MutRoundOver(seq, next) == seq + 1 >= next

(* send compares the packet it sent with the one that comes next. *)
RoundOver(seq, next) == seq >= next

(* relax_gap of a window that is full. *)
Relaxed(gap) == IF gap > Window THEN Window ELSE gap

(* send_pending_data, relax_gap before it, and the rest after the last packet
   of a round. *)
Charged(r, f) ==
  LET seq == NextDataSeqNum(r, f)
      after == [r EXCEPT !.last = seq, !.sent = @ \cup {seq},
                         !.gap = Relaxed(@) + 1, !.windowDue = FALSE]
  IN  [after EXCEPT !.rd = IF RoundOver(seq, NextDataSeqNum(after, f)) THEN "set" ELSE "off"]

Older(i) == [i EXCEPT !.age = Min({@ + 1, MaxGap})]

WithData(f, seq) ==
  LET older == {Older(i) : i \in items[f]}
  IN  IF Cardinality(older) < MaxItems[f]
      THEN older \cup {[at |-> "data", seq |-> seq, age |-> 1]}
      ELSE older

(* One of the flows tried can send; some of those that cannot were tried
   before it. *)
SendData(f) ==
  LET h == Src[f] IN
  /\ hostProc[h] # "none"
  /\ CanSend(f)
  /\ \E top \in TopFlow(h) :
       /\ f \in ShortFlows(h) \cup top
       /\ \E seen \in SUBSET {g \in ShortFlows(h) \cup top : ~CanSend(g)} :
            flow' = [g \in Flows |-> IF g = f THEN Charged(Visited(flow[f]), f)
                                     ELSE IF g \in seen THEN Visited(flow[g]) ELSE flow[g]]
  /\ items' = [items EXCEPT ![f] = WithData(f, flow'[f].last)]
  /\ hostProc' = [hostProc EXCEPT ![h] = "set"]
  /\ UNCHANGED receiver

MutNextEvent(tried) == IF \E f \in tried : flow[f].rd = "set" THEN "timeout" ELSE "none"

(* The closest timeout of the flows tried: each of them rests or waits for
   its window. *)
NextEvent(tried) == IF tried = {} THEN "none" ELSE "timeout"

(* None can. *)
SendNothing(h) ==
  /\ hostProc[h] # "none"
  /\ \E top \in TopFlow(h) :
       LET tried == ShortFlows(h) \cup top IN
       /\ \A f \in tried : ~CanSend(f)
       /\ flow' = [f \in Flows |-> IF f \in tried THEN Visited(flow[f]) ELSE flow[f]]
       /\ hostProc' = [hostProc EXCEPT ![h] = NextEvent(tried)]
  /\ UNCHANGED <<items, receiver>>

-----------------------------------------------------------------------------
(* receive of a NORMAL_PACKET: it is acknowledged, known or not. *)
ReceiveData(f, i) ==
  /\ i \in items[f] /\ i.at = "data"
  /\ flow' = [flow EXCEPT ![f].got = @ \cup {i.seq}]
  /\ items' = [items EXCEPT ![f] = (@ \ {i}) \cup {[i EXCEPT !.at = "ack"]}]
  /\ UNCHANGED <<receiver, hostProc>>

MutAcked(r, i) == [r EXCEPT !.acked = 0..i.seq, !.gap = Min({@, i.age})]

(* receive_ack: the record. *)
Acked(r, i) == [r EXCEPT !.acked = @ \cup {i.seq}, !.gap = Min({@, i.age})]

(* FlowFinishedEvent: what is on its way for the flow is dropped when it
   arrives, and its record is not read again; got is kept as history. *)
Finished(r) == [NewFlow EXCEPT !.st = "finished", !.got = r.got]

(* receive_ack: it ends the flow, or the wait for the window. *)
ReceiveAck(f, i) ==
  LET h == Src[f] IN
  /\ i \in items[f] /\ i.at = "ack"
  /\ \/ /\ Acked(flow[f], i).acked = Packets(f)
        /\ flow' = [flow EXCEPT ![f] = Finished(@)]
        /\ items' = [items EXCEPT ![f] = {}]
        /\ UNCHANGED hostProc
     \/ /\ Acked(flow[f], i).acked # Packets(f)
        /\ flow' = [flow EXCEPT ![f] = Acked(@, i)]
        /\ items' = [items EXCEPT ![f] = @ \ {i}]
        /\ hostProc' = [hostProc EXCEPT ![h] =
             IF @ = "timeout" /\ flow[f].rd # "set" /\ (Short(f) \/ Dst[f] = receiver[h])
             THEN "set" ELSE @]
  /\ UNCHANGED receiver

-----------------------------------------------------------------------------
(* Time passes: pim_resend_timeout, and pim_window_timeout where it counts. *)
RdDue(f) ==
  /\ Active(f) /\ flow[f].rd = "set"
  /\ flow' = [flow EXCEPT ![f].rd = "due"]
  /\ UNCHANGED <<items, receiver, hostProc>>

WindowDue(f) ==
  /\ Active(f) /\ flow[f].gap > Window /\ ~flow[f].windowDue
  /\ flow' = [flow EXCEPT ![f].windowDue = TRUE]
  /\ UNCHANGED <<items, receiver, hostProc>>

(* A queue drops a packet. *)
LoseItem(f, i) ==
  /\ i \in items[f] /\ i.at \in Lossy
  /\ items' = [items EXCEPT ![f] = @ \ {i}]
  /\ UNCHANGED <<flow, receiver, hostProc>>

FlowInit ==
  /\ flow = [f \in Flows |-> NewFlow]
  /\ items = [f \in Flows |-> {}]
  /\ receiver = [h \in Senders |-> NoHost]
  /\ hostProc = [h \in Senders |-> "none"]

FlowNext ==
  \/ \E f \in Flows :
       \/ BeginFlow(f) \/ SendData(f) \/ RdDue(f) \/ WindowDue(f)
       \/ \E i \in items[f] : ReceiveData(f, i) \/ ReceiveAck(f, i) \/ LoseItem(f, i)
  \/ \E h \in Senders : SendNothing(h) \/ Unmatch(h) \/ \E r \in Receivers : Match(h, r)

FlowSpec == FlowInit /\ [][FlowNext]_flowVars

-----------------------------------------------------------------------------
(* Properties *)

(* A sender thinks a packet delivered only if it was, and a flow is over only
   when all its packets were, for ACKs in any order and of packets sent
   twice. *)
AckedIsReceived ==
  \A f \in Flows : /\ flow[f].acked \subseteq flow[f].got
                   /\ flow[f].st = "finished" => flow[f].got = Packets(f)

(* The shared event is never lost: a short flow, and a large one whose host is
   matched with its destination, has a host_proc_event to send it, though the
   event was last set for another flow, a timeout or an earlier match. *)
NeverSilent ==
  \A f \in Flows :
    Active(f) /\ (Short(f) \/ Dst[f] = receiver[Src[f]]) => hostProc[Src[f]] # "none"

(* A flow rests only after each packet not acknowledged was sent since its
   last rest. *)
FullRoundBeforeRest ==
  \A f \in Flows :
    flow[f].rd = "set" => Packets(f) \ flow[f].acked \subseteq flow[f].sent

-----------------------------------------------------------------------------
(* The inductive invariant behind these. *)

Unacked(f, r) == Packets(f) \ r.acked

(* Up to the last packet sent each packet not acknowledged was sent since the
   last rest, or the next packet begins a round. *)
SentSoFar(f, r) == \A p \in Unacked(f, r) : p <= r.last => p \in r.sent
AtEnd(f, r) == \A p \in Unacked(f, r) : p <= r.last
RoundConsistent(f, r) ==
  /\ SentSoFar(f, r) \/ AtEnd(f, r)
  /\ r.rd = "set" => SentSoFar(f, r)
  /\ r.rd \in {"set", "due"} => AtEnd(f, r)

(* What an ACK on its way acknowledges was received. *)
AcksTrue == \A f \in Flows : \A i \in items[f] : i.at = "ack" => i.seq \in flow[f].got

FlowIInv ==
  /\ FlowTypeOK
  /\ \A f \in Flows : IF Active(f) THEN Unacked(f, flow[f]) # {}
                       ELSE items[f] = {} /\ flow[f].acked = {}
  /\ \A f \in Flows : RoundConsistent(f, flow[f])
  /\ AcksTrue
  /\ AckedIsReceived
  /\ NeverSilent

=============================================================================
