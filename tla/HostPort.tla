------------------------------ MODULE HostPort ------------------------------
(***************************************************************************)
(* The sending half of a host of the RUF simulator and the output queue it *)
(* shares with the control packets of the receiving half                   *)
(* (src/simulator/ext/rankinghost.cpp and rankingflow.cpp, schedulinghost, *)
(* pfabricqueue, src/simulator/coresim/event.cpp and queue.cpp).           *)
(*                                                                         *)
(* Control packets enter the queue at once; a data packet costs a token    *)
(* and is sent by the host's processing event, which waits for the queue   *)
(* to be idle.  The queue drops and orders packets as its type says, and   *)
(* may preempt the packet it transmits.                                    *)
(*                                                                         *)
(* Abstractions: simulated time passes only between the events: qpe tells  *)
(* a queue processing event of this instant from one at the end of a       *)
(* transmission, and all other events wait for the former, except packets  *)
(* queued in the same instant, whose events have the smallest type.  A     *)
(* token may expire at any time.  Which of the flows with tokens is the    *)
(* first of active_sending_flows is left open: receive_token changes the   *)
(* sort key of a flow inside that heap.  A packet goes on to the next hop  *)
(* when its transmission ends (cut_through off, or never preempted).       *)
(* Operators named Mut... are faulty variants of the operator after them.  *)
(***************************************************************************)
EXTENDS Integers, FiniteSets, SequencesExt

CONSTANTS
  Flows,         \* ids of the flows this host sends
  Size,          \* their sizes in packets (size_in_pkt)
  TokenInitial,  \* params.token_initial
  Peers,         \* ids of the flows this host receives
  QueueTypes,    \* params.queue_type: "droptail", "pfabric", "probdrop"
  LimitBytes,    \* limit_bytes, in units of a control packet
  DataBytes,     \* the size of a data packet in the same unit
  MaxTokens,     \* bound: tokens a flow ever holds
  MaxControl,    \* bound: control packets for each flow of Peers
  NoPacket       \* NULL

ASSUME SizeAssumption == Size \in [Flows -> Nat \ {0}]
ASSUME TokenAssumption == TokenInitial \in Nat \ {1}
ASSUME PeersAssumption == Peers \cap Flows = {}
ASSUME TypesAssumption == QueueTypes \subseteq {"droptail", "pfabric", "probdrop"}
ASSUME BytesAssumption ==
  DataBytes \in Nat \ {0} /\ LimitBytes \in Nat /\ LimitBytes >= DataBytes
ASSUME BoundAssumption == MaxTokens \in Nat /\ MaxControl \in Nat

VARIABLES
  config,        \* params.queue_type and params.preemptive_queue
  queue,         \* packets
  transmitting,  \* packet_transmitting
  qpe,           \* queue_proc_event: none (busy is false), now, or later
  sent,          \* history: the packets put into the queue
  left,          \* history: those transmitted
  dropped,       \* history: those dropped
  st,            \* the state of every flow at its sender
  tokens,        \* the tokens of every flow: those from used to given - 1
  hostEvt        \* is host_proc_event set?

portVars == <<queue, transmitting, qpe, sent, left, dropped>>
hostVars == <<st, tokens, hostEvt>>
vars == <<config, portVars, hostVars>>

(* DCExpParams::packet_priority *)
PacketPriority(size) ==
  IF TokenInitial = 0 THEN 1
  ELSE CHOOSE k \in 1..6 : /\ size <= TokenInitial^k \/ k = 6
                           /\ \A j \in 1..k - 1 : ~(size <= TokenInitial^j)

Data(f, i) == [flow |-> f, kind |-> "data", num |-> i]
Rts(f) == [flow |-> f, kind |-> "rts", num |-> 0]
Packet == [flow : Flows \cup Peers, kind : {"data", "rts", "control", "listsrcs"}, num : Nat]

(* pf_priority and size of a packet *)
Priority(p) ==
  CASE p.kind = "data" -> PacketPriority(Size[p.flow])
    [] p.kind = "listsrcs" -> 1
    [] OTHER -> 0
Bytes(p) == IF p.kind = "data" THEN DataBytes ELSE 1

(* bytes_in_queue: a unit for each packet and the rest of the data packets. *)
BytesIn(q) ==
  Len(q) + (DataBytes - 1) * Cardinality({i \in DOMAIN q : q[i].kind = "data"})

TypeOK ==
  /\ config \in [type : QueueTypes, preemptive : BOOLEAN]
  /\ queue \in Seq(Packet)
  /\ BytesIn(queue) <= LimitBytes
  /\ transmitting \in Packet \cup {NoPacket}
  /\ qpe \in {"none", "now", "later"}
  /\ sent \subseteq Packet /\ left \subseteq Packet /\ dropped \subseteq Packet
  /\ st \in [Flows -> {"new", "active", "acked", "finished"}]
  /\ tokens \in [Flows -> [used : Nat, given : Nat]]
  /\ hostEvt \in BOOLEAN

-----------------------------------------------------------------------------
(* The queue *)

(* The limit is compared before the packet is counted. *)
MutDroptail(q, p) == IF BytesIn(q) <= LimitBytes THEN Append(q, p) ELSE q

(* Queue::enque: the new packet is dropped if there is no room. *)
Droptail(q, p) == IF BytesIn(q) + Bytes(p) <= LimitBytes THEN Append(q, p) ELSE q

(* PFabricQueue::enque: the last packet of the worst priority makes room. *)
Pfabric(q, p) ==
  LET all == Append(q, p)
      worst == CHOOSE i \in DOMAIN all :
                 \A j \in DOMAIN all : \/ Priority(all[j]) < Priority(all[i])
                                       \/ Priority(all[j]) = Priority(all[i]) /\ j <= i
  IN  IF BytesIn(all) > LimitBytes THEN RemoveAt(all, worst) ELSE all

(* What enque may make of a queue: ProbDropQueue::enque may drop the packet
   though there is room. *)
Enqued(q, p) ==
  CASE config.type = "droptail" -> {Droptail(q, p)}
    [] config.type = "pfabric"  -> {Pfabric(q, p)}
    [] config.type = "probdrop" -> {Droptail(q, p), q}

(* PFabricQueue::deque: the first packet of the flow that the first packet of
   the best priority belongs to; the other types are FIFO. *)
DequeIndex ==
  LET best == CHOOSE i \in DOMAIN queue :
                \A j \in DOMAIN queue : \/ Priority(queue[j]) > Priority(queue[i])
                                        \/ Priority(queue[j]) = Priority(queue[i]) /\ i <= j
  IN  IF config.type # "pfabric" THEN 1
      ELSE CHOOSE i \in DOMAIN queue :
             /\ queue[i].flow = queue[best].flow
             /\ \A j \in 1..i - 1 : queue[j].flow # queue[best].flow

(* busy_events are left as they are: the packet arrives all the same. *)
MutPreempted == {<<q, left \cup {transmitting}>> : q \in Enqued(queue, transmitting)}

(* preempt_current_transmission: the packet goes back to the end of the queue
   and its arrival at the next hop is cancelled. *)
Preempted == {<<q, left>> : q \in Enqued(queue, transmitting)}

(* Only a packet on the wire is overtaken, unless it is nearly through. *)
Preempts(p) ==
  /\ config.preemptive
  /\ qpe = "later"
  /\ Priority(p) < Priority(transmitting)

(* Queue::drop, of the packet itself, one it displaces or one it preempts. *)
Drop(p) ==
  dropped' = dropped \cup
    {x \in sent' : /\ x \notin ToSet(queue') /\ x \notin left
                   /\ \/ x \in ToSet(queue) \cup {p}
                      \/ x = transmitting /\ x # transmitting'}

(* PacketQueuingEvent::process_event at an idle queue... *)
PutIdle(p) ==
  /\ qpe = "none"
  /\ qpe' = "now"
  /\ transmitting' = p
  /\ queue' \in Enqued(queue, p)
  /\ sent' = sent \cup {p}
  /\ left' = left
  /\ Drop(p)

(* ...and at a busy one. *)
PutBusy(p) ==
  /\ qpe # "none"
  /\ \/ /\ Preempts(p)
        /\ qpe' = "now"
        /\ transmitting' = p
        /\ \E b \in Preempted : left' = b[2] /\ queue' \in Enqued(b[1], p)
     \/ /\ queue' \in Enqued(queue, p)
        /\ UNCHANGED <<qpe, transmitting, left>>
  /\ sent' = sent \cup {p}
  /\ Drop(p)

Put(p) == PutIdle(p) \/ PutBusy(p)

(* QueueProcessingEvent::process_event: the packet on the wire is through,
   and the next one is taken. *)
QueueProcessing ==
  /\ qpe # "none"
  /\ left' = IF qpe = "later" THEN left \cup {transmitting} ELSE left
  /\ \/ /\ queue # << >>
        /\ transmitting' = queue[DequeIndex]
        /\ queue' = RemoveAt(queue, DequeIndex)
        /\ qpe' = "later"
     \/ /\ queue = << >>
        /\ transmitting' = NoPacket
        /\ qpe' = "none"
        /\ UNCHANGED queue
  /\ UNCHANGED <<config, sent, dropped, hostVars>>

-----------------------------------------------------------------------------
(* The sending half of the host *)

(* init_token_size *)
InitTokenSize(f) == IF Size[f] <= TokenInitial THEN Size[f] ELSE 0

Held(f) == tokens[f].used..tokens[f].given - 1
Sending == {f \in Flows : st[f] \in {"active", "acked"}}

(* start_ranking_flow: a short flow gets its tokens at once and wakes the
   host; the receiver is told. *)
StartFlow(f) ==
  /\ st[f] = "new"
  /\ st' = [st EXCEPT ![f] = "active"]
  /\ tokens' = [tokens EXCEPT ![f].given = InitTokenSize(f)]
  /\ hostEvt' = (hostEvt \/ InitTokenSize(f) > 0)
  /\ Put(Rts(f))
  /\ UNCHANGED config

(* A host between two processing events is not woken. *)
MutWoken == hostEvt

(* schedule_host_proc_evt, unless it is set. *)
Woken == TRUE

(* receive_token, once the receiver has heard of the flow; a finished flow
   drops it. *)
ReceiveToken(f) ==
  /\ f \in Sending
  /\ \E p \in left : p.flow = f
  /\ tokens[f].given < MaxTokens
  /\ tokens' = [tokens EXCEPT ![f].given = @ + 1]
  /\ hostEvt' = Woken
  /\ UNCHANGED <<config, portVars, st>>

(* RankingFlow::receive of an ACK: clear_token; FlowFinishedEvent follows. *)
ReceiveAck(f) ==
  /\ st[f] = "active"
  /\ \E p \in left : p.flow = f /\ p.kind = "data"
  /\ st' = [st EXCEPT ![f] = "acked"]
  /\ tokens' = [tokens EXCEPT ![f].used = tokens[f].given]
  /\ UNCHANGED <<config, portVars, hostEvt>>

FlowFinished(f) ==
  /\ st[f] = "acked"
  /\ qpe # "now"
  /\ st' = [st EXCEPT ![f] = "finished"]
  /\ UNCHANGED <<config, portVars, tokens, hostEvt>>

(* The receiving half sends tokens and ACKs for its flows, and listSRCs. *)
SendControl(f, k) ==
  /\ k.flow = f
  /\ k \notin sent
  /\ Put(k)
  /\ UNCHANGED <<config, hostVars>>

(* has_token of the flows tried before one that has a token, and of that one:
   tokens are dropped from the front while they are expired. *)
Tried(fs) == [g \in Flows |-> IF g \in fs THEN [tokens[g] EXCEPT !.used = tokens[g].given]
                              ELSE tokens[g]]

(* The queue's state does not matter. *)
MutMaySend == hostEvt /\ qpe # "now"

(* RankingHost::send: a busy queue puts the event off. *)
MaySend == hostEvt /\ qpe = "none"

(* send_pending_data: the token is used up, and the event set again for the
   end of the transmission. *)
SendData(f) ==
  /\ MaySend
  /\ \E i \in Held(f), fs \in SUBSET (Sending \ {f}) :
       /\ tokens' = [Tried(fs) EXCEPT ![f].used = i + 1]
       /\ Put(Data(f, i))
  /\ UNCHANGED <<config, st, hostEvt>>

(* No flow has a token that is not expired. *)
SendNothing ==
  /\ MaySend
  /\ tokens' = Tried(Sending)
  /\ hostEvt' = FALSE
  /\ UNCHANGED <<config, portVars, st>>

HostProcessing == SendNothing \/ \E f \in Sending : SendData(f)

-----------------------------------------------------------------------------
Control ==
  [flow : Peers, kind : {"control"}, num : 1..MaxControl]
    \cup [flow : Peers, kind : {"listsrcs"}, num : {1}]

Init ==
  /\ config \in [type : QueueTypes, preemptive : BOOLEAN]
  /\ queue = << >>
  /\ transmitting = NoPacket
  /\ qpe = "none"
  /\ sent = {} /\ left = {} /\ dropped = {}
  /\ st = [f \in Flows |-> "new"]
  /\ tokens = [f \in Flows |-> [used |-> 0, given |-> 0]]
  /\ hostEvt = FALSE

(* run_scenario *)
Next ==
  \/ QueueProcessing
  \/ \E f \in Flows : StartFlow(f) \/ ReceiveToken(f) \/ ReceiveAck(f) \/ FlowFinished(f)
  \/ \E f \in Peers, k \in Control : SendControl(f, k)
  \/ HostProcessing

(* run_scenario processes every event in the heap: those of the queue and of
   the host are in it whenever qpe and hostEvt say so. *)
Spec == Init /\ [][Next]_vars /\ WF_vars(QueueProcessing) /\ WF_vars(HostProcessing)

-----------------------------------------------------------------------------
(* Properties *)

(* A host has at most one data packet in its own queue or on its wire, so
   that control packets never wait behind more than one: the processing event
   and the queue's event never lose step, whatever control packets come in
   between and whatever is preempted or dropped (rankinghost.cpp:224). *)
OneDataPacket ==
  LET inQueue == {i \in DOMAIN queue : queue[i].kind = "data"}
      onWire == IF qpe = "later" /\ transmitting.kind = "data" THEN 1 ELSE 0
  IN  Cardinality(inQueue) + onWire <= 1

(* A packet is in one place: preemption and dropping neither lose nor
   duplicate one (queue.cpp:113, event.cpp:187). *)
Places(p) ==
  Cardinality({i \in DOMAIN queue : queue[i] = p})
  + (IF qpe = "later" /\ transmitting = p THEN 1 ELSE 0)
  + (IF p \in left THEN 1 ELSE 0)
  + (IF p \in dropped THEN 1 ELSE 0)
EachPacketOnce == \A p \in sent : Places(p) = 1

(* Every token a host holds is used, dropped as expired or made void by the
   ACK: no wakeup is lost between the arrival of tokens, the host's event and
   the queue's (rankinghost.cpp:199). *)
TokensSpent ==
  \A f \in Flows : f \in Sending /\ Held(f) # {} ~> f \notin Sending \/ Held(f) = {}

-----------------------------------------------------------------------------
(* The inductive invariant behind OneDataPacket and EachPacketOnce. *)

OnWire == IF qpe = "later" THEN {transmitting} ELSE {}

(* No packet is twice in a queue. *)
NoneTwice(q) == \A i, j \in DOMAIN q : q[i] = q[j] => i = j

OneData(packets) ==
  \A x, y \in packets : x.kind = "data" /\ y.kind = "data" => x = y

(* The queue has its event exactly while there is something for it to do, but
   at the instant at which a packet that was dropped started it. *)
EventInStep ==
  /\ qpe = "none" => queue = << >> /\ transmitting = NoPacket
  /\ qpe # "none" => transmitting \in Packet

(* What is sent is in the queue, on the wire, through or dropped. *)
OnePlace ==
  /\ sent = ToSet(queue) \cup OnWire \cup left \cup dropped
  /\ ToSet(queue) \cap OnWire = {} /\ ToSet(queue) \cap left = {}
  /\ ToSet(queue) \cap dropped = {} /\ OnWire \cap left = {}
  /\ OnWire \cap dropped = {} /\ left \cap dropped = {}

(* Tokens are used in their order, none before the flow starts. *)
TokensInOrder ==
  \A f \in Flows : /\ tokens[f].used <= tokens[f].given
                   /\ st[f] = "new" => tokens[f].used = 0

(* A packet of a flow is numbered by the token it took, and the RTS goes out
   when the flow starts, so that none is sent twice. *)
NumbersUsed ==
  \A p \in sent :
    /\ p.kind = "data" => p.flow \in Flows /\ p.num < tokens[p.flow].used
    /\ p.kind = "rts" => p.flow \in Flows /\ st[p.flow] # "new"

IInv ==
  /\ TypeOK
  /\ EventInStep
  /\ NoneTwice(queue)
  /\ OnePlace
  /\ OneData(ToSet(queue) \cup OnWire)
  /\ TokensInOrder
  /\ NumbersUsed

=============================================================================
