-------------------------------- MODULE PHost --------------------------------
(***************************************************************************)
(* pHost in the simulator (src/simulator/ext/capabilityhost.cpp,           *)
(* capabilityflow.cpp): a receiver hands out one capability per packet, a  *)
(* sender spends them, and capabilities expire.  A flow of at most         *)
(* capability_initial packets gives itself its first capabilities.         *)
(*                                                                         *)
(* The simulator has one thread, so each event is one action.  Time is     *)
(* left out: a timer that is set may become due at any step, and an event  *)
(* that is scheduled may come at any step.  Which flow a host serves first *)
(* is left open (capability_host and random_host differ in it only).       *)
(*                                                                         *)
(* A capability and the data packet it buys are one item, which moves from *)
(* the network ("token") to the sender ("held") and back ("data").  Its    *)
(* sequence number is kept relative to capability_count, as its age: the   *)
(* code uses the numbers for capability_gap only.  Ages over MaxGap are    *)
(* not told apart.  Operators named Mut... are faulty variants of the      *)
(* operator after them.                                                    *)
(***************************************************************************)
EXTENDS Integers, FiniteSetsExt

CONSTANTS
  Flows,
  Size,      \* size_in_pkt
  Src, Dst,  \* the hosts of a flow
  Initial,   \* capability_initial: largest flow that starts by itself
  Window,    \* capability_window
  Lossy,     \* kinds of packets the network may lose
  MaxItems   \* bound: items per flow; a capability sent beyond it is dropped

ASSUME FlowsAssumption == /\ IsFiniteSet(Flows)
                          /\ Size \in [Flows -> Nat \ {0}]
ASSUME HostsAssumption == DOMAIN Src = Flows /\ DOMAIN Dst = Flows
ASSUME WindowAssumption == Initial \in Nat /\ Window \in Nat \ {0} /\ MaxItems \in Nat
ASSUME LossyAssumption == Lossy \subseteq {"RTS", "TOKEN", "DATA", "ACK"}

VARIABLES
  st,        \* is a flow idle, started, finished (FlowFinishedEvent)?
  items,     \* capabilities and data packets of a flow
  rtses,     \* flows with an RTS on its way
  acks,      \* flows with an ACK on its way
  hostProc,  \* has a sender a host_proc_event?
  rx,        \* a flow at its receiver
  capaProc,  \* capa_proc_evt of a receiver: none, now, or timeout
  holdOn     \* hold_on of a receiver

vars == <<st, items, rtses, acks, hostProc, rx, capaProc, holdOn>>

Senders == {Src[f] : f \in Flows}
Receivers == {Dst[f] : f \in Flows}
Packets(f) == 0..Size[f] - 1

(* init_capa_size *)
InitCapaSize(f) == IF Size[f] <= Initial THEN Size[f] ELSE 0

MaxGap == Max({Window, Initial}) + 1

Item(f) == [at : {"token", "held", "data"}, seq : Packets(f), age : 1..MaxGap]

(* The fields of CapabilityFlow a receiver uses.  left is capability_goal -
   capability_count, gap is capability_gap(), rd says whether
   redundancy_ctrl_timeout is off (-1), set or past, windowDue whether
   capability_window_timeout has gone by since latest_cap_sent_time.
   asked is history: the packets asked for since rd was last reset. *)
FlowState(f) ==
  [rtsReceived : BOOLEAN, got : SUBSET Packets(f), count : Nat, finished : BOOLEAN,
   left : Nat, last : -1..Size[f] - 1, gap : 0..MaxGap,
   rd : {"off", "set", "due"}, windowDue : BOOLEAN, asked : SUBSET Packets(f)]

(* CapabilityFlow::CapabilityFlow *)
NewFlow(f) ==
  [rtsReceived |-> FALSE, got |-> {}, count |-> 0, finished |-> FALSE,
   left |-> Size[f], last |-> -1, gap |-> InitCapaSize(f) + 1,
   rd |-> "off", windowDue |-> FALSE, asked |-> {}]

TypeOK ==
  /\ st \in [Flows -> {"idle", "started", "finished"}]
  /\ DOMAIN items = Flows /\ DOMAIN rx = Flows
  /\ \A f \in Flows : items[f] \subseteq Item(f) /\ rx[f] \in FlowState(f)
  /\ rtses \subseteq Flows
  /\ acks \subseteq Flows
  /\ hostProc \in [Senders -> BOOLEAN]
  /\ capaProc \in [Receivers -> {"none", "now", "timeout"}]
  /\ holdOn \in [Receivers -> 0..Initial]

-----------------------------------------------------------------------------
(* Sender *)

(* assign_init_capability *)
InitCapabilities(f) ==
  {[at |-> "held", seq |-> i, age |-> InitCapaSize(f) - i] : i \in 0..InitCapaSize(f) - 1}

(* FlowArrivalEvent, start_flow, start_capability_flow. *)
StartFlow(f) ==
  /\ st[f] = "idle"
  /\ st' = [st EXCEPT ![f] = "started"]
  /\ items' = [items EXCEPT ![f] = InitCapabilities(f)]
  /\ rtses' = rtses \cup {f}
  /\ hostProc' = [hostProc EXCEPT ![Src[f]] = @ \/ InitCapaSize(f) > 0]
  /\ UNCHANGED <<acks, rx, capaProc, holdOn>>

Moved(i, to) == [i EXCEPT !.at = to]

MutReceiveCapability(f, i) ==
  /\ i \in items[f] /\ i.at = "token"
  /\ items' = [items EXCEPT ![f] = (@ \ {i}) \cup {Moved(i, "held")}]
  /\ UNCHANGED <<st, rtses, acks, hostProc, rx, capaProc, holdOn>>

(* receive of a CAPABILITY_PACKET: it wakes its sender up. *)
ReceiveCapability(f, i) ==
  /\ i \in items[f] /\ i.at = "token"
  /\ items' = [items EXCEPT ![f] = (@ \ {i}) \cup {Moved(i, "held")}]
  /\ hostProc' = [hostProc EXCEPT ![Src[f]] = TRUE]
  /\ UNCHANGED <<st, rtses, acks, rx, capaProc, holdOn>>

(* has_capability finds it expired and drops it. *)
Expire(f, i) ==
  /\ i \in items[f] /\ i.at = "held"
  /\ items' = [items EXCEPT ![f] = @ \ {i}]
  /\ UNCHANGED <<st, rtses, acks, hostProc, rx, capaProc, holdOn>>

Held(f) == {i \in items[f] : i.at = "held"}

(* choose_send_flow, until has_capability: any flow that has one. *)
SendChoices(h) == {f \in Flows : Src[f] = h /\ Held(f) # {}}

(* use_capability: the packet it names is sent. *)
Used(f, i) == (items[f] \ {i}) \cup {Moved(i, "data")}

(* send, and send_pending_data, which schedules the next event. *)
SendData(f, i) ==
  /\ hostProc[Src[f]]
  /\ f \in SendChoices(Src[f]) /\ i \in Held(f)
  /\ items' = [items EXCEPT ![f] = Used(f, i)]
  /\ UNCHANGED <<st, rtses, acks, hostProc, rx, capaProc, holdOn>>

(* send, when no flow has a capability. *)
SendNothing(h) ==
  /\ hostProc[h]
  /\ SendChoices(h) = {}
  /\ hostProc' = [hostProc EXCEPT ![h] = FALSE]
  /\ UNCHANGED <<st, items, rtses, acks, rx, capaProc, holdOn>>

(* What is left of a finished flow: nothing else of its record is read. *)
ClosedFlow(f) == [NewFlow(f) EXCEPT !.rtsReceived = TRUE, !.finished = TRUE]

(* receive of an ACK_PACKET and the FlowFinishedEvent it schedules at once.
   What is in flight of a finished flow is dropped when it arrives, and its
   capabilities with it. *)
ReceiveAck(f) ==
  /\ f \in acks
  /\ acks' = acks \ {f}
  /\ rtses' = rtses \ {f}
  /\ st' = [st EXCEPT ![f] = "finished"]
  /\ items' = [items EXCEPT ![f] = {}]
  /\ rx' = [rx EXCEPT ![f] = ClosedFlow(f)]
  /\ UNCHANGED <<hostProc, capaProc, holdOn>>

-----------------------------------------------------------------------------
(* Receiver *)

(* remaining_pkts *)
RemainingPkts(r, f) == Max({0, Size[f] - r.count})

(* set_capability_count *)
Opened(r, f) ==
  [r EXCEPT !.rtsReceived = TRUE,
            !.left = Size[f] - InitCapaSize(f),
            !.last = InitCapaSize(f) - 1,
            !.rd = IF InitCapaSize(f) = Size[f] THEN "set" ELSE "off",
            !.asked = 0..InitCapaSize(f) - 1]

(* receive_rts at the host: it holds on while the flow's first packets come,
   and a timeout event gives way to one at once. *)
OpenAtHost(f) ==
  /\ holdOn' = [holdOn EXCEPT ![Dst[f]] = InitCapaSize(f)]
  /\ capaProc' = [capaProc EXCEPT ![Dst[f]] = "now"]

(* receive of an RTS_PACKET. *)
ReceiveRts(f) ==
  /\ f \in rtses
  /\ rtses' = rtses \ {f}
  /\ IF rx[f].rtsReceived
     THEN UNCHANGED <<rx, capaProc, holdOn>>
     ELSE rx' = [rx EXCEPT ![f] = Opened(@, f)] /\ OpenAtHost(f)
  /\ UNCHANGED <<st, items, acks, hostProc>>

MutReceived(r, f, i) ==
  [r EXCEPT !.got = @ \cup {i.seq},
            !.count = @ + 1,
            !.finished = r.count + 1 >= Size[f],
            !.gap = Min({@, i.age})]

(* The record after a data packet: a packet counts once. *)
Received(r, f, i) ==
  LET count == IF i.seq \in r.got THEN r.count ELSE r.count + 1
  IN  [r EXCEPT !.got = @ \cup {i.seq},
                !.count = count,
                !.finished = count >= Size[f],
                !.gap = Min({@, i.age})]

(* receive of a NORMAL_PACKET: it stands in for an RTS that has not come, and
   is answered by an ACK when the flow is complete, every time. *)
ReceiveData(f, i) ==
  /\ i \in items[f] /\ i.at = "data"
  /\ items' = [items EXCEPT ![f] = @ \ {i}]
  /\ rx' = [rx EXCEPT ![f] = Received(IF @.rtsReceived THEN @ ELSE Opened(@, f), f, i)]
  /\ IF rx[f].rtsReceived THEN UNCHANGED <<capaProc, holdOn>> ELSE OpenAtHost(f)
  /\ acks' = IF rx'[f].finished THEN acks \cup {f} ELSE acks
  /\ UNCHANGED <<st, rtses, hostProc>>

(* Time passes: redundancy_ctrl_timeout, capability_window_timeout. *)
RdDue(f) ==
  /\ st[f] = "started" /\ rx[f].rd = "set"
  /\ rx' = [rx EXCEPT ![f].rd = "due"]
  /\ UNCHANGED <<st, items, rtses, acks, hostProc, capaProc, holdOn>>

WindowDue(f) ==
  /\ st[f] = "started" /\ ~rx[f].windowDue
  /\ rx' = [rx EXCEPT ![f].windowDue = TRUE]
  /\ UNCHANGED <<st, items, rtses, acks, hostProc, capaProc, holdOn>>

(* choose_recv_flow: finished flows are taken out when they are seen. *)
Active(h) == {f \in Flows : Dst[f] = h /\ rx[f].rtsReceived /\ ~rx[f].finished}

(* send_capability can send for the flow it has come to. *)
CanSend(f) == rx[f].rd # "set" /\ (rx[f].gap <= Window \/ rx[f].windowDue)

MutVisited(r, f) ==
  IF r.rd = "due" THEN [r EXCEPT !.rd = "off", !.left = @ + 1, !.asked = {}] ELSE r

(* send_capability comes to a flow whose redundancy_ctrl_timeout is over: one
   capability more for every packet missing. *)
Visited(r, f) ==
  IF r.rd = "due"
  THEN [r EXCEPT !.rd = "off", !.left = @ + RemainingPkts(r, f), !.asked = {}]
  ELSE r

(* received_until *)
ReceivedUntil(r, f) == Min({s \in 0..Size[f] : s \notin r.got})

(* get_next_capa_seq_num: the next packet missing, from the first one on when
   the end is reached. *)
NextCapaSeqNum(r, f) ==
  LET start == (r.last + 1) % Size[f]
      above == {s \in start..Size[f] - 1 : s \notin r.got}
  IN  IF above # {} THEN Min(above) ELSE ReceivedUntil(r, f)

(* relax_capability_gap of a window that is full. *)
Relaxed(gap) == IF gap > Window THEN Window ELSE gap

(* send_capability sends one: the gap is relaxed before it, and redundancy_-
   ctrl_timeout set after the last of the goal. *)
Charged(r, f) ==
  LET seq == NextCapaSeqNum(r, f)
  IN  [r EXCEPT !.last = seq, !.asked = @ \cup {seq},
                !.gap = Relaxed(@) + 1, !.windowDue = FALSE,
                !.left = @ - 1, !.rd = IF r.left = 1 THEN "set" ELSE "off"]

Older(i) == [i EXCEPT !.age = Min({@ + 1, MaxGap})]

(* send_capability_pkt: every other capability is one older. *)
WithCapability(f, seq) ==
  LET older == {Older(i) : i \in items[f]}
  IN  IF Cardinality(older) < MaxItems
      THEN older \cup {[at |-> "token", seq |-> seq, age |-> 1]}
      ELSE older

(* send_capability, a flow being found that can be sent a capability; some of
   the flows that cannot were seen before it. *)
SendCapability(f) ==
  /\ capaProc[Dst[f]] # "none"
  /\ holdOn[Dst[f]] = 0
  /\ f \in Active(Dst[f]) /\ CanSend(f)
  /\ \E seen \in SUBSET {g \in Active(Dst[f]) : ~CanSend(g)} :
       rx' = [g \in Flows |-> IF g = f THEN Charged(Visited(rx[f], f), f)
                              ELSE IF g \in seen THEN Visited(rx[g], g) ELSE rx[g]]
  /\ items' = [items EXCEPT ![f] = WithCapability(f, rx'[f].last)]
  /\ capaProc' = [capaProc EXCEPT ![Dst[f]] = "now"]
  /\ UNCHANGED <<st, rtses, acks, hostProc, holdOn>>

(* send_capability, no flow being found: the next event is at the closest
   timeout of the flows that wait. *)
SendNoCapability(h) ==
  /\ capaProc[h] # "none"
  /\ holdOn[h] = 0
  /\ \A f \in Active(h) : ~CanSend(f)
  /\ rx' = [f \in Flows |-> IF f \in Active(h) THEN Visited(rx[f], f) ELSE rx[f]]
  /\ capaProc' = [capaProc EXCEPT ![h] = IF Active(h) = {} THEN "none" ELSE "timeout"]
  /\ UNCHANGED <<st, items, rtses, acks, hostProc, holdOn>>

MutHold(h) ==
  /\ capaProc[h] # "none"
  /\ holdOn[h] > 0
  /\ holdOn' = [holdOn EXCEPT ![h] = @ - 1]
  /\ capaProc' = [capaProc EXCEPT ![h] = "none"]
  /\ UNCHANGED <<st, items, rtses, acks, hostProc, rx>>

(* send_capability while the host holds on. *)
Hold(h) ==
  /\ capaProc[h] # "none"
  /\ holdOn[h] > 0
  /\ holdOn' = [holdOn EXCEPT ![h] = @ - 1]
  /\ capaProc' = [capaProc EXCEPT ![h] = "now"]
  /\ UNCHANGED <<st, items, rtses, acks, hostProc, rx>>

-----------------------------------------------------------------------------
(* A queue drops a packet. *)
DropItem(f, i) ==
  /\ i \in items[f]
  /\ \/ i.at = "token" /\ "TOKEN" \in Lossy
     \/ i.at = "data" /\ "DATA" \in Lossy
  /\ items' = [items EXCEPT ![f] = @ \ {i}]
  /\ UNCHANGED <<st, rtses, acks, hostProc, rx, capaProc, holdOn>>

DropControl ==
  /\ \/ "RTS" \in Lossy /\ (\E f \in rtses : rtses' = rtses \ {f}) /\ UNCHANGED acks
     \/ "ACK" \in Lossy /\ (\E f \in acks : acks' = acks \ {f}) /\ UNCHANGED rtses
  /\ UNCHANGED <<st, items, hostProc, rx, capaProc, holdOn>>

Init ==
  /\ st = [f \in Flows |-> "idle"]
  /\ items = [f \in Flows |-> {}]
  /\ rtses = {} /\ acks = {}
  /\ hostProc = [h \in Senders |-> FALSE]
  /\ rx = [f \in Flows |-> NewFlow(f)]
  /\ capaProc = [h \in Receivers |-> "none"]
  /\ holdOn = [h \in Receivers |-> 0]

Next ==
  \/ \E f \in Flows :
       \/ StartFlow(f) \/ ReceiveRts(f) \/ ReceiveAck(f)
       \/ RdDue(f) \/ WindowDue(f) \/ SendCapability(f)
       \/ \E i \in items[f] :
            ReceiveCapability(f, i) \/ Expire(f, i) \/ SendData(f, i)
            \/ ReceiveData(f, i) \/ DropItem(f, i)
  \/ \E h \in Senders : SendNothing(h)
  \/ \E h \in Receivers : SendNoCapability(h) \/ Hold(h)
  \/ DropControl

Spec == Init /\ [][Next]_vars

-----------------------------------------------------------------------------
(* Properties *)

(* An ACK is sent for a flow that was received whole, whatever packets come
   twice, late, or before the RTS. *)
AckedIsReceived ==
  \A f \in acks : st[f] # "finished" => rx[f].got = Packets(f)

(* A receiver with an incomplete flow always has its event scheduled: the
   RTS of a short flow, hold_on and the timeouts of several flows, which
   cancel and set the same event, leave no flow waiting for ever. *)
ReceiverAwake ==
  \A f \in Flows : f \in Active(Dst[f]) => capaProc[Dst[f]] # "none"

(* A sender that holds a capability has its event scheduled: the capability
   is used or expires, though it came when the host had gone idle. *)
SenderAwake ==
  \A h \in Senders : SendChoices(h) # {} => hostProc[h]

(* A flow is left alone (redundancy_ctrl_timeout) only after a capability was
   sent for each of its missing packets since the last time. *)
FullRoundBeforeRdCtrl ==
  \A f \in Flows :
    st[f] = "started" /\ rx[f].rd = "set" => Packets(f) \ rx[f].got \subseteq rx[f].asked

-----------------------------------------------------------------------------
(* The inductive invariant *)

Missing(f, r) == Packets(f) \ r.got
Unasked(f, r) == Missing(f, r) \ r.asked

(* A packet counts once, and the flow is finished with the last one. *)
CountIsReceived(f, r) ==
  /\ r.count = Cardinality(r.got)
  /\ r.finished <=> Missing(f, r) = {}

(* There are capabilities left to send for each missing packet that was not
   asked for in this round, and none are left when redundancy control is on. *)
GoalCoversUnasked(f, r) ==
  /\ r.rd = "off" <=> r.left > 0
  /\ Cardinality(Unasked(f, r)) <= r.left

(* From the last packet asked for on and around, those not asked for in this
   round come before the others. *)
Turn(f, r, p) == IF p > r.last THEN p ELSE p + Size[f]
UnaskedComeFirst(f, r) ==
  \A p \in Unasked(f, r), q \in Missing(f, r) \cap r.asked : Turn(f, r, p) < Turn(f, r, q)

FlowsConsistent ==
  \A f \in Flows :
    st[f] # "finished" => /\ CountIsReceived(f, rx[f])
                          /\ GoalCoversUnasked(f, rx[f])
                          /\ UnaskedComeFirst(f, rx[f])

(* Nothing is left of a finished flow that could open it again. *)
FinishedIsClosed ==
  \A f \in Flows : st[f] = "finished" =>
    items[f] = {} /\ rx[f].rtsReceived /\ rx[f].finished

IInv == /\ TypeOK
        /\ FlowsConsistent
        /\ FinishedIsClosed
        /\ AckedIsReceived
        /\ ReceiverAwake
        /\ SenderAwake

=============================================================================
