------------------------------- MODULE TcpFlow -------------------------------
(***************************************************************************)
(* A flow of the simulator's core (src/simulator/coresim/flow.cpp): the    *)
(* TCP-like Flow that the pFabric, DCTCP and TCP flows extend.  The sender *)
(* keeps a window of packets above last_unacked_seq; the receiver answers  *)
(* each packet with a cumulative ACK and the number of packets received    *)
(* above it; a timer starts over from last_unacked_seq.  Both ends are one *)
(* object, and the sender looks into the receiver's half of it.            *)
(*                                                                         *)
(* Abstractions: sequence numbers count packets (mss bytes; the last one   *)
(* may be shorter); how fast the window grows is left open (Flow, PFabric- *)
(* Flow); packets in flight are reordered, as topology.cpp sprays them     *)
(* over four paths, and those that are equal are one, which is in flight   *)
(* until the last of them arrives; the timer may fire at any time.         *)
(* Operators named Mut... are faulty variants of the operator after them.  *)
(***************************************************************************)
EXTENDS Naturals, FiniteSets, FiniteSetsExt

CONSTANTS
  Size,         \* size_in_pkt
  InitialCwnd,  \* params.initial_cwnd
  MaxCwnd       \* params.max_cwnd

ASSUME SizeAssumption == Size \in Nat \ {0}
ASSUME CwndAssumption == MaxCwnd \in Nat /\ InitialCwnd \in 1..MaxCwnd

VARIABLES
  nextSeq,     \* next_seq_no
  unacked,     \* last_unacked_seq
  cwnd,        \* cwnd_mss
  sacked,      \* scoreboard_sack_bytes
  timer,       \* is retx_event set?
  received,    \* received, cleared at the end
  recvCount,   \* received_bytes
  recvTill,    \* recv_till
  maxSeq,      \* max_seq_no_recv
  finished,
  data, acks,  \* packets in flight
  ackDropped   \* ack_pkt_drop > 0

receiverVars == <<recvCount, recvTill, maxSeq>>
windowVars == <<nextSeq, unacked, cwnd, sacked, timer>>
vars == <<windowVars, received, receiverVars, finished, data, acks, ackDropped>>

Seqs == 0..Size - 1
Ack == [seq : 0..Size, sacks : Nat]

TypeOK ==
  /\ nextSeq \in 0..Size
  /\ unacked \in 0..Size
  /\ cwnd \in 1..MaxCwnd
  /\ sacked \in Nat
  /\ timer \in BOOLEAN
  /\ received \subseteq Seqs
  /\ recvCount \in 0..Size
  /\ recvTill \in 0..Size
  /\ maxSeq \in Seqs
  /\ finished \in BOOLEAN
  /\ data \subseteq Seqs
  /\ acks \subseteq Ack
  /\ ackDropped \in BOOLEAN

-----------------------------------------------------------------------------
(* The sender *)

(* send_pending_data with next_seq_no n, last_unacked_seq u and window w: the
   packets from n to the end of the window that the receiver has not got, and
   nothing once it has got all; the timer is set if it is not (t).  The
   faulty window does not end at the end of the flow. *)
MutWindowEnd(u, w) == u + w
WindowEnd(u, w) == Min({Size, u + w})
SendPendingData(n, u, w, t) ==
  IF recvCount < Size /\ n < WindowEnd(u, w)
  THEN /\ nextSeq' = WindowEnd(u, w)
       /\ data' = data \cup ((n..WindowEnd(u, w) - 1) \ received)
       /\ timer' = TRUE
  ELSE nextSeq' = n /\ timer' = t /\ UNCHANGED data

(* start_flow *)
Start ==
  /\ nextSeq = 0
  /\ ~timer
  /\ ~finished
  /\ SendPendingData(0, 0, cwnd, FALSE)
  /\ UNCHANGED <<unacked, cwnd, sacked, received, receiverVars, finished, acks, ackDropped>>

(* increase_cwnd: at once, or after some ACKs (PFabricFlow). *)
GrowCwnd == cwnd' \in {cwnd, Min({cwnd + 1, MaxCwnd})}

(* The timer is cancelled, and set again only with data that is sent. *)
MutNewAck(a) ==
  /\ a.seq > unacked
  /\ a.seq < Size
  /\ unacked' = a.seq
  /\ GrowCwnd
  /\ \E t \in {FALSE} : SendPendingData(Max({nextSeq, a.seq}), a.seq, cwnd' + a.sacks, t)
  /\ UNCHANGED <<received, finished>>

(* receive_ack: the window moves on; what it now allows is sent and the timer,
   if it was set, set again. *)
NewAck(a) ==
  /\ a.seq > unacked
  /\ a.seq < Size
  /\ unacked' = a.seq
  /\ GrowCwnd
  /\ SendPendingData(Max({nextSeq, a.seq}), a.seq, cwnd' + a.sacks, timer)
  /\ UNCHANGED <<received, finished>>

(* receive_ack of the whole flow: the timer stops and the flow is over. *)
LastAck(a) ==
  /\ a.seq = Size
  /\ unacked' = Size
  /\ nextSeq' = Size
  /\ GrowCwnd
  /\ timer' = FALSE
  /\ finished' = TRUE
  /\ received' = {}
  /\ UNCHANGED data

(* receive_ack of what is acknowledged already: the scoreboard becomes that
   of the older ACK. *)
OldAck(a) ==
  /\ a.seq <= unacked
  /\ nextSeq' = Max({nextSeq, a.seq})
  /\ UNCHANGED <<unacked, cwnd, timer, received, finished, data>>

(* receive and receive_ack *)
ReceiveAck(a) ==
  /\ a \in acks
  /\ acks' \in {acks, acks \ {a}}
  /\ \/ /\ ~finished
        /\ sacked' = a.sacks
        /\ NewAck(a) \/ LastAck(a) \/ OldAck(a)
     \/ /\ finished
        /\ UNCHANGED <<windowVars, received, finished, data>>
  /\ UNCHANGED <<receiverVars, ackDropped>>

(* handle_timeout: start over with a window of one packet. *)
MutTimeout ==
  /\ timer
  /\ cwnd' = 1
  /\ SendPendingData(nextSeq, unacked, 1 + sacked, timer)
  /\ UNCHANGED <<unacked, sacked, received, receiverVars, finished, acks, ackDropped>>

Timeout ==
  /\ timer
  /\ cwnd' = 1
  /\ SendPendingData(unacked, unacked, 1 + sacked, timer)
  /\ UNCHANGED <<unacked, sacked, received, receiverVars, finished, acks, ackDropped>>

-----------------------------------------------------------------------------
(* The receiver *)

(* in_sequence is not reset at a hole. *)
MutAdvance(till, got, last) == till + Cardinality({s \in till..last : s \in got})

(* The loop of receive_data_pkt that moves recv_till to the first hole. *)
Advance(till, got, last) == Min({s \in till..last + 1 : s \notin got})

(* received_bytes; the faulty one counts duplicates. *)
MutCounted(s) == recvCount + 1
Counted(s) == IF s \in received THEN recvCount ELSE recvCount + 1

(* receive_data_pkt *)
ReceiveData(s) ==
  LET got == received \cup {s}
      last == Max({maxSeq, s})
      till == Advance(recvTill, got, last)
  IN  /\ s \in data
      /\ data' \in {data, data \ {s}}
      /\ \/ /\ ~finished
            /\ received' = got
            /\ recvCount' = Counted(s)
            /\ maxSeq' = last
            /\ recvTill' = till
            /\ acks' = acks \cup
                 {[seq |-> till, sacks |-> Cardinality({i \in got : i > till})]}
         \/ finished /\ UNCHANGED <<received, receiverVars, acks>>
      /\ UNCHANGED <<windowVars, finished, ackDropped>>

-----------------------------------------------------------------------------
(* A queue is full (Queue::drop). *)
Drop ==
  /\ \/ /\ \E s \in data : data' = data \ {s}
        /\ UNCHANGED <<acks, ackDropped>>
     \/ /\ \E a \in acks : acks' = acks \ {a}
        /\ ackDropped' = TRUE
        /\ UNCHANGED data
  /\ UNCHANGED <<windowVars, received, receiverVars, finished>>

Init ==
  /\ nextSeq = 0
  /\ unacked = 0
  /\ cwnd = InitialCwnd
  /\ sacked = 0
  /\ timer = FALSE
  /\ received = {}
  /\ recvCount = 0
  /\ recvTill = 0
  /\ maxSeq = 0
  /\ finished = FALSE
  /\ data = {}
  /\ acks = {}
  /\ ackDropped = FALSE

Next ==
  \/ Start
  \/ \E a \in acks : ReceiveAck(a)
  \/ Timeout
  \/ \E s \in data : ReceiveData(s)
  \/ Drop

Spec == Init /\ [][Next]_vars

(* Events are processed in the order of their times, so that the timer and
   every packet that is not dropped get their turn; a packet that is sent
   again and again arrives in the end. *)
Fairness ==
  /\ WF_vars(Start)
  /\ WF_vars(Timeout)
  /\ \A s \in Seqs : SF_vars(ReceiveData(s))
  /\ \A n \in 1..Size : SF_vars(\E a \in acks : a.seq = n /\ ReceiveAck(a))

FairSpec == Spec /\ Fairness

-----------------------------------------------------------------------------
(* Properties *)

(* No ACK, in whatever order packets and ACKs arrive, covers a packet the
   receiver has not got: nothing below recv_till is missing, nothing is
   acknowledged beyond it, and a flow that is over was received as a whole. *)
AckedIsReceived ==
  /\ ~finished => 0..recvTill - 1 \subseteq received
  /\ unacked <= recvTill
  /\ \A a \in acks : a.seq <= recvTill
  /\ finished => recvCount = Size

(* recv_till is the first packet missing and received_bytes counts each
   packet once: when nothing is missing the ACK sent says so. *)
RecvTillIsFirstHole ==
  ~finished => /\ recvTill \notin received
               /\ recvCount = Cardinality(received)

(* From its start to its end a flow has a timer set, and next_seq_no never
   falls behind last_unacked_seq or the flow would wait with data unsent. *)
TimerUntilFinished ==
  /\ (nextSeq > 0 /\ ~finished) => timer
  /\ unacked <= nextSeq

(* The inductive invariant behind these: the first hole is at most one packet
   above the highest one received, so that the loop that moves recv_till ends
   there, and as long as the timer has not been set nothing has been sent. *)
HoleAboveHighest ==
  ~finished => /\ \A s \in received : s <= maxSeq
               /\ recvTill <= maxSeq + 1

TimerWhenSent ==
  (~timer /\ ~finished) => /\ nextSeq = 0
                           /\ data = {}
                           /\ acks = {}

IInv == /\ TypeOK
        /\ AckedIsReceived
        /\ RecvTillIsFirstHole
        /\ TimerUntilFinished
        /\ HoleAboveHighest
        /\ TimerWhenSent

(* A flow is over in the end, whatever data the queues drop, as long as they
   drop no ACK. *)
FlowFinishes == <>(finished \/ ackDropped)

=============================================================================
