---------------------------- MODULE RtpController ----------------------------
(***************************************************************************)
(* The controller of the RUF prototype (src/prototype/src/rtp_host.c,      *)
(* pq.c, config.c): it collects the requests of the receivers (listsrc) in *)
(* a priority queue, the smallest flow first, and a periodic timer answers *)
(* all of them at once: a request whose sender and receiver are both free  *)
(* becomes a grant (GOSRC), any other is forgotten.  A sender and receiver *)
(* are free again when an NRTS names them.                                 *)
(*                                                                         *)
(* One lcore runs the controller.  handle_requests is split into one step  *)
(* per request, as its GOSRC packets leave one by one; nothing else of the *)
(* controller runs between these steps.  Which number of tokens a grant    *)
(* carries is left out.  Addresses stand for ids (ip_to_id), but for the   *)
(* address 0.  Operators named Mut... are faulty variants of the operator  *)
(* after them.                                                             *)
(***************************************************************************)
EXTENDS Integers, FiniteSets, SequencesExt

CONSTANTS
  Hosts,     \* ids of the hosts: 0..15 in init_controller
  Sizes,     \* sizes of flows in packets
  MaxQueue   \* bound: length of the priority queue

ASSUME HostsAssumption == Hosts \subseteq Nat /\ 0 \in Hosts /\ IsFiniteSet(Hosts)
ASSUME SizesAssumption == Sizes \subseteq Nat \ {0}
ASSUME QueueAssumption == MaxQueue \in Nat

VARIABLES
  pq,             \* controller->head
  senderState,    \* is this sender free?
  receiverState,  \* is this receiver free?
  handling,       \* handle_requests is in its loop
  listsrc,        \* listsrc packets on their way to the controller
  grants          \* GOSRC packets on their way to a receiver

controllerVars == <<pq, senderState, receiverState, handling>>

Request == [src : Hosts, dst : Hosts, size : Sizes]
Grant == [src : Hosts, dst : Hosts]

NoNrts == -2    \* has_nrts = 0
NoAddr == -1    \* the address 0, which is no host's
Listsrc == [dst : Hosts, nrts : Hosts \cup {NoNrts, NoAddr}, reqs : Seq(Request)]

ControllerTypeOK ==
  /\ pq \in Seq(Request)
  /\ senderState \in [Hosts -> BOOLEAN]
  /\ receiverState \in [Hosts -> BOOLEAN]
  /\ handling \in BOOLEAN
  /\ handling => pq # <<>>
  /\ listsrc \subseteq Listsrc
  /\ grants \subseteq Grant

(* ip_to_id: an address it does not know is host 0. *)
IpToId(a) == IF a = NoAddr THEN 0 ELSE a

(* Without the special case for the head. *)
MutPush(q, r) ==
  LET After == {k \in 1..Len(q) : k = Len(q) \/ q[k + 1].size >= r.size}
  IN  IF q = <<>> THEN <<r>> ELSE InsertAt(q, Min(After) + 1, r)

(* pq.c: push, and newNode for an empty list.  A new head must be smaller;
   otherwise the node goes before the first one behind the head that is not
   smaller. *)
Push(q, r) ==
  LET After == {k \in 1..Len(q) : k = Len(q) \/ q[k + 1].size >= r.size}
  IN  IF q = <<>> \/ q[1].size > r.size
      THEN <<r>> \o q
      ELSE InsertAt(q, Min(After) + 1, r)

(* The loop over the requests of a listsrc: the queue after all of them. *)
PushAll(q, reqs) ==
  LET after[n \in 0..Len(reqs)] == IF n = 0 THEN q ELSE Push(after[n - 1], reqs[n])
  IN  after[Len(reqs)]

(* A set entry of sender_state or receiver_state. *)
Freed(state, h) == [state EXCEPT ![h] = TRUE]

(* rtp_receive_listsrc: the NRTS first, then the requests in their order. *)
ReceiveListsrc(m) ==
  /\ ~handling
  /\ m \in listsrc
  /\ listsrc' = listsrc \ {m}
  /\ Len(pq) + Len(m.reqs) <= MaxQueue
  /\ \/ m.nrts = NoNrts /\ UNCHANGED <<senderState, receiverState>>
     \/ /\ m.nrts # NoNrts
        /\ senderState' = Freed(senderState, IpToId(m.nrts))
        /\ receiverState' = Freed(receiverState, m.dst)
  /\ pq' = PushAll(pq, m.reqs)
  /\ UNCHANGED <<handling, grants>>

(* The periodic timer. *)
HandleTimer ==
  /\ ~handling
  /\ pq # <<>>
  /\ handling' = TRUE
  /\ UNCHANGED <<pq, senderState, receiverState, listsrc, grants>>

Feasible(r) == senderState[r.src] /\ receiverState[r.dst]

(* A grant that marks only the receiver busy. *)
MutGrantHead(r) ==
  /\ Feasible(r)
  /\ senderState' = senderState
  /\ receiverState' = [receiverState EXCEPT ![r.dst] = FALSE]
  /\ grants' = grants \cup {[src |-> r.src, dst |-> r.dst]}

GrantHead(r) ==
  /\ Feasible(r)
  /\ senderState' = [senderState EXCEPT ![r.src] = FALSE]
  /\ receiverState' = [receiverState EXCEPT ![r.dst] = FALSE]
  /\ grants' = grants \cup {[src |-> r.src, dst |-> r.dst]}

DropHead(r) ==
  /\ ~Feasible(r)
  /\ UNCHANGED <<senderState, receiverState, grants>>

(* handle_requests: a round of its loop. *)
HandleRequest ==
  /\ handling
  /\ GrantHead(Head(pq)) \/ DropHead(Head(pq))
  /\ pq' = Tail(pq)
  /\ handling' = (Tail(pq) # <<>>)
  /\ UNCHANGED listsrc

(* init_controller *)
ControllerInit ==
  /\ pq = <<>>
  /\ senderState = [h \in Hosts |-> TRUE]
  /\ receiverState = [h \in Hosts |-> TRUE]
  /\ handling = FALSE
  /\ listsrc = {}
  /\ grants = {}

=============================================================================
