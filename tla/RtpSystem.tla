------------------------------ MODULE RtpSystem ------------------------------
(***************************************************************************)
(* The controller of the RUF prototype with several receivers that compete *)
(* for senders.  A receiver is what RtpReceiver shows of it from outside:  *)
(* it announces sources at any time, takes or refuses a grant, and gives   *)
(* the one it holds back by an NRTS in a listsrc (rtp_host.c).  Control    *)
(* packets are reordered and lost; a lost packet also stands for a request *)
(* to lcore 5 that another one replaces (invoke_send_listsrc).             *)
(***************************************************************************)
EXTENDS RtpController, FiniteSets

CONSTANTS
  Senders,      \* hosts with flows to send
  Receivers,    \* hosts with flows to receive
  Backlog,      \* sizes the smallest flow of a sender for a receiver may have
  MaxListsrc    \* bound: listsrc packets in flight when one is announced

ASSUME RolesAssumption == Senders \subseteq Hosts /\ Receivers \subseteq Hosts
ASSUME BacklogAssumption == Backlog \in [Senders \X Receivers -> SUBSET Sizes]
ASSUME ListsrcAssumption == MaxListsrc \in Nat

VARIABLE lease  \* the source a receiver holds a grant for and has not given back

vars == <<controllerVars, listsrc, grants, lease>>

NoHost == -1

TypeOK == ControllerTypeOK /\ lease \in [Receivers -> Hosts \cup {NoHost}]

(* The requests a listsrc of d may carry (send_listsrc): one per source, with
   the size of its smallest flow, in the order rte_hash_iterate finds them. *)
RequestLists(d) ==
  {q \in BoundedSeq([src : Senders \ {d}, dst : {d}, size : Sizes], Cardinality(Senders)) :
     /\ \A i \in DOMAIN q : q[i].size \in Backlog[<<q[i].src, d>>]
     /\ \A i, j \in DOMAIN q : q[i].src = q[j].src => i = j}

(* send_listsrc *)
SendListsrc(d, nrts) ==
  \E q \in RequestLists(d) :
    listsrc' = listsrc \cup {[dst |-> d, nrts |-> nrts, reqs |-> q]}

(* A listsrc without NRTS: after an RTS or the idle timeout, perhaps delayed. *)
Announce(d) ==
  /\ Cardinality(listsrc) < MaxListsrc
  /\ SendListsrc(d, NoNrts)
  /\ UNCHANGED <<controllerVars, grants, lease>>

(* rtp_receive_gosrc *)
ReceiveGosrc(g) ==
  /\ g \in grants
  /\ grants' = grants \ {g}
  /\ \/ lease' = [lease EXCEPT ![g.dst] = g.src] /\ UNCHANGED listsrc
     \/ lease' = [lease EXCEPT ![g.dst] = NoHost] /\ SendListsrc(g.dst, g.src)
  /\ UNCHANGED controllerVars

(* The grant is given back but not forgotten. *)
MutGiveBack(d) ==
  /\ lease[d] # NoHost
  /\ SendListsrc(d, lease[d])
  /\ UNCHANGED <<controllerVars, grants, lease>>

(* send_token_evt_handler gives the grant back when its end is near. *)
GiveBack(d) ==
  /\ lease[d] # NoHost
  /\ SendListsrc(d, lease[d])
  /\ lease' = [lease EXCEPT ![d] = NoHost]
  /\ UNCHANGED <<controllerVars, grants>>

(* send_token_evt_handler finds no flow left to serve: the NRTS names the
   source address that reset_gosrc has cleared. *)
GiveBackNoFlow(d) ==
  /\ lease[d] # NoHost
  /\ SendListsrc(d, NoAddr)
  /\ lease' = [lease EXCEPT ![d] = NoHost]
  /\ UNCHANGED <<controllerVars, grants>>

LoseListsrc(m) ==
  /\ listsrc' = listsrc \ {m}
  /\ UNCHANGED <<controllerVars, grants, lease>>

LoseGrant(g) ==
  /\ grants' = grants \ {g}
  /\ UNCHANGED <<controllerVars, listsrc, lease>>

Init == ControllerInit /\ lease = [d \in Receivers |-> NoHost]

Next ==
  \/ \E m \in listsrc : LoseListsrc(m) \/ (ReceiveListsrc(m) /\ UNCHANGED lease)
  \/ HandleTimer /\ UNCHANGED lease
  \/ HandleRequest /\ UNCHANGED lease
  \/ \E g \in grants : ReceiveGosrc(g) \/ LoseGrant(g)
  \/ \E d \in Receivers : Announce(d) \/ GiveBack(d) \/ GiveBackNoFlow(d)

Spec == Init /\ [][Next]_vars

-----------------------------------------------------------------------------
(* Properties *)

(* Who may still act on a grant: the packets and receivers that carry it,
   until the controller sees the NRTS. *)
Claims == {<<g.src, g.dst>> : g \in grants}
          \cup {<<lease[d], d>> : d \in {e \in Receivers : lease[e] # NoHost}}
Returns == {m \in listsrc : m.nrts # NoNrts}

(* A receiver has one grant at a time, and none while an NRTS of it is on
   its way: whatever is reordered or lost, the controller has it down as
   busy until that NRTS arrives. *)
ReceiverExclusive ==
  \A d \in Receivers :
    LET mine == {c \in Claims : c[2] = d}
        back == {m \in Returns : m.dst = d}
    IN  /\ Cardinality(mine) + Cardinality(back) <= 1
        /\ mine \cup back # {} => ~receiverState[d]

(* How the grant of a receiver stands: on its way, held, on its way back.
   It is lost when the controller waits for an NRTS that will not come. *)
LeaseOf(d) ==
  IF \E g \in grants : g.dst = d THEN "granted"
  ELSE IF lease[d] # NoHost THEN "held"
  ELSE IF \E m \in Returns : m.dst = d THEN "returning"
  ELSE IF receiverState[d] THEN "free" ELSE "lost"

GrantLeaseOf(d) == INSTANCE GrantLease WITH lease <- LeaseOf(d)

(* Each of the receivers that compete has what GrantLease promises it, as a
   receiver alone with the controller has (RtpReceiver): this is
   GrantLeaseOf(d)!Spec for every d. *)
EachHasOneGrant ==
  /\ \A d \in Receivers : GrantLeaseOf(d)!Init
  /\ [][\A d \in Receivers : [GrantLeaseOf(d)!Next]_(LeaseOf(d))]_vars

(* No two receivers hold a grant for the same sender, nor is one made while
   the NRTS for that sender is on its way.  Host 0 is left out: a receiver
   whose flows are over frees it in place of its own source. *)
SenderExclusive ==
  \A s \in Senders \ {0} :
    LET its == {c \in Claims : c[1] = s}
        back == {m \in Returns : m.nrts = s}
    IN  /\ Cardinality(its) + Cardinality(back) <= 1
        /\ its \cup back # {} => ~senderState[s]

(* The grant a round of handle_requests makes is for the smallest flow among
   the requests that could be granted. *)
SmallestFirst ==
  [][HandleRequest /\ grants' # grants =>
       \A i \in DOMAIN pq : Feasible(pq[i]) => Head(pq).size <= pq[i].size]_vars

(* An NRTS returns a grant, so that the sender and the receiver it names are
   busy: RankingArbiter::receive_nrts asserts it (src/simulator/ext/
   rankinghost.cpp:798). *)
NrtsFreesBusyPair ==
  [][\A m \in listsrc \ listsrc' :
       (ReceiveListsrc(m) /\ m.nrts # NoNrts) =>
         ~senderState[IpToId(m.nrts)] /\ ~receiverState[m.dst]]_vars

-----------------------------------------------------------------------------
(* The inductive invariant behind the exclusions, in terms of what may still
   be done with a grant and not of how many can do it. *)

(* Who asks and who is asked stays within the roles. *)
KnownRequest == [src : Senders, dst : Receivers, size : Sizes]
KnownHosts ==
  /\ pq \in Seq(KnownRequest)
  /\ \A m \in listsrc : m.dst \in Receivers /\ m.reqs \in Seq(KnownRequest)
  /\ \A g \in grants : g.src \in Senders /\ g.dst \in Receivers
  /\ \A d \in Receivers : lease[d] # NoHost => lease[d] \in Senders

(* A grant of d is a packet, a lease or on its way back, and only one of
   these; d is then busy. *)
ReceiverBusy(d) ==
  /\ \A g \in grants :
       g.dst = d => ~receiverState[d] /\ lease[d] = NoHost
  /\ lease[d] # NoHost => ~receiverState[d]
  /\ \A m \in Returns :
       m.dst = d => /\ ~receiverState[d]
                    /\ lease[d] = NoHost
                    /\ \A g \in grants : g.dst # d
  /\ \A g, h \in grants : g.dst = d /\ h.dst = d => g = h
  /\ \A m, n \in Returns : m.dst = d /\ n.dst = d => m = n

(* The same for a sender. *)
SenderBusy(s) ==
  /\ \A g \in grants :
       g.src = s => ~senderState[s] /\ \A d \in Receivers : lease[d] # s
  /\ \A d \in Receivers : lease[d] = s => ~senderState[s]
  /\ \A m \in Returns :
       m.nrts = s => /\ ~senderState[s]
                     /\ \A d \in Receivers : lease[d] # s
                     /\ \A g \in grants : g.src # s
  /\ \A g, h \in grants : g.src = s /\ h.src = s => g = h
  /\ \A d, e \in Receivers : lease[d] = s /\ lease[e] = s => d = e
  /\ \A m, n \in Returns : m.nrts = s /\ n.nrts = s => m = n

(* The smallest request is at the head of every part of the queue. *)
Ordered(q) == \A i, j \in DOMAIN q : i < j => q[i].size <= q[j].size

IInv ==
  /\ TypeOK
  /\ KnownHosts
  /\ \A d \in Receivers : ReceiverBusy(d)
  /\ \A s \in Senders \ {0} : SenderBusy(s)
  /\ Ordered(pq)

=============================================================================
