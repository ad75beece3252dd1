----------------------------- MODULE PimMatching -----------------------------
(***************************************************************************)
(* The matching of PIM in the simulator (src/simulator/ext/pimhost.cpp,    *)
(* PimEpoch; pimflow.cpp).  In every epoch senders and receivers are       *)
(* matched anew, in iterations of three messages: a request (RTS) to every *)
(* receiver a sender has flows for, a grant of each receiver to one of     *)
(* them, an accept of each sender to one of those; a receiver that was     *)
(* taken meanwhile takes an accept back (GrantsR).                         *)
(*                                                                         *)
(* All hosts start their epochs at the same time (experiment.cpp) and      *)
(* compute the times of their events alike, so that the events of one kind *)
(* come at one instant for all of them.  A packet takes time: what one of  *)
(* them sends reaches none of the others at that instant, and the events   *)
(* of all hosts are one step, as is the iter they all advance.  Packets    *)
(* arrive in any order, before or after the next events, or are lost.      *)
(* iter_epoch * (pim_iter_limit + 1) < pim_epoch is assumed: iterations    *)
(* end before their epoch.  The choice of rand() and the order of flows of *)
(* one pair of hosts are left open.  Operators named Mut... are faulty     *)
(* variants of the operator after them.                                    *)
(***************************************************************************)
EXTENDS Naturals, PimHosts

CONSTANTS
  IterLimit,   \* pim_iter_limit
  MaxMsgs,     \* bound: packets of an earlier epoch on their way
  NoFlow       \* NULL

ASSUME LimitAssumption == IterLimit \in Nat \ {0} /\ MaxMsgs \in Nat
ASSUME NullAssumption == NoFlow \notin Flows

VARIABLES
  st,             \* is a flow idle, active, finished?
  iter,           \* iter of every host
  turn,           \* whose iteration event comes next; "over": none of this epoch
  matchReceiver,  \* match_receiver, and PimHost::receiver, of a sender
  matchSender,    \* match_sender, and PimHost::sender, of a receiver
  rtsQ,           \* rts_q of a receiver
  grantsQ,        \* grants_q of a sender
  msgs,           \* packets; epoch is that of their sending
  lost,           \* history: flows whose accept or GrantsR was lost in this epoch
  calm            \* history: no flow began or ended, no packet was late or lost

matchVars == <<matchReceiver, matchSender>>
queueVars == <<rtsQ, grantsQ>>
timeVars == <<iter, turn>>
vars == <<st, timeVars, matchVars, queueVars, msgs, lost, calm>>

Msg == [type : {"RTS", "GRANTS", "ACCEPT", "GRANTSR"}, flow : Flows,
        iter : 0..IterLimit + 1, epoch : {"this", "past"}]

TypeOK ==
  /\ st \in [Flows -> {"idle", "active", "finished"}]
  /\ iter \in 0..IterLimit + 1
  /\ turn \in {"sender", "receiver", "over"}
  /\ matchReceiver \in [Senders -> Receivers \cup {NoHost}]
  /\ matchSender \in [Receivers -> Senders \cup {NoHost}]
  /\ rtsQ \in [Receivers -> SUBSET Flows]
  /\ grantsQ \in [Senders -> SUBSET Flows]
  /\ msgs \subseteq Msg
  /\ lost \subseteq Flows
  /\ calm \in BOOLEAN

Packet(type, f, i) == [type |-> type, flow |-> f, iter |-> i, epoch |-> "this"]
Late == msgs # {}

-----------------------------------------------------------------------------
(* start_flow and FlowFinishedEvent, as far as the matching sees them. *)
StartFlow(f) ==
  /\ st[f] = "idle"
  /\ st' = [st EXCEPT ![f] = "active"]
  /\ calm' = (calm /\ iter = 0)
  /\ UNCHANGED <<timeVars, matchVars, queueVars, msgs, lost>>

FinishFlow(f) ==
  /\ st[f] = "active"
  /\ st' = [st EXCEPT ![f] = "finished"]
  /\ calm' = FALSE
  /\ UNCHANGED <<timeVars, matchVars, queueVars, msgs, lost>>

(* A sender without a receiver takes part. *)
MutUnmatched(h, match) == TRUE
Unmatched(h, match) == match[h] = NoHost

(* handle_all_grants: the flow whose grant is accepted. *)
AcceptChoices(h) ==
  IF Unmatched(h, matchReceiver) /\ grantsQ[h] # {} THEN grantsQ[h] ELSE {NoFlow}

(* send_all_rts: an unmatched sender asks every receiver it has active flows
   for, by one of them each. *)
RtsChoices(match) ==
  LET asking == {f \in Flows : st[f] = "active" /\ Unmatched(Src[f], match)}
  IN  {fs \in SUBSET asking :
         \A f \in asking :
           Cardinality({g \in fs : Src[g] = Src[f] /\ Dst[g] = Dst[f]}) = 1}

IterOver(i) == i > IterLimit

(* schedule_sender_iter_evt of all hosts: handle_all_grants, advance_iter,
   and send_all_rts unless it was the last iteration. *)
SenderIter ==
  /\ turn = "sender"
  /\ iter' = iter + 1
  /\ \E accept \in [Senders -> Flows \cup {NoFlow}] :
       /\ \A h \in Senders : accept[h] \in AcceptChoices(h)
       /\ matchReceiver' = [h \in Senders |->
            IF accept[h] = NoFlow THEN matchReceiver[h] ELSE Dst[accept[h]]]
       /\ \E fs \in RtsChoices(matchReceiver') :
            msgs' = msgs
              \cup {Packet("ACCEPT", accept[h], iter) :
                      h \in {s \in Senders : accept[s] # NoFlow}}
              \cup IF IterOver(iter') THEN {} ELSE {Packet("RTS", f, iter') : f \in fs}
  /\ turn' = IF IterOver(iter') THEN "over" ELSE "receiver"
  /\ rtsQ' = [h \in Receivers |-> {}]
  /\ grantsQ' = [h \in Senders |-> {}]
  /\ calm' = (calm /\ ~Late)
  /\ UNCHANGED <<st, matchSender, lost>>

MutGrantChoices(h) == IF rtsQ[h] # {} THEN rtsQ[h] ELSE {NoFlow}

(* handle_all_rts: the flow whose request is granted. *)
GrantChoices(h) ==
  IF matchSender[h] = NoHost /\ rtsQ[h] # {} THEN rtsQ[h] ELSE {NoFlow}

(* schedule_receiver_iter_evt of all hosts; the one after the last iteration
   does nothing. *)
ReceiverIter ==
  /\ turn = "receiver"
  /\ turn' = "sender"
  /\ \E grant \in [Receivers -> Flows \cup {NoFlow}] :
       /\ \A h \in Receivers : grant[h] \in GrantChoices(h)
       /\ msgs' = msgs \cup {Packet("GRANTS", grant[h], iter) :
                               h \in {r \in Receivers : grant[r] # NoFlow}}
  /\ calm' = (calm /\ ~Late)
  /\ UNCHANGED <<st, iter, matchVars, queueVars, lost>>

(* start_new_epoch of all hosts, while there are flows left. *)
NewEpoch ==
  /\ turn = "over"
  /\ \E f \in Flows : st[f] # "finished"
  /\ Cardinality(msgs) <= MaxMsgs
  /\ iter' = 0 /\ turn' = "sender"
  /\ matchReceiver' = [h \in Senders |-> NoHost]
  /\ matchSender' = [h \in Receivers |-> NoHost]
  /\ msgs' = {[m EXCEPT !.epoch = "past"] : m \in msgs}
  /\ lost' = {}
  /\ calm' = ~Late
  /\ UNCHANGED <<st, queueVars>>

-----------------------------------------------------------------------------
(* PimFlow::receive *)

MutDelivered(m) == st[m.flow] # "finished"

(* A packet of a finished flow or of an earlier epoch is dropped. *)
Delivered(m) == st[m.flow] # "finished" /\ m.epoch = "this"

(* receive_rts, receive_grants: not those of an earlier iteration. *)
ReceiveRts(m) ==
  /\ m.type = "RTS"
  /\ msgs' = msgs \ {m}
  /\ rtsQ' = [rtsQ EXCEPT ![Dst[m.flow]] =
                IF Delivered(m) /\ m.iter = iter THEN @ \cup {m.flow} ELSE @]
  /\ UNCHANGED <<st, timeVars, matchVars, grantsQ, lost, calm>>

ReceiveGrants(m) ==
  /\ m.type = "GRANTS"
  /\ msgs' = msgs \ {m}
  /\ grantsQ' = [grantsQ EXCEPT ![Src[m.flow]] =
                   IF Delivered(m) /\ m.iter = iter THEN @ \cup {m.flow} ELSE @]
  /\ UNCHANGED <<st, timeVars, matchVars, rtsQ, lost, calm>>

MutTakeBack(m) == {}

(* receive_accept_pkt of a receiver that has a sender: send_grantsr. *)
TakeBack(m) == {Packet("GRANTSR", m.flow, iter)}

ReceiveAccept(m) ==
  /\ m.type = "ACCEPT"
  /\ IF ~Delivered(m)
     THEN msgs' = msgs \ {m} /\ UNCHANGED matchSender
     ELSE IF matchSender[Dst[m.flow]] # NoHost
     THEN msgs' = (msgs \ {m}) \cup TakeBack(m) /\ UNCHANGED matchSender
     ELSE /\ msgs' = msgs \ {m}
          /\ matchSender' = [matchSender EXCEPT ![Dst[m.flow]] = Src[m.flow]]
  /\ UNCHANGED <<st, timeVars, matchReceiver, queueVars, lost, calm>>

(* receive_grantsr *)
ReceiveGrantsR(m) ==
  /\ m.type = "GRANTSR"
  /\ msgs' = msgs \ {m}
  /\ matchReceiver' = [matchReceiver EXCEPT ![Src[m.flow]] = IF Delivered(m) THEN NoHost ELSE @]
  /\ UNCHANGED <<st, timeVars, matchSender, queueVars, lost, calm>>

(* What tells a sender's receiver, or the sender, how they stand. *)
Settles(m) == m.epoch = "this" /\ m.type \in {"ACCEPT", "GRANTSR"}

(* A queue drops a packet that matters. *)
Drop(m) ==
  /\ Delivered(m)
  /\ msgs' = msgs \ {m}
  /\ lost' = IF Settles(m) THEN lost \cup {m.flow} ELSE lost
  /\ calm' = FALSE
  /\ UNCHANGED <<st, timeVars, matchVars, queueVars>>

Init ==
  /\ st = [f \in Flows |-> "idle"]
  /\ iter = 0 /\ turn = "sender"
  /\ matchReceiver = [h \in Senders |-> NoHost]
  /\ matchSender = [h \in Receivers |-> NoHost]
  /\ rtsQ = [h \in Receivers |-> {}]
  /\ grantsQ = [h \in Senders |-> {}]
  /\ msgs = {} /\ lost = {} /\ calm = TRUE

Next ==
  \/ \E f \in Flows : StartFlow(f) \/ FinishFlow(f)
  \/ SenderIter \/ ReceiverIter \/ NewEpoch
  \/ \E m \in msgs : ReceiveRts(m) \/ ReceiveGrants(m) \/ ReceiveAccept(m)
                     \/ ReceiveGrantsR(m) \/ Drop(m)

Spec == Init /\ [][Next]_vars

-----------------------------------------------------------------------------
(* Properties *)

Claims(h, r) == matchReceiver[h] = r

(* A receiver believes only in a sender that believes in it: no late accept,
   grant or GrantsR, of this epoch or another, parts the two views. *)
MatchAgreed ==
  \A r \in Receivers : matchSender[r] # NoHost => Claims(matchSender[r], r)

(* A sender that counts on a receiver which does not know of it will be told,
   or will be known: the accept or its GrantsR is on its way, unless it was
   lost or its flow finished. *)
ClaimIsSettled ==
  \A h \in Senders, r \in Receivers :
    Claims(h, r) /\ matchSender[r] # h =>
      \E g \in Flows :
        /\ Src[g] = h /\ Dst[g] = r
        /\ \/ st[g] = "finished" \/ g \in lost
           \/ \E m \in msgs : m.flow = g /\ Settles(m)

(* The assertion of receive_grantsr: what is taken back was accepted. *)
TakenBackWasAccepted ==
  \A m \in msgs : m.type = "GRANTSR" /\ Delivered(m) => Claims(Src[m.flow], Dst[m.flow])

(* When nothing disturbed an epoch of enough iterations, it ends with a
   maximal matching: no receiver has two senders, and no active flow has both
   its hosts unmatched. *)
CalmEpochMatches ==
  calm /\ turn = "over" =>
    /\ \A r \in Receivers : Cardinality({h \in Senders : Claims(h, r)}) <= 1
    /\ \A f \in Flows : st[f] = "active" => \/ matchReceiver[Src[f]] # NoHost
                                            \/ \E h \in Senders : Claims(h, Dst[f])

(* The inductive invariant behind these: iterations do not run over, a sender
   keeps grants of its own flows only, and at most one accept or GrantsR of a
   sender is on its way, to or from the receiver it counts on and that does
   not have it. *)
IterBound == turn # "over" => iter <= IterLimit

OwnGrants == \A h \in Senders : \A f \in grantsQ[h] : Src[f] = h

OneSettlement ==
  \A m \in msgs : Settles(m) =>
    /\ Claims(Src[m.flow], Dst[m.flow])
    /\ matchSender[Dst[m.flow]] # Src[m.flow]
    /\ \A n \in msgs : Settles(n) /\ Src[n.flow] = Src[m.flow] => n = m

IInv == /\ TypeOK
        /\ IterBound
        /\ OwnGrants
        /\ MatchAgreed
        /\ ClaimIsSettled
        /\ OneSettlement

(* The inductive invariant behind CalmEpochMatches: how requests, grants and
   accepts of an epoch that nothing disturbs follow each other. *)

(* A receiver is asked by the flows of senders to it, and grants are of the
   present iteration. *)
OwnRequests == \A r \in Receivers : \A f \in rtsQ[r] : Dst[f] = r

GrantsInTime ==
  /\ \A m \in msgs : m.type = "GRANTS" /\ m.epoch = "this" =>
       0 < m.iter /\ m.iter <= iter /\ (m.iter = iter => turn = "sender")
  /\ turn # "sender" \/ iter = 0 => \A h \in Senders : grantsQ[h] = {}
  /\ turn = "receiver" => iter > 0
  /\ turn = "over" => iter = IterLimit + 1

Requested == {f \in Flows : f \in rtsQ[Dst[f]] \/ Packet("RTS", f, iter) \in msgs}
Granted == {f \in Flows : f \in grantsQ[Src[f]] \/ Packet("GRANTS", f, iter) \in msgs}
Claimed == {matchReceiver[h] : h \in {s \in Senders : matchReceiver[s] # NoHost}}

(* A flow that could still be matched. *)
Unserved(f) == /\ st[f] = "active"
               /\ Unmatched(Src[f], matchReceiver)
               /\ Dst[f] \notin Claimed

(* Packets arrive in the iteration that they were sent in. *)
PacketsInTime ==
  \A m \in msgs :
    /\ m.epoch = "this" /\ st[m.flow] = "active"
    /\ \/ m.type = "RTS" /\ turn = "receiver" /\ m.iter = iter
       \/ m.type = "GRANTS" /\ turn = "sender" /\ m.iter = iter
       \/ m.type = "ACCEPT" /\ turn # "sender"

(* Each sender without a receiver has asked the receivers of its flows. *)
AllAsked ==
  turn = "receiver" =>
    /\ \A f \in Requested : st[f] = "active" /\ Unmatched(Src[f], matchReceiver)
    /\ \A f \in Flows : Unserved(f) => \E g \in Requested : Dst[g] = Dst[f]

(* Each receiver that nobody claims has made one grant, if it was asked. *)
OneGrantEach ==
  turn = "sender" =>
    /\ \A f \in Granted : Unserved(f)
    /\ \A f, g \in Granted : Dst[f] = Dst[g] => f = g
    /\ iter > 0 /\ (\E f \in Flows : Unserved(f)) => Granted # {}

(* No receiver is claimed twice, and it knows of the claim or will. *)
OneClaim ==
  /\ \A g, h \in Senders : matchReceiver[g] = matchReceiver[h] /\ matchReceiver[g] # NoHost => g = h
  /\ \A h \in Senders, r \in Receivers : Claims(h, r) /\ matchSender[r] # h =>
       \E m \in msgs : m.type = "ACCEPT" /\ Src[m.flow] = h /\ Dst[m.flow] = r

(* Each iteration has made a match, unless there are none left to make. *)
MatchPerIteration ==
  iter <= Cardinality(Claimed) + 1 \/ \A f \in Flows : ~Unserved(f)

CalmIInv ==
  /\ IInv
  /\ OwnRequests
  /\ GrantsInTime
  /\ calm => /\ PacketsInTime
             /\ AllAsked
             /\ OneGrantEach
             /\ OneClaim
             /\ MatchPerIteration

=============================================================================
