----------------------------- MODULE Pim_proofs -----------------------------
(***************************************************************************)
(* Proofs about PIM, for any hosts, flows, sizes, windows and numbers of   *)
(* iterations.  PimMatching: what the two ends of a match believe (IInv is *)
(* inductive; there is a lemma for each action that moves an accept or a   *)
(* GrantsR, and one, QuietStep, for all others); that a calm epoch ends    *)
(* with a maximal matching (CalmIInv); and that it hands a sender its      *)
(* receivers as PimFlow takes them.  PimFlow: a sender's record of its     *)
(* flows (FlowIInv), by one lemma for each change of a record and one for  *)
(* each action.                                                            *)
(***************************************************************************)
EXTENDS PimMatching, PimFlow, FiniteSetTheorems, WellFoundedInduction, TLAPS

(* What the inductive invariant says of matches. *)
Matching == MatchAgreed /\ ClaimIsSettled /\ OneSettlement

(* A packet sent in an iteration is a packet. *)
LEMMA PacketType ==
  ASSUME NEW type \in {"RTS", "GRANTS", "ACCEPT", "GRANTSR"},
         NEW f \in Flows, NEW i \in 0..IterLimit + 1
  PROVE  Packet(type, f, i) \in Msg
  BY DEF Packet, Msg

(* The ends of a flow are a sender and a receiver, and not NULL. *)
LEMMA Ends ==
  ASSUME NEW f \in Flows
  PROVE  /\ Src[f] \in Senders /\ Dst[f] \in Receivers
         /\ Src[f] # NoHost /\ Dst[f] # NoHost
  BY HostsAssumption DEF Senders, Receivers

LEMMA MsgFields ==
  ASSUME NEW m \in Msg
  PROVE  /\ m.flow \in Flows /\ m.iter \in 0..IterLimit + 1
         /\ m.type \in {"RTS", "GRANTS", "ACCEPT", "GRANTSR"}
         /\ Src[m.flow] \in Senders /\ Dst[m.flow] \in Receivers
         /\ [m EXCEPT !.epoch = "past"] \in Msg
  BY Ends DEF Msg

-----------------------------------------------------------------------------
(* Types *)

LEMMA InitInv == Init => IInv
<1> SUFFICES ASSUME Init PROVE IInv
  OBVIOUS
<1>1. TypeOK /\ IterBound /\ OwnGrants
  BY LimitAssumption DEF Init, TypeOK, IterBound, OwnGrants
<1>2. Matching
  <2>1. MatchAgreed
    BY DEF Init, MatchAgreed
  <2>2. ClaimIsSettled
    BY Ends DEF Init, ClaimIsSettled, Claims, Receivers
  <2>3. OneSettlement
    BY DEF Init, OneSettlement
  <2> QED
    BY <2>1, <2>2, <2>3 DEF Matching
<1> QED
  BY <1>1, <1>2 DEF IInv, Matching

(* The iteration event of the senders keeps types: what is accepted or asked
   for is a flow. *)
LEMMA SenderIterType ==
  ASSUME TypeOK, IterBound, OwnGrants, SenderIter
  PROVE  TypeOK' /\ IterBound' /\ OwnGrants'
<1>1. PICK accept \in [Senders -> Flows \cup {NoFlow}] :
        /\ \A h \in Senders : accept[h] \in AcceptChoices(h)
        /\ matchReceiver' = [h \in Senders |->
             IF accept[h] = NoFlow THEN matchReceiver[h] ELSE Dst[accept[h]]]
        /\ \E fs \in RtsChoices(matchReceiver') :
             msgs' = msgs
               \cup {Packet("ACCEPT", accept[h], iter) :
                       h \in {s \in Senders : accept[s] # NoFlow}}
               \cup IF IterOver(iter') THEN {} ELSE {Packet("RTS", f, iter') : f \in fs}
  BY DEF SenderIter
<1>2. PICK fs \in RtsChoices(matchReceiver') :
        msgs' = msgs
          \cup {Packet("ACCEPT", accept[h], iter) :
                  h \in {s \in Senders : accept[s] # NoFlow}}
          \cup IF IterOver(iter') THEN {} ELSE {Packet("RTS", f, iter') : f \in fs}
  BY <1>1
<1>3. iter \in 0..IterLimit + 1 /\ iter' = iter + 1 /\ iter' \in 0..IterLimit + 1
  BY LimitAssumption DEF SenderIter, TypeOK, IterBound
<1>4. fs \subseteq Flows
  BY DEF RtsChoices
<1>5. msgs' \subseteq Msg
  <2>1. \A h \in Senders : accept[h] # NoFlow => Packet("ACCEPT", accept[h], iter) \in Msg
    BY <1>3, PacketType
  <2>2. \A f \in fs : Packet("RTS", f, iter') \in Msg
    BY <1>3, <1>4, PacketType
  <2> QED
    BY <1>2, <2>1, <2>2 DEF TypeOK
<1>6. matchReceiver' \in [Senders -> Receivers \cup {NoHost}]
  BY <1>1, Ends DEF TypeOK
<1>7. turn' \in {"sender", "receiver", "over"} /\ IterBound'
  BY <1>3, LimitAssumption DEF SenderIter, IterOver, IterBound
<1> QED
  BY <1>3, <1>5, <1>6, <1>7 DEF SenderIter, TypeOK, OwnGrants

LEMMA ReceiverIterType ==
  ASSUME TypeOK, IterBound, OwnGrants, ReceiverIter
  PROVE  TypeOK' /\ IterBound' /\ OwnGrants'
<1>1. PICK grant \in [Receivers -> Flows \cup {NoFlow}] :
        msgs' = msgs \cup {Packet("GRANTS", grant[h], iter) :
                             h \in {r \in Receivers : grant[r] # NoFlow}}
  BY DEF ReceiverIter
<1>2. \A h \in Receivers : grant[h] # NoFlow => Packet("GRANTS", grant[h], iter) \in Msg
  BY PacketType DEF TypeOK
<1>3. msgs' \subseteq Msg
  BY <1>1, <1>2 DEF TypeOK
<1> QED
  BY <1>3 DEF ReceiverIter, TypeOK, IterBound, OwnGrants, matchVars, queueVars

(* The arrival of a packet keeps types. *)
LEMMA ArrivalType ==
  ASSUME TypeOK, IterBound, OwnGrants, NEW m \in msgs,
         ReceiveRts(m) \/ ReceiveGrants(m) \/ ReceiveAccept(m)
           \/ ReceiveGrantsR(m) \/ Drop(m)
  PROVE  TypeOK' /\ IterBound' /\ OwnGrants'
<1>1. m \in Msg
  BY DEF TypeOK
<1>2. m.flow \in Flows /\ Src[m.flow] \in Senders /\ Dst[m.flow] \in Receivers
  BY <1>1, MsgFields
<1>3. CASE ReceiveRts(m)
  BY <1>2, <1>3 DEF ReceiveRts, TypeOK, IterBound, OwnGrants, timeVars, matchVars
<1>4. CASE ReceiveGrants(m)
  BY <1>2, <1>4 DEF ReceiveGrants, TypeOK, IterBound, OwnGrants, timeVars, matchVars
<1>5. CASE ReceiveAccept(m)
  <2>1. TakeBack(m) \subseteq Msg
    BY <1>2, PacketType DEF TakeBack, TypeOK
  <2>2. msgs' \subseteq Msg
    BY <1>5, <2>1 DEF ReceiveAccept, TypeOK
  <2>3. matchSender' \in [Receivers -> Senders \cup {NoHost}]
    BY <1>2, <1>5 DEF ReceiveAccept, TypeOK
  <2> QED
    BY <1>5, <2>2, <2>3 DEF ReceiveAccept, TypeOK, IterBound, OwnGrants, timeVars, queueVars
<1>6. CASE ReceiveGrantsR(m)
  BY <1>2, <1>6 DEF ReceiveGrantsR, TypeOK, IterBound, OwnGrants, timeVars, queueVars
<1>7. CASE Drop(m)
  BY <1>2, <1>7 DEF Drop, TypeOK, IterBound, OwnGrants, timeVars, matchVars, queueVars
<1> QED
  BY <1>3, <1>4, <1>5, <1>6, <1>7

(* Every step keeps types, the bound of iterations, and grants apart. *)
LEMMA TypeStep ==
  ASSUME TypeOK, IterBound, OwnGrants, [Next]_vars
  PROVE  TypeOK' /\ IterBound' /\ OwnGrants'
<1>1. ASSUME NEW f \in Flows, StartFlow(f) \/ FinishFlow(f)
      PROVE  TypeOK' /\ IterBound' /\ OwnGrants'
  BY <1>1 DEF StartFlow, FinishFlow, TypeOK, IterBound, OwnGrants, timeVars,
              matchVars, queueVars
<1>2. CASE NewEpoch
  <2>1. \A m \in msgs : [m EXCEPT !.epoch = "past"] \in Msg
    BY MsgFields DEF TypeOK
  <2>2. msgs' \subseteq Msg
    BY <1>2, <2>1 DEF NewEpoch
  <2> QED
    BY <1>2, <2>2, LimitAssumption DEF NewEpoch, TypeOK, IterBound, OwnGrants, queueVars
<1>3. CASE UNCHANGED vars
  BY <1>3 DEF vars, TypeOK, IterBound, OwnGrants, timeVars, matchVars, queueVars
<1> QED
  BY <1>1, <1>2, <1>3, SenderIterType, ReceiverIterType, ArrivalType DEF Next

-----------------------------------------------------------------------------
(* Matches *)

(* Steps that change no match, no accept and no GrantsR, and by which flows
   may end. *)
LEMMA QuietStep ==
  ASSUME Matching, UNCHANGED <<matchVars, lost>>,
         \A m : m \in msgs' /\ Settles(m) <=> m \in msgs /\ Settles(m),
         \A f \in Flows : st[f] = "finished" => st'[f] = "finished"
  PROVE  Matching'
<1>1. MatchAgreed'
  BY DEF Matching, MatchAgreed, Claims, matchVars
<1>2. ClaimIsSettled'
  BY DEF Matching, ClaimIsSettled, Claims, matchVars
<1>3. OneSettlement'
  BY DEF Matching, OneSettlement, Claims, matchVars
<1> QED
  BY <1>1, <1>2, <1>3 DEF Matching

(* The accepts of new matches: each sender that sends one had no receiver, so
   that nothing else of it was on its way. *)
LEMMA SenderIterStep ==
  ASSUME IInv, SenderIter
  PROVE  Matching'
<1>0. TypeOK /\ OwnGrants /\ MatchAgreed /\ ClaimIsSettled /\ OneSettlement
  BY DEF IInv
<1>1. PICK accept \in [Senders -> Flows \cup {NoFlow}] :
        /\ \A h \in Senders : accept[h] \in AcceptChoices(h)
        /\ matchReceiver' = [h \in Senders |->
             IF accept[h] = NoFlow THEN matchReceiver[h] ELSE Dst[accept[h]]]
        /\ \E fs \in RtsChoices(matchReceiver') :
             msgs' = msgs
               \cup {Packet("ACCEPT", accept[h], iter) :
                       h \in {s \in Senders : accept[s] # NoFlow}}
               \cup IF IterOver(iter') THEN {} ELSE {Packet("RTS", f, iter') : f \in fs}
  BY DEF SenderIter
<1>2. matchSender' = matchSender /\ lost' = lost /\ st' = st
  BY DEF SenderIter
<1>3. \A h \in Senders : accept[h] # NoFlow =>
        /\ matchReceiver[h] = NoHost
        /\ accept[h] \in Flows /\ Src[accept[h]] = h
        /\ matchReceiver'[h] = Dst[accept[h]]
  BY <1>0, <1>1, NullAssumption DEF AcceptChoices, Unmatched, OwnGrants
<1>4. \A h \in Senders : accept[h] = NoFlow => matchReceiver'[h] = matchReceiver[h]
  BY <1>1
<1> DEFINE Accept(h) == Packet("ACCEPT", accept[h], iter)
<1>5. \A m \in msgs' : Settles(m) =>
        m \in msgs \/ \E h \in Senders : accept[h] # NoFlow /\ m = Accept(h)
  BY <1>1 DEF Settles, Packet
<1>6. \A h \in Senders : accept[h] # NoFlow =>
        Accept(h) \in msgs' /\ Settles(Accept(h)) /\ Accept(h).flow = accept[h]
  BY <1>1 DEF Settles, Packet
<1>7. msgs \subseteq msgs'
  BY <1>1
<1>8. \A m \in msgs : Settles(m) =>
        /\ m.flow \in Flows /\ Src[m.flow] \in Senders
        /\ accept[Src[m.flow]] = NoFlow
  <2> SUFFICES ASSUME NEW m \in msgs, Settles(m)
               PROVE  /\ m.flow \in Flows /\ Src[m.flow] \in Senders
                      /\ accept[Src[m.flow]] = NoFlow
    OBVIOUS
  <2>1. m.flow \in Flows /\ Src[m.flow] \in Senders /\ Dst[m.flow] # NoHost
    BY <1>0, MsgFields, Ends DEF TypeOK
  <2>2. matchReceiver[Src[m.flow]] = Dst[m.flow]
    BY <1>0 DEF OneSettlement, Claims
  <2> QED
    BY <1>3, <2>1, <2>2
<1> HIDE DEF Accept
<1>9. MatchAgreed'
  <2> SUFFICES ASSUME NEW r \in Receivers, matchSender[r] # NoHost
               PROVE  matchReceiver'[matchSender[r]] = r
    BY <1>2 DEF MatchAgreed, Claims
  <2>1. matchSender[r] \in Senders /\ matchReceiver[matchSender[r]] = r
    BY <1>0 DEF TypeOK, MatchAgreed, Claims
  <2>2. r # NoHost
    BY Ends DEF Receivers
  <2> QED
    BY <1>3, <1>4, <2>1, <2>2
<1>10. ClaimIsSettled'
  <2> SUFFICES ASSUME NEW h \in Senders, NEW r \in Receivers,
                      matchReceiver'[h] = r, matchSender[r] # h
               PROVE  \E g \in Flows :
                        /\ Src[g] = h /\ Dst[g] = r
                        /\ \/ st[g] = "finished" \/ g \in lost
                           \/ \E m \in msgs' : m.flow = g /\ Settles(m)
    BY <1>2 DEF ClaimIsSettled, Claims
  <2>1. CASE accept[h] # NoFlow
    BY <1>3, <1>6, <2>1
  <2>2. CASE accept[h] = NoFlow
    <3>1. PICK g \in Flows :
            /\ Src[g] = h /\ Dst[g] = r
            /\ \/ st[g] = "finished" \/ g \in lost
               \/ \E m \in msgs : m.flow = g /\ Settles(m)
      BY <1>0, <1>4, <2>2 DEF ClaimIsSettled, Claims
    <3> QED
      BY <1>7, <3>1
  <2> QED
    BY <2>1, <2>2
<1>11. OneSettlement'
  <2>1. ASSUME NEW m \in msgs', Settles(m)
        PROVE  /\ matchReceiver'[Src[m.flow]] = Dst[m.flow]
               /\ matchSender[Dst[m.flow]] # Src[m.flow]
    <3>1. CASE m \in msgs
      BY <1>0, <1>4, <1>8, <2>1, <3>1 DEF OneSettlement, Claims
    <3>2. ASSUME NEW h \in Senders, accept[h] # NoFlow, m = Accept(h)
          PROVE  /\ matchReceiver'[Src[m.flow]] = Dst[m.flow]
                 /\ matchSender[Dst[m.flow]] # Src[m.flow]
      <4>1. m.flow = accept[h] /\ Src[m.flow] = h /\ matchReceiver'[h] = Dst[m.flow]
        BY <1>3, <1>6, <3>2
      <4>2. Dst[m.flow] \in Receivers /\ Dst[m.flow] # NoHost
        BY <1>3, <3>2, <4>1, Ends
      <4>3. matchSender[Dst[m.flow]] = h => h # NoHost /\ matchReceiver[h] = Dst[m.flow]
        BY <1>0, <1>3, <3>2, <4>1, <4>2, Ends DEF MatchAgreed, Claims
      <4> QED
        BY <1>3, <3>2, <4>1, <4>2, <4>3
    <3> QED
      BY <1>5, <2>1, <3>1, <3>2
  <2>2. ASSUME NEW m \in msgs', NEW n \in msgs',
               Settles(m), Settles(n), Src[n.flow] = Src[m.flow]
        PROVE  n = m
    <3>1. CASE m \in msgs /\ n \in msgs
      BY <1>0, <2>2, <3>1 DEF OneSettlement
    <3>2. CASE m \notin msgs \/ n \notin msgs
      <4>1. \A x \in msgs' : Settles(x) =>
              \/ x \in msgs /\ accept[Src[x.flow]] = NoFlow
              \/ accept[Src[x.flow]] # NoFlow /\ x = Accept(Src[x.flow])
        BY <1>3, <1>5, <1>6, <1>8
      <4> QED
        BY <2>2, <3>2, <4>1
    <3> QED
      BY <3>1, <3>2
  <2> QED
    BY <1>2, <2>1, <2>2 DEF OneSettlement, Claims
<1> QED
  BY <1>9, <1>10, <1>11 DEF Matching

(* The arrival of an accept: it is the only one of its sender, so that no
   match is broken, and a GrantsR takes its place. *)
LEMMA ReceiveAcceptStep ==
  ASSUME IInv, NEW m \in msgs, ReceiveAccept(m)
  PROVE  Matching'
<1>0. TypeOK /\ Matching /\ MatchAgreed /\ ClaimIsSettled /\ OneSettlement
  BY DEF IInv, Matching
<1>1. m.flow \in Flows /\ Src[m.flow] \in Senders /\ Dst[m.flow] \in Receivers
      /\ Src[m.flow] # NoHost
  BY <1>0, MsgFields, Ends DEF TypeOK
<1>2. m.type = "ACCEPT" /\ matchReceiver' = matchReceiver /\ lost' = lost /\ st' = st
  BY DEF ReceiveAccept
<1>3. ASSUME msgs' = msgs \ {m}, matchSender' = matchSender,
             m.epoch = "this" => st[m.flow] = "finished"
      PROVE  Matching'
  <2>1. MatchAgreed'
    BY <1>0, <1>2, <1>3 DEF MatchAgreed, Claims
  <2>2. ClaimIsSettled'
    <3> SUFFICES ASSUME NEW h \in Senders, NEW r \in Receivers,
                        matchReceiver[h] = r, matchSender[r] # h
                 PROVE  \E g \in Flows :
                          /\ Src[g] = h /\ Dst[g] = r
                          /\ \/ st[g] = "finished" \/ g \in lost
                             \/ \E n \in msgs' : n.flow = g /\ Settles(n)
      BY <1>2, <1>3 DEF ClaimIsSettled, Claims
    <3>1. PICK g \in Flows :
            /\ Src[g] = h /\ Dst[g] = r
            /\ \/ st[g] = "finished" \/ g \in lost
               \/ \E n \in msgs : n.flow = g /\ Settles(n)
      BY <1>0 DEF ClaimIsSettled, Claims
    <3>2. Settles(m) => st[m.flow] = "finished"
      BY <1>3 DEF Settles
    <3> QED
      BY <1>3, <3>1, <3>2
  <2>3. OneSettlement'
    BY <1>0, <1>2, <1>3 DEF OneSettlement, Claims
  <2> QED
    BY <2>1, <2>2, <2>3 DEF Matching
<1>4. CASE Delivered(m) /\ matchSender[Dst[m.flow]] = NoHost
  <2>1. /\ msgs' = msgs \ {m}
        /\ matchSender' = [matchSender EXCEPT ![Dst[m.flow]] = Src[m.flow]]
        /\ Settles(m)
    BY <1>2, <1>4 DEF ReceiveAccept, Delivered, Settles
  <2>2. matchReceiver[Src[m.flow]] = Dst[m.flow]
    BY <1>0, <2>1 DEF OneSettlement, Claims
  <2>3. \A r \in Receivers : matchSender'[r] =
          IF r = Dst[m.flow] THEN Src[m.flow] ELSE matchSender[r]
    BY <1>0, <2>1 DEF TypeOK
  <2>4. \A n \in msgs' : Settles(n) => Src[n.flow] # Src[m.flow]
    BY <1>0, <2>1 DEF OneSettlement
  <2>5. MatchAgreed'
    BY <1>0, <1>2, <2>2, <2>3 DEF MatchAgreed, Claims
  <2>6. ClaimIsSettled'
    <3> SUFFICES ASSUME NEW h \in Senders, NEW r \in Receivers,
                        matchReceiver[h] = r, matchSender'[r] # h
                 PROVE  \E g \in Flows :
                          /\ Src[g] = h /\ Dst[g] = r
                          /\ \/ st[g] = "finished" \/ g \in lost
                             \/ \E n \in msgs' : n.flow = g /\ Settles(n)
      BY <1>2 DEF ClaimIsSettled, Claims
    <3>1. h # Src[m.flow]
      BY <2>2, <2>3
    <3>2. h # NoHost
      BY Ends DEF Senders
    <3>3. matchSender[r] # h
      BY <1>4, <2>3, <3>2
    <3>4. PICK g \in Flows :
            /\ Src[g] = h /\ Dst[g] = r
            /\ \/ st[g] = "finished" \/ g \in lost
               \/ \E n \in msgs : n.flow = g /\ Settles(n)
      BY <1>0, <3>3 DEF ClaimIsSettled, Claims
    <3> QED
      BY <2>1, <3>1, <3>4
  <2>7. OneSettlement'
    <3> SUFFICES ASSUME NEW n \in msgs', Settles(n)
                 PROVE  /\ matchReceiver[Src[n.flow]] = Dst[n.flow]
                        /\ matchSender'[Dst[n.flow]] # Src[n.flow]
                        /\ \A o \in msgs' : Settles(o) /\ Src[o.flow] = Src[n.flow] => o = n
      BY <1>2 DEF OneSettlement, Claims
    <3>1. n \in msgs /\ Dst[n.flow] \in Receivers
      BY <1>0, <2>1, MsgFields DEF TypeOK
    <3> QED
      BY <1>0, <2>1, <2>3, <2>4, <3>1 DEF OneSettlement, Claims
  <2> QED
    BY <2>5, <2>6, <2>7 DEF Matching
<1>5. CASE Delivered(m) /\ matchSender[Dst[m.flow]] # NoHost
  <2> DEFINE back == Packet("GRANTSR", m.flow, iter)
  <2>1. msgs' = (msgs \ {m}) \cup {back} /\ matchSender' = matchSender
    BY <1>5 DEF ReceiveAccept, TakeBack
  <2>2. Settles(m) /\ Settles(back) /\ back.flow = m.flow
    BY <1>2, <1>5 DEF Delivered, Settles, Packet
  <2> HIDE DEF back
  <2>3. \A n \in msgs' : Settles(n) =>
          \/ n = back
          \/ n \in msgs /\ Src[n.flow] # Src[m.flow]
    BY <1>0, <2>1, <2>2 DEF OneSettlement
  <2>4. MatchAgreed'
    BY <1>0, <1>2, <2>1 DEF MatchAgreed, Claims
  <2>5. ClaimIsSettled'
    <3> SUFFICES ASSUME NEW h \in Senders, NEW r \in Receivers,
                        matchReceiver[h] = r, matchSender[r] # h
                 PROVE  \E g \in Flows :
                          /\ Src[g] = h /\ Dst[g] = r
                          /\ \/ st[g] = "finished" \/ g \in lost
                             \/ \E n \in msgs' : n.flow = g /\ Settles(n)
      BY <1>2, <2>1 DEF ClaimIsSettled, Claims
    <3>1. PICK g \in Flows :
            /\ Src[g] = h /\ Dst[g] = r
            /\ \/ st[g] = "finished" \/ g \in lost
               \/ \E n \in msgs : n.flow = g /\ Settles(n)
      BY <1>0 DEF ClaimIsSettled, Claims
    <3> QED
      BY <2>1, <2>2, <3>1
  <2>6. OneSettlement'
    <3>1. ASSUME NEW n \in msgs', Settles(n)
          PROVE  /\ matchReceiver[Src[n.flow]] = Dst[n.flow]
                 /\ matchSender[Dst[n.flow]] # Src[n.flow]
      <4>1. CASE n = back
        BY <1>0, <2>2, <4>1 DEF OneSettlement, Claims
      <4>2. CASE n \in msgs
        BY <1>0, <3>1, <4>2 DEF OneSettlement, Claims
      <4> QED
        BY <2>3, <3>1, <4>1, <4>2
    <3>2. ASSUME NEW n \in msgs', NEW o \in msgs',
                 Settles(n), Settles(o), Src[o.flow] = Src[n.flow]
          PROVE  o = n
      BY <1>0, <2>2, <2>3, <3>2 DEF OneSettlement
    <3> QED
      BY <1>2, <2>1, <3>1, <3>2 DEF OneSettlement, Claims
  <2> QED
    BY <2>4, <2>5, <2>6 DEF Matching
<1>6. CASE ~Delivered(m)
  <2>1. msgs' = msgs \ {m} /\ matchSender' = matchSender
    BY <1>6 DEF ReceiveAccept
  <2>2. m.epoch = "this" => st[m.flow] = "finished"
    BY <1>6 DEF Delivered
  <2> QED
    BY <1>3, <2>1, <2>2
<1> QED
  BY <1>4, <1>5, <1>6

(* The arrival of a GrantsR: the receiver it comes from has another sender,
   and nothing else of this sender is on its way. *)
LEMMA ReceiveGrantsRStep ==
  ASSUME IInv, NEW m \in msgs, ReceiveGrantsR(m)
  PROVE  Matching'
<1>0. TypeOK /\ MatchAgreed /\ ClaimIsSettled /\ OneSettlement
  BY DEF IInv
<1>1. m.flow \in Flows /\ Src[m.flow] \in Senders /\ Dst[m.flow] \in Receivers
  BY <1>0, MsgFields DEF TypeOK
<1>2. m.type = "GRANTSR" /\ msgs' = msgs \ {m}
      /\ matchSender' = matchSender /\ lost' = lost /\ st' = st
  BY DEF ReceiveGrantsR
<1>3. \A h \in Senders : matchReceiver'[h] =
        IF h = Src[m.flow] /\ Delivered(m) THEN NoHost ELSE matchReceiver[h]
  BY <1>0, <1>1 DEF ReceiveGrantsR, TypeOK
<1>4. Delivered(m) => Settles(m)
  BY <1>2 DEF Delivered, Settles
<1>5. Settles(m) /\ ~Delivered(m) => st[m.flow] = "finished"
  BY DEF Delivered, Settles
<1>6. MatchAgreed'
  <2> SUFFICES ASSUME NEW r \in Receivers, matchSender[r] # NoHost
               PROVE  matchReceiver'[matchSender[r]] = r
    BY <1>2 DEF MatchAgreed, Claims
  <2>1. matchSender[r] \in Senders /\ matchReceiver[matchSender[r]] = r
    BY <1>0 DEF TypeOK, MatchAgreed, Claims
  <2>2. ~(matchSender[r] = Src[m.flow] /\ Delivered(m))
    BY <1>0, <1>4, <2>1 DEF OneSettlement, Claims
  <2> QED
    BY <1>3, <2>1, <2>2
<1>7. ClaimIsSettled'
  <2> SUFFICES ASSUME NEW h \in Senders, NEW r \in Receivers,
                      matchReceiver'[h] = r, matchSender[r] # h
               PROVE  \E g \in Flows :
                        /\ Src[g] = h /\ Dst[g] = r
                        /\ \/ st[g] = "finished" \/ g \in lost
                           \/ \E n \in msgs' : n.flow = g /\ Settles(n)
    BY <1>2 DEF ClaimIsSettled, Claims
  <2>1. r # NoHost
    BY Ends DEF Receivers
  <2>2. matchReceiver[h] = r /\ ~(h = Src[m.flow] /\ Delivered(m))
    BY <1>3, <2>1
  <2>3. PICK g \in Flows :
          /\ Src[g] = h /\ Dst[g] = r
          /\ \/ st[g] = "finished" \/ g \in lost
             \/ \E n \in msgs : n.flow = g /\ Settles(n)
    BY <1>0, <2>2 DEF ClaimIsSettled, Claims
  <2> QED
    BY <1>2, <1>5, <2>2, <2>3
<1>8. OneSettlement'
  <2> SUFFICES ASSUME NEW n \in msgs', Settles(n)
               PROVE  /\ matchReceiver'[Src[n.flow]] = Dst[n.flow]
                      /\ matchSender[Dst[n.flow]] # Src[n.flow]
                      /\ \A o \in msgs' : Settles(o) /\ Src[o.flow] = Src[n.flow] => o = n
    BY <1>2 DEF OneSettlement, Claims
  <2>1. n \in msgs /\ n # m /\ Src[n.flow] \in Senders
    BY <1>0, <1>2, MsgFields DEF TypeOK
  <2>2. ~(Src[n.flow] = Src[m.flow] /\ Delivered(m))
    BY <1>0, <1>4, <2>1 DEF OneSettlement
  <2> QED
    BY <1>0, <1>2, <1>3, <2>1, <2>2 DEF OneSettlement, Claims
<1> QED
  BY <1>6, <1>7, <1>8 DEF Matching

(* A packet that settles a claim is lost only with a record of it. *)
LEMMA DropStep ==
  ASSUME IInv, NEW m \in msgs, Drop(m)
  PROVE  Matching'
<1>0. TypeOK /\ MatchAgreed /\ ClaimIsSettled /\ OneSettlement
  BY DEF IInv
<1>1. /\ msgs' = msgs \ {m} /\ st' = st
      /\ matchSender' = matchSender /\ matchReceiver' = matchReceiver
      /\ lost' = IF Settles(m) THEN lost \cup {m.flow} ELSE lost
  BY DEF Drop, matchVars
<1>2. MatchAgreed'
  BY <1>0, <1>1 DEF MatchAgreed, Claims
<1>3. ClaimIsSettled'
  <2> SUFFICES ASSUME NEW h \in Senders, NEW r \in Receivers,
                      matchReceiver[h] = r, matchSender[r] # h
               PROVE  \E g \in Flows :
                        /\ Src[g] = h /\ Dst[g] = r
                        /\ \/ st[g] = "finished" \/ g \in lost'
                           \/ \E n \in msgs' : n.flow = g /\ Settles(n)
    BY <1>1 DEF ClaimIsSettled, Claims
  <2>1. PICK g \in Flows :
          /\ Src[g] = h /\ Dst[g] = r
          /\ \/ st[g] = "finished" \/ g \in lost
             \/ \E n \in msgs : n.flow = g /\ Settles(n)
    BY <1>0 DEF ClaimIsSettled, Claims
  <2> QED
    BY <1>1, <2>1
<1>4. OneSettlement'
  BY <1>0, <1>1 DEF OneSettlement, Claims
<1> QED
  BY <1>2, <1>3, <1>4 DEF Matching

(* A new epoch forgets all matches, and all packets of the last one. *)
LEMMA NewEpochStep ==
  ASSUME IInv, NewEpoch
  PROVE  Matching'
<1>1. /\ \A h \in Senders : matchReceiver'[h] = NoHost
      /\ \A r \in Receivers : matchSender'[r] = NoHost
  BY DEF NewEpoch
<1>2. \A m \in msgs' : ~Settles(m)
  <2>1. \A m \in msgs : [m EXCEPT !.epoch = "past"].epoch = "past"
    BY DEF IInv, TypeOK, Msg
  <2> QED
    BY <2>1 DEF NewEpoch, Settles
<1>3. MatchAgreed'
  BY <1>1 DEF MatchAgreed
<1>4. ClaimIsSettled'
  BY <1>1, Ends DEF ClaimIsSettled, Claims, Receivers
<1>5. OneSettlement'
  BY <1>2 DEF OneSettlement
<1> QED
  BY <1>3, <1>4, <1>5 DEF Matching

-----------------------------------------------------------------------------
(* Every step keeps the inductive invariant. *)
LEMMA NextStep ==
  ASSUME IInv, [Next]_vars
  PROVE  IInv'
<1>1. TypeOK' /\ IterBound' /\ OwnGrants'
  BY TypeStep DEF IInv
<1>2. Matching'
  <2>0. Matching
    BY DEF IInv, Matching
  <2>1. ASSUME NEW f \in Flows, StartFlow(f) \/ FinishFlow(f) PROVE Matching'
    <3>1. \A g \in Flows : st[g] = "finished" => st'[g] = "finished"
      BY <2>1 DEF StartFlow, FinishFlow, IInv, TypeOK
    <3> QED
      BY <2>0, <2>1, <3>1, QuietStep DEF StartFlow, FinishFlow
  <2>2. CASE ReceiverIter
    <3>1. \A m : m \in msgs' /\ Settles(m) <=> m \in msgs /\ Settles(m)
      BY <2>2 DEF ReceiverIter, Settles, Packet
    <3> QED
      BY <2>0, <2>2, <3>1, QuietStep DEF ReceiverIter
  <2>3. ASSUME NEW m \in msgs, ReceiveRts(m) \/ ReceiveGrants(m) PROVE Matching'
    <3>1. \A n : n \in msgs' /\ Settles(n) <=> n \in msgs /\ Settles(n)
      BY <2>3 DEF ReceiveRts, ReceiveGrants, Settles
    <3> QED
      BY <2>0, <2>3, <3>1, QuietStep DEF ReceiveRts, ReceiveGrants
  <2>4. CASE UNCHANGED vars
    BY <2>0, <2>4, QuietStep DEF vars
  <2> QED
    BY <2>1, <2>2, <2>3, <2>4, SenderIterStep, ReceiveAcceptStep, ReceiveGrantsRStep,
       DropStep, NewEpochStep DEF Next
<1> QED
  BY <1>1, <1>2 DEF IInv, Matching

(* IInv holds in every state. *)
THEOREM IInvInvariant == Spec => []IInv
<1>1. Init => IInv
  BY InitInv
<1>2. IInv /\ [Next]_vars => IInv'
  BY NextStep
<1> QED
  BY <1>1, <1>2, PTL DEF Spec

(* A receiver believes only in a sender that believes in it, whatever packets
   are late, reordered or lost (pimhost.cpp:146-173). *)
THEOREM MatchesAgree == Spec => []MatchAgreed
<1>1. IInv => MatchAgreed
  BY DEF IInv
<1> QED
  BY <1>1, IInvInvariant, PTL

(* A sender that counts on a receiver in vain will be told, unless the packet
   that tells was lost or its flow is over. *)
THEOREM ClaimsSettled == Spec => []ClaimIsSettled
<1>1. IInv => ClaimIsSettled
  BY DEF IInv
<1> QED
  BY <1>1, IInvInvariant, PTL

(* The assertion of receive_grantsr (pimhost.cpp:138) does not fail. *)
THEOREM GrantsRAssertion == Spec => []TakenBackWasAccepted
<1>1. IInv => TakenBackWasAccepted
  BY DEF IInv, OneSettlement, TakenBackWasAccepted, Settles, Delivered
<1> QED
  BY <1>1, IInvInvariant, PTL

-----------------------------------------------------------------------------
(* A calm epoch: each iteration makes a match *)

(* What CalmIInv says when nothing disturbed the epoch, and always. *)
CalmParts == PacketsInTime /\ AllAsked /\ OneGrantEach /\ OneClaim /\ MatchPerIteration
Timely == IInv /\ OwnRequests /\ GrantsInTime

LEMMA CalmIInvParts == CalmIInv <=> Timely /\ (calm => CalmParts)
  BY DEF CalmIInv, Timely, CalmParts

LEMMA HostsFinite == IsFiniteSet(Senders) /\ IsFiniteSet(Receivers)
<1> DEFINE S == [f \in Flows |-> Src[f]]
           D == [f \in Flows |-> Dst[f]]
<1>1. S \in Surjection(Flows, Senders) /\ D \in Surjection(Flows, Receivers)
  BY DEF Surjection, Senders, Receivers
<1> HIDE DEF S, D
<1> QED
  BY <1>1, FlowsAssumption, FS_Surjection

(* The receivers that senders count on. *)
LEMMA ReceiversFinite ==
  ASSUME NEW C, C \subseteq Receivers
  PROVE  IsFiniteSet(C) /\ Cardinality(C) \in Nat
  BY HostsFinite, FS_Subset, FS_CardinalityType

LEMMA ClaimedFinite ==
  ASSUME TypeOK
  PROVE  Claimed \subseteq Receivers /\ IsFiniteSet(Claimed) /\ Cardinality(Claimed) \in Nat
<1>1. Claimed \subseteq Receivers
  BY DEF Claimed, TypeOK
<1> QED
  BY <1>1, ReceiversFinite

(* A new match counts. *)
LEMMA OneMore ==
  ASSUME NEW C, NEW D, D \subseteq Receivers, C \subseteq D, NEW r \in D, r \notin C
  PROVE  /\ Cardinality(C) \in Nat /\ Cardinality(D) \in Nat
         /\ Cardinality(C) + 1 <= Cardinality(D)
<1>1. /\ IsFiniteSet(C) /\ Cardinality(C) \in Nat
      /\ IsFiniteSet(D) /\ Cardinality(D) \in Nat
  BY ReceiversFinite
<1>2. Cardinality(C \cup {r}) = Cardinality(C) + 1
  BY <1>1, FS_AddElement
<1>3. Cardinality(C \cup {r}) <= Cardinality(D)
  BY <1>1, FS_Subset
<1> QED
  BY <1>1, <1>2, <1>3

-----------------------------------------------------------------------------
(* Requests and grants are in order in every epoch. *)

LEMMA TimelyStep ==
  ASSUME Timely, [Next]_vars
  PROVE  Timely'
<1>0. TypeOK /\ OwnRequests /\ GrantsInTime /\ iter \in Nat /\ IterLimit \in Nat
  BY LimitAssumption DEF Timely, IInv, TypeOK
<1>1. IInv' /\ TypeOK'
  BY NextStep DEF Timely, IInv
<1> SUFFICES OwnRequests' /\ GrantsInTime'
  BY <1>1 DEF Timely
<1>2. ASSUME NEW f \in Flows, StartFlow(f) \/ FinishFlow(f)
      PROVE  OwnRequests' /\ GrantsInTime'
  BY <1>0, <1>2 DEF StartFlow, FinishFlow, timeVars, queueVars, OwnRequests, GrantsInTime
<1>3. CASE SenderIter
  <2>1. /\ turn = "sender" /\ iter' = iter + 1
        /\ turn' = IF IterOver(iter') THEN "over" ELSE "receiver"
        /\ rtsQ' = [h \in Receivers |-> {}] /\ grantsQ' = [h \in Senders |-> {}]
    BY <1>3 DEF SenderIter
  <2>2. \A m \in msgs' : m.type = "GRANTS" => m \in msgs
    BY <1>3 DEF SenderIter, Packet
  <2>3. OwnRequests'
    BY <2>1 DEF OwnRequests
  <2>4. \A m \in msgs : m.iter \in Nat
    <3>1. \A m \in msgs : m.iter \in 0..IterLimit + 1
      BY <1>0, MsgFields DEF TypeOK
    <3> QED
      BY <1>0, <3>1
  <2>5. iter <= IterLimit
    BY <2>1 DEF Timely, IInv, IterBound
  <2>6. \A m \in msgs' : m.type = "GRANTS" /\ m.epoch = "this" =>
          0 < m.iter /\ m.iter <= iter' /\ m.iter # iter'
    BY <1>0, <2>1, <2>2, <2>4 DEF GrantsInTime
  <2>7. turn' = "over" => iter' = IterLimit + 1
    BY <1>0, <2>1, <2>5 DEF IterOver
  <2>8. iter' > 0 /\ turn' # "sender" /\ \A h \in Senders : grantsQ'[h] = {}
    BY <1>0, <2>1
  <2>9. GrantsInTime'
    BY <2>6, <2>7, <2>8 DEF GrantsInTime
  <2> QED
    BY <2>3, <2>9
<1>4. CASE ReceiverIter
  <2>1. /\ turn = "receiver" /\ turn' = "sender" /\ iter' = iter
        /\ rtsQ' = rtsQ /\ grantsQ' = grantsQ
    BY <1>4 DEF ReceiverIter, queueVars
  <2>2. \A m \in msgs' : m \in msgs \/ m.iter = iter
    BY <1>4 DEF ReceiverIter, Packet
  <2> QED
    BY <1>0, <2>1, <2>2 DEF OwnRequests, GrantsInTime
<1>5. CASE NewEpoch
  <2>1. /\ turn = "over" /\ turn' = "sender" /\ iter' = 0
        /\ rtsQ' = rtsQ /\ grantsQ' = grantsQ
    BY <1>5 DEF NewEpoch, queueVars
  <2>2. \A m \in msgs' : m.epoch = "past"
    <3>1. \A m \in msgs : [m EXCEPT !.epoch = "past"].epoch = "past"
      BY <1>0 DEF TypeOK, Msg
    <3> QED
      BY <1>5, <3>1 DEF NewEpoch
  <2> QED
    BY <1>0, <2>1, <2>2 DEF OwnRequests, GrantsInTime
<1>6. ASSUME NEW m \in msgs, ReceiveRts(m)
      PROVE  OwnRequests' /\ GrantsInTime'
  BY <1>0, <1>6 DEF ReceiveRts, timeVars, OwnRequests, GrantsInTime, TypeOK
<1>7. ASSUME NEW m \in msgs, ReceiveGrants(m)
      PROVE  OwnRequests' /\ GrantsInTime'
  <2>1. Delivered(m) /\ m.iter = iter => turn = "sender" /\ iter > 0
    BY <1>0, <1>7 DEF ReceiveGrants, Delivered, GrantsInTime
  <2>2. turn # "sender" \/ iter = 0 => grantsQ' = grantsQ
    BY <1>0, <1>7, <2>1 DEF ReceiveGrants, TypeOK
  <2> QED
    BY <1>0, <1>7, <2>2 DEF ReceiveGrants, timeVars, OwnRequests, GrantsInTime
<1>8. ASSUME NEW m \in msgs, ReceiveAccept(m) \/ ReceiveGrantsR(m) \/ Drop(m)
      PROVE  OwnRequests' /\ GrantsInTime'
  <2>1. \A n \in msgs' : n.type = "GRANTS" => n \in msgs
    BY <1>8 DEF ReceiveAccept, ReceiveGrantsR, Drop, TakeBack, Packet
  <2> QED
    BY <1>0, <1>8, <2>1 DEF ReceiveAccept, ReceiveGrantsR, Drop, timeVars, queueVars,
       OwnRequests, GrantsInTime
<1>9. CASE UNCHANGED vars
  BY <1>0, <1>9 DEF vars, timeVars, queueVars, OwnRequests, GrantsInTime
<1> QED
  BY <1>2, <1>3, <1>4, <1>5, <1>6, <1>7, <1>8, <1>9 DEF Next

-----------------------------------------------------------------------------
(* The steps of a calm epoch *)

LEMMA CalmStartFlow ==
  ASSUME Timely, calm, CalmParts, NEW f \in Flows, StartFlow(f), calm'
  PROVE  CalmParts'
<1>1. /\ st' = [st EXCEPT ![f] = "active"] /\ st[f] = "idle" /\ iter = 0
      /\ iter' = iter /\ turn' = turn /\ matchReceiver' = matchReceiver
      /\ matchSender' = matchSender /\ grantsQ' = grantsQ /\ msgs' = msgs
  BY DEF StartFlow, timeVars, matchVars, queueVars
<1>2. turn = "sender"
  BY <1>1, LimitAssumption DEF Timely, IInv, TypeOK, GrantsInTime
<1>3. PacketsInTime'
  BY <1>1 DEF CalmParts, PacketsInTime, Timely, IInv, TypeOK
<1>4. Granted' = {}
  <2>1. \A g \in Flows : Packet("GRANTS", g, 0) \notin msgs
    <3> SUFFICES ASSUME NEW g \in Flows, Packet("GRANTS", g, 0) \in msgs
                 PROVE  FALSE
      OBVIOUS
    <3>1. /\ Packet("GRANTS", g, 0).type = "GRANTS" /\ Packet("GRANTS", g, 0).epoch = "this"
          /\ Packet("GRANTS", g, 0).iter = 0
      BY DEF Packet
    <3> HIDE DEF Packet
    <3> QED
      BY <3>1 DEF Timely, GrantsInTime
  <2> QED
    BY <1>1, <2>1, Ends DEF Granted, Timely, GrantsInTime
<1>5. AllAsked' /\ OneGrantEach'
  BY <1>1, <1>2, <1>4 DEF AllAsked, OneGrantEach
<1>6. OneClaim'
  BY <1>1 DEF CalmParts, OneClaim, Claims
<1>7. MatchPerIteration'
  <2>1. Claimed' = Claimed /\ Cardinality(Claimed) \in Nat
    BY <1>1, ClaimedFinite DEF Claimed, Timely, IInv
  <2> QED
    BY <1>1, <2>1 DEF MatchPerIteration
<1> QED
  BY <1>3, <1>5, <1>6, <1>7 DEF CalmParts

LEMMA CalmNewEpoch ==
  ASSUME Timely, NewEpoch, calm'
  PROVE  CalmParts'
<1>1. /\ msgs' = {} /\ iter' = 0 /\ turn' = "sender" /\ turn = "over"
      /\ matchReceiver' = [h \in Senders |-> NoHost] /\ grantsQ' = grantsQ
  BY DEF NewEpoch, Late, queueVars
<1>2. Granted' = {}
  BY <1>1, Ends DEF Granted, Timely, GrantsInTime
<1>3. \A h \in Senders, r \in Receivers : ~Claims(h, r)'
  BY <1>1, Ends DEF Claims, Receivers
<1>4. PacketsInTime' /\ AllAsked' /\ OneGrantEach'
  BY <1>1, <1>2 DEF PacketsInTime, AllAsked, OneGrantEach
<1>5. OneClaim'
  BY <1>1, <1>3 DEF OneClaim
<1>6. MatchPerIteration'
  <2>1. Claimed' = {}
    BY <1>1 DEF Claimed
  <2> QED
    BY <1>1, <2>1, FS_EmptySet DEF MatchPerIteration
<1> QED
  BY <1>4, <1>5, <1>6 DEF CalmParts

(* What the iteration event of the senders does in a calm epoch: the flows of
   the grants kept, all there are, are accepted, one by each sender. *)
LEMMA CalmSenderIter ==
  ASSUME Timely, calm, CalmParts, SenderIter, calm'
  PROVE  CalmParts'
<1>1. PICK accept \in [Senders -> Flows \cup {NoFlow}] :
        /\ \A h \in Senders : accept[h] \in AcceptChoices(h)
        /\ matchReceiver' = [h \in Senders |->
             IF accept[h] = NoFlow THEN matchReceiver[h] ELSE Dst[accept[h]]]
        /\ \E fs \in RtsChoices(matchReceiver') :
             msgs' = msgs
               \cup {Packet("ACCEPT", accept[h], iter) :
                       h \in {s \in Senders : accept[s] # NoFlow}}
               \cup IF IterOver(iter') THEN {} ELSE {Packet("RTS", f, iter') : f \in fs}
  BY DEF SenderIter
<1>2. PICK fs \in RtsChoices(matchReceiver') :
        msgs' = msgs
          \cup {Packet("ACCEPT", accept[h], iter) :
                  h \in {s \in Senders : accept[s] # NoFlow}}
          \cup IF IterOver(iter') THEN {} ELSE {Packet("RTS", f, iter') : f \in fs}
  BY <1>1
<1>3. /\ turn = "sender" /\ iter' = iter + 1 /\ msgs = {}
      /\ turn' = IF IterOver(iter') THEN "over" ELSE "receiver"
      /\ rtsQ' = [h \in Receivers |-> {}]
      /\ st' = st /\ matchSender' = matchSender
  BY DEF SenderIter, Late
<1>4. TypeOK /\ TypeOK' /\ OwnGrants /\ iter \in Nat
  BY TypeStep, LimitAssumption DEF Timely, IInv, Next, TypeOK
<1>5. OneGrantEach /\ OneClaim /\ MatchPerIteration
  BY DEF CalmParts
<1>6. \A f \in Granted : Unserved(f) /\ \A g \in Granted : Dst[f] = Dst[g] => f = g
  BY <1>3, <1>5 DEF OneGrantEach
(* A sender that accepts, accepts a flow of its own that was unserved; one
   with a grant and no receiver accepts. *)
<1>7. ASSUME NEW h \in Senders, accept[h] # NoFlow
      PROVE  /\ accept[h] \in Flows /\ accept[h] \in Granted /\ Src[accept[h]] = h
             /\ matchReceiver[h] = NoHost /\ matchReceiver'[h] = Dst[accept[h]]
             /\ st[accept[h]] = "active" /\ Dst[accept[h]] \notin Claimed
  <2>1. accept[h] \in grantsQ[h] /\ accept[h] \in Flows
    BY <1>1, <1>7 DEF AcceptChoices
  <2>2. Src[accept[h]] = h
    BY <1>4, <2>1 DEF OwnGrants
  <2>3. accept[h] \in Granted
    BY <2>1, <2>2 DEF Granted
  <2> QED
    BY <1>1, <1>6, <1>7, <2>1, <2>2, <2>3 DEF Unserved, Unmatched
<1>8. \A h \in Senders : accept[h] = NoFlow => matchReceiver'[h] = matchReceiver[h]
  BY <1>1
<1>9. \A h \in Senders : matchReceiver[h] # NoHost =>
        accept[h] = NoFlow /\ matchReceiver'[h] = matchReceiver[h]
  BY <1>7, <1>8
<1>10. Claimed \subseteq Claimed' /\ Claimed' \subseteq Receivers
  <2>1. \A h \in Senders : matchReceiver[h] # NoHost => matchReceiver[h] \in Claimed'
    BY <1>9 DEF Claimed
  <2> QED
    BY <1>4, <2>1 DEF Claimed, TypeOK
<1>11. \A f \in Flows : Unserved(f)' => Unserved(f)
  BY <1>3, <1>9, <1>10, Ends DEF Unserved, Unmatched
<1>12. PacketsInTime'
  <2>1. fs \subseteq {f \in Flows : st[f] = "active"}
    BY <1>3 DEF RtsChoices
  <2>2. ASSUME NEW h \in Senders, accept[h] # NoFlow
        PROVE  LET m == Packet("ACCEPT", accept[h], iter)
               IN  m.epoch = "this" /\ st[m.flow] = "active" /\ m.type = "ACCEPT"
    BY <1>7, <2>2 DEF Packet
  <2>3. \A f \in fs : LET m == Packet("RTS", f, iter')
                      IN  /\ m.epoch = "this" /\ st[m.flow] = "active"
                          /\ m.type = "RTS" /\ m.iter = iter'
    BY <2>1 DEF Packet
  <2>4. ASSUME NEW m \in msgs'
        PROVE  /\ m.epoch = "this" /\ st[m.flow] = "active"
               /\ \/ m.type = "ACCEPT"
                  \/ ~IterOver(iter') /\ m.type = "RTS" /\ m.iter = iter'
    BY <1>2, <1>3, <2>2, <2>3
  <2> QED
    BY <1>3, <2>4 DEF PacketsInTime
<1>13. AllAsked'
  <2> SUFFICES ASSUME turn' = "receiver"
               PROVE  /\ \A f \in Requested' : st[f] = "active" /\ Unmatched(Src[f], matchReceiver')
                      /\ \A f \in Flows : Unserved(f)' => \E g \in Requested' : Dst[g] = Dst[f]
    BY <1>3 DEF AllAsked
  <2> DEFINE asking == {f \in Flows : st[f] = "active" /\ Unmatched(Src[f], matchReceiver')}
  <2>1. /\ fs \subseteq asking
        /\ \A f \in asking : Cardinality({g \in fs : Src[g] = Src[f] /\ Dst[g] = Dst[f]}) = 1
    BY <1>3 DEF RtsChoices
  <2>2. \A f \in fs : f \in Requested'
    <3>1. ~IterOver(iter')
      BY <1>3
    <3> QED
      BY <1>2, <2>1, <3>1 DEF Requested
  <2>3. Requested' \subseteq fs
    <3> SUFFICES ASSUME NEW f \in Flows, Packet("RTS", f, iter') \in msgs'
                 PROVE  f \in fs
      BY <1>3, Ends DEF Requested
    <3>1. \A h : Packet("ACCEPT", accept[h], iter) # Packet("RTS", f, iter')
      BY DEF Packet
    <3>2. Packet("RTS", f, iter') \in {Packet("RTS", g, iter') : g \in fs}
      BY <1>2, <1>3, <3>1
    <3> QED
      BY <3>2 DEF Packet
  <2>4. ASSUME NEW f \in Flows, Unserved(f)'
        PROVE  \E g \in fs : Dst[g] = Dst[f]
    <3>1. f \in asking
      BY <1>3, <2>4 DEF Unserved
    <3>2. {g \in fs : Src[g] = Src[f] /\ Dst[g] = Dst[f]} # {}
      BY <2>1, <3>1, FS_EmptySet
    <3> QED
      BY <3>2
  <2> QED
    BY <2>1, <2>2, <2>3, <2>4
<1>14. OneGrantEach'
  BY <1>3 DEF OneGrantEach
<1>15. OneClaim'
  <2>1. ASSUME NEW g \in Senders, NEW h \in Senders,
               matchReceiver'[g] = matchReceiver'[h], matchReceiver'[g] # NoHost
        PROVE  g = h
    <3>1. \A k \in Senders : matchReceiver[k] # NoHost => matchReceiver[k] \in Claimed
      BY DEF Claimed
    <3>2. CASE accept[g] = NoFlow /\ accept[h] = NoFlow
      BY <1>5, <1>8, <2>1, <3>2 DEF OneClaim
    <3>3. CASE accept[g] # NoFlow /\ accept[h] # NoFlow
      BY <1>6, <1>7, <2>1, <3>3
    <3>4. CASE accept[g] # NoFlow /\ accept[h] = NoFlow
      BY <1>7, <1>8, <2>1, <3>1, <3>4
    <3>5. CASE accept[g] = NoFlow /\ accept[h] # NoFlow
      BY <1>7, <1>8, <2>1, <3>1, <3>5
    <3> QED
      BY <3>2, <3>3, <3>4, <3>5
  <2>2. ASSUME NEW h \in Senders, NEW r \in Receivers,
               matchReceiver'[h] = r, matchSender[r] # h
        PROVE  \E m \in msgs' : m.type = "ACCEPT" /\ Src[m.flow] = h /\ Dst[m.flow] = r
    <3>1. CASE accept[h] = NoFlow
      BY <1>3, <1>5, <1>8, <2>2, <3>1 DEF OneClaim, Claims
    <3>2. CASE accept[h] # NoFlow
      <4> DEFINE m == Packet("ACCEPT", accept[h], iter)
      <4>1. m \in msgs'
        BY <1>2, <3>2
      <4>2. m.type = "ACCEPT" /\ m.flow = accept[h]
        BY DEF Packet
      <4> QED
        BY <1>7, <2>2, <3>2, <4>1, <4>2
    <3> QED
      BY <3>1, <3>2
  <2> QED
    BY <1>3, <2>1, <2>2 DEF OneClaim, Claims
<1>16. MatchPerIteration'
  <2> SUFFICES ASSUME NEW f \in Flows, Unserved(f)'
               PROVE  iter' <= Cardinality(Claimed') + 1
    BY DEF MatchPerIteration
  <2>1. Cardinality(Claimed') \in Nat /\ Cardinality(Claimed) \in Nat
    BY <1>10, ReceiversFinite
  <2>2. iter <= Cardinality(Claimed) + 1 /\ Unserved(f)
    BY <1>5, <1>11 DEF MatchPerIteration
  <2>3. CASE iter = 0
    BY <1>3, <2>1, <2>3
  <2>4. CASE iter > 0
    <3>1. PICK g \in Granted : Unserved(g)
      BY <1>3, <1>5, <1>6, <2>2, <2>4 DEF OneGrantEach
    <3>2. g \in Flows /\ g \in grantsQ[Src[g]] /\ Src[g] \in Senders
      BY <1>3, <3>1, Ends DEF Granted
    <3>3. accept[Src[g]] # NoFlow
      BY <1>1, <1>4, <3>1, <3>2, NullAssumption DEF AcceptChoices, Unserved, TypeOK
    <3> DEFINE r == Dst[accept[Src[g]]]
    <3>4. r \in Claimed' /\ r \notin Claimed
      BY <1>7, <3>2, <3>3, Ends DEF Claimed
    <3>5. Cardinality(Claimed) + 1 <= Cardinality(Claimed')
      BY <1>10, <3>4, OneMore
    <3> QED
      BY <1>3, <1>4, <2>1, <2>2, <3>5
  <2> QED
    BY <1>4, <2>3, <2>4
<1> QED
  BY <1>12, <1>13, <1>14, <1>15, <1>16 DEF CalmParts

(* What that of the receivers does: each that nobody claims, and that was
   asked, grants one of its requests. *)
LEMMA CalmReceiverIter ==
  ASSUME Timely, calm, CalmParts, ReceiverIter, calm'
  PROVE  CalmParts'
<1>1. PICK grant \in [Receivers -> Flows \cup {NoFlow}] :
        /\ \A h \in Receivers : grant[h] \in GrantChoices(h)
        /\ msgs' = msgs \cup {Packet("GRANTS", grant[h], iter) :
                                h \in {r \in Receivers : grant[r] # NoFlow}}
  BY DEF ReceiverIter
<1>2. /\ turn = "receiver" /\ turn' = "sender" /\ iter' = iter /\ msgs = {}
      /\ grantsQ' = grantsQ /\ st' = st
      /\ matchReceiver' = matchReceiver /\ matchSender' = matchSender
  BY DEF ReceiverIter, Late, queueVars, matchVars
<1>3. TypeOK /\ OwnRequests /\ GrantsInTime /\ MatchAgreed
  BY DEF Timely, IInv
<1>4. AllAsked /\ OneClaim /\ MatchPerIteration
  BY DEF CalmParts
<1>5. \A h \in Senders, r \in Receivers : Claims(h, r) => matchSender[r] = h
  BY <1>2, <1>4 DEF OneClaim
<1>6. NoHost \notin Senders
  BY HostsAssumption DEF Senders
(* Who is granted was unserved. *)
<1>7. ASSUME NEW r \in Receivers, grant[r] # NoFlow
      PROVE  grant[r] \in Flows /\ Dst[grant[r]] = r /\ Unserved(grant[r])
  <2>1. matchSender[r] = NoHost /\ grant[r] \in rtsQ[r] /\ grant[r] \in Flows
    BY <1>1, <1>7 DEF GrantChoices
  <2>2. Dst[grant[r]] = r
    BY <1>3, <2>1 DEF OwnRequests
  <2>3. grant[r] \in Requested
    BY <2>1, <2>2 DEF Requested
  <2>4. r \notin Claimed
    BY <1>5, <1>6, <2>1 DEF Claimed, Claims
  <2> QED
    BY <1>2, <1>4, <2>1, <2>2, <2>3, <2>4 DEF AllAsked, Unserved
<1>8. \A f \in Flows : Unserved(f)' <=> Unserved(f)
  BY <1>2 DEF Unserved, Claimed
<1>9. ASSUME NEW f \in Granted'
      PROVE  \E r \in Receivers : grant[r] # NoFlow /\ f = grant[r]
  <2>1. f \in Flows /\ Packet("GRANTS", f, iter) \in msgs'
    BY <1>2, <1>3, <1>9, Ends DEF Granted, GrantsInTime
  <2>2. PICK r \in Receivers : /\ grant[r] # NoFlow
                               /\ Packet("GRANTS", f, iter) = Packet("GRANTS", grant[r], iter)
    BY <1>1, <1>2, <2>1
  <2>3. Packet("GRANTS", f, iter).flow = f /\ Packet("GRANTS", grant[r], iter).flow = grant[r]
    BY DEF Packet
  <2> QED
    BY <2>2, <2>3
<1>10. PacketsInTime'
  <2>1. ASSUME NEW r \in Receivers, grant[r] # NoFlow
        PROVE  LET m == Packet("GRANTS", grant[r], iter)
               IN  /\ m.epoch = "this" /\ st[m.flow] = "active"
                   /\ m.type = "GRANTS" /\ m.iter = iter
    BY <1>7, <2>1 DEF Packet, Unserved
  <2>2. \A m \in msgs' : /\ m.epoch = "this" /\ st[m.flow] = "active"
                         /\ m.type = "GRANTS" /\ m.iter = iter
    BY <1>1, <1>2, <2>1
  <2> QED
    BY <1>2, <2>2 DEF PacketsInTime
<1>11. AllAsked'
  BY <1>2 DEF AllAsked
<1>12. OneGrantEach'
  <2>1. \A f \in Granted' : Unserved(f)'
    BY <1>7, <1>8, <1>9
  <2>2. \A f, g \in Granted' : Dst[f] = Dst[g] => f = g
    BY <1>7, <1>9
  <2>3. ASSUME NEW f \in Flows, Unserved(f)
        PROVE  Granted' # {}
    <3>1. PICK g \in Requested : Dst[g] = Dst[f]
      BY <1>2, <1>4, <2>3 DEF AllAsked
    <3> DEFINE r == Dst[f]
    <3>2. r \in Receivers /\ g \in rtsQ[r]
      BY <1>2, <3>1, Ends DEF Requested
    <3>3. matchSender[r] = NoHost
      <4> SUFFICES ASSUME matchSender[r] # NoHost PROVE FALSE
        OBVIOUS
      <4>1. matchSender[r] \in Senders /\ matchReceiver[matchSender[r]] = r
        BY <1>3, <3>2 DEF TypeOK, MatchAgreed, Claims
      <4>2. r # NoHost
        BY Ends
      <4> QED
        BY <2>3, <4>1, <4>2 DEF Unserved, Claimed
    <3>4. grant[r] \in rtsQ[r] /\ grant[r] # NoFlow
      BY <1>1, <1>3, <3>2, <3>3, NullAssumption DEF GrantChoices, TypeOK
    <3>5. grant[r] \in Flows /\ Packet("GRANTS", grant[r], iter) \in msgs'
      BY <1>1, <3>2, <3>4, NullAssumption
    <3> QED
      BY <1>2, <3>5 DEF Granted
  <2> QED
    BY <1>8, <2>1, <2>2, <2>3 DEF OneGrantEach
<1>13. OneClaim'
  BY <1>2, <1>4, <1>5 DEF OneClaim, Claims
<1>14. MatchPerIteration'
  <2>1. Claimed' = Claimed
    BY <1>2 DEF Claimed
  <2> QED
    BY <1>2, <1>4, <1>8, <2>1 DEF MatchPerIteration
<1> QED
  BY <1>10, <1>11, <1>12, <1>13, <1>14 DEF CalmParts

(* A packet of a calm epoch arrives. *)
LEMMA CalmReceiveRts ==
  ASSUME Timely, calm, CalmParts, NEW m \in msgs, ReceiveRts(m)
  PROVE  CalmParts'
<1>1. /\ m \in Msg /\ m.epoch = "this" /\ st[m.flow] = "active" /\ m.type = "RTS"
      /\ turn = "receiver" /\ m.iter = iter /\ m.flow \in Flows /\ Dst[m.flow] \in Receivers
  BY MsgFields DEF ReceiveRts, CalmParts, PacketsInTime, Timely, IInv, TypeOK
<1>2. m = Packet("RTS", m.flow, iter)
  BY <1>1 DEF Msg, Packet
<1>3. /\ msgs' = msgs \ {m} /\ st' = st /\ iter' = iter /\ turn' = turn
      /\ rtsQ' = [rtsQ EXCEPT ![Dst[m.flow]] = @ \cup {m.flow}]
      /\ matchReceiver' = matchReceiver /\ matchSender' = matchSender
  BY <1>1 DEF ReceiveRts, Delivered, timeVars, matchVars
<1>4. Requested' = Requested
  <2>1. \A f \in Flows : Packet("RTS", f, iter) = m <=> f = m.flow
    BY <1>2 DEF Packet
  <2>2. \A f \in Flows : f \in rtsQ'[Dst[f]] <=> f \in rtsQ[Dst[f]] \/ f = m.flow
    BY <1>1, <1>3, Ends DEF Timely, IInv, TypeOK
  <2> QED
    BY <1>3, <2>1, <2>2 DEF Requested
<1>5. Claimed' = Claimed /\ \A f \in Flows : Unserved(f)' <=> Unserved(f)
  BY <1>3 DEF Claimed, Unserved
<1>6. PacketsInTime' /\ OneGrantEach'
  BY <1>1, <1>3 DEF CalmParts, PacketsInTime, OneGrantEach
<1>7. AllAsked'
  BY <1>3, <1>4, <1>5 DEF CalmParts, AllAsked
<1>8. OneClaim'
  BY <1>1, <1>3 DEF CalmParts, OneClaim, Claims
<1>9. MatchPerIteration'
  BY <1>3, <1>5 DEF CalmParts, MatchPerIteration
<1> QED
  BY <1>6, <1>7, <1>8, <1>9 DEF CalmParts

LEMMA CalmReceiveGrants ==
  ASSUME Timely, calm, CalmParts, NEW m \in msgs, ReceiveGrants(m)
  PROVE  CalmParts'
<1>1. /\ m \in Msg /\ m.epoch = "this" /\ st[m.flow] = "active" /\ m.type = "GRANTS"
      /\ turn = "sender" /\ m.iter = iter /\ m.flow \in Flows /\ Src[m.flow] \in Senders
  BY MsgFields DEF ReceiveGrants, CalmParts, PacketsInTime, Timely, IInv, TypeOK
<1>2. m = Packet("GRANTS", m.flow, iter)
  BY <1>1 DEF Msg, Packet
<1>3. /\ msgs' = msgs \ {m} /\ st' = st /\ iter' = iter /\ turn' = turn
      /\ grantsQ' = [grantsQ EXCEPT ![Src[m.flow]] = @ \cup {m.flow}]
      /\ matchReceiver' = matchReceiver /\ matchSender' = matchSender
  BY <1>1 DEF ReceiveGrants, Delivered, timeVars, matchVars
<1>4. Granted' = Granted
  <2>1. \A f \in Flows : Packet("GRANTS", f, iter) = m <=> f = m.flow
    BY <1>2 DEF Packet
  <2>2. \A f \in Flows : f \in grantsQ'[Src[f]] <=> f \in grantsQ[Src[f]] \/ f = m.flow
    BY <1>1, <1>3, Ends DEF Timely, IInv, TypeOK
  <2> QED
    BY <1>3, <2>1, <2>2 DEF Granted
<1>5. Claimed' = Claimed /\ \A f \in Flows : Unserved(f)' <=> Unserved(f)
  BY <1>3 DEF Claimed, Unserved
<1>6. PacketsInTime' /\ AllAsked'
  BY <1>1, <1>3 DEF CalmParts, PacketsInTime, AllAsked
<1>7. OneGrantEach'
  <2>1. Granted \subseteq Flows
    BY DEF Granted
  <2> QED
    BY <1>3, <1>4, <1>5, <2>1 DEF CalmParts, OneGrantEach
<1>8. OneClaim'
  BY <1>1, <1>3 DEF CalmParts, OneClaim, Claims
<1>9. MatchPerIteration'
  BY <1>3, <1>5 DEF CalmParts, MatchPerIteration
<1> QED
  BY <1>6, <1>7, <1>8, <1>9 DEF CalmParts

(* The receiver is free, for only the sender of this accept counts on it. *)
LEMMA CalmReceiveAccept ==
  ASSUME Timely, calm, CalmParts, NEW m \in msgs, ReceiveAccept(m)
  PROVE  CalmParts'
<1>0. TypeOK /\ MatchAgreed /\ OneSettlement /\ OneClaim /\ PacketsInTime
  BY DEF Timely, IInv, CalmParts
<1>1. /\ m \in Msg /\ m.epoch = "this" /\ st[m.flow] = "active" /\ m.type = "ACCEPT"
      /\ turn # "sender" /\ m.flow \in Flows
      /\ Dst[m.flow] \in Receivers /\ Src[m.flow] \in Senders /\ Dst[m.flow] # NoHost
  BY <1>0, MsgFields, Ends DEF ReceiveAccept, PacketsInTime, TypeOK
<1>2. matchSender[Dst[m.flow]] = NoHost
  <2> SUFFICES ASSUME matchSender[Dst[m.flow]] # NoHost PROVE FALSE
    OBVIOUS
  <2>1. /\ matchReceiver[Src[m.flow]] = Dst[m.flow]
        /\ matchSender[Dst[m.flow]] # Src[m.flow]
    BY <1>0, <1>1 DEF OneSettlement, Settles, Claims
  <2>2. /\ matchSender[Dst[m.flow]] \in Senders
        /\ matchReceiver[matchSender[Dst[m.flow]]] = Dst[m.flow]
    BY <1>0, <1>1 DEF TypeOK, MatchAgreed, Claims
  <2> QED
    BY <1>0, <1>1, <2>1, <2>2 DEF OneClaim
<1>3. /\ msgs' = msgs \ {m} /\ st' = st /\ iter' = iter /\ turn' = turn
      /\ rtsQ' = rtsQ /\ grantsQ' = grantsQ /\ matchReceiver' = matchReceiver
      /\ matchSender' = [matchSender EXCEPT ![Dst[m.flow]] = Src[m.flow]]
  BY <1>1, <1>2 DEF ReceiveAccept, Delivered, timeVars, queueVars
<1>4. Requested' = Requested
  <2>1. \A f \in Flows : Packet("RTS", f, iter) # m
    BY <1>1 DEF Packet
  <2> QED
    BY <1>3, <2>1 DEF Requested
<1>5. Claimed' = Claimed /\ \A f \in Flows : Unserved(f)' <=> Unserved(f)
  BY <1>3 DEF Claimed, Unserved
<1>6. PacketsInTime' /\ OneGrantEach'
  BY <1>0, <1>1, <1>3 DEF PacketsInTime, OneGrantEach
<1>7. AllAsked'
  BY <1>3, <1>4, <1>5 DEF CalmParts, AllAsked
<1>8. OneClaim'
  <2> SUFFICES ASSUME NEW h \in Senders, NEW r \in Receivers,
                      Claims(h, r), matchSender'[r] # h
               PROVE  \E n \in msgs' : n.type = "ACCEPT" /\ Src[n.flow] = h /\ Dst[n.flow] = r
    BY <1>0, <1>3 DEF OneClaim, Claims
  <2>1. ~(h = Src[m.flow] /\ r = Dst[m.flow]) /\ matchSender[r] # h
    BY <1>0, <1>1, <1>2, <1>3, HostsAssumption DEF TypeOK, Senders
  <2>2. PICK n \in msgs : n.type = "ACCEPT" /\ Src[n.flow] = h /\ Dst[n.flow] = r
    BY <1>0, <2>1 DEF OneClaim
  <2> QED
    BY <1>3, <2>1, <2>2
<1>9. MatchPerIteration'
  BY <1>3, <1>5 DEF CalmParts, MatchPerIteration
<1> QED
  BY <1>6, <1>7, <1>8, <1>9 DEF CalmParts

(* Every step keeps what holds in a calm epoch, while the epoch stays calm. *)
LEMMA CalmStep ==
  ASSUME Timely, calm => CalmParts, [Next]_vars, calm'
  PROVE  CalmParts'
<1>1. CASE NewEpoch
  BY <1>1, CalmNewEpoch
<1>2. ASSUME NEW f \in Flows, StartFlow(f) \/ FinishFlow(f)
      PROVE  CalmParts'
  BY <1>2, CalmStartFlow DEF StartFlow, FinishFlow
<1>3. CASE SenderIter \/ ReceiverIter
  <2>1. calm
    BY <1>3 DEF SenderIter, ReceiverIter
  <2> QED
    BY <1>3, <2>1, CalmSenderIter, CalmReceiverIter
<1>4. ASSUME NEW m \in msgs, ReceiveRts(m) \/ ReceiveGrants(m) \/ ReceiveAccept(m)
      PROVE  CalmParts'
  <2>1. calm
    BY <1>4 DEF ReceiveRts, ReceiveGrants, ReceiveAccept
  <2> QED
    BY <1>4, <2>1, CalmReceiveRts, CalmReceiveGrants, CalmReceiveAccept
<1>5. ASSUME NEW m \in msgs, ReceiveGrantsR(m) \/ Drop(m)
      PROVE  FALSE
  BY <1>5 DEF ReceiveGrantsR, Drop, CalmParts, PacketsInTime
<1>6. CASE UNCHANGED vars
  <2>1. CalmParts
    BY <1>6 DEF vars
  <2> QED
    BY <1>6, <2>1 DEF vars, timeVars, matchVars, queueVars, CalmParts, PacketsInTime,
       AllAsked, OneGrantEach, OneClaim, MatchPerIteration, Requested, Granted, Claimed,
       Unserved, Claims
<1> QED
  BY <1>1, <1>2, <1>3, <1>4, <1>5, <1>6 DEF Next

LEMMA CalmInit ==
  ASSUME Init
  PROVE  Timely /\ CalmParts
<1>1. IInv
  BY InitInv
<1>2. OwnRequests /\ GrantsInTime
  BY DEF Init, OwnRequests, GrantsInTime
<1>3. Granted = {} /\ Claimed = {}
  BY Ends DEF Init, Granted, Claimed
<1>4. PacketsInTime /\ AllAsked /\ OneGrantEach
  BY <1>3 DEF Init, PacketsInTime, AllAsked, OneGrantEach
<1>5. OneClaim
  BY Ends DEF Init, OneClaim, Claims, Receivers
<1>6. MatchPerIteration
  BY <1>3, FS_EmptySet DEF Init, MatchPerIteration
<1> QED
  BY <1>1, <1>2, <1>4, <1>5, <1>6 DEF Timely, CalmParts

(* pimhost.cpp: how requests, grants and accepts follow each other in an epoch
   that nothing disturbs is kept by every step. *)
THEOREM CalmInvariant == Spec => []CalmIInv
<1>1. Init => CalmIInv
  BY CalmInit, CalmIInvParts
<1>2. CalmIInv /\ [Next]_vars => CalmIInv'
  <2> SUFFICES ASSUME Timely, calm => CalmParts, [Next]_vars
               PROVE  Timely' /\ (calm' => CalmParts')
    BY CalmIInvParts, PTL
  <2> QED
    BY TimelyStep, CalmStep
<1> QED
  BY <1>1, <1>2, PTL DEF Spec

(* schedule_sender_iter_evt: with as many iterations as there are receivers,
   or senders, an epoch that nothing disturbs ends with a maximal matching. *)
THEOREM EnoughIterationsMatch ==
  ASSUME IterLimit >= Cardinality(Receivers) \/ IterLimit >= Cardinality(Senders)
  PROVE  Spec => []CalmEpochMatches
<1>1. ASSUME CalmIInv PROVE CalmEpochMatches
  <2> SUFFICES ASSUME calm, turn = "over"
               PROVE  /\ \A r \in Receivers : Cardinality({h \in Senders : Claims(h, r)}) <= 1
                      /\ \A f \in Flows : st[f] = "active" =>
                           \/ matchReceiver[Src[f]] # NoHost
                           \/ \E h \in Senders : Claims(h, Dst[f])
    BY DEF CalmEpochMatches
  <2>1. TypeOK /\ OneClaim /\ MatchPerIteration /\ iter = IterLimit + 1 /\ IterLimit \in Nat
    BY <1>1, LimitAssumption DEF CalmIInv, IInv, GrantsInTime
  <2>2. ASSUME NEW r \in Receivers
        PROVE  Cardinality({h \in Senders : Claims(h, r)}) <= 1
    <3> DEFINE C == {h \in Senders : Claims(h, r)}
    <3>1. r # NoHost
      BY Ends DEF Receivers
    <3>2. CASE C = {}
      BY <3>2, FS_EmptySet
    <3>3. CASE C # {}
      <4>1. PICK h \in C : TRUE
        BY <3>3
      <4>2. C = {h}
        BY <2>1, <3>1, <4>1 DEF OneClaim, Claims
      <4> HIDE DEF C
      <4>3. Cardinality(C) = 1
        BY <4>2, FS_Singleton
      <4> QED
        BY <4>3 DEF C
    <3> QED
      BY <3>2, <3>3
  <2>3. ASSUME NEW f \in Flows, Unserved(f)
        PROVE  FALSE
    <3>1. /\ Claimed \subseteq Receivers /\ IsFiniteSet(Claimed)
          /\ Cardinality(Claimed) \in Nat
      BY <2>1, ClaimedFinite
    <3>2. IterLimit <= Cardinality(Claimed)
      BY <2>1, <2>3, <3>1 DEF MatchPerIteration
    <3>3. CASE IterLimit >= Cardinality(Receivers)
      <4>1. Cardinality(Claimed) = Cardinality(Receivers) /\ Claimed = Receivers
        BY <2>1, <3>1, <3>2, <3>3, HostsFinite, FS_Subset, FS_CardinalityType
      <4> QED
        BY <2>3, <4>1, Ends DEF Unserved
    <3>4. CASE IterLimit >= Cardinality(Senders)
      <4> DEFINE matched == {h \in Senders : matchReceiver[h] # NoHost}
                 m == [h \in matched |-> matchReceiver[h]]
      <4>1. m \in Surjection(matched, Claimed)
        BY DEF Surjection, Claimed
      <4>2. /\ IsFiniteSet(Senders) /\ IsFiniteSet(matched) /\ Cardinality(matched) \in Nat
            /\ Cardinality(matched) <= Cardinality(Senders) /\ Cardinality(Senders) \in Nat
        BY HostsFinite, FS_Subset, FS_CardinalityType
      <4>3. Cardinality(Claimed) <= Cardinality(matched)
        <5> HIDE DEF m, matched
        <5> QED
          BY <4>1, <4>2, FS_Surjection
      <4>4. Cardinality(matched) = Cardinality(Senders)
        BY <2>1, <3>1, <3>2, <3>4, <4>2, <4>3
      <4>5. matched = Senders
        BY <4>2, <4>4, FS_Subset
      <4> QED
        BY <2>3, <4>5, Ends DEF Unserved, Unmatched
    <3> QED
      BY <3>3, <3>4
  <2> QED
    BY <2>1, <2>2, <2>3 DEF Unserved, Unmatched, Claimed, Claims
<1> QED
  BY <1>1, CalmInvariant, PTL

-----------------------------------------------------------------------------
(* What PimFlow assumes of the matching *)

(* Only flows that started are asked for, granted and accepted. *)
OnlyStarted ==
  /\ \A m \in msgs : st[m.flow] # "idle"
  /\ \A r \in Receivers : \A f \in rtsQ[r] : f \in Flows /\ st[f] # "idle"
  /\ \A h \in Senders : \A f \in grantsQ[h] : f \in Flows /\ st[f] # "idle"

(* PimFlow's Unmatch and Match: a receiver goes, or a sender without one gets
   that of a flow that started. *)
MatchOrUnmatch ==
  \A h \in Senders :
    \/ matchReceiver'[h] \in {matchReceiver[h], NoHost}
    \/ /\ matchReceiver[h] = NoHost
       /\ \E f \in Flows : Src[f] = h /\ Dst[f] = matchReceiver'[h] /\ st[f] # "idle"

LEMMA StartedKept ==
  ASSUME TypeOK, OnlyStarted,
         \A f \in Flows : st[f] # "idle" => st'[f] # "idle",
         \A m \in msgs' : m \in msgs \/ (m.flow \in Flows /\ st[m.flow] # "idle"),
         \A r \in Receivers : \A f \in rtsQ'[r] : f \in Flows /\ st[f] # "idle",
         \A h \in Senders : \A f \in grantsQ'[h] : f \in Flows /\ st[f] # "idle"
  PROVE  OnlyStarted'
  BY MsgFields DEF OnlyStarted, TypeOK

LEMMA StartedStep ==
  ASSUME IInv, OnlyStarted, [Next]_vars
  PROVE  OnlyStarted' /\ MatchOrUnmatch
<1>0. TypeOK /\ OwnGrants /\ \A m \in msgs : m.flow \in Flows /\ Dst[m.flow] \in Receivers
  BY MsgFields DEF IInv, TypeOK
<1>1. ASSUME NEW f \in Flows, StartFlow(f) \/ FinishFlow(f)
      PROVE  OnlyStarted' /\ MatchOrUnmatch
  <2>1. \A g \in Flows : st[g] # "idle" => st'[g] # "idle"
    BY <1>0, <1>1 DEF StartFlow, FinishFlow, TypeOK
  <2>2. UNCHANGED <<msgs, rtsQ, grantsQ, matchReceiver>>
    BY <1>1 DEF StartFlow, FinishFlow, matchVars, queueVars
  <2> QED
    BY <1>0, <2>1, <2>2, StartedKept DEF OnlyStarted, MatchOrUnmatch
<1>2. CASE SenderIter
  <2>1. PICK accept \in [Senders -> Flows \cup {NoFlow}] :
          /\ \A h \in Senders : accept[h] \in AcceptChoices(h)
          /\ matchReceiver' = [h \in Senders |->
               IF accept[h] = NoFlow THEN matchReceiver[h] ELSE Dst[accept[h]]]
          /\ \E fs \in RtsChoices(matchReceiver') :
               msgs' = msgs
                 \cup {Packet("ACCEPT", accept[h], iter) :
                         h \in {s \in Senders : accept[s] # NoFlow}}
                 \cup IF IterOver(iter') THEN {} ELSE {Packet("RTS", f, iter') : f \in fs}
    BY <1>2 DEF SenderIter
  <2>2. \A h \in Senders : accept[h] # NoFlow =>
          /\ matchReceiver[h] = NoHost /\ accept[h] \in Flows
          /\ Src[accept[h]] = h /\ st[accept[h]] # "idle"
    BY <1>0, <2>1 DEF AcceptChoices, Unmatched, OwnGrants, OnlyStarted
  <2>3. \A fs \in RtsChoices(matchReceiver') : \A f \in fs : f \in Flows /\ st[f] # "idle"
    BY DEF RtsChoices
  <2>4. \A m \in msgs' : m \in msgs \/ (m.flow \in Flows /\ st[m.flow] # "idle")
    BY <2>1, <2>2, <2>3 DEF Packet
  <2>5. OnlyStarted'
    BY <1>0, <1>2, <2>4, StartedKept DEF SenderIter
  <2>6. MatchOrUnmatch
    BY <2>1, <2>2 DEF MatchOrUnmatch
  <2> QED
    BY <2>5, <2>6
<1>3. CASE ReceiverIter
  <2>1. \A m \in msgs' : m \in msgs \/ (m.flow \in Flows /\ st[m.flow] # "idle")
    BY <1>3 DEF ReceiverIter, GrantChoices, OnlyStarted, Packet
  <2>2. UNCHANGED <<st, rtsQ, grantsQ, matchReceiver>>
    BY <1>3 DEF ReceiverIter, matchVars, queueVars
  <2> QED
    BY <1>0, <2>1, <2>2, StartedKept DEF OnlyStarted, MatchOrUnmatch
<1>4. CASE NewEpoch
  <2>1. \A m \in msgs : [m EXCEPT !.epoch = "past"].flow = m.flow
    BY <1>0 DEF TypeOK, Msg
  <2>2. \A m \in msgs' : m.flow \in Flows /\ st[m.flow] # "idle"
    <3>1. msgs' = {[m EXCEPT !.epoch = "past"] : m \in msgs}
      BY <1>4 DEF NewEpoch
    <3>2. \A m \in msgs : m.flow \in Flows /\ st[m.flow] # "idle"
      BY <1>0 DEF OnlyStarted
    <3> SUFFICES ASSUME NEW m \in msgs
                 PROVE  LET n == [m EXCEPT !.epoch = "past"]
                        IN  n.flow \in Flows /\ st[n.flow] # "idle"
      BY <3>1, Zenon
    <3>3. [m EXCEPT !.epoch = "past"].flow = m.flow
      BY <2>1
    <3> QED
      BY <3>2, <3>3, Zenon
  <2>3. UNCHANGED <<st, rtsQ, grantsQ>> /\ \A h \in Senders : matchReceiver'[h] = NoHost
    BY <1>4 DEF NewEpoch, queueVars
  <2> QED
    BY <1>0, <2>2, <2>3, StartedKept DEF OnlyStarted, MatchOrUnmatch
<1>5. ASSUME NEW m \in msgs,
             ReceiveRts(m) \/ ReceiveGrants(m) \/ ReceiveAccept(m) \/ ReceiveGrantsR(m) \/ Drop(m)
      PROVE  OnlyStarted' /\ MatchOrUnmatch
  <2>1. m.flow \in Flows /\ st[m.flow] # "idle" /\ st' = st
    BY <1>0, <1>5 DEF ReceiveRts, ReceiveGrants, ReceiveAccept, ReceiveGrantsR, Drop,
       OnlyStarted
  <2>2. \A n \in msgs' : n \in msgs \/ n.flow = m.flow
    BY <1>5 DEF ReceiveRts, ReceiveGrants, ReceiveAccept, ReceiveGrantsR, Drop, TakeBack, Packet
  <2>3. \A r \in Receivers : rtsQ'[r] \subseteq rtsQ[r] \cup {m.flow}
    BY <1>0, <1>5 DEF ReceiveRts, ReceiveGrants, ReceiveAccept, ReceiveGrantsR, Drop,
       queueVars, TypeOK
  <2>4. \A h \in Senders : grantsQ'[h] \subseteq grantsQ[h] \cup {m.flow}
    BY <1>0, <1>5 DEF ReceiveRts, ReceiveGrants, ReceiveAccept, ReceiveGrantsR, Drop,
       queueVars, TypeOK
  <2>5. OnlyStarted'
    BY <1>0, <2>1, <2>2, <2>3, <2>4, StartedKept DEF OnlyStarted
  <2>6. MatchOrUnmatch
    BY <1>0, <1>5 DEF ReceiveRts, ReceiveGrants, ReceiveAccept, ReceiveGrantsR, Drop,
       matchVars, TypeOK, MatchOrUnmatch
  <2> QED
    BY <2>5, <2>6
<1>6. CASE UNCHANGED vars
  BY <1>6 DEF vars, matchVars, queueVars, OnlyStarted, MatchOrUnmatch
<1> QED
  BY <1>1, <1>2, <1>3, <1>4, <1>5, <1>6 DEF Next

(* start_new_epoch, receive_grantsr, handle_all_grants: a sender's receiver
   changes only as PimFlow says it does; it never goes straight to another. *)
THEOREM ReceiversChangeAsInPimFlow == Spec => [][MatchOrUnmatch]_vars
<1>1. Init => OnlyStarted
  BY DEF Init, OnlyStarted
<1>2. IInv /\ OnlyStarted /\ [Next]_vars => OnlyStarted' /\ MatchOrUnmatch
  BY StartedStep
<1> QED
  BY <1>1, <1>2, IInvInvariant, PTL DEF Spec

-----------------------------------------------------------------------------
(* PimFlow: numbers, and the record of a flow *)

(* The least element of a set of natural numbers. *)
LEMMA MinOfNaturals ==
  ASSUME NEW S \in SUBSET Nat, S # {}
  PROVE  Min(S) \in S /\ \A y \in S : Min(S) <= y
<1> DEFINE Below == {p \in Nat \X Nat : p[1] < p[2]}
<1>1. IsWellFoundedOn(Below, Nat)
  BY NatLessThanWellFounded, Zenon DEF OpToRel
<1>2. PICK x \in S : \A y \in S : <<y, x>> \notin Below
  <2> HIDE DEF Below
  <2> QED
    BY <1>1, WFMin
<1>3. ASSUME NEW y \in S PROVE x <= y
  <2>1. <<y, x>> \notin Below
    BY <1>2
  <2>2. ~(<<y, x>>[1] < <<y, x>>[2])
    BY <2>1
  <2> QED
    BY <2>2
<1> QED
  BY <1>3 DEF Min

LEMMA MinOfTwo ==
  ASSUME NEW a \in Nat, NEW b \in Nat
  PROVE  Min({a, b}) = IF a <= b THEN a ELSE b
  BY MinOfNaturals

LEMMA FlowLimits ==
  ASSUME NEW f \in Flows
  PROVE  /\ Size[f] \in Nat \ {0} /\ Window \in Nat \ {0}
         /\ MaxGap = Window + 1 /\ MaxItems[f] \in Nat
  BY SizeAssumption, WindowAssumption DEF MaxGap

LEMMA StateFields ==
  ASSUME NEW f \in Flows, NEW r \in FlowState(f)
  PROVE  /\ r.st \in {"idle", "active", "finished"}
         /\ r.acked \in SUBSET Packets(f) /\ r.got \in SUBSET Packets(f)
         /\ r.last \in -1..Size[f] - 1 /\ r.gap \in 0..MaxGap
         /\ r.rd \in {"off", "set", "due"} /\ r.windowDue \in BOOLEAN
         /\ r.sent \in SUBSET Packets(f)
  BY DEF FlowState

(* What the invariant says of the record of one flow. *)
RecordOK(f, r) ==
  /\ r \in FlowState(f)
  /\ IF r.st = "active" THEN Unacked(f, r) # {} ELSE r.acked = {}
  /\ RoundConsistent(f, r)
  /\ r.acked \subseteq r.got
  /\ r.st = "finished" => r.got = Packets(f)

LEMMA NewFlowOK ==
  ASSUME NEW f \in Flows
  PROVE  /\ RecordOK(f, NewFlow)
         /\ NewFlow.st = "idle"
<1>1. NewFlow \in FlowState(f)
  BY FlowLimits DEF NewFlow, FlowState
<1>2. \A p \in Packets(f) : ~(p <= NewFlow.last)
  BY FlowLimits DEF Packets, NewFlow
<1> QED
  BY <1>1, <1>2 DEF RecordOK, RoundConsistent, SentSoFar, AtEnd, Unacked, NewFlow

(* A flow that starts has all its packets to send. *)
LEMMA BegunOK ==
  ASSUME NEW f \in Flows, NEW r, RecordOK(f, r), r.st = "idle"
  PROVE  RecordOK(f, [r EXCEPT !.st = "active"])
<1> DEFINE s == [r EXCEPT !.st = "active"]
<1>1. r \in FlowState(f)
  BY DEF RecordOK
<1>2. /\ s \in FlowState(f) /\ s.st = "active"
      /\ s.acked = r.acked /\ s.got = r.got /\ s.last = r.last
      /\ s.rd = r.rd /\ s.sent = r.sent
  BY <1>1 DEF FlowState
<1>3. 0 \in Packets(f)
  BY FlowLimits DEF Packets
<1> HIDE DEF s
<1>4. r.acked = {} /\ RoundConsistent(f, r) /\ r.acked \subseteq r.got
  BY DEF RecordOK
<1>5. Unacked(f, s) = Unacked(f, r) /\ 0 \in Unacked(f, s)
  BY <1>2, <1>3, <1>4 DEF Unacked
<1>6. RoundConsistent(f, s)
  BY <1>2, <1>4, <1>5 DEF RoundConsistent, SentSoFar, AtEnd
<1> QED
  BY <1>2, <1>4, <1>5, <1>6 DEF RecordOK, s

(* get_next_data_seq_num: the first packet above the last one that is not
   acknowledged, or the first of all when there is none above. *)
LEMMA NextIsFirst ==
  ASSUME NEW f \in Flows, NEW r \in FlowState(f), Unacked(f, r) # {}
  PROVE  LET next == NextDataSeqNum(r, f)
         IN  /\ next \in Unacked(f, r)
             /\ next > r.last \/ AtEnd(f, r)
             /\ \A p \in Unacked(f, r) : next <= p \/ (p <= r.last /\ next > r.last)
<1> DEFINE start == (r.last + 1) % Size[f]
           above == {s \in start..Size[f] - 1 : s \notin r.acked}
           next == NextDataSeqNum(r, f)
<1>1. Size[f] \in Nat \ {0} /\ r.last \in -1..Size[f] - 1
  BY FlowLimits, StateFields
<1>2. start = IF r.last = Size[f] - 1 THEN 0 ELSE r.last + 1
  BY <1>1
<1>3. start \in 0..Size[f] - 1
  BY <1>1, <1>2
<1>4. Unacked(f, r) = {s \in 0..Size[f] - 1 : s \notin r.acked}
  BY DEF Unacked, Packets
<1>5. next = Min(IF above # {} THEN above ELSE Unacked(f, r))
  BY DEF NextDataSeqNum, Unacked
<1>6. above \in SUBSET Nat /\ Unacked(f, r) \in SUBSET Nat /\ above \subseteq Unacked(f, r)
  BY <1>1, <1>3, <1>4
<1> HIDE DEF start, next
<1>7. CASE above # {}
  <2>1. next \in above /\ \A q \in above : next <= q
    <3> HIDE DEF above
    <3> QED
      BY <1>5, <1>6, <1>7, MinOfNaturals
  <2>2. next \in start..Size[f] - 1
    BY <2>1
  <2>3. next > r.last \/ \A p \in Unacked(f, r) : p <= r.last
    BY <1>1, <1>2, <1>4, <2>2
  <2>4. ASSUME NEW p \in Unacked(f, r)
        PROVE  next <= p \/ (p <= r.last /\ next > r.last)
    <3>1. p \in 0..Size[f] - 1 /\ p \notin r.acked
      BY <1>4
    <3>2. CASE p \in above
      BY <2>1, <3>2
    <3>3. CASE p \notin above
      BY <1>1, <1>2, <2>2, <3>1, <3>3
    <3> QED
      BY <3>2, <3>3
  <2> QED
    BY <1>6, <2>1, <2>3, <2>4 DEF next, AtEnd
<1>8. CASE above = {}
  <2>1. next \in Unacked(f, r) /\ \A q \in Unacked(f, r) : next <= q
    BY <1>5, <1>6, <1>8, MinOfNaturals
  <2>2. \A p \in Unacked(f, r) : p <= r.last
    BY <1>1, <1>2, <1>4, <1>8
  <2> QED
    BY <2>1, <2>2 DEF next, AtEnd
<1> QED
  BY <1>7, <1>8

(* A flow send comes to begins its next round after a rest. *)
LEMMA VisitedOK ==
  ASSUME NEW f \in Flows, NEW r, RecordOK(f, r)
  PROVE  /\ RecordOK(f, Visited(r))
         /\ Visited(r).st = r.st /\ Visited(r).got = r.got
         /\ r.rd # "set" => Visited(r).rd = "off"
<1>1. r \in FlowState(f)
  BY DEF RecordOK
<1>2. CASE r.rd = "due"
  <2> DEFINE s == [r EXCEPT !.rd = "off", !.sent = {}]
  <2>1. Visited(r) = s
    BY <1>2 DEF Visited
  <2>2. /\ s \in FlowState(f) /\ s.st = r.st /\ s.rd = "off"
        /\ s.acked = r.acked /\ s.got = r.got /\ s.last = r.last
    BY <1>1 DEF FlowState
  <2> HIDE DEF s
  <2>3. RoundConsistent(f, s)
    BY <1>2, <2>2 DEF RecordOK, RoundConsistent, AtEnd, Unacked
  <2> QED
    BY <2>1, <2>2, <2>3 DEF RecordOK, Unacked
<1>3. CASE r.rd # "due"
  BY <1>1, <1>3, StateFields DEF Visited
<1> QED
  BY <1>2, <1>3

(* The packet sent was the next one: up to it all were sent, and if the one
   after it comes before it in the flow, it was the last of the round. *)
LEMMA ChargedOK ==
  ASSUME NEW f \in Flows, NEW r, RecordOK(f, r), r.st = "active", r.rd = "off"
  PROVE  /\ RecordOK(f, Charged(r, f))
         /\ Charged(r, f).st = r.st /\ Charged(r, f).got = r.got
         /\ Charged(r, f).last \in Packets(f)
<1>1. /\ r \in FlowState(f) /\ Unacked(f, r) # {} /\ RoundConsistent(f, r)
      /\ r.acked \subseteq r.got
  BY DEF RecordOK
<1> DEFINE seq == NextDataSeqNum(r, f)
           after == [r EXCEPT !.last = seq, !.sent = @ \cup {seq},
                              !.gap = Relaxed(@) + 1, !.windowDue = FALSE]
           over == RoundOver(seq, NextDataSeqNum(after, f))
           s == [after EXCEPT !.rd = IF over THEN "set" ELSE "off"]
<1>2. /\ seq \in Unacked(f, r)
      /\ seq > r.last \/ AtEnd(f, r)
      /\ \A p \in Unacked(f, r) : seq <= p \/ (p <= r.last /\ seq > r.last)
  BY <1>1, NextIsFirst
<1> HIDE DEF seq
<1>3. seq \in Packets(f) /\ Unacked(f, r) \subseteq Packets(f) /\ Packets(f) = 0..Size[f] - 1
  BY <1>2 DEF Unacked, Packets
<1>4. Relaxed(r.gap) + 1 \in 0..MaxGap
  BY <1>1, FlowLimits, StateFields DEF Relaxed
<1>5. seq \in -1..Size[f] - 1 /\ r.last \in Int
  BY <1>1, <1>3, FlowLimits, StateFields
<1>6. /\ after \in FlowState(f) /\ after.st = r.st /\ after.rd = r.rd
      /\ after.acked = r.acked /\ after.got = r.got
      /\ after.last = seq /\ after.sent = r.sent \cup {seq}
  BY <1>1, <1>3, <1>4, <1>5 DEF FlowState
<1> HIDE DEF after
<1>7. Unacked(f, after) = Unacked(f, r)
  BY <1>6 DEF Unacked
<1>8. SentSoFar(f, after)
  <2> SUFFICES ASSUME NEW p \in Unacked(f, r), p <= seq
               PROVE  p \in r.sent \cup {seq}
    BY <1>6, <1>7 DEF SentSoFar
  <2>1. p \in Int /\ seq \in Int
    BY <1>3, <1>5
  <2>2. CASE p <= r.last /\ seq > r.last
    <3>1. ~AtEnd(f, r)
      BY <1>2, <1>5, <2>1, <2>2 DEF AtEnd
    <3>2. SentSoFar(f, r)
      BY <1>1, <3>1 DEF RoundConsistent
    <3> QED
      BY <2>2, <3>2 DEF SentSoFar
  <2>3. CASE seq <= p
    BY <2>1, <2>3
  <2> QED
    BY <1>2, <2>2, <2>3
<1>9. over => AtEnd(f, after)
  <2> DEFINE next == NextDataSeqNum(after, f)
  <2>1. next \in Unacked(f, r) /\ (next > seq \/ AtEnd(f, after))
    BY <1>1, <1>6, <1>7, NextIsFirst
  <2> HIDE DEF next
  <2>2. over => ~(next > seq)
    BY <1>3, <1>5, <2>1 DEF RoundOver, next
  <2> QED
    BY <2>1, <2>2
<1> HIDE DEF over
<1>10. /\ s \in FlowState(f) /\ s.st = r.st /\ s.rd = IF over THEN "set" ELSE "off"
       /\ s.acked = r.acked /\ s.got = r.got
       /\ s.last = seq /\ s.sent = after.sent
  BY <1>6 DEF FlowState
<1>11. Charged(r, f) = s
  BY DEF Charged, s, over, after, seq
<1> HIDE DEF s
<1>12. Unacked(f, s) = Unacked(f, r)
  BY <1>10 DEF Unacked
<1>13. SentSoFar(f, s) /\ (over => AtEnd(f, s))
  BY <1>6, <1>7, <1>8, <1>9, <1>10, <1>12 DEF SentSoFar, AtEnd
<1>14. RoundConsistent(f, s)
  BY <1>10, <1>13 DEF RoundConsistent
<1> QED
  BY <1>1, <1>3, <1>10, <1>11, <1>12, <1>14 DEF RecordOK

(* An ACK takes a packet off a round; the last one ends the flow. *)
LEMMA AckedOK ==
  ASSUME NEW f \in Flows, NEW r, RecordOK(f, r), r.st = "active", NEW i \in Item(f), i.seq \in r.got
  PROVE  /\ Acked(r, i).st = r.st /\ Acked(r, i).got = r.got
         /\ Acked(r, i).acked # Packets(f) => RecordOK(f, Acked(r, i))
         /\ Acked(r, i).acked = Packets(f) => RecordOK(f, Finished(r))
         /\ Finished(r).st = "finished" /\ Finished(r).got = r.got
<1>1. r \in FlowState(f) /\ r.acked \subseteq r.got
  BY DEF RecordOK
<1>2. i.seq \in Packets(f) /\ i.age \in 1..MaxGap
  BY DEF Item
<1>3. Min({r.gap, i.age}) \in 0..MaxGap
  BY <1>1, <1>2, FlowLimits, StateFields, MinOfTwo
<1> DEFINE s == Acked(r, i)
           e == Finished(r)
<1>4. /\ s.st = r.st /\ s.rd = r.rd
      /\ s.acked = r.acked \cup {i.seq} /\ s.got = r.got
      /\ s.last = r.last /\ s.sent = r.sent
      /\ s \in FlowState(f)
  BY <1>1, <1>2, <1>3 DEF Acked, FlowState
<1>5. /\ e \in FlowState(f) /\ e.st = "finished" /\ e.rd = "off"
      /\ e.acked = {} /\ e.got = r.got /\ e.last = -1
  <2>1. /\ NewFlow \in FlowState(f) /\ NewFlow.rd = "off"
        /\ NewFlow.acked = {} /\ NewFlow.last = -1
    BY NewFlowOK DEF RecordOK, NewFlow
  <2>2. r.got \in SUBSET Packets(f)
    BY <1>1, StateFields
  <2> HIDE DEF NewFlow
  <2> QED
    BY <2>1, <2>2 DEF Finished, FlowState
<1> HIDE DEF s, e
<1>6. ASSUME s.acked # Packets(f) PROVE RecordOK(f, s)
  <2>1. s.acked \in SUBSET Packets(f) /\ Unacked(f, s) \subseteq Unacked(f, r)
    BY <1>4, StateFields DEF Unacked
  <2>2. Unacked(f, s) # {}
    BY <1>6, <2>1 DEF Unacked
  <2>3. RoundConsistent(f, s)
    BY <1>4, <2>1 DEF RecordOK, RoundConsistent, SentSoFar, AtEnd
  <2> QED
    BY <1>1, <1>4, <2>2, <2>3 DEF RecordOK
<1>7. ASSUME s.acked = Packets(f) PROVE RecordOK(f, e)
  <2>1. r.got = Packets(f)
    BY <1>1, <1>4, <1>7, StateFields
  <2>2. \A p \in Packets(f) : ~(p <= e.last)
    BY <1>5, FlowLimits DEF Packets
  <2> QED
    BY <1>5, <2>1, <2>2 DEF RecordOK, RoundConsistent, SentSoFar, Unacked
<1> QED
  BY <1>4, <1>5, <1>6, <1>7 DEF s, e

(* A packet received counts, known or not. *)
LEMMA GotOK ==
  ASSUME NEW f \in Flows, NEW r, RecordOK(f, r), NEW p \in Packets(f)
  PROVE  /\ RecordOK(f, [r EXCEPT !.got = @ \cup {p}])
         /\ [r EXCEPT !.got = @ \cup {p}].st = r.st
         /\ [r EXCEPT !.got = @ \cup {p}].got = r.got \cup {p}
<1> DEFINE s == [r EXCEPT !.got = @ \cup {p}]
<1>1. r \in FlowState(f) /\ r.got \in SUBSET Packets(f)
  BY StateFields DEF RecordOK
<1>2. /\ s \in FlowState(f) /\ s.st = r.st /\ s.got = r.got \cup {p}
      /\ s.acked = r.acked /\ s.last = r.last /\ s.rd = r.rd /\ s.sent = r.sent
  BY <1>1 DEF FlowState
<1> HIDE DEF s
<1>3. Unacked(f, s) = Unacked(f, r)
  BY <1>2 DEF Unacked
<1>4. RoundConsistent(f, s)
  BY <1>2, <1>3 DEF RecordOK, RoundConsistent, SentSoFar, AtEnd
<1>5. RecordOK(f, s)
  BY <1>1, <1>2, <1>3, <1>4 DEF RecordOK
<1> QED
  BY <1>2, <1>5 DEF s

(* Time passes for a flow. *)
LEMMA TimeOK ==
  ASSUME NEW f \in Flows, NEW r, RecordOK(f, r)
  PROVE  /\ r.rd = "set" => RecordOK(f, [r EXCEPT !.rd = "due"])
         /\ RecordOK(f, [r EXCEPT !.windowDue = TRUE])
<1> DEFINE d == [r EXCEPT !.rd = "due"]
           w == [r EXCEPT !.windowDue = TRUE]
<1>1. r \in FlowState(f)
  BY DEF RecordOK
<1>2. /\ d \in FlowState(f) /\ d.st = r.st /\ d.got = r.got /\ d.rd = "due"
      /\ d.acked = r.acked /\ d.last = r.last /\ d.sent = r.sent
  BY <1>1 DEF FlowState
<1>3. /\ w \in FlowState(f) /\ w.st = r.st /\ w.got = r.got /\ w.rd = r.rd
      /\ w.acked = r.acked /\ w.last = r.last /\ w.sent = r.sent
  BY <1>1 DEF FlowState
<1> HIDE DEF d, w
<1>4. Unacked(f, d) = Unacked(f, r) /\ Unacked(f, w) = Unacked(f, r)
  BY <1>2, <1>3 DEF Unacked
<1>5. RoundConsistent(f, w)
  BY <1>3, <1>4 DEF RecordOK, RoundConsistent, SentSoFar, AtEnd
<1>6. r.rd = "set" => RoundConsistent(f, d)
  BY <1>2, <1>4 DEF RecordOK, RoundConsistent, SentSoFar, AtEnd
<1> QED
  BY <1>1, <1>2, <1>3, <1>4, <1>5, <1>6 DEF RecordOK, d, w

-----------------------------------------------------------------------------
(* PimFlow: the inductive invariant *)

(* What it says of the packets and ACKs of one flow, and of the hosts. *)
ItemsOK(f, its, r) ==
  /\ its \subseteq Item(f)
  /\ \A i \in its : i.at = "ack" => i.seq \in r.got
  /\ r.st # "active" => its = {}

HostsOK ==
  /\ DOMAIN flow = Flows /\ DOMAIN items = Flows
  /\ receiver \in [Senders -> Receivers \cup {NoHost}]
  /\ hostProc \in [Senders -> {"none", "set", "timeout"}]

FlowParts ==
  /\ HostsOK
  /\ \A f \in Flows : RecordOK(f, flow[f]) /\ ItemsOK(f, items[f], flow[f])
  /\ NeverSilent

LEMMA FlowIInvParts == FlowIInv <=> FlowParts
  BY DEF FlowIInv, FlowTypeOK, FlowParts, HostsOK, RecordOK, ItemsOK, AcksTrue,
         AckedIsReceived, Active

LEMMA ItemsKept ==
  ASSUME NEW f, NEW its, NEW r, NEW q, ItemsOK(f, its, r),
         q.st = r.st, r.got \subseteq q.got
  PROVE  ItemsOK(f, its, q)
  BY DEF ItemsOK

(* A step that touches the record and the packets of one flow. *)
LEMMA OneFlowKept ==
  ASSUME FlowParts, NEW f \in Flows, NEW r, NEW its,
         \A g \in Flows : /\ flow'[g] = IF g = f THEN r ELSE flow[g]
                         /\ items'[g] = IF g = f THEN its ELSE items[g],
         RecordOK(f, r), ItemsOK(f, its, r), HostsOK', NeverSilent'
  PROVE  FlowParts'
  BY DEF FlowParts

(* It keeps the hosts' promise, too, when the flow stays as active as it was
   and no host loses its event. *)
LEMMA StillAwake ==
  ASSUME FlowParts, UNCHANGED receiver,
         \A g \in Flows : flow'[g].st = "active" => flow[g].st = "active",
         \A h \in Senders : hostProc[h] # "none" => hostProc'[h] # "none"
  PROVE  NeverSilent'
  BY Ends DEF FlowParts, NeverSilent, Active

LEMMA BeginFlowKeeps ==
  ASSUME FlowParts, NEW f \in Flows, BeginFlow(f)
  PROVE  FlowParts'
<1> DEFINE r == [flow[f] EXCEPT !.st = "active"]
<1>1. flow[f].st = "idle" /\ RecordOK(f, flow[f]) /\ ItemsOK(f, items[f], flow[f])
  BY DEF BeginFlow, FlowParts
<1>2. RecordOK(f, r)
  BY <1>1, BegunOK
<1>3. ItemsOK(f, items[f], r)
  BY <1>1 DEF ItemsOK
<1>4. \A g \in Flows : /\ flow'[g] = IF g = f THEN r ELSE flow[g]
                       /\ items'[g] = IF g = f THEN items[f] ELSE items[g]
  BY DEF BeginFlow, FlowParts, HostsOK
<1>5. HostsOK'
  BY Ends DEF BeginFlow, FlowParts, HostsOK
<1>6. NeverSilent'
  <2> SUFFICES ASSUME NEW g \in Flows, Active(g)',
                      Short(g) \/ Dst[g] = receiver[Src[g]]
               PROVE  hostProc'[Src[g]] # "none"
    BY DEF NeverSilent, BeginFlow
  <2>1. Src[g] \in Senders
    BY Ends
  <2>2. CASE Src[g] = Src[f]
    BY <2>1, <2>2 DEF BeginFlow, FlowParts, HostsOK
  <2>3. CASE Src[g] # Src[f]
    <3>1. Active(g) /\ hostProc'[Src[g]] = hostProc[Src[g]]
      BY <2>1, <2>3 DEF BeginFlow, FlowParts, HostsOK, Active
    <3> QED
      BY <3>1 DEF FlowParts, NeverSilent
  <2> QED
    BY <2>2, <2>3
<1> HIDE DEF r
<1> QED
  BY <1>2, <1>3, <1>4, <1>5, <1>6, OneFlowKept

LEMMA MatchKeeps ==
  ASSUME FlowParts, NEW h \in Senders, NEW r \in Receivers, Match(h, r)
  PROVE  FlowParts'
<1>1. /\ flow' = flow /\ items' = items
      /\ receiver' = [receiver EXCEPT ![h] = r]
      /\ hostProc' = [hostProc EXCEPT ![h] = "set"]
  BY DEF Match
<1>2. HostsOK'
  BY <1>1 DEF FlowParts, HostsOK
<1>3. ASSUME NEW g \in Flows, Active(g)',
             (Short(g) \/ Dst[g] = receiver[Src[g]])'
      PROVE  hostProc'[Src[g]] # "none"
  <2>1. Active(g) /\ Src[g] \in Senders
    BY <1>1, <1>3, Ends DEF Active
  <2>2. CASE Src[g] = h
    BY <1>1, <2>2 DEF FlowParts, HostsOK
  <2>3. CASE Src[g] # h
    <3>1. receiver'[Src[g]] = receiver[Src[g]] /\ hostProc'[Src[g]] = hostProc[Src[g]]
      BY <1>1, <2>1, <2>3 DEF FlowParts, HostsOK
    <3> QED
      BY <1>3, <2>1, <3>1 DEF FlowParts, NeverSilent, Short
  <2> QED
    BY <2>2, <2>3
<1>4. NeverSilent'
  BY <1>3 DEF NeverSilent
<1> QED
  BY <1>1, <1>2, <1>4 DEF FlowParts

LEMMA UnmatchKeeps ==
  ASSUME FlowParts, NEW h \in Senders, Unmatch(h)
  PROVE  FlowParts'
<1>1. /\ flow' = flow /\ items' = items /\ hostProc' = hostProc
      /\ receiver' = [receiver EXCEPT ![h] = NoHost]
  BY DEF Unmatch
<1>2. HostsOK'
  BY <1>1 DEF FlowParts, HostsOK
<1>3. ASSUME NEW g \in Flows, Active(g)',
             (Short(g) \/ Dst[g] = receiver[Src[g]])'
      PROVE  hostProc'[Src[g]] # "none"
  <2>1. Active(g) /\ Src[g] \in Senders /\ Dst[g] # NoHost
    BY <1>1, <1>3, Ends DEF Active
  <2>2. receiver'[Src[g]] = IF Src[g] = h THEN NoHost ELSE receiver[Src[g]]
    BY <1>1, <2>1 DEF FlowParts, HostsOK
  <2>3. Short(g) \/ Dst[g] = receiver[Src[g]]
    BY <1>3, <2>1, <2>2 DEF Short
  <2> QED
    BY <1>1, <2>1, <2>3 DEF FlowParts, NeverSilent
<1>4. NeverSilent'
  BY <1>3 DEF NeverSilent
<1> QED
  BY <1>1, <1>2, <1>4 DEF FlowParts

LEMMA TopFlowLarge ==
  ASSUME NEW h, NEW top \in TopFlow(h)
  PROVE  /\ top \subseteq LargeFlows(h)
         /\ LargeFlows(h) # {} => top # {}
  BY DEF TopFlow, LargeFlows

(* The flows send tries are active flows of the host; it tries none only if
   it has none to send. *)
LEMMA TriedFlows ==
  ASSUME NEW h, NEW top \in TopFlow(h)
  PROVE  /\ \A g \in ShortFlows(h) \cup top : g \in Flows /\ Src[g] = h /\ Active(g)
         /\ ShortFlows(h) \cup top = {} =>
              \A g \in Flows : Src[g] = h /\ Active(g) =>
                                 ~Short(g) /\ Dst[g] # receiver[h]
  BY TopFlowLarge DEF ShortFlows, LargeFlows

LEMMA OlderOK ==
  ASSUME NEW f \in Flows, NEW i \in Item(f)
  PROVE  /\ Older(i) \in Item(f)
         /\ Older(i).at = i.at /\ Older(i).seq = i.seq
<1>1. i.age \in 1..MaxGap /\ MaxGap \in Nat
  BY FlowLimits DEF Item
<1>2. i.age + 1 \in Nat
  BY <1>1
<1>3. Min({i.age + 1, MaxGap}) \in 1..MaxGap
  BY <1>1, <1>2, MinOfTwo
<1> QED
  BY <1>3 DEF Older, Item

LEMMA WithDataOK ==
  ASSUME NEW f \in Flows, NEW r, ItemsOK(f, items[f], r), r.st = "active",
         NEW p \in Packets(f)
  PROVE  ItemsOK(f, WithData(f, p), r)
<1> DEFINE older == {Older(i) : i \in items[f]}
           sent == [at |-> "data", seq |-> p, age |-> 1]
<1>1. older \subseteq Item(f) /\ \A i \in older : i.at = "ack" => i.seq \in r.got
  BY OlderOK DEF ItemsOK
<1>2. sent \in Item(f) /\ sent.at # "ack"
  BY FlowLimits DEF Item
<1>3. WithData(f, p) \subseteq older \cup {sent}
  BY DEF WithData
<1> HIDE DEF older, sent
<1> QED
  BY <1>1, <1>2, <1>3 DEF ItemsOK

LEMMA SendDataKeeps ==
  ASSUME FlowParts, NEW f \in Flows, SendData(f)
  PROVE  FlowParts'
<1> DEFINE h == Src[f]
           q == Charged(Visited(flow[f]), f)
<1>1. PICK top \in TopFlow(h) :
        /\ f \in ShortFlows(h) \cup top
        /\ \E seen \in SUBSET {g \in ShortFlows(h) \cup top : ~CanSend(g)} :
             flow' = [g \in Flows |-> IF g = f THEN q
                                      ELSE IF g \in seen THEN Visited(flow[g]) ELSE flow[g]]
  BY DEF SendData
<1>2. PICK seen : flow' = [g \in Flows |-> IF g = f THEN q
                             ELSE IF g \in seen THEN Visited(flow[g]) ELSE flow[g]]
  BY <1>1
<1>3. flow[f].st = "active" /\ flow[f].rd # "set"
  BY <1>1, TriedFlows DEF SendData, CanSend, Active
<1>4. \A g \in Flows : /\ RecordOK(g, Visited(flow[g]))
                       /\ Visited(flow[g]).st = flow[g].st
                       /\ Visited(flow[g]).got = flow[g].got
  BY VisitedOK DEF FlowParts
<1>5. RecordOK(f, q) /\ q.st = flow[f].st /\ q.got = flow[f].got /\ q.last \in Packets(f)
  <2>1. Visited(flow[f]).st = "active" /\ Visited(flow[f]).rd = "off"
    BY <1>3, VisitedOK DEF FlowParts
  <2> QED
    BY <1>4, <2>1, ChargedOK
<1> HIDE DEF q
<1>6. \A g \in Flows : /\ RecordOK(g, flow'[g])
                       /\ flow'[g].st = flow[g].st /\ flow'[g].got = flow[g].got
  BY <1>2, <1>4, <1>5 DEF FlowParts
<1>7. DOMAIN flow' = Flows /\ flow'[f] = q
  BY <1>2
<1>8. /\ items' = [items EXCEPT ![f] = WithData(f, q.last)]
      /\ hostProc' = [hostProc EXCEPT ![h] = "set"] /\ receiver' = receiver
  BY <1>7 DEF SendData
<1>9. \A g \in Flows : ItemsOK(g, items'[g], flow'[g])
  <2>1. ItemsOK(f, WithData(f, q.last), flow[f])
    BY <1>3, <1>5, WithDataOK DEF FlowParts
  <2>2. \A g \in Flows : ItemsOK(g, items'[g], flow[g])
    BY <1>8, <2>1 DEF FlowParts, HostsOK
  <2> QED
    BY <1>6, <2>2, ItemsKept
<1>10. HostsOK'
  BY <1>7, <1>8, Ends DEF FlowParts, HostsOK
<1>11. NeverSilent'
  <2>1. \A g \in Senders : hostProc[g] # "none" => hostProc'[g] # "none"
    BY <1>8 DEF FlowParts, HostsOK
  <2> QED
    BY <1>6, <1>8, <2>1, StillAwake
<1> QED
  BY <1>6, <1>9, <1>10, <1>11 DEF FlowParts

LEMMA SendNothingKeeps ==
  ASSUME FlowParts, NEW h \in Senders, SendNothing(h)
  PROVE  FlowParts'
<1>1. PICK top \in TopFlow(h) :
        LET tried == ShortFlows(h) \cup top IN
        /\ flow' = [f \in Flows |-> IF f \in tried THEN Visited(flow[f]) ELSE flow[f]]
        /\ hostProc' = [hostProc EXCEPT ![h] = NextEvent(tried)]
  BY DEF SendNothing
<1> DEFINE tried == ShortFlows(h) \cup top
<1>2. items' = items /\ receiver' = receiver /\ DOMAIN flow' = Flows
  BY <1>1 DEF SendNothing
<1>3. \A g \in Flows : /\ RecordOK(g, flow'[g])
                       /\ flow'[g].st = flow[g].st /\ flow'[g].got = flow[g].got
  <2>1. \A g \in Flows : /\ RecordOK(g, Visited(flow[g]))
                         /\ Visited(flow[g]).st = flow[g].st
                         /\ Visited(flow[g]).got = flow[g].got
    BY VisitedOK DEF FlowParts
  <2> QED
    BY <1>1, <2>1 DEF FlowParts
<1>4. \A g \in Flows : ItemsOK(g, items'[g], flow'[g])
  BY <1>2, <1>3, ItemsKept DEF FlowParts
<1>5. HostsOK'
  <2>1. NextEvent(tried) \in {"none", "set", "timeout"}
    BY DEF NextEvent
  <2> QED
    BY <1>1, <1>2, <2>1 DEF FlowParts, HostsOK
<1>6. ASSUME NEW g \in Flows, Active(g)',
             (Short(g) \/ Dst[g] = receiver[Src[g]])'
      PROVE  hostProc'[Src[g]] # "none"
  <2>1. Active(g) /\ (Short(g) \/ Dst[g] = receiver[Src[g]]) /\ Src[g] \in Senders
    BY <1>2, <1>3, <1>6, Ends DEF Active, Short
  <2>2. CASE Src[g] = h
    <3>1. tried # {}
      BY <2>1, <2>2, TriedFlows
    <3> QED
      BY <1>1, <2>2, <3>1 DEF NextEvent, FlowParts, HostsOK
  <2>3. CASE Src[g] # h
    <3>1. hostProc'[Src[g]] = hostProc[Src[g]]
      BY <1>1, <2>1, <2>3 DEF FlowParts, HostsOK
    <3> QED
      BY <2>1, <3>1 DEF FlowParts, NeverSilent
  <2> QED
    BY <2>2, <2>3
<1>7. NeverSilent'
  BY <1>6 DEF NeverSilent
<1> QED
  BY <1>3, <1>4, <1>5, <1>7 DEF FlowParts

LEMMA ReceiveDataKeeps ==
  ASSUME FlowParts, NEW f \in Flows, NEW i \in items[f], ReceiveData(f, i)
  PROVE  FlowParts'
<1> DEFINE q == [flow[f] EXCEPT !.got = @ \cup {i.seq}]
           ack == [i EXCEPT !.at = "ack"]
           its == (items[f] \ {i}) \cup {ack}
<1>1. RecordOK(f, flow[f]) /\ ItemsOK(f, items[f], flow[f]) /\ i \in Item(f)
  BY DEF FlowParts, ItemsOK
<1>2. i.seq \in Packets(f)
  BY <1>1 DEF Item
<1>3. RecordOK(f, q) /\ q.st = flow[f].st /\ q.got = flow[f].got \cup {i.seq}
  BY <1>1, <1>2, GotOK
<1>4. ack \in Item(f) /\ ack.seq = i.seq
  BY <1>1 DEF Item
<1>5. \A g \in Flows : /\ flow'[g] = IF g = f THEN q ELSE flow[g]
                       /\ items'[g] = IF g = f THEN its ELSE items[g]
  BY DEF ReceiveData, FlowParts, HostsOK
<1>6. receiver' = receiver /\ hostProc' = hostProc /\ HostsOK'
  BY DEF ReceiveData, FlowParts, HostsOK
<1> HIDE DEF q, ack
<1>7. ItemsOK(f, its, q)
  BY <1>1, <1>3, <1>4 DEF ItemsOK
<1>8. NeverSilent'
  BY <1>3, <1>5, <1>6, StillAwake
<1> HIDE DEF its
<1> QED
  BY <1>3, <1>5, <1>6, <1>7, <1>8, OneFlowKept

LEMMA ReceiveAckKeeps ==
  ASSUME FlowParts, NEW f \in Flows, NEW i \in items[f], ReceiveAck(f, i)
  PROVE  FlowParts'
<1> DEFINE a == Acked(flow[f], i)
           e == Finished(flow[f])
<1>1. /\ RecordOK(f, flow[f]) /\ ItemsOK(f, items[f], flow[f]) /\ i \in Item(f)
      /\ i.at = "ack" /\ i.seq \in flow[f].got /\ flow[f].st = "active"
  BY DEF FlowParts, ItemsOK, ReceiveAck
<1>2. /\ a.st = flow[f].st /\ a.got = flow[f].got
      /\ a.acked # Packets(f) => RecordOK(f, a)
      /\ a.acked = Packets(f) => RecordOK(f, e)
      /\ e.st = "finished"
  BY <1>1, AckedOK
<1>3. receiver' = receiver /\ HostsOK'
  BY Ends DEF ReceiveAck, FlowParts, HostsOK
<1>4. \A h \in Senders : hostProc[h] # "none" => hostProc'[h] # "none"
  BY Ends DEF ReceiveAck, FlowParts, HostsOK
<1>5. CASE a.acked = Packets(f)
  <2>1. \A g \in Flows : /\ flow'[g] = IF g = f THEN e ELSE flow[g]
                         /\ items'[g] = IF g = f THEN {} ELSE items[g]
    BY <1>5 DEF ReceiveAck, FlowParts, HostsOK
  <2> HIDE DEF a, e
  <2>2. ItemsOK(f, {}, e)
    BY DEF ItemsOK
  <2>3. NeverSilent'
    BY <1>2, <1>3, <1>4, <2>1, StillAwake
  <2> QED
    BY <1>2, <1>3, <1>5, <2>1, <2>2, <2>3, OneFlowKept
<1>6. CASE a.acked # Packets(f)
  <2>1. \A g \in Flows : /\ flow'[g] = IF g = f THEN a ELSE flow[g]
                         /\ items'[g] = IF g = f THEN items[f] \ {i} ELSE items[g]
    BY <1>6 DEF ReceiveAck, FlowParts, HostsOK
  <2> HIDE DEF a
  <2>2. ItemsOK(f, items[f] \ {i}, a)
    BY <1>1, <1>2 DEF ItemsOK
  <2>3. NeverSilent'
    BY <1>2, <1>3, <1>4, <2>1, StillAwake
  <2> QED
    BY <1>2, <1>3, <1>6, <2>1, <2>2, <2>3, OneFlowKept
<1> QED
  BY <1>5, <1>6

LEMMA TimeKeeps ==
  ASSUME FlowParts, NEW f \in Flows, RdDue(f) \/ WindowDue(f)
  PROVE  FlowParts'
<1>1. PICK q \in {[flow[f] EXCEPT !.rd = "due"], [flow[f] EXCEPT !.windowDue = TRUE]} :
        flow' = [flow EXCEPT ![f] = q] /\ RecordOK(f, q)
  BY TimeOK DEF RdDue, WindowDue, FlowParts
<1>2. q.st = flow[f].st /\ q.got = flow[f].got
  BY <1>1 DEF FlowParts, RecordOK, FlowState
<1>3. items' = items /\ receiver' = receiver /\ hostProc' = hostProc
  BY DEF RdDue, WindowDue
<1>4. \A g \in Flows : /\ flow'[g] = IF g = f THEN q ELSE flow[g]
                       /\ items'[g] = IF g = f THEN items[f] ELSE items[g]
  BY <1>1, <1>3 DEF FlowParts, HostsOK
<1>5. HostsOK'
  BY <1>1, <1>3 DEF FlowParts, HostsOK
<1>6. ItemsOK(f, items[f], q)
  BY <1>2, ItemsKept DEF FlowParts
<1>7. NeverSilent'
  BY <1>2, <1>3, <1>4, StillAwake
<1> QED
  BY <1>1, <1>4, <1>5, <1>6, <1>7, OneFlowKept

LEMMA LoseItemKeeps ==
  ASSUME FlowParts, NEW f \in Flows, NEW i \in items[f], LoseItem(f, i)
  PROVE  FlowParts'
<1>1. flow' = flow /\ receiver' = receiver /\ hostProc' = hostProc
  BY DEF LoseItem
<1>2. \A g \in Flows : /\ flow'[g] = IF g = f THEN flow[f] ELSE flow[g]
                       /\ items'[g] = IF g = f THEN items[f] \ {i} ELSE items[g]
  BY DEF LoseItem, FlowParts, HostsOK
<1>3. HostsOK'
  BY DEF LoseItem, FlowParts, HostsOK
<1>4. ItemsOK(f, items[f] \ {i}, flow[f])
  BY DEF FlowParts, ItemsOK
<1>5. NeverSilent'
  BY <1>1, StillAwake
<1> QED
  BY <1>2, <1>3, <1>4, <1>5, OneFlowKept DEF FlowParts

LEMMA FlowInitParts == FlowInit => FlowParts
<1> SUFFICES ASSUME FlowInit PROVE FlowParts
  OBVIOUS
<1>1. \A f \in Flows : flow[f] = NewFlow /\ items[f] = {}
  BY DEF FlowInit
<1>2. HostsOK
  BY DEF FlowInit, HostsOK
<1>3. \A f \in Flows : RecordOK(f, flow[f]) /\ flow[f].st = "idle"
  BY <1>1, NewFlowOK
<1>4. \A f \in Flows : ItemsOK(f, items[f], flow[f])
  BY <1>1 DEF ItemsOK
<1>5. NeverSilent
  BY <1>3 DEF NeverSilent, Active
<1> QED
  BY <1>2, <1>3, <1>4, <1>5 DEF FlowParts

LEMMA FlowNextKeeps ==
  ASSUME FlowParts, [FlowNext]_flowVars
  PROVE  FlowParts'
<1>1. CASE FlowNext
  <2>1. ASSUME NEW f \in Flows,
               \/ BeginFlow(f) \/ SendData(f) \/ RdDue(f) \/ WindowDue(f)
               \/ \E i \in items[f] : ReceiveData(f, i) \/ ReceiveAck(f, i) \/ LoseItem(f, i)
        PROVE  FlowParts'
    BY <2>1, BeginFlowKeeps, SendDataKeeps, TimeKeeps, ReceiveDataKeeps, ReceiveAckKeeps,
       LoseItemKeeps
  <2>2. ASSUME NEW h \in Senders,
               SendNothing(h) \/ Unmatch(h) \/ \E r \in Receivers : Match(h, r)
        PROVE  FlowParts'
    BY <2>2, SendNothingKeeps, UnmatchKeeps, MatchKeeps
  <2> QED
    BY <1>1, <2>1, <2>2 DEF FlowNext
<1>2. CASE UNCHANGED flowVars
  BY <1>2 DEF flowVars, FlowParts, HostsOK, NeverSilent, Active
<1> QED
  BY <1>1, <1>2

(* pimflow.cpp: the inductive invariant holds, for any flows, sizes and
   window, and any packets lost. *)
THEOREM FlowInvariant == FlowSpec => []FlowIInv
<1>1. FlowInit => FlowParts
  BY FlowInitParts
<1>2. FlowParts /\ [FlowNext]_flowVars => FlowParts'
  BY FlowNextKeeps
<1>3. FlowParts => FlowIInv
  BY FlowIInvParts
<1> QED
  BY <1>1, <1>2, <1>3, PTL DEF FlowSpec

(* PIMFlow::receive_ack: what a sender thinks delivered was delivered, and a
   flow that is over was delivered whole. *)
THEOREM AckedWereReceived == FlowSpec => []AckedIsReceived
<1>1. FlowIInv => AckedIsReceived
  BY DEF FlowIInv
<1> QED
  BY <1>1, FlowInvariant, PTL

(* PimHost::send: a host with a flow it may send has a host_proc_event. *)
THEOREM SendersStayAwake == FlowSpec => []NeverSilent
<1>1. FlowIInv => NeverSilent
  BY DEF FlowIInv
<1> QED
  BY <1>1, FlowInvariant, PTL

(* PIMFlow::send_pending_data: a flow rests only after a full round of the
   packets that are not acknowledged. *)
THEOREM RestAfterFullRound == FlowSpec => []FullRoundBeforeRest
<1>1. FlowIInv => FullRoundBeforeRest
  BY DEF FlowIInv, FullRoundBeforeRest, RoundConsistent, SentSoFar, AtEnd, Unacked
<1> QED
  BY <1>1, FlowInvariant, PTL

=============================================================================
