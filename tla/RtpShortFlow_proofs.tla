------------------------- MODULE RtpShortFlow_proofs -------------------------
(***************************************************************************)
(* Proofs of the safety properties of RtpShortFlow, for any flows, any     *)
(* size of temp_pkt_buffer and any losses.  IInv of that module is         *)
(* inductive; there is a lemma for the receiver's record of a flow, one    *)
(* for the step that adds packets to it, and one per action.               *)
(***************************************************************************)
EXTENDS RtpShortFlow, FiniteSetTheorems, TLAPS

(* A flow has at least one packet and finitely many. *)
LEMMA PacketsFinite ==
  ASSUME NEW f \in Flows
  PROVE  /\ Size[f] \in Nat \ {0}
         /\ IsFiniteSet(Packets(f))
         /\ Cardinality(Packets(f)) = Size[f]
         /\ Packets(f) \subseteq Nat
         /\ Packets(f) # {}
<1>1. Size[f] \in Nat \ {0}
  BY SizeAssumption
<1>2. /\ IsFiniteSet(0..Size[f] - 1)
      /\ Cardinality(0..Size[f] - 1) = Size[f]
  <2> DEFINE n == Size[f] - 1
  <2>1. n \in Int /\ n >= 0 /\ n - 0 + 1 = Size[f]
    BY <1>1
  <2>2. IsFiniteSet(0..n) /\ Cardinality(0..n) = IF 0 > n THEN 0 ELSE n - 0 + 1
    <3> HIDE DEF n
    <3> QED
      BY <2>1, FS_Interval
  <2> QED
    BY <2>1, <2>2
<1>3. 0 \in Packets(f)
  BY <1>1 DEF Packets
<1> QED
  BY <1>1, <1>2, <1>3 DEF Packets

(* received_count still counts the bits after the packets S, new or not. *)
LEMMA RecordCounts ==
  ASSUME NEW f \in Flows, NEW r \in FlowState, NEW S \in SUBSET Packets(f),
         r.got \subseteq Packets(f), r.count = Cardinality(r.got)
  PROVE  /\ Record(r, S) \in FlowState
         /\ Record(r, S).got = r.got \cup S
         /\ Record(r, S).count = Cardinality(r.got \cup S)
         /\ Record(r, S).st = r.st
         /\ Record(r, S).rdCtrl = r.rdCtrl
         /\ Record(r, S).finishTimer = r.finishTimer
<1>1. IsFiniteSet(r.got) /\ IsFiniteSet(S \ r.got)
  <2>1. S \ r.got \in SUBSET Packets(f)
    OBVIOUS
  <2> QED
    BY <2>1, PacketsFinite, FS_Subset
<1>2. r.got \cap (S \ r.got) = {} /\ r.got \cup (S \ r.got) = r.got \cup S
  OBVIOUS
<1>3. /\ Cardinality(r.got) \in Nat
      /\ Cardinality(S \ r.got) \in Nat
  BY <1>1, FS_CardinalityType
<1>4. Cardinality(r.got \cup S) = Cardinality(r.got) + Cardinality(S \ r.got)
  <2>1. Cardinality(r.got \cup (S \ r.got))
          = Cardinality(r.got) + Cardinality(S \ r.got) - Cardinality(r.got \cap (S \ r.got))
    BY <1>1, FS_Union
  <2>2. Cardinality(r.got \cap (S \ r.got)) = 0
    BY <1>2, FS_EmptySet
  <2>3. Cardinality(r.got \cup (S \ r.got)) = Cardinality(r.got \cup S)
    BY <1>2, Zenon
  <2> QED
    BY <1>3, <2>1, <2>2, <2>3
<1>5. r.got \cup S \in SUBSET Nat
  BY PacketsFinite
<1>6. /\ r.got \cup S \in SUBSET Nat
      /\ r.count + Cardinality(S \ r.got) \in Nat
      /\ r.count + Cardinality(S \ r.got) = Cardinality(r.got \cup S)
  BY <1>3, <1>4, <1>5
<1> QED
  BY <1>6 DEF Record, FlowState

(* A record that counts its bits is finished with exactly all packets. *)
LEMMA FinishedMeansAll ==
  ASSUME NEW f \in Flows, NEW r \in FlowState,
         r.got \subseteq Packets(f), r.count = Cardinality(r.got)
  PROVE  /\ FinishIfComplete(r, f) \in FlowState
         /\ FinishIfComplete(r, f).got = r.got
         /\ FinishIfComplete(r, f).count = r.count
         /\ \/ /\ FinishIfComplete(r, f).st = "finished"
               /\ ~FinishIfComplete(r, f).rdCtrl
               /\ FinishIfComplete(r, f).finishTimer
               /\ r.got = Packets(f)
            \/ FinishIfComplete(r, f) = r
<1>1. CASE r.count >= Size[f]
  <2>1. r.got = Packets(f)
    <3>1. /\ IsFiniteSet(Packets(f))
          /\ Cardinality(Packets(f)) = Size[f]
          /\ Size[f] \in Nat
      BY PacketsFinite
    <3>2. Cardinality(r.got) \in Nat
      BY <3>1, FS_Subset, FS_CardinalityType
    <3>3. Cardinality(r.got) <= Size[f]
      BY <3>1, FS_Subset
    <3>4. Cardinality(r.got) = Size[f]
      BY <1>1, <3>1, <3>2, <3>3
    <3> QED
      BY <3>1, <3>4, FS_Subset
  <2> QED
    BY <1>1, <2>1 DEF FinishIfComplete, FlowState
<1>2. CASE ~(r.count >= Size[f])
  BY <1>2 DEF FinishIfComplete
<1> QED
  BY <1>1, <1>2

(* The packets of different flows and kinds are different. *)
LEMMA PacketKinds ==
  ASSUME NEW f, NEW g, NEW p, NEW q
  PROVE  /\ Rts(f) # Ack(g) /\ Rts(f) # Data(p) /\ Rts(f) # Token(p)
         /\ Ack(f) # Data(p) /\ Ack(f) # Token(p) /\ Data(p) # Token(q)
         /\ (Rts(f) = Rts(g) => f = g) /\ (Ack(f) = Ack(g) => f = g)
  BY DEF Rts, Ack, Data, Token

(* Packets on the wire are of the right type. *)
LEMMA PacketTypes ==
  /\ \A f \in Flows : /\ Rts(f) \in [kind : Kinds, flow : Flows, seq : Nat]
                      /\ Ack(f) \in [kind : Kinds, flow : Flows, seq : Nat]
                      /\ Rts(f).seq \in Packets(Rts(f).flow)
                      /\ Ack(f).seq \in Packets(Ack(f).flow)
  /\ \A p \in FlowPackets : /\ p[1] \in Flows
                            /\ p[2] \in Packets(p[1])
                            /\ Data(p) \in [kind : Kinds, flow : Flows, seq : Nat]
                            /\ Token(p) \in [kind : Kinds, flow : Flows, seq : Nat]
                            /\ Data(p).seq \in Packets(Data(p).flow)
                            /\ Token(p).seq \in Packets(Token(p).flow)
<1>1. ASSUME NEW f \in Flows
      PROVE  /\ Rts(f) \in [kind : Kinds, flow : Flows, seq : Nat]
             /\ Ack(f) \in [kind : Kinds, flow : Flows, seq : Nat]
             /\ Rts(f).seq \in Packets(Rts(f).flow)
             /\ Ack(f).seq \in Packets(Ack(f).flow)
  <2>1. 0 \in Packets(f)
    BY PacketsFinite DEF Packets
  <2> QED
    BY <2>1 DEF Rts, Ack, Kinds
<1>2. ASSUME NEW p \in FlowPackets
      PROVE  /\ p[1] \in Flows
             /\ p[2] \in Packets(p[1])
             /\ Data(p) \in [kind : Kinds, flow : Flows, seq : Nat]
             /\ Token(p) \in [kind : Kinds, flow : Flows, seq : Nat]
             /\ Data(p).seq \in Packets(Data(p).flow)
             /\ Token(p).seq \in Packets(Token(p).flow)
  <2>1. PICK f \in Flows : p \in {f} \X Packets(f)
    BY DEF FlowPackets
  <2>2. p[1] = f /\ p[2] \in Packets(f)
    BY <2>1
  <2>3. p[2] \in Nat
    BY <2>2, PacketsFinite
  <2> QED
    BY <2>2, <2>3 DEF Data, Token, Kinds
<1> QED
  BY <1>1, <1>2

-----------------------------------------------------------------------------
(* The step that adds the packets S to the record r of flow f, from
   rtp_receive_rts and rtp_receive_data. *)
LEMMA AcceptStep ==
  ASSUME IInv, NEW f \in Flows, NEW r \in FlowState, NEW S \in SUBSET Packets(f),
         NEW m \in net, m.kind # "ACK",
         r.st = "open", r.got = delivered[f], ~r.finishTimer,
         r.got \subseteq Packets(f), r.count = Cardinality(r.got),
         tx[f] = "active", Ack(f) \notin net, Rts(f) \notin net \ {m},
         Accept(f, r, S, m), UNCHANGED senderVars, UNCHANGED rxTokens,
         temp' \subseteq FlowPackets
  PROVE  IInv'
<1> DEFINE rec == Record(r, S)
           new == FinishIfComplete(rec, f)
<1>1. /\ rec \in FlowState
      /\ rec.got = r.got \cup S
      /\ rec.count = Cardinality(r.got \cup S)
      /\ rec.st = "open"
      /\ ~rec.finishTimer
      /\ rec.got \subseteq Packets(f)
      /\ rec.count = Cardinality(rec.got)
  <2>1. /\ rec \in FlowState
        /\ rec.got = r.got \cup S
        /\ rec.count = Cardinality(r.got \cup S)
        /\ rec.st = r.st
        /\ rec.finishTimer = r.finishTimer
    BY RecordCounts, Zenon
  <2> HIDE DEF rec
  <2>2. rec.st = "open" /\ ~rec.finishTimer
    BY <2>1
  <2>3. rec.got \subseteq Packets(f) /\ rec.count = Cardinality(rec.got)
    BY <2>1
  <2> QED
    BY <2>1, <2>2, <2>3
<1>2. /\ new \in FlowState
      /\ new.got = r.got \cup S
      /\ new.got \subseteq Packets(f)
      /\ new.count = Cardinality(new.got)
      /\ new.st \in {"open", "finished"}
      /\ new.st = "finished" => new.got = Packets(f)
      /\ new.rdCtrl => new.st = "open"
      /\ new.finishTimer <=> new.st = "finished"
  <2> HIDE DEF rec
  <2> QED
    BY <1>1, FinishedMeansAll
<1>3. /\ rx' = [rx EXCEPT ![f] = new]
      /\ delivered' = [delivered EXCEPT ![f] = @ \cup S]
      /\ net' = (net \ {m}) \cup (IF new.st = "finished" THEN {Ack(f)} ELSE {})
  BY DEF Accept
<1> HIDE DEF new, rec
<1>4. /\ rx \in [Flows -> FlowState] /\ delivered \in [Flows -> SUBSET Nat]
      /\ rx'[f] = new /\ delivered'[f] = new.got
      /\ \A g \in Flows \ {f} : rx'[g] = rx[g] /\ delivered'[g] = delivered[g]
  BY <1>2, <1>3 DEF IInv, TypeOK
<1>5. \A g \in Flows : /\ Rts(g) \in net' => Rts(g) \in net
                       /\ Ack(g) \in net' <=> \/ Ack(g) \in net
                                              \/ g = f /\ new.st = "finished"
  <2>1. \A g \in Flows : Ack(g) # m
    BY DEF Ack
  <2> QED
    BY <1>3, <2>1, PacketKinds
<1>6. Rts(f) \notin net'
  BY <1>3, PacketKinds
<1>7. TypeOK'
  <2>1. new.got \in SUBSET Nat
    BY <1>2, PacketsFinite
  <2>2. /\ rx' \in [Flows -> FlowState]
        /\ delivered' \in [Flows -> SUBSET Nat]
    BY <1>2, <1>3, <1>4, <2>1
  <2>3. /\ \A g \in Flows : rx'[g].got \subseteq Packets(g)
        /\ \A g \in Flows : delivered'[g] \subseteq Packets(g)
    BY <1>2, <1>4 DEF IInv, TypeOK
  <2>4. /\ net' \subseteq [kind : Kinds, flow : Flows, seq : Nat]
        /\ \A n \in net' : n.seq \in Packets(n.flow)
    BY <1>3, PacketTypes DEF IInv, TypeOK
  <2> QED
    BY <2>2, <2>3, <2>4 DEF IInv, TypeOK, senderVars, Packets
<1>8. RecordIsDelivered'
  BY <1>2, <1>4 DEF IInv, RecordIsDelivered, Packets
<1>9. OneLife'
  BY <1>2, <1>4, <1>5, <1>6 DEF IInv, OneLife, senderVars
<1>10. AckedIsDelivered'
  BY <1>2, <1>4, <1>5 DEF IInv, AckedIsDelivered, senderVars, Packets
<1>11. CountedOnce'
  BY <1>5 DEF IInv, CountedOnce, senderVars
<1>12. TimersMatchRecord'
  BY <1>2, <1>4 DEF IInv, TimersMatchRecord
<1> QED
  BY <1>7, <1>8, <1>9, <1>10, <1>11, <1>12 DEF IInv

-----------------------------------------------------------------------------
(* The other actions either leave the records of flows alone or end one. *)

(* A step that leaves the sender's flow table, the records and the count of
   finished flows alone, and neither sends nor makes up an RTS or ACK. *)
LEMMA QuietStep ==
  ASSUME IInv, UNCHANGED <<tx, finishedFlow, rx, delivered>>,
         txTokens' \subseteq FlowPackets, temp' \subseteq FlowPackets,
         rxTokens' \subseteq FlowPackets,
         \A m \in net' : m \in net \/ \E p \in FlowPackets : m \in {Data(p), Token(p)}
  PROVE  IInv'
<1>1. \A f \in Flows : /\ Rts(f) \in net' => Rts(f) \in net
                       /\ Ack(f) \in net' => Ack(f) \in net
  BY PacketKinds
<1>2. /\ net' \subseteq [kind : Kinds, flow : Flows, seq : Nat]
      /\ \A m \in net' : m.seq \in Packets(m.flow)
  BY PacketTypes DEF IInv, TypeOK
<1>3. TypeOK'
  BY <1>2 DEF IInv, TypeOK, Packets
<1>4. RecordIsDelivered'
  BY DEF IInv, RecordIsDelivered, Packets
<1>5. OneLife'
  BY <1>1 DEF IInv, OneLife
<1>6. AckedIsDelivered' /\ CountedOnce' /\ TimersMatchRecord'
  BY <1>1 DEF IInv, AckedIsDelivered, CountedOnce, TimersMatchRecord, Packets
<1> QED
  BY <1>3, <1>4, <1>5, <1>6 DEF IInv

LEMMA NewFlowStep ==
  ASSUME IInv, NEW f \in Flows, NewFlow(f)
  PROVE  IInv'
<1> USE DEF NewFlow, receiverVars
<1>1. \A g \in Flows : /\ Rts(g) \in net' <=> Rts(g) \in net \/ g = f
                       /\ Ack(g) \in net' <=> Ack(g) \in net
                       /\ tx'[g] = "finished" <=> tx[g] = "finished"
                       /\ tx'[g] = "absent" => tx[g] = "absent" /\ g # f
  BY PacketKinds DEF IInv, TypeOK
<1>2. TypeOK'
  <2>1. {f} \X Packets(f) \subseteq FlowPackets
    BY DEF FlowPackets
  <2> QED
    BY <2>1, PacketTypes DEF IInv, TypeOK, Packets
<1>3. RecordIsDelivered'
  BY DEF IInv, RecordIsDelivered, Packets
<1>4. OneLife'
  BY <1>1 DEF IInv, OneLife
<1>5. AckedIsDelivered'
  BY <1>1 DEF IInv, AckedIsDelivered, Packets
<1>6. CountedOnce'
  <2>1. {g \in Flows : tx'[g] = "finished"} = {g \in Flows : tx[g] = "finished"}
    BY <1>1
  <2> QED
    BY <1>1, <2>1 DEF IInv, CountedOnce
<1>7. TimersMatchRecord'
  BY DEF IInv, TimersMatchRecord
<1> QED
  BY <1>2, <1>3, <1>4, <1>5, <1>6, <1>7 DEF IInv

LEMMA ReceiveAckStep ==
  ASSUME IInv, NEW f \in Flows, ReceiveAck(f)
  PROVE  IInv'
<1> USE DEF ReceiveAck, receiverVars
<1>1. \A g \in Flows : /\ Rts(g) \in net' => Rts(g) \in net
                       /\ Ack(g) \in net' <=> Ack(g) \in net /\ g # f
                       /\ tx'[g] = "finished" <=> tx[g] = "finished" \/ g = f
                       /\ tx'[g] = "absent" => tx[g] = "absent"
  BY PacketKinds DEF IInv, TypeOK
<1>2. TypeOK'
  BY DEF IInv, TypeOK, Packets
<1>3. RecordIsDelivered'
  BY DEF IInv, RecordIsDelivered, Packets
<1>4. OneLife'
  BY <1>1 DEF IInv, OneLife
<1>5. AckedIsDelivered'
  BY <1>1 DEF IInv, AckedIsDelivered, Packets
<1>6. CountedOnce'
  <2> DEFINE finished == {g \in Flows : tx[g] = "finished"}
  <2>1. {g \in Flows : tx'[g] = "finished"} = finished \cup {f}
    BY <1>1
  <2>2. f \notin finished /\ finishedFlow = Cardinality(finished)
    BY DEF IInv, CountedOnce
  <2>3. Cardinality(finished \cup {f}) = Cardinality(finished) + 1
    <3>1. IsFiniteSet(finished)
      BY FlowsAssumption, FS_Subset
    <3> HIDE DEF finished
    <3> QED
      BY <2>2, <3>1, FS_AddElement
  <2>4. finishedFlow' = Cardinality({g \in Flows : tx'[g] = "finished"})
    BY <2>1, <2>2, <2>3
  <2>5. \A g \in Flows : ~(tx'[g] = "finished" /\ Ack(g) \in net')
    BY <1>1 DEF IInv, CountedOnce
  <2> QED
    BY <2>4, <2>5 DEF CountedOnce
<1>7. TimersMatchRecord'
  BY DEF IInv, TimersMatchRecord
<1> QED
  BY <1>2, <1>3, <1>4, <1>5, <1>6, <1>7 DEF IInv

LEMMA ReceiveRtsStep ==
  ASSUME IInv, NEW f \in Flows, ReceiveRts(f)
  PROVE  IInv'
<1>1. CASE rx[f].st = "absent"
  <2> DEFINE parked == {p \in temp : p[1] = f}
             S == {p[2] : p \in parked}
             r == [Absent EXCEPT !.st = "open", !.rdCtrl = TRUE]
  <2>1. /\ Accept(f, r, S, Rts(f))
        /\ temp' = temp \ parked
        /\ UNCHANGED senderVars /\ UNCHANGED rxTokens
    BY <1>1 DEF ReceiveRts
  <2>2. S \in SUBSET Packets(f)
    BY PacketTypes DEF IInv, TypeOK
  <2>3. temp' \subseteq FlowPackets
    BY <2>1 DEF IInv, TypeOK
  <2>4. /\ r \in FlowState
        /\ r.st = "open" /\ r.got = {} /\ r.count = 0 /\ ~r.finishTimer
    BY DEF Absent, FlowState
  <2>5. r.count = Cardinality(r.got)
    BY <2>4, FS_EmptySet
  <2>6. /\ Rts(f) \in net /\ Rts(f).kind # "ACK"
        /\ delivered[f] = {}
        /\ tx[f] = "active"
        /\ Ack(f) \notin net
    <3>1. Rts(f) \in net /\ delivered[f] = {} /\ tx[f] # "absent"
      BY DEF ReceiveRts, IInv, OneLife
    <3>2. ~(tx[f] = "finished" \/ Ack(f) \in net)
      BY <3>1, PacketsFinite DEF IInv, AckedIsDelivered
    <3> QED
      BY <3>1, <3>2 DEF IInv, TypeOK, Rts
  <2> HIDE DEF parked, S, r
  <2> QED
    BY <2>1, <2>2, <2>3, <2>4, <2>5, <2>6, AcceptStep
<1>2. CASE rx[f].st # "absent"
  BY <1>2, QuietStep DEF ReceiveRts, senderVars, IInv, TypeOK
<1> QED
  BY <1>1, <1>2

LEMMA ReceiveDataStep ==
  ASSUME IInv, NEW p \in FlowPackets, ReceiveData(p)
  PROVE  IInv'
<1> DEFINE f == p[1]
<1>1. f \in Flows /\ {p[2]} \in SUBSET Packets(f)
  BY PacketTypes
<1>2. CASE rx[f].st \in {"absent", "finished"}
  BY <1>2, QuietStep DEF ReceiveData, ParkData, DropData, senderVars, IInv, TypeOK
<1>3. CASE rx[f].st = "open"
  <2>1. /\ Accept(f, rx[f], {p[2]}, Data(p))
        /\ UNCHANGED senderVars /\ UNCHANGED <<temp, rxTokens>>
        /\ Data(p) \in net
    BY <1>3 DEF ReceiveData
  <2>2. /\ rx[f] \in FlowState
        /\ rx[f].got = delivered[f] /\ rx[f].got \subseteq Packets(f)
        /\ rx[f].count = Cardinality(rx[f].got)
        /\ ~rx[f].finishTimer
    BY <1>1, <1>3 DEF IInv, TypeOK, RecordIsDelivered, TimersMatchRecord
  <2>3. tx[f] = "active" /\ Ack(f) \notin net /\ Rts(f) \notin net
    BY <1>1, <1>3 DEF IInv, TypeOK, OneLife
  <2>4. Data(p).kind # "ACK" /\ temp' \subseteq FlowPackets
    BY <2>1 DEF Data, IInv, TypeOK
  <2> HIDE DEF f
  <2> QED
    BY <1>1, <1>3, <2>1, <2>2, <2>3, <2>4, AcceptStep
<1> QED
  BY <1>1, <1>2, <1>3 DEF IInv, TypeOK, FlowState

LEMMA RdCtrlTimeoutStep ==
  ASSUME IInv, NEW f \in Flows, RdCtrlTimeout(f)
  PROVE  IInv'
<1>1. CASE Size[f] < SmallFlowThre
  <2>1. Missing(f) \subseteq FlowPackets
    BY DEF Missing, FlowPackets
  <2> QED
    BY <1>1, <2>1, QuietStep, SizeAssumption
    DEF RdCtrlTimeout, senderVars, IInv, TypeOK
<1>2. CASE Size[f] >= SmallFlowThre
  <2>1. /\ rx' = [rx EXCEPT ![f].rdCtrl = FALSE]
        /\ UNCHANGED <<senderVars, temp, rxTokens, net, delivered>>
    BY <1>2, SizeAssumption DEF RdCtrlTimeout
  <2>2. /\ rx' \in [Flows -> FlowState]
        /\ \A g \in Flows : /\ rx'[g].st = rx[g].st
                             /\ rx'[g].got = rx[g].got
                             /\ rx'[g].count = rx[g].count
                             /\ rx'[g].finishTimer = rx[g].finishTimer
                             /\ rx'[g].rdCtrl => rx[g].rdCtrl
    BY <2>1 DEF IInv, TypeOK, FlowState
  <2>3. TypeOK'
    BY <2>1, <2>2 DEF IInv, TypeOK, senderVars, Packets
  <2>4. RecordIsDelivered' /\ OneLife'
    BY <2>1, <2>2 DEF IInv, RecordIsDelivered, OneLife, senderVars, Packets
  <2>5. AckedIsDelivered' /\ CountedOnce' /\ TimersMatchRecord'
    BY <2>1, <2>2
    DEF IInv, AckedIsDelivered, CountedOnce, TimersMatchRecord, senderVars, Packets
  <2> QED
    BY <2>3, <2>4, <2>5 DEF IInv
<1> QED
  BY <1>1, <1>2 DEF RdCtrlTimeout

LEMMA FinishTimeoutStep ==
  ASSUME IInv, NEW f \in Flows, FinishTimeout(f)
  PROVE  IInv'
<1>1. /\ rx' = [rx EXCEPT ![f] = Absent]
      /\ UNCHANGED <<senderVars, temp, rxTokens, net, delivered>>
      /\ rx[f].st = "finished"
  BY DEF FinishTimeout, IInv, TimersMatchRecord
<1>2. /\ Absent \in FlowState /\ Absent.got = {} /\ Absent.count = 0
      /\ Absent.st = "absent" /\ ~Absent.rdCtrl /\ ~Absent.finishTimer
  BY DEF Absent, FlowState
<1>3. /\ rx' \in [Flows -> FlowState]
      /\ rx'[f] = Absent
      /\ \A g \in Flows \ {f} : rx'[g] = rx[g]
  BY <1>1, <1>2 DEF IInv, TypeOK
<1>4. Absent.count = Cardinality(Absent.got)
  BY <1>2, FS_EmptySet
<1>5. TypeOK'
  BY <1>1, <1>2, <1>3 DEF IInv, TypeOK, senderVars, Packets
<1>6. RecordIsDelivered'
  BY <1>1, <1>2, <1>3, <1>4 DEF IInv, RecordIsDelivered, Packets
<1>7. OneLife'
  BY <1>1, <1>2, <1>3 DEF IInv, OneLife, senderVars
<1>8. AckedIsDelivered' /\ CountedOnce' /\ TimersMatchRecord'
  BY <1>1, <1>2, <1>3
  DEF IInv, AckedIsDelivered, CountedOnce, TimersMatchRecord, senderVars, Packets
<1> QED
  BY <1>5, <1>6, <1>7, <1>8 DEF IInv

-----------------------------------------------------------------------------
LEMMA InitIInv == Init => IInv
<1> SUFFICES ASSUME Init PROVE IInv
  OBVIOUS
<1> USE DEF Init
<1>1. Absent \in FlowState /\ Absent.got = {}
  BY DEF Absent, FlowState
<1>2. TypeOK
  BY <1>1 DEF TypeOK
<1>3. RecordIsDelivered
  BY FS_EmptySet DEF RecordIsDelivered, Absent
<1>4. OneLife /\ TimersMatchRecord
  BY DEF OneLife, TimersMatchRecord, Absent
<1>5. AckedIsDelivered
  BY DEF AckedIsDelivered
<1>6. CountedOnce
  <2>1. {f \in Flows : tx[f] = "finished"} = {}
    OBVIOUS
  <2> QED
    BY <2>1, FS_EmptySet DEF CountedOnce
<1> QED
  BY <1>2, <1>3, <1>4, <1>5, <1>6 DEF IInv

LEMMA StutterStep == IInv /\ UNCHANGED vars => IInv'
BY DEF vars, senderVars, receiverVars, IInv, TypeOK, RecordIsDelivered, OneLife,
       AckedIsDelivered, CountedOnce, TimersMatchRecord, Packets

LEMMA NextStep == IInv /\ [Next]_vars => IInv'
<1> SUFFICES ASSUME IInv, [Next]_vars PROVE IInv'
  OBVIOUS
<1> USE DEF senderVars, receiverVars
<1>1. ASSUME NEW f \in Flows, NewFlow(f) PROVE IInv'
  BY <1>1, NewFlowStep
<1>2. ASSUME NEW f \in Flows, ReceiveRts(f) PROVE IInv'
  BY <1>2, ReceiveRtsStep
<1>3. ASSUME NEW f \in Flows, ReceiveAck(f) PROVE IInv'
  BY <1>3, ReceiveAckStep
<1>4. ASSUME NEW f \in Flows, RdCtrlTimeout(f) PROVE IInv'
  BY <1>4, RdCtrlTimeoutStep
<1>5. ASSUME NEW f \in Flows, FinishTimeout(f) PROVE IInv'
  BY <1>5, FinishTimeoutStep
<1>6. ASSUME NEW p \in FlowPackets, SendData(p) PROVE IInv'
  BY <1>6, QuietStep DEF SendData, IInv, TypeOK
<1>7. ASSUME NEW p \in FlowPackets, ReceiveToken(p) PROVE IInv'
  BY <1>7, QuietStep DEF ReceiveToken, IInv, TypeOK
<1>8. ASSUME NEW p \in FlowPackets, ReceiveData(p) PROVE IInv'
  BY <1>8, ReceiveDataStep
<1>9. ASSUME NEW p \in FlowPackets, SendToken(p) PROVE IInv'
  BY <1>9, QuietStep DEF SendToken, IInv, TypeOK
<1>10. CASE DiscardTokens
  BY <1>10, QuietStep DEF DiscardTokens, IInv, TypeOK
<1>11. ASSUME NEW m \in net, Lose(m) PROVE IInv'
  BY <1>11, QuietStep DEF Lose, IInv, TypeOK
<1>12. CASE UNCHANGED vars
  BY <1>12, StutterStep
<1> QED
  BY <1>1, <1>2, <1>3, <1>4, <1>5, <1>6, <1>7, <1>8, <1>9, <1>10, <1>11, <1>12
  DEF Next

(* The strengthened invariant holds in every reachable state. *)
THEOREM IInvInvariant == Spec => []IInv
BY InitIInv, NextStep, PTL DEF Spec

(* Every variable keeps its type; in particular a packet is only ever sent,
   parked, asked for or recorded within its flow. *)
THEOREM TypeCorrect == Spec => []TypeOK
<1>1. IInv => TypeOK
  BY DEF IInv
<1> QED
  BY <1>1, IInvInvariant, PTL

(* rtp_receive_data acknowledges a flow, and rtp_receive_ack finishes it,
   only when every packet has been recorded. *)
THEOREM AckedDelivered == Spec => []AckedIsDelivered
<1>1. IInv => AckedIsDelivered
  BY DEF IInv
<1> QED
  BY <1>1, IInvInvariant, PTL

(* rtp_receive_ack counts a flow in finished_flow once. *)
THEOREM FinishedCountedOnce == Spec => []CountedOnce
<1>1. IInv => CountedOnce
  BY DEF IInv
<1> QED
  BY <1>1, IInvInvariant, PTL

(* rd_ctrl_timeout_handler and finish_timeout_handler fire only for flows
   that are in rx_flow_table. *)
THEOREM TimersSafe == Spec => []TimersMatchRecord
<1>1. IInv => TimersMatchRecord
  BY DEF IInv
<1> QED
  BY <1>1, IInvInvariant, PTL

=============================================================================
