---------------------------- MODULE PHost_proofs ----------------------------
(***************************************************************************)
(* Proofs of the safety properties of PHost, for any flows between any     *)
(* hosts, any sizes and any window.  IInv of that module is inductive.     *)
(* What it says of one flow at its receiver is a property of the flow's    *)
(* record, and there is a lemma for each operator that changes a record;   *)
(* the lemmas about the actions follow from those.                         *)
(***************************************************************************)
EXTENDS PHost, FiniteSetTheorems, WellFoundedInduction, TLAPS

-----------------------------------------------------------------------------
(* Numbers and sets *)

(* The least element of a set of natural numbers. *)
LEMMA MinOfNaturals ==
  ASSUME NEW S \in SUBSET Nat, S # {}
  PROVE  Min(S) \in S /\ \A y \in S : Min(S) <= y
<1> DEFINE Less == {p \in Nat \X Nat : p[1] < p[2]}
<1>1. IsWellFoundedOn(Less, Nat)
  BY NatLessThanWellFounded, Zenon DEF OpToRel
<1>2. PICK x \in S : \A y \in S : <<y, x>> \notin Less
  <2> HIDE DEF Less
  <2> QED
    BY <1>1, WFMin
<1>3. ASSUME NEW y \in S PROVE x <= y
  <2>1. <<y, x>> \notin Less
    BY <1>2
  <2>2. ~(<<y, x>>[1] < <<y, x>>[2])
    BY <2>1
  <2> QED
    BY <2>2
<1> QED
  BY <1>3 DEF Min

LEMMA MinOfTwo ==
  ASSUME NEW a \in Nat, NEW b \in Nat
  PROVE  Min({a, b}) = IF a <= b THEN a ELSE b
  BY MinOfNaturals

LEMMA MaxOfTwo ==
  ASSUME NEW a \in Int, NEW b \in Int
  PROVE  Max({a, b}) = IF a >= b THEN a ELSE b
<1> DEFINE m == IF a >= b THEN a ELSE b
<1>1. m \in {a, b} /\ \A y \in {a, b} : m >= y
  OBVIOUS
<1>2. \A x \in {a, b} : (\A y \in {a, b} : x >= y) => x = m
  OBVIOUS
<1> QED
  BY <1>1, <1>2 DEF Max

(* The sizes and the limits of a flow. *)
LEMMA Limits ==
  ASSUME NEW f \in Flows
  PROVE  /\ Size[f] \in Nat \ {0}
         /\ InitCapaSize(f) \in 0..Size[f] /\ InitCapaSize(f) \in 0..Initial
         /\ Initial \in Nat /\ Window \in Nat \ {0}
         /\ MaxGap \in Nat /\ Window + 1 <= MaxGap /\ Initial + 1 <= MaxGap
<1>1. Size[f] \in Nat \ {0} /\ Initial \in Nat /\ Window \in Nat \ {0}
  BY FlowsAssumption, WindowAssumption
<1>2. Max({Window, Initial}) = IF Window >= Initial THEN Window ELSE Initial
  BY <1>1, MaxOfTwo
<1> QED
  BY <1>1, <1>2 DEF InitCapaSize, MaxGap

(* A set of packets of a flow is finite, and what is left of the flow has the
   rest of its size. *)
LEMMA PacketSets ==
  ASSUME NEW f \in Flows, NEW S \in SUBSET Packets(f)
  PROVE  /\ IsFiniteSet(S)
         /\ Cardinality(S) \in 0..Size[f]
         /\ Cardinality(Packets(f) \ S) = Size[f] - Cardinality(S)
<1> DEFINE n == Size[f] - 1
<1>1. n \in Int /\ 0 <= n /\ n - 0 + 1 = Size[f] /\ Size[f] \in Nat
  BY Limits
<1>2. IsFiniteSet(0..n) /\ Cardinality(0..n) = Size[f]
  <2>1. 0 \in Int /\ ~(0 > n)
    BY <1>1
  <2> HIDE DEF n
  <2>2. IsFiniteSet(0..n) /\ Cardinality(0..n) = IF 0 > n THEN 0 ELSE n - 0 + 1
    BY <1>1, <2>1, FS_Interval
  <2> QED
    BY <1>1, <2>1, <2>2
<1>3. Packets(f) = 0..n
  BY DEF Packets
<1> HIDE DEF n
<1>4. IsFiniteSet(Packets(f)) /\ Cardinality(Packets(f)) = Size[f]
  BY <1>1, <1>2, <1>3
<1>5. IsFiniteSet(S) /\ Cardinality(S) <= Size[f] /\ Cardinality(S) \in Nat
  BY <1>4, FS_Subset, FS_CardinalityType
<1>6. Cardinality(Packets(f) \ S) = Cardinality(Packets(f)) - Cardinality(Packets(f) \cap S)
  BY <1>4, FS_Difference
<1>7. Packets(f) \cap S = S
  OBVIOUS
<1>8. Cardinality(Packets(f) \ S) = Size[f] - Cardinality(S)
  BY <1>4, <1>6, <1>7
<1>9. Cardinality(S) \in 0..Size[f]
  BY <1>1, <1>5
<1> QED
  BY <1>5, <1>8, <1>9

-----------------------------------------------------------------------------
(* The record of one flow *)

RecordOK(f, r) ==
  /\ r \in FlowState(f)
  /\ CountIsReceived(f, r)
  /\ GoalCoversUnasked(f, r)
  /\ UnaskedComeFirst(f, r)

Shape(r) ==
  r = [rtsReceived |-> r.rtsReceived, got |-> r.got, count |-> r.count,
       finished |-> r.finished, left |-> r.left, last |-> r.last, gap |-> r.gap,
       rd |-> r.rd, windowDue |-> r.windowDue, asked |-> r.asked]

(* A record is a flow's state if its fields are. *)
LEMMA StateFields ==
  ASSUME NEW f, NEW r
  PROVE  r \in FlowState(f) <=>
           /\ Shape(r)
           /\ r.rtsReceived \in BOOLEAN /\ r.finished \in BOOLEAN /\ r.windowDue \in BOOLEAN
           /\ r.got \in SUBSET Packets(f) /\ r.asked \in SUBSET Packets(f)
           /\ r.count \in Nat /\ r.left \in Nat /\ r.last \in -1..Size[f] - 1
           /\ r.gap \in 0..MaxGap /\ r.rd \in {"off", "set", "due"}
  BY DEF Shape, FlowState

LEMMA NewFlowOK ==
  ASSUME NEW f \in Flows
  PROVE  RecordOK(f, NewFlow(f)) /\ ~NewFlow(f).rtsReceived /\ ~NewFlow(f).finished
<1> DEFINE r == NewFlow(f)
<1>1. /\ r.rtsReceived = FALSE /\ r.got = {} /\ r.count = 0 /\ r.finished = FALSE
      /\ r.left = Size[f] /\ r.last = -1 /\ r.gap = InitCapaSize(f) + 1
      /\ r.rd = "off" /\ r.windowDue = FALSE /\ r.asked = {}
  BY DEF NewFlow
<1>2. r \in FlowState(f)
  <2>1. r.gap \in 0..MaxGap /\ r.left \in Nat /\ r.last \in -1..Size[f] - 1
    BY <1>1, Limits
  <2>2. Shape(r)
    BY DEF NewFlow, Shape
  <2> HIDE DEF r
  <2>3. r.got \in SUBSET Packets(f) /\ r.asked \in SUBSET Packets(f) /\ r.count \in Nat
    BY <1>1
  <2> QED
    BY <1>1, <2>1, <2>2, <2>3, StateFields
<1> HIDE DEF r
<1>3. Missing(f, r) = Packets(f) /\ Unasked(f, r) = Packets(f) \ {}
  BY <1>1 DEF Missing, Unasked
<1>4. Cardinality({}) = 0 /\ Cardinality(Packets(f) \ {}) = Size[f]
  BY FS_EmptySet, PacketSets, Limits
<1>5. Packets(f) # {}
  BY Limits DEF Packets
<1>6. CountIsReceived(f, r) /\ GoalCoversUnasked(f, r) /\ UnaskedComeFirst(f, r)
  BY <1>1, <1>3, <1>4, <1>5, Limits DEF CountIsReceived, GoalCoversUnasked, UnaskedComeFirst
<1> QED
  BY <1>1, <1>2, <1>6 DEF RecordOK, r

(* set_capability_count: the first packets count as asked for. *)
LEMMA OpenedOK ==
  ASSUME NEW f \in Flows, NEW old, RecordOK(f, old)
  PROVE  /\ RecordOK(f, Opened(old, f))
         /\ Opened(old, f).rtsReceived /\ Opened(old, f).got = old.got
         /\ Opened(old, f).finished = old.finished
<1> DEFINE r == Opened(old, f)
           n == InitCapaSize(f)
<1>1. old \in FlowState(f) /\ Shape(old)
  BY StateFields DEF RecordOK
<1>2. /\ r.rtsReceived = TRUE /\ r.got = old.got /\ r.count = old.count
      /\ r.finished = old.finished /\ r.left = Size[f] - n /\ r.last = n - 1
      /\ r.gap = old.gap /\ r.rd = IF n = Size[f] THEN "set" ELSE "off"
      /\ r.windowDue = old.windowDue /\ r.asked = 0..n - 1
      /\ Shape(r)
  <2> DEFINE a == TRUE
             d == IF n = Size[f] THEN "set" ELSE "off"
             b == Size[f] - n
             c == n - 1
             e == 0..n - 1
  <2>1. r = [old EXCEPT !.rtsReceived = a, !.left = b, !.last = c, !.rd = d, !.asked = e]
    BY DEF Opened
  <2> HIDE DEF r, a, b, c, d, e
  <2>2. r.rtsReceived = a /\ r.left = b /\ r.last = c /\ r.rd = d /\ r.asked = e
        /\ r.got = old.got /\ r.count = old.count /\ r.finished = old.finished
        /\ r.gap = old.gap /\ r.windowDue = old.windowDue /\ Shape(r)
    BY <1>1, <2>1 DEF Shape, FlowState
  <2> QED
    BY <2>2 DEF a, b, c, d, e
<1> HIDE DEF r, n
<1>3. n \in 0..Size[f] /\ Size[f] \in Nat \ {0}
  BY Limits DEF n
<1>4. r \in FlowState(f)
  <2>1. /\ r.left \in Nat /\ r.last \in -1..Size[f] - 1 /\ r.asked \in SUBSET Packets(f)
        /\ r.rd \in {"off", "set", "due"}
    BY <1>2, <1>3 DEF Packets
  <2> QED
    BY <1>1, <1>2, <2>1, StateFields
<1>5. CountIsReceived(f, r)
  BY <1>2 DEF RecordOK, CountIsReceived, Missing
<1>6. GoalCoversUnasked(f, r)
  <2> DEFINE rest == Packets(f) \ (0..n - 1)
  <2>1. 0..n - 1 \in SUBSET Packets(f) /\ rest \in SUBSET Packets(f)
    BY <1>3 DEF Packets
  <2>2. Cardinality(0..n - 1) = n
    <3>1. n - 1 \in Int /\ 0 \in Int /\ (0 > n - 1 => n = 0) /\ n - 1 - 0 + 1 = n
      BY <1>3
    <3> QED
      BY <1>3, <3>1, FS_Interval
  <2>3. Cardinality(rest) = Size[f] - n
    BY <2>1, <2>2, PacketSets
  <2>4. Unasked(f, r) \in SUBSET rest /\ IsFiniteSet(rest)
    BY <1>2, <2>1, PacketSets DEF Unasked, Missing
  <2>5. Cardinality(Unasked(f, r)) <= r.left
    BY <1>2, <2>3, <2>4, FS_Subset
  <2> QED
    BY <1>2, <1>3, <2>5 DEF GoalCoversUnasked
<1>7. UnaskedComeFirst(f, r)
  <2>1. ASSUME NEW p \in Unasked(f, r), NEW q \in Missing(f, r) \cap r.asked
        PROVE  Turn(f, r, p) < Turn(f, r, q)
    BY <1>2, <1>3 DEF Unasked, Missing, Packets, Turn
  <2> QED
    BY <2>1 DEF UnaskedComeFirst
<1> QED
  BY <1>2, <1>4, <1>5, <1>6, <1>7 DEF RecordOK, r

(* A record that has more of its packets, or another timer that is not "off",
   asks for no more than before. *)
LEMMA GrowthOK ==
  ASSUME NEW f \in Flows, NEW old, RecordOK(f, old), NEW r,
         old.got \subseteq r.got, r.asked = old.asked, r.last = old.last, r.left = old.left,
         r.rd = "off" <=> old.rd = "off"
  PROVE  GoalCoversUnasked(f, r) /\ UnaskedComeFirst(f, r)
<1>1. Unasked(f, r) \subseteq Unasked(f, old) /\ Unasked(f, old) \in SUBSET Packets(f)
      /\ Missing(f, r) \subseteq Missing(f, old)
  BY DEF Unasked, Missing
<1>2. Cardinality(Unasked(f, r)) <= Cardinality(Unasked(f, old))
  BY <1>1, PacketSets, FS_Subset
<1>3. Cardinality(Unasked(f, r)) \in Nat /\ Cardinality(Unasked(f, old)) \in Nat
  BY <1>1, PacketSets, FS_CardinalityType, FS_Subset
<1>4. GoalCoversUnasked(f, r)
  <2>1. old.left \in Nat
    BY StateFields DEF RecordOK
  <2> QED
    BY <1>2, <1>3, <2>1 DEF RecordOK, GoalCoversUnasked
<1>5. UnaskedComeFirst(f, r)
  BY <1>1 DEF RecordOK, UnaskedComeFirst, Turn
<1> QED
  BY <1>4, <1>5

(* receive of a data packet. *)
LEMMA ReceivedOK ==
  ASSUME NEW f \in Flows, NEW old, RecordOK(f, old), NEW i \in Item(f)
  PROVE  /\ RecordOK(f, Received(old, f, i))
         /\ Received(old, f, i).rtsReceived = old.rtsReceived
         /\ Received(old, f, i).got = old.got \cup {i.seq}
         /\ Received(old, f, i).finished <=> Received(old, f, i).got = Packets(f)
<1> DEFINE r == Received(old, f, i)
           a == old.got \cup {i.seq}
           b == IF i.seq \in old.got THEN old.count ELSE old.count + 1
           c == b >= Size[f]
           d == Min({old.gap, i.age})
<1>1. old \in FlowState(f) /\ old.got \in SUBSET Packets(f) /\ old.count = Cardinality(old.got)
      /\ old.count \in Nat /\ old.gap \in 0..MaxGap
  BY StateFields DEF RecordOK, CountIsReceived
<1>2. i.seq \in Packets(f) /\ i.age \in 1..MaxGap /\ MaxGap \in Nat /\ Size[f] \in Nat \ {0}
  BY Limits DEF Item
<1>3. /\ r.got = a /\ r.count = b /\ r.finished = c /\ r.gap = d
      /\ r.rtsReceived = old.rtsReceived /\ r.left = old.left /\ r.last = old.last
      /\ r.rd = old.rd /\ r.windowDue = old.windowDue /\ r.asked = old.asked
      /\ Shape(r)
  <2>1. r = [old EXCEPT !.got = a, !.count = b, !.finished = c, !.gap = d]
    BY DEF Received
  <2> HIDE DEF r, a, b, c, d
  <2> QED
    BY <1>1, <2>1 DEF Shape, FlowState
<1>4. a \in SUBSET Packets(f) /\ Cardinality(a) = b /\ b \in Nat
  <2>1. IsFiniteSet(old.got)
    BY <1>1, PacketSets
  <2>2. Cardinality(a) = IF i.seq \in old.got THEN Cardinality(old.got) ELSE Cardinality(old.got) + 1
    BY <2>1, FS_AddElement
  <2> QED
    BY <1>1, <1>2, <2>2
<1>5. d \in 0..MaxGap
  <2>1. old.gap \in Nat /\ i.age \in Nat
    BY <1>1, <1>2
  <2>2. d = IF old.gap <= i.age THEN old.gap ELSE i.age
    BY <2>1, MinOfTwo
  <2> QED
    BY <1>1, <1>2, <2>2
<1>6. c <=> Packets(f) \ a = {}
  <2>1. Cardinality(Packets(f) \ a) = Size[f] - b /\ IsFiniteSet(Packets(f) \ a)
    BY <1>4, PacketSets
  <2>2. Packets(f) \ a = {} <=> Size[f] - b = 0
    BY <2>1, FS_EmptySet
  <2>3. b \in 0..Size[f]
    BY <1>4, PacketSets
  <2> QED
    BY <1>2, <2>2, <2>3
<1>7. c \in BOOLEAN
  OBVIOUS
<1> HIDE DEF r, a, b, c, d
<1>8. r \in FlowState(f)
  BY <1>1, <1>3, <1>4, <1>5, <1>7, StateFields
<1>9. CountIsReceived(f, r) /\ (r.finished <=> r.got = Packets(f))
  BY <1>3, <1>4, <1>6 DEF CountIsReceived, Missing
<1>10. GoalCoversUnasked(f, r) /\ UnaskedComeFirst(f, r)
  <2>1. old.got \subseteq r.got
    BY <1>3 DEF a
  <2> QED
    BY <1>3, <2>1, GrowthOK
<1> QED
  BY <1>3, <1>8, <1>9, <1>10 DEF RecordOK, r, a

(* The timers. *)
LEMMA TimerOK ==
  ASSUME NEW f \in Flows, NEW old, RecordOK(f, old), NEW r,
         \/ old.rd = "set" /\ r = [old EXCEPT !.rd = "due"]
         \/ r = [old EXCEPT !.windowDue = TRUE]
  PROVE  /\ RecordOK(f, r)
         /\ r.rtsReceived = old.rtsReceived /\ r.got = old.got /\ r.finished = old.finished
<1> DEFINE a == r.rd
           b == r.windowDue
<1>1. old \in FlowState(f)
  BY DEF RecordOK
<1>2. /\ r.rtsReceived = old.rtsReceived /\ r.got = old.got /\ r.finished = old.finished
      /\ r.count = old.count /\ r.gap = old.gap
      /\ r.asked = old.asked /\ r.last = old.last /\ r.left = old.left
      /\ a \in {"off", "set", "due"} /\ b \in BOOLEAN
      /\ a = "off" <=> old.rd = "off"
  BY <1>1 DEF FlowState
<1>3. Shape(r)
  <2> DEFINE yes == TRUE
  <2>1. CASE r = [old EXCEPT !.rd = "due"]
    BY <1>1, <2>1 DEF Shape, FlowState
  <2>2. CASE r = [old EXCEPT !.windowDue = yes]
    <3> HIDE DEF yes
    <3> QED
      BY <1>1, <2>2 DEF Shape, FlowState
  <2> QED
    BY <2>1, <2>2
<1>4. r \in FlowState(f)
  BY <1>1, <1>2, <1>3, StateFields
<1>5. CountIsReceived(f, r) /\ GoalCoversUnasked(f, r) /\ UnaskedComeFirst(f, r)
  <2>1. old.got \subseteq r.got
    BY <1>2
  <2>2. CountIsReceived(f, r)
    BY <1>2 DEF RecordOK, CountIsReceived, Missing
  <2> QED
    BY <1>2, <2>1, <2>2, GrowthOK
<1> QED
  BY <1>2, <1>4, <1>5 DEF RecordOK

(* send_capability comes to a flow that is not finished: a new round covers
   what is missing. *)
LEMMA VisitedOK ==
  ASSUME NEW f \in Flows, NEW old, RecordOK(f, old), ~old.finished
  PROVE  /\ RecordOK(f, Visited(old, f))
         /\ Visited(old, f).rtsReceived = old.rtsReceived /\ Visited(old, f).got = old.got
         /\ Visited(old, f).finished = old.finished
         /\ old.rd # "set" => Visited(old, f).rd = "off"
<1>1. old \in FlowState(f) /\ old.got \in SUBSET Packets(f) /\ old.count = Cardinality(old.got)
      /\ old.left \in Nat /\ old.rd \in {"off", "set", "due"} /\ Missing(f, old) # {}
  BY StateFields DEF RecordOK, CountIsReceived
<1>2. CASE old.rd # "due"
  BY <1>1, <1>2 DEF Visited
<1>3. CASE old.rd = "due"
  <2> DEFINE r == Visited(old, f)
             b == old.left + RemainingPkts(old, f)
             c == {}
  <2>1. /\ r.rd = "off" /\ r.left = b /\ r.asked = c
        /\ r.got = old.got /\ r.count = old.count /\ r.finished = old.finished
        /\ r.gap = old.gap /\ r.windowDue = old.windowDue /\ r.last = old.last
        /\ r.rtsReceived = old.rtsReceived /\ Shape(r)
    <3>1. r = [old EXCEPT !.rd = "off", !.left = b, !.asked = c]
      BY <1>3 DEF Visited
    <3> HIDE DEF r, b, c
    <3> QED
      BY <1>1, <3>1 DEF Shape, FlowState
  <2>2. Cardinality(Missing(f, old)) = Size[f] - old.count /\ Size[f] - old.count \in Nat \ {0}
    <3>1. Cardinality(Missing(f, old)) = Size[f] - old.count /\ old.count \in 0..Size[f]
          /\ IsFiniteSet(Missing(f, old)) /\ Size[f] \in Nat
      BY <1>1, PacketSets, Limits DEF Missing
    <3>2. Cardinality(Missing(f, old)) # 0
      BY <1>1, <3>1, FS_EmptySet
    <3> QED
      BY <3>1, <3>2
  <2>3. RemainingPkts(old, f) = Size[f] - old.count
    <3>1. 0 \in Int /\ Size[f] - old.count \in Int
      BY <2>2
    <3>2. RemainingPkts(old, f) = IF 0 >= Size[f] - old.count THEN 0 ELSE Size[f] - old.count
      BY <3>1, MaxOfTwo DEF RemainingPkts
    <3> QED
      BY <2>2, <3>2
  <2>4. b \in Nat /\ b > 0 /\ Cardinality(Missing(f, old)) <= b
    BY <1>1, <2>2, <2>3
  <2>5. r \in FlowState(f)
    <3> HIDE DEF r, b
    <3>1. r.asked \in SUBSET Packets(f)
      BY <2>1
    <3> HIDE DEF c
    <3> QED
      BY <1>1, <2>1, <2>4, <3>1, StateFields
  <2> HIDE DEF r, b
  <2>6. Missing(f, r) = Missing(f, old) /\ Unasked(f, r) = Missing(f, old)
        /\ Missing(f, r) \cap r.asked = {}
    BY <2>1 DEF Missing, Unasked
  <2>7. CountIsReceived(f, r) /\ GoalCoversUnasked(f, r) /\ UnaskedComeFirst(f, r)
    BY <2>1, <2>4, <2>6 DEF RecordOK, CountIsReceived, GoalCoversUnasked, UnaskedComeFirst
  <2> QED
    BY <2>1, <2>5, <2>7 DEF RecordOK, r
<1> QED
  BY <1>2, <1>3

(* get_next_capa_seq_num: the missing packet whose turn it is. *)
LEMMA NextIsFirstInTurn ==
  ASSUME NEW f \in Flows, NEW r \in FlowState(f), Missing(f, r) # {}
  PROVE  /\ NextCapaSeqNum(r, f) \in Missing(f, r)
         /\ \A q \in Missing(f, r) : Turn(f, r, NextCapaSeqNum(r, f)) <= Turn(f, r, q)
<1> DEFINE start == (r.last + 1) % Size[f]
           above == {s \in start..Size[f] - 1 : s \notin r.got}
           all == {s \in 0..Size[f] : s \notin r.got}
           next == NextCapaSeqNum(r, f)
<1>1. Size[f] \in Nat \ {0} /\ r.last \in -1..Size[f] - 1 /\ r.got \in SUBSET Packets(f)
  BY Limits, StateFields
<1>2. start = IF r.last = Size[f] - 1 THEN 0 ELSE r.last + 1
  BY <1>1
<1>3. start \in 0..Size[f] - 1
  BY <1>1, <1>2
<1>4. Missing(f, r) = {s \in 0..Size[f] - 1 : s \notin r.got}
  BY DEF Missing, Packets
<1>5. next = IF above # {} THEN Min(above) ELSE Min(all)
  BY DEF NextCapaSeqNum, ReceivedUntil
<1>6. above \in SUBSET Nat /\ all \in SUBSET Nat
  BY <1>1, <1>3
<1> HIDE DEF start, next
<1>7. CASE above # {}
  <2>1. next \in above /\ \A q \in above : next <= q
    <3> HIDE DEF above
    <3> QED
      BY <1>5, <1>6, <1>7, MinOfNaturals
  <2>2. next \in Missing(f, r)
    BY <1>1, <1>3, <1>4, <2>1
  <2>3. ASSUME NEW q \in Missing(f, r)
        PROVE  Turn(f, r, next) <= Turn(f, r, q)
    <3>1. q \in above \/ (q < start /\ q \in 0..Size[f] - 1)
      BY <1>1, <1>3, <1>4
    <3>2. next \in start..Size[f] - 1
      BY <2>1
    <3>3. CASE q \in above
      <4>1. next <= q /\ q \in start..Size[f] - 1
        BY <2>1, <3>3
      <4> QED
        BY <1>1, <1>2, <3>2, <4>1 DEF Turn
    <3>4. CASE q < start /\ q \in 0..Size[f] - 1
      BY <1>1, <1>2, <3>2, <3>4 DEF Turn
    <3> QED
      BY <3>1, <3>3, <3>4
  <2> QED
    BY <2>2, <2>3 DEF next
<1>8. CASE above = {}
  <2>1. all # {}
    BY <1>4, <1>1
  <2>2. next \in all /\ \A q \in all : next <= q
    <3> HIDE DEF above, all
    <3> QED
      BY <1>5, <1>6, <1>8, <2>1, MinOfNaturals
  <2>3. Missing(f, r) \subseteq all
    BY <1>1, <1>4
  <2>4. ASSUME NEW q \in Missing(f, r) PROVE q < start /\ q \in 0..Size[f] - 1
    BY <1>1, <1>3, <1>4, <1>8
  <2>5. next \in Missing(f, r)
    <3>1. PICK q \in Missing(f, r) : TRUE
      OBVIOUS
    <3>2. next <= q /\ q < Size[f] /\ q \in Nat
      BY <1>1, <2>2, <2>3, <2>4, <3>1
    <3>3. next \in 0..Size[f] /\ next \notin r.got
      BY <2>2
    <3> QED
      BY <1>1, <1>4, <3>2, <3>3
  <2>6. ASSUME NEW q \in Missing(f, r)
        PROVE  Turn(f, r, next) <= Turn(f, r, q)
    <3>1. next <= q /\ next < start /\ q < start /\ next \in Nat /\ q \in Nat
      BY <2>2, <2>3, <2>4, <2>5
    <3> QED
      BY <1>1, <1>2, <3>1 DEF Turn
  <2> QED
    BY <2>5, <2>6 DEF next
<1> QED
  BY <1>7, <1>8

(* send_capability: the packet that was asked for goes to the end of the turns. *)
LEMMA ChargedOK ==
  ASSUME NEW f \in Flows, NEW old, RecordOK(f, old), ~old.finished, old.rd = "off"
  PROVE  /\ RecordOK(f, Charged(old, f))
         /\ Charged(old, f).rtsReceived = old.rtsReceived /\ Charged(old, f).got = old.got
         /\ Charged(old, f).finished = old.finished
         /\ Charged(old, f).last \in Packets(f)
<1> DEFINE s == NextCapaSeqNum(old, f)
           r == Charged(old, f)
           b == old.asked \cup {s}
           c == Relaxed(old.gap) + 1
           d == FALSE
           e == old.left - 1
           g == IF old.left = 1 THEN "set" ELSE "off"
<1>1. old \in FlowState(f) /\ old.got \in SUBSET Packets(f) /\ old.asked \in SUBSET Packets(f)
      /\ old.left \in Nat /\ old.gap \in 0..MaxGap /\ old.last \in -1..Size[f] - 1
      /\ Missing(f, old) # {}
  BY StateFields DEF RecordOK, CountIsReceived
<1>2. old.left > 0 /\ Cardinality(Unasked(f, old)) <= old.left
  BY DEF RecordOK, GoalCoversUnasked
<1>3. s \in Missing(f, old) /\ \A q \in Missing(f, old) : Turn(f, old, s) <= Turn(f, old, q)
  BY <1>1, NextIsFirstInTurn
<1>4. s \in Packets(f) /\ Size[f] \in Nat \ {0} /\ Packets(f) = 0..Size[f] - 1
  BY <1>3, Limits DEF Missing, Packets
<1>5. /\ r.last = s /\ r.asked = b /\ r.gap = c /\ r.windowDue = d /\ r.left = e /\ r.rd = g
      /\ r.got = old.got /\ r.count = old.count /\ r.finished = old.finished
      /\ r.rtsReceived = old.rtsReceived /\ Shape(r)
  <2>1. r = [old EXCEPT !.last = s, !.asked = b, !.gap = c, !.windowDue = d,
                        !.left = e, !.rd = g]
    BY DEF Charged
  <2> HIDE DEF s, r, b, c, d, e, g
  <2> QED
    BY <1>1, <2>1 DEF Shape, FlowState
<1>6. c \in 0..MaxGap
  BY <1>1, Limits DEF Relaxed
<1> HIDE DEF s, r, c
<1>7. r \in FlowState(f)
  <2>1. r.last \in -1..Size[f] - 1 /\ e \in Nat /\ b \in SUBSET Packets(f)
    BY <1>1, <1>2, <1>4, <1>5
  <2> QED
    BY <1>1, <1>5, <1>6, <2>1, StateFields
<1>8. Missing(f, r) = Missing(f, old) /\ Unasked(f, r) = Unasked(f, old) \ {s}
  BY <1>5 DEF Missing, Unasked
<1>9. IsFiniteSet(Unasked(f, old)) /\ Cardinality(Unasked(f, old)) \in Nat
  BY PacketSets, FS_CardinalityType DEF Unasked, Missing
<1>10. Cardinality(Unasked(f, r)) <= e
  <2>1. CASE s \in Unasked(f, old)
    <3>1. Cardinality(Unasked(f, old) \ {s}) = Cardinality(Unasked(f, old)) - 1
      BY <1>9, <2>1, FS_RemoveElement
    <3> QED
      BY <1>1, <1>2, <1>8, <1>9, <3>1
  <2>2. CASE s \notin Unasked(f, old)
    <3>1. s \in Missing(f, old) \cap old.asked
      BY <1>3, <2>2 DEF Unasked
    <3>2. ASSUME NEW p \in Unasked(f, old) PROVE FALSE
      <4>1. Turn(f, old, p) < Turn(f, old, s)
        BY <3>1 DEF RecordOK, UnaskedComeFirst
      <4>2. Turn(f, old, s) <= Turn(f, old, p)
        BY <1>3 DEF Unasked
      <4>3. p \in Nat /\ s \in Nat
        BY <1>4 DEF Unasked, Missing
      <4> QED
        BY <1>1, <1>4, <4>1, <4>2, <4>3 DEF Turn
    <3>3. Unasked(f, r) = {}
      BY <1>8, <3>2
    <3> QED
      BY <1>1, <1>2, <3>3, FS_EmptySet
  <2> QED
    BY <2>1, <2>2
<1>11. GoalCoversUnasked(f, r)
  BY <1>1, <1>2, <1>5, <1>10 DEF GoalCoversUnasked
<1>12. UnaskedComeFirst(f, r)
  <2>1. ASSUME NEW p \in Unasked(f, r), NEW q \in Missing(f, r) \cap r.asked
        PROVE  Turn(f, r, p) < Turn(f, r, q)
    <3>1. p \in Unasked(f, old) /\ p # s /\ p \in Missing(f, old) /\ q \in Missing(f, old)
      BY <1>8 DEF Unasked
    <3>2. p \in 0..Size[f] - 1 /\ q \in 0..Size[f] - 1 /\ s \in 0..Size[f] - 1
      BY <1>4, <3>1 DEF Missing
    <3>3. CASE q = s
      BY <1>4, <1>5, <3>1, <3>2, <3>3 DEF Turn
    <3>4. CASE q # s
      <4>1. q \in Missing(f, old) \cap old.asked
        BY <1>5, <3>1, <3>4
      <4>2. Turn(f, old, p) < Turn(f, old, q)
        BY <3>1, <4>1 DEF RecordOK, UnaskedComeFirst
      <4>3. Turn(f, old, s) <= Turn(f, old, p)
        BY <1>3, <3>1
      <4> QED
        BY <1>1, <1>4, <1>5, <3>1, <3>2, <3>4, <4>2, <4>3 DEF Turn
    <3> QED
      BY <3>3, <3>4
  <2> QED
    BY <2>1 DEF UnaskedComeFirst
<1>13. CountIsReceived(f, r)
  BY <1>5, <1>8 DEF RecordOK, CountIsReceived
<1> QED
  BY <1>4, <1>5, <1>7, <1>11, <1>12, <1>13 DEF RecordOK, r

-----------------------------------------------------------------------------
(* The invariant flow by flow *)

FlowOK(f) ==
  /\ items[f] \subseteq Item(f)
  /\ rx[f] \in FlowState(f)
  /\ st[f] # "finished" => RecordOK(f, rx[f])
  /\ st[f] = "finished" => items[f] = {} /\ rx[f].rtsReceived /\ rx[f].finished

HostsOK ==
  /\ st \in [Flows -> {"idle", "started", "finished"}]
  /\ DOMAIN items = Flows /\ DOMAIN rx = Flows
  /\ rtses \subseteq Flows
  /\ acks \subseteq Flows
  /\ hostProc \in [Senders -> BOOLEAN]
  /\ capaProc \in [Receivers -> {"none", "now", "timeout"}]
  /\ holdOn \in [Receivers -> 0..Initial]

ByFlow ==
  /\ HostsOK
  /\ \A f \in Flows : FlowOK(f)
  /\ AckedIsReceived
  /\ ReceiverAwake
  /\ SenderAwake

LEMMA InvariantByFlow == IInv <=> ByFlow
  BY DEF IInv, ByFlow, HostsOK, FlowOK, RecordOK, TypeOK, FlowsConsistent, FinishedIsClosed

(* What is left to show of a step that leaves the hosts of the flows alone. *)
LEMMA OtherFlows ==
  ASSUME ByFlow, NEW f \in Flows, NEW S, items' = [items EXCEPT ![f] = S], UNCHANGED <<st, rx>>,
         S \subseteq Item(f), st[f] = "finished" => S = {}
  PROVE  DOMAIN items' = Flows /\ \A g \in Flows : FlowOK(g)'
<1>1. DOMAIN items' = Flows /\ items'[f] = S /\ \A g \in Flows \ {f} : items'[g] = items[g]
  BY DEF ByFlow, HostsOK
<1>2. \A g \in Flows : FlowOK(g)
  BY DEF ByFlow
<1> QED
  BY <1>1, <1>2 DEF FlowOK

(* No sender needs to be woken up unless it gets a capability. *)
LEMMA SendersStayAwake ==
  ASSUME ByFlow, hostProc' = hostProc, \A g \in Flows : Held(g)' # {} => Held(g) # {}
  PROVE  SenderAwake'
<1>1. \A h \in Senders : SendChoices(h)' # {} => SendChoices(h) # {}
  BY DEF SendChoices
<1> QED
  BY <1>1 DEF ByFlow, SenderAwake

(* No receiver needs an event unless a flow opens. *)
LEMMA ReceiversStayAwake ==
  ASSUME ByFlow, capaProc' = capaProc,
         \A g \in Flows : g \in Active(Dst[g])' => g \in Active(Dst[g])
  PROVE  ReceiverAwake'
  BY DEF ByFlow, ReceiverAwake

LEMMA AcksStayTrue ==
  ASSUME ByFlow, acks' \subseteq acks,
         \A g \in Flows : st'[g] # "finished" => st[g] # "finished" /\ rx[g].got \subseteq rx'[g].got,
         \A g \in Flows : rx'[g].got \subseteq Packets(g)
  PROVE  AckedIsReceived'
<1>1. ASSUME NEW f \in acks', st'[f] # "finished" PROVE rx'[f].got = Packets(f)
  <2>1. f \in Flows /\ f \in acks
    BY <1>1 DEF ByFlow, HostsOK
  <2> QED
    BY <1>1, <2>1 DEF ByFlow, AckedIsReceived
<1> QED
  BY <1>1 DEF AckedIsReceived

LEMMA MovedItem ==
  ASSUME NEW f, NEW i \in Item(f), NEW to \in {"token", "held", "data"}
  PROVE  Moved(i, to) \in Item(f) /\ Moved(i, to).at = to
  BY DEF Item, Moved

-----------------------------------------------------------------------------
(* The actions *)

LEMMA StartFlowKeeps ==
  ASSUME ByFlow, NEW f \in Flows, StartFlow(f)
  PROVE  ByFlow'
<1> USE DEF StartFlow
<1>1. /\ st' = [st EXCEPT ![f] = "started"] /\ st[f] = "idle"
      /\ items' = [items EXCEPT ![f] = InitCapabilities(f)]
      /\ DOMAIN items = Flows /\ DOMAIN st = Flows /\ UNCHANGED <<acks, rx, capaProc, holdOn>>
  BY DEF ByFlow, HostsOK
<1>2. InitCapabilities(f) \subseteq Item(f)
  <2> DEFINE n == InitCapaSize(f)
  <2>1. ASSUME NEW i \in 0..n - 1
        PROVE  [at |-> "held", seq |-> i, age |-> n - i] \in Item(f)
    <3>1. i \in 0..Size[f] - 1 /\ n - i \in 1..MaxGap
      BY Limits
    <3> QED
      BY <3>1 DEF Item, Packets
  <2> QED
    BY <2>1 DEF InitCapabilities
<1>3. HostsOK'
  <2>1. Src[f] \in Senders
    BY DEF Senders
  <2>2. (InitCapaSize(f) > 0) \in BOOLEAN
    OBVIOUS
  <2>3. hostProc' \in [Senders -> BOOLEAN]
    BY <2>1 DEF ByFlow, HostsOK
  <2> QED
    BY <1>1, <2>3 DEF ByFlow, HostsOK
<1>4. ASSUME NEW g \in Flows PROVE FlowOK(g)'
  <2>1. FlowOK(g)
    BY DEF ByFlow
  <2>2. CASE g = f
    BY <1>1, <1>2, <2>1, <2>2 DEF FlowOK
  <2>3. CASE g # f
    BY <1>1, <2>1, <2>3 DEF FlowOK
  <2> QED
    BY <2>2, <2>3
<1>5. AckedIsReceived'
  BY <1>1 DEF ByFlow, AckedIsReceived
<1>6. ReceiverAwake'
  BY <1>1, ReceiversStayAwake DEF Active
<1>7. SenderAwake'
  <2>1. hostProc \in [Senders -> BOOLEAN] /\ Src[f] \in Senders
    BY DEF ByFlow, HostsOK, Senders
  <2>2. ASSUME NEW h \in Senders, NEW g \in Flows, Src[g] = h, Held(g)' # {}
        PROVE  hostProc'[h]
    <3>1. CASE g = f
      <4>1. InitCapabilities(f) # {}
        BY <1>1, <2>2, <3>1 DEF Held
      <4>2. InitCapaSize(f) > 0
        BY <4>1, Limits DEF InitCapabilities
      <4> QED
        BY <2>1, <2>2, <3>1, <4>2
    <3>2. CASE g # f
      <4>1. Held(g)' = Held(g)
        BY <1>1, <3>2 DEF Held
      <4>2. hostProc[h]
        BY <2>2, <4>1 DEF ByFlow, SenderAwake, SendChoices
      <4> QED
        BY <2>1, <4>2
    <3> QED
      BY <3>1, <3>2
  <2> QED
    BY <2>2 DEF SenderAwake, SendChoices
<1> QED
  BY <1>3, <1>4, <1>5, <1>6, <1>7 DEF ByFlow

LEMMA ReceiveCapabilityKeeps ==
  ASSUME ByFlow, NEW f \in Flows, NEW i \in items[f], ReceiveCapability(f, i)
  PROVE  ByFlow'
<1> DEFINE S == (items[f] \ {i}) \cup {Moved(i, "held")}
<1>1. items' = [items EXCEPT ![f] = S] /\ hostProc' = [hostProc EXCEPT ![Src[f]] = TRUE]
      /\ UNCHANGED <<st, rtses, acks, rx, capaProc, holdOn>>
  BY DEF ReceiveCapability
<1>2. S \subseteq Item(f)
  <2>1. i \in Item(f) /\ items[f] \subseteq Item(f)
    BY DEF ByFlow, FlowOK
  <2> QED
    BY <2>1, MovedItem
<1>3. st[f] # "finished"
  BY DEF ByFlow, FlowOK
<1> HIDE DEF S
<1>4. DOMAIN items' = Flows /\ \A g \in Flows : FlowOK(g)'
  BY <1>1, <1>2, <1>3, OtherFlows
<1>5. hostProc \in [Senders -> BOOLEAN] /\ Src[f] \in Senders /\ DOMAIN items = Flows
  BY DEF ByFlow, HostsOK, Senders
<1>6. HostsOK'
  BY <1>1, <1>4, <1>5 DEF ByFlow, HostsOK
<1>7. AckedIsReceived'
  BY <1>1 DEF ByFlow, AckedIsReceived
<1>8. ReceiverAwake'
  BY <1>1, ReceiversStayAwake DEF Active
<1>9. SenderAwake'
  <2>1. ASSUME NEW h \in Senders, NEW g \in Flows, Src[g] = h, Held(g)' # {}
        PROVE  hostProc'[h]
    <3>1. CASE h = Src[f]
      BY <1>1, <1>5, <3>1
    <3>2. CASE h # Src[f]
      <4>1. Held(g)' = Held(g)
        BY <1>1, <1>5, <2>1, <3>2 DEF Held
      <4>2. hostProc[h]
        BY <2>1, <4>1 DEF ByFlow, SenderAwake, SendChoices
      <4> QED
        BY <1>1, <1>5, <4>2
    <3> QED
      BY <3>1, <3>2
  <2> QED
    BY <2>1 DEF SenderAwake, SendChoices
<1> QED
  BY <1>4, <1>6, <1>7, <1>8, <1>9 DEF ByFlow

(* An item leaves the network or the sender. *)
LEMMA ItemsShrink ==
  ASSUME ByFlow, NEW f \in Flows, NEW S,
         items' = [items EXCEPT ![f] = S], S \subseteq Item(f), items[f] # {},
         \A j \in S : j.at = "held" => j \in items[f],
         UNCHANGED <<st, rtses, acks, hostProc, rx, capaProc, holdOn>>
  PROVE  ByFlow'
<1>1. st[f] # "finished" /\ DOMAIN items = Flows
  BY DEF ByFlow, FlowOK, HostsOK
<1>2. DOMAIN items' = Flows /\ \A g \in Flows : FlowOK(g)'
  BY <1>1, OtherFlows
<1>3. HostsOK'
  BY <1>2 DEF ByFlow, HostsOK
<1>4. AckedIsReceived'
  BY DEF ByFlow, AckedIsReceived
<1>5. ReceiverAwake'
  BY ReceiversStayAwake DEF Active
<1>6. SenderAwake'
  BY <1>1, SendersStayAwake DEF Held
<1> QED
  BY <1>2, <1>3, <1>4, <1>5, <1>6 DEF ByFlow

LEMMA ItemGoes ==
  ASSUME ByFlow, NEW f \in Flows, NEW i \in items[f],
         Expire(f, i) \/ SendData(f, i) \/ DropItem(f, i)
  PROVE  ByFlow'
<1>1. items[f] \subseteq Item(f) /\ i \in Item(f)
  BY DEF ByFlow, FlowOK
<1>2. CASE Expire(f, i) \/ DropItem(f, i)
  <2> DEFINE S == items[f] \ {i}
  <2>1. items' = [items EXCEPT ![f] = S]
        /\ UNCHANGED <<st, rtses, acks, hostProc, rx, capaProc, holdOn>>
    BY <1>2 DEF Expire, DropItem
  <2>2. S \subseteq Item(f) /\ \A j \in S : j.at = "held" => j \in items[f]
    BY <1>1
  <2> HIDE DEF S
  <2> QED
    BY <2>1, <2>2, ItemsShrink
<1>3. CASE SendData(f, i)
  <2> DEFINE S == Used(f, i)
  <2>1. items' = [items EXCEPT ![f] = S]
        /\ UNCHANGED <<st, rtses, acks, hostProc, rx, capaProc, holdOn>>
    BY <1>3 DEF SendData
  <2>2. S \subseteq Item(f) /\ \A j \in S : j.at = "held" => j \in items[f]
    BY <1>1, MovedItem DEF Used
  <2> HIDE DEF S
  <2> QED
    BY <2>1, <2>2, ItemsShrink
<1> QED
  BY <1>2, <1>3

LEMMA SendNothingKeeps ==
  ASSUME ByFlow, NEW h \in Senders, SendNothing(h)
  PROVE  ByFlow'
<1> USE DEF SendNothing
<1>1. HostsOK' /\ \A g \in Flows : FlowOK(g)'
  BY DEF ByFlow, HostsOK, FlowOK
<1>2. AckedIsReceived' /\ ReceiverAwake'
  BY DEF ByFlow, AckedIsReceived, ReceiverAwake, Active
<1>3. SenderAwake'
  BY DEF ByFlow, HostsOK, SenderAwake, SendChoices, Held
<1> QED
  BY <1>1, <1>2, <1>3 DEF ByFlow

LEMMA DropControlKeeps ==
  ASSUME ByFlow, DropControl
  PROVE  ByFlow'
<1>1. rtses' \subseteq rtses /\ acks' \subseteq acks
      /\ UNCHANGED <<st, items, hostProc, rx, capaProc, holdOn>>
  BY DEF DropControl
<1>2. HostsOK' /\ \A g \in Flows : FlowOK(g)'
  BY <1>1 DEF ByFlow, HostsOK, FlowOK
<1>3. AckedIsReceived' /\ ReceiverAwake' /\ SenderAwake'
  BY <1>1 DEF ByFlow, AckedIsReceived, ReceiverAwake, Active, SenderAwake, SendChoices, Held
<1> QED
  BY <1>2, <1>3 DEF ByFlow

(* One record changes, of a flow that is not finished. *)
LEMMA OneRecord ==
  ASSUME ByFlow, NEW f \in Flows, NEW r, rx' = [rx EXCEPT ![f] = r], RecordOK(f, r),
         st' = st, st[f] # "finished",
         items'[f] \subseteq Item(f), \A g \in Flows \ {f} : items'[g] = items[g]
  PROVE  /\ DOMAIN rx' = Flows /\ rx'[f] = r /\ \A g \in Flows \ {f} : rx'[g] = rx[g]
         /\ \A g \in Flows : FlowOK(g)'
<1>1. DOMAIN rx' = Flows /\ rx'[f] = r /\ \A g \in Flows \ {f} : rx'[g] = rx[g]
  BY DEF ByFlow, HostsOK
<1>2. ASSUME NEW g \in Flows PROVE FlowOK(g)'
  <2>1. FlowOK(g)
    BY DEF ByFlow
  <2>2. CASE g = f
    BY <1>1, <2>2 DEF FlowOK, RecordOK
  <2>3. CASE g # f
    BY <1>1, <2>1, <2>3 DEF FlowOK
  <2> QED
    BY <2>2, <2>3
<1> QED
  BY <1>1, <1>2

LEMMA OpenAtHostKeeps ==
  ASSUME ByFlow, NEW f \in Flows, OpenAtHost(f),
         \A g \in Flows \ {f} : rx'[g] = rx[g]
  PROVE  /\ ReceiverAwake'
         /\ capaProc' \in [Receivers -> {"none", "now", "timeout"}]
         /\ holdOn' \in [Receivers -> 0..Initial]
<1>1. capaProc \in [Receivers -> {"none", "now", "timeout"}]
      /\ holdOn \in [Receivers -> 0..Initial] /\ Dst[f] \in Receivers
  BY DEF ByFlow, HostsOK, Receivers
<1>2. /\ capaProc' \in [Receivers -> {"none", "now", "timeout"}]
      /\ holdOn' \in [Receivers -> 0..Initial]
  BY <1>1, Limits DEF OpenAtHost
<1>3. ASSUME NEW g \in Flows, g \in Active(Dst[g])' PROVE capaProc'[Dst[g]] # "none"
  <2>1. Dst[g] \in Receivers
    BY DEF Receivers
  <2>2. CASE Dst[g] = Dst[f]
    BY <1>1, <2>2 DEF OpenAtHost
  <2>3. CASE Dst[g] # Dst[f]
    <3>1. g \in Active(Dst[g])
      BY <1>3, <2>3 DEF Active
    <3> QED
      BY <1>1, <2>1, <2>3, <3>1 DEF OpenAtHost, ByFlow, ReceiverAwake
  <2> QED
    BY <2>2, <2>3
<1> QED
  BY <1>2, <1>3 DEF ReceiverAwake

LEMMA ReceiveRtsKeeps ==
  ASSUME ByFlow, NEW f \in Flows, ReceiveRts(f)
  PROVE  ByFlow'
<1>1. rtses' \subseteq Flows /\ UNCHANGED <<st, items, acks, hostProc>>
  BY DEF ByFlow, HostsOK, ReceiveRts
<1>2. SenderAwake'
  BY <1>1, SendersStayAwake DEF Held
<1>3. CASE rx[f].rtsReceived
  <2>1. UNCHANGED <<rx, capaProc, holdOn>>
    BY <1>3 DEF ReceiveRts
  <2>2. HostsOK' /\ \A g \in Flows : FlowOK(g)'
    BY <1>1, <2>1 DEF ByFlow, HostsOK, FlowOK
  <2>3. AckedIsReceived' /\ ReceiverAwake'
    BY <1>1, <2>1 DEF ByFlow, AckedIsReceived, ReceiverAwake, Active
  <2> QED
    BY <1>2, <2>2, <2>3 DEF ByFlow
<1>4. CASE ~rx[f].rtsReceived
  <2> DEFINE r == Opened(rx[f], f)
  <2>1. rx' = [rx EXCEPT ![f] = r] /\ OpenAtHost(f)
    BY <1>4 DEF ReceiveRts
  <2>2. FlowOK(f) /\ st[f] # "finished"
    BY <1>4 DEF ByFlow, FlowOK
  <2>3. RecordOK(f, r) /\ r.got = rx[f].got
    BY <2>2, OpenedOK DEF FlowOK
  <2> HIDE DEF r
  <2>4. /\ DOMAIN rx' = Flows /\ rx'[f] = r /\ \A g \in Flows \ {f} : rx'[g] = rx[g]
        /\ \A g \in Flows : FlowOK(g)'
    BY <1>1, <2>1, <2>2, <2>3, OneRecord DEF FlowOK
  <2>5. /\ ReceiverAwake'
        /\ capaProc' \in [Receivers -> {"none", "now", "timeout"}]
        /\ holdOn' \in [Receivers -> 0..Initial]
    BY <2>1, <2>4, OpenAtHostKeeps
  <2>6. HostsOK'
    BY <1>1, <2>4, <2>5 DEF ByFlow, HostsOK
  <2>7. AckedIsReceived'
    <3>1. ASSUME NEW g \in Flows PROVE rx'[g].got = rx[g].got
      BY <2>3, <2>4
    <3> QED
      BY <1>1, <3>1 DEF ByFlow, HostsOK, AckedIsReceived
  <2> QED
    BY <1>2, <2>4, <2>5, <2>6, <2>7 DEF ByFlow
<1> QED
  BY <1>3, <1>4

LEMMA ReceiveDataKeeps ==
  ASSUME ByFlow, NEW f \in Flows, NEW i \in items[f], ReceiveData(f, i)
  PROVE  ByFlow'
<1> DEFINE o == IF rx[f].rtsReceived THEN rx[f] ELSE Opened(rx[f], f)
           r == Received(o, f, i)
<1>1. /\ items' = [items EXCEPT ![f] = @ \ {i}] /\ i.at = "data"
      /\ rx' = [rx EXCEPT ![f] = r]
      /\ UNCHANGED <<st, rtses, hostProc>>
  BY DEF ReceiveData
<1>2. FlowOK(f) /\ st[f] # "finished" /\ i \in Item(f) /\ items[f] \subseteq Item(f)
  BY DEF ByFlow, FlowOK
<1>3. RecordOK(f, o) /\ o.got = rx[f].got /\ o.rtsReceived
      /\ (rx[f].rtsReceived => o = rx[f])
  BY <1>2, OpenedOK DEF FlowOK
<1>4. RecordOK(f, rx[f])
  BY <1>2 DEF FlowOK
<1> HIDE DEF o
<1>5. RecordOK(f, r) /\ r.rtsReceived /\ r.got = rx[f].got \cup {i.seq}
      /\ (r.finished <=> r.got = Packets(f))
  BY <1>2, <1>3, ReceivedOK
<1>6. DOMAIN items = Flows
  BY DEF ByFlow, HostsOK
<1>7. items'[f] = items[f] \ {i} /\ (\A g \in Flows \ {f} : items'[g] = items[g])
      /\ DOMAIN items' = Flows
  BY <1>1, <1>6
<1> HIDE DEF r
<1>8. /\ DOMAIN rx' = Flows /\ rx'[f] = r /\ \A g \in Flows \ {f} : rx'[g] = rx[g]
      /\ \A g \in Flows : FlowOK(g)'
  <2>1. items'[f] \subseteq Item(f)
    BY <1>2, <1>7
  <2> QED
    BY <1>1, <1>2, <1>5, <1>7, <2>1, OneRecord
<1>9. acks' = IF r.finished THEN acks \cup {f} ELSE acks
  BY <1>8 DEF ReceiveData
<1>10. /\ ReceiverAwake'
       /\ capaProc' \in [Receivers -> {"none", "now", "timeout"}]
       /\ holdOn' \in [Receivers -> 0..Initial]
  <2>1. CASE rx[f].rtsReceived
    <3>1. UNCHANGED <<capaProc, holdOn>>
      BY <2>1 DEF ReceiveData
    <3>2. ~r.finished => ~rx[f].finished
      <4>1. rx[f].finished => rx[f].got = Packets(f)
        BY <1>4, StateFields DEF RecordOK, CountIsReceived, Missing
      <4>2. i.seq \in Packets(f)
        BY <1>2 DEF Item
      <4> QED
        BY <1>5, <4>1, <4>2
    <3>3. \A g \in Flows : g \in Active(Dst[g])' => g \in Active(Dst[g])
      BY <1>8, <2>1, <3>2 DEF Active
    <3> QED
      BY <3>1, <3>3, ReceiversStayAwake DEF ByFlow, HostsOK
  <2>2. CASE ~rx[f].rtsReceived
    <3>1. OpenAtHost(f)
      BY <2>2 DEF ReceiveData
    <3> QED
      BY <1>8, <3>1, OpenAtHostKeeps
  <2> QED
    BY <2>1, <2>2
<1>11. HostsOK'
  BY <1>1, <1>7, <1>8, <1>9, <1>10 DEF ByFlow, HostsOK
<1>12. AckedIsReceived'
  <2>1. ASSUME NEW g \in acks', st'[g] # "finished" PROVE rx'[g].got = Packets(g)
    <3>1. CASE g = f /\ r.finished
      BY <1>5, <1>8, <3>1
    <3>2. CASE g \in acks /\ g # f
      BY <1>1, <1>8, <2>1, <3>2 DEF ByFlow, HostsOK, AckedIsReceived
    <3>3. CASE g \in acks /\ g = f
      <4>1. rx[f].got = Packets(f) /\ i.seq \in Packets(f)
        BY <1>2, <3>3 DEF ByFlow, AckedIsReceived, Item
      <4> QED
        BY <1>5, <1>8, <3>3, <4>1
    <3> QED
      BY <1>9, <2>1, <3>1, <3>2, <3>3
  <2> QED
    BY <2>1 DEF AckedIsReceived
<1>13. SenderAwake'
  <2>1. \A g \in Flows : Held(g)' # {} => Held(g) # {}
    BY <1>7 DEF Held
  <2> QED
    BY <1>1, <2>1, SendersStayAwake
<1> QED
  BY <1>8, <1>10, <1>11, <1>12, <1>13 DEF ByFlow

LEMMA ReceiveAckKeeps ==
  ASSUME ByFlow, NEW f \in Flows, ReceiveAck(f)
  PROVE  ByFlow'
<1> DEFINE r == ClosedFlow(f)
<1>1. /\ acks' = acks \ {f} /\ rtses' = rtses \ {f} /\ st' = [st EXCEPT ![f] = "finished"]
      /\ items' = [items EXCEPT ![f] = {}] /\ rx' = [rx EXCEPT ![f] = r]
      /\ UNCHANGED <<hostProc, capaProc, holdOn>>
  BY DEF ReceiveAck
<1>2. r \in FlowState(f) /\ r.rtsReceived /\ r.finished
  <2> DEFINE new == NewFlow(f)
  <2>1. new \in FlowState(f)
    BY NewFlowOK DEF RecordOK
  <2>2. r = [new EXCEPT !.rtsReceived = TRUE, !.finished = TRUE]
    BY DEF ClosedFlow
  <2> HIDE DEF new, r
  <2>3. r.rtsReceived /\ r.finished
    BY <2>1, <2>2 DEF FlowState
  <2>4. r \in FlowState(f)
    BY <2>1, <2>2 DEF FlowState
  <2> QED
    BY <2>3, <2>4
<1>3. DOMAIN rx = Flows /\ DOMAIN items = Flows /\ st \in [Flows -> {"idle", "started", "finished"}]
  BY DEF ByFlow, HostsOK
<1> HIDE DEF r
<1>4. ASSUME NEW g \in Flows PROVE FlowOK(g)'
  <2>1. FlowOK(g)
    BY DEF ByFlow
  <2>2. CASE g = f
    BY <1>1, <1>2, <1>3, <2>2 DEF FlowOK
  <2>3. CASE g # f
    BY <1>1, <1>3, <2>1, <2>3 DEF FlowOK
  <2> QED
    BY <2>2, <2>3
<1>5. HostsOK'
  BY <1>1, <1>3 DEF ByFlow, HostsOK
<1>6. AckedIsReceived'
  <2>1. ASSUME NEW g \in acks', st'[g] # "finished" PROVE rx'[g].got = Packets(g)
    <3>1. g \in acks /\ g \in Flows /\ g # f
      BY <1>1, <2>1 DEF ByFlow, HostsOK
    <3> QED
      BY <1>1, <1>3, <2>1, <3>1 DEF ByFlow, AckedIsReceived
  <2> QED
    BY <2>1 DEF AckedIsReceived
<1>7. ReceiverAwake'
  <2>1. \A g \in Flows : g \in Active(Dst[g])' => g \in Active(Dst[g])
    BY <1>1, <1>2, <1>3 DEF Active
  <2> QED
    BY <1>1, <2>1, ReceiversStayAwake
<1>8. SenderAwake'
  <2>1. \A g \in Flows : Held(g)' # {} => Held(g) # {}
    BY <1>1, <1>3 DEF Held
  <2> QED
    BY <1>1, <2>1, SendersStayAwake
<1> QED
  BY <1>4, <1>5, <1>6, <1>7, <1>8 DEF ByFlow

LEMMA TimerKeeps ==
  ASSUME ByFlow, NEW f \in Flows, RdDue(f) \/ WindowDue(f)
  PROVE  ByFlow'
<1>1. UNCHANGED <<st, items, rtses, acks, hostProc, capaProc, holdOn>> /\ st[f] # "finished"
  BY DEF RdDue, WindowDue
<1>2. PICK r : /\ rx' = [rx EXCEPT ![f] = r]
               /\ \/ rx[f].rd = "set" /\ r = [rx[f] EXCEPT !.rd = "due"]
                  \/ r = [rx[f] EXCEPT !.windowDue = TRUE]
  BY DEF RdDue, WindowDue
<1>3. FlowOK(f)
  BY DEF ByFlow
<1>4. RecordOK(f, r) /\ r.rtsReceived = rx[f].rtsReceived /\ r.got = rx[f].got
      /\ r.finished = rx[f].finished
  BY <1>1, <1>2, <1>3, TimerOK DEF FlowOK
<1>5. /\ DOMAIN rx' = Flows /\ rx'[f] = r /\ \A g \in Flows \ {f} : rx'[g] = rx[g]
      /\ \A g \in Flows : FlowOK(g)'
  BY <1>1, <1>2, <1>3, <1>4, OneRecord DEF FlowOK
<1>6. HostsOK'
  BY <1>1, <1>5 DEF ByFlow, HostsOK
<1>7. AckedIsReceived'
  <2>1. ASSUME NEW g \in Flows PROVE rx'[g].got = rx[g].got
    BY <1>4, <1>5
  <2> QED
    BY <1>1, <2>1 DEF ByFlow, HostsOK, AckedIsReceived
<1>8. ReceiverAwake'
  <2>1. \A g \in Flows : g \in Active(Dst[g])' => g \in Active(Dst[g])
    BY <1>4, <1>5 DEF Active
  <2> QED
    BY <1>1, <2>1, ReceiversStayAwake
<1>9. SenderAwake'
  BY <1>1, SendersStayAwake DEF Held
<1> QED
  BY <1>5, <1>6, <1>7, <1>8, <1>9 DEF ByFlow

(* A host looks for a flow to send a capability for: the flows it comes to are
   not finished, and remain so. *)
LEMMA RecordsVisited ==
  ASSUME ByFlow, DOMAIN rx' = Flows, UNCHANGED <<st, rtses, acks, hostProc>>,
         \A g \in Flows : /\ rx'[g].rtsReceived = rx[g].rtsReceived
                          /\ rx'[g].got = rx[g].got
                          /\ rx'[g].finished = rx[g].finished,
         \A g \in Flows : rx'[g] = rx[g] \/ (st[g] # "finished" /\ RecordOK(g, rx'[g])),
         \A g \in Flows : items'[g] = items[g] \/ (st[g] # "finished" /\ items'[g] \subseteq Item(g)),
         \A g \in Flows : Held(g)' # {} => Held(g) # {}
  PROVE  /\ \A g \in Flows : FlowOK(g)'
         /\ AckedIsReceived'
         /\ SenderAwake'
         /\ \A g \in Flows : g \in Active(Dst[g])' <=> g \in Active(Dst[g])
<1>1. ASSUME NEW g \in Flows PROVE FlowOK(g)'
  <2>1. FlowOK(g)
    BY DEF ByFlow
  <2> QED
    BY <2>1 DEF FlowOK, RecordOK
<1>2. AckedIsReceived'
  BY DEF ByFlow, HostsOK, AckedIsReceived
<1>3. SenderAwake'
  BY SendersStayAwake
<1>4. \A g \in Flows : g \in Active(Dst[g])' <=> g \in Active(Dst[g])
  BY DEF Active
<1> QED
  BY <1>1, <1>2, <1>3, <1>4

LEMMA ActiveRecordOK ==
  ASSUME ByFlow, NEW h, NEW g \in Active(h)
  PROVE  g \in Flows /\ st[g] # "finished" /\ RecordOK(g, rx[g]) /\ ~rx[g].finished
  BY DEF ByFlow, FlowOK, Active

LEMMA CapabilitySent ==
  ASSUME NEW f \in Flows, NEW seq \in Packets(f), items[f] \subseteq Item(f)
  PROVE  /\ WithCapability(f, seq) \subseteq Item(f)
         /\ \A j \in WithCapability(f, seq) : j.at = "held" => Held(f) # {}
<1>1. MaxGap \in Nat /\ 1 <= MaxGap
  BY Limits
<1>2. ASSUME NEW i \in Item(f) PROVE Older(i) \in Item(f) /\ Older(i).at = i.at
  <2> DEFINE a == Min({i.age + 1, MaxGap})
  <2>1. i.age \in 1..MaxGap
    BY DEF Item
  <2>2. i.age + 1 \in Nat /\ MaxGap \in Nat
    BY <1>1, <2>1
  <2>3. a = IF i.age + 1 <= MaxGap THEN i.age + 1 ELSE MaxGap
    BY <2>2, MinOfTwo
  <2>4. a \in 1..MaxGap
    BY <1>1, <2>1, <2>3
  <2>5. Older(i) = [i EXCEPT !.age = a]
    BY DEF Older
  <2> HIDE DEF a
  <2> QED
    BY <2>4, <2>5 DEF Item
<1>3. [at |-> "token", seq |-> seq, age |-> 1] \in Item(f)
  <2>1. 1 \in 1..MaxGap
    BY <1>1
  <2> QED
    BY <2>1 DEF Item
<1> QED
  BY <1>2, <1>3 DEF WithCapability, Held

LEMMA SendCapabilityKeeps ==
  ASSUME ByFlow, NEW f \in Flows, SendCapability(f)
  PROVE  ByFlow'
<1>1. PICK seen \in SUBSET {g \in Active(Dst[f]) : ~CanSend(g)} :
        rx' = [g \in Flows |-> IF g = f THEN Charged(Visited(rx[f], f), f)
                               ELSE IF g \in seen THEN Visited(rx[g], g) ELSE rx[g]]
  BY DEF SendCapability
<1>2. /\ items' = [items EXCEPT ![f] = WithCapability(f, rx'[f].last)]
      /\ capaProc' = [capaProc EXCEPT ![Dst[f]] = "now"]
      /\ UNCHANGED <<st, rtses, acks, hostProc, holdOn>>
  BY DEF SendCapability
<1>3. DOMAIN rx' = Flows /\ rx'[f] = Charged(Visited(rx[f], f), f)
      /\ \A g \in Flows \ {f} : rx'[g] = IF g \in seen THEN Visited(rx[g], g) ELSE rx[g]
  BY <1>1
<1>4. f \in Active(Dst[f]) /\ rx[f].rd # "set"
  BY DEF SendCapability, CanSend
<1>5. /\ st[f] # "finished" /\ RecordOK(f, rx'[f])
      /\ rx'[f].rtsReceived = rx[f].rtsReceived /\ rx'[f].got = rx[f].got
      /\ rx'[f].finished = rx[f].finished /\ rx'[f].last \in Packets(f)
  <2> DEFINE v == Visited(rx[f], f)
  <2>1. st[f] # "finished" /\ RecordOK(f, rx[f]) /\ ~rx[f].finished
    BY <1>4, ActiveRecordOK
  <2>2. RecordOK(f, v) /\ v.rtsReceived = rx[f].rtsReceived /\ v.got = rx[f].got
        /\ v.finished = rx[f].finished /\ v.rd = "off"
    BY <1>4, <2>1, VisitedOK
  <2> HIDE DEF v
  <2>3. /\ RecordOK(f, Charged(v, f)) /\ Charged(v, f).rtsReceived = v.rtsReceived
        /\ Charged(v, f).got = v.got /\ Charged(v, f).finished = v.finished
        /\ Charged(v, f).last \in Packets(f)
    BY <2>1, <2>2, ChargedOK
  <2> QED
    BY <1>3, <2>1, <2>2, <2>3 DEF v
<1>6. ASSUME NEW g \in Flows \ {f}
      PROVE  /\ rx'[g].rtsReceived = rx[g].rtsReceived /\ rx'[g].got = rx[g].got
             /\ rx'[g].finished = rx[g].finished
             /\ rx'[g] = rx[g] \/ (st[g] # "finished" /\ RecordOK(g, rx'[g]))
  <2>1. CASE g \in seen
    <3>1. st[g] # "finished" /\ RecordOK(g, rx[g]) /\ ~rx[g].finished
      BY <2>1, ActiveRecordOK
    <3> QED
      BY <1>3, <2>1, <3>1, VisitedOK
  <2>2. CASE g \notin seen
    BY <1>3, <2>2
  <2> QED
    BY <2>1, <2>2
<1>7. items[f] \subseteq Item(f) /\ DOMAIN items = Flows
      /\ capaProc \in [Receivers -> {"none", "now", "timeout"}]
  BY DEF ByFlow, FlowOK, HostsOK
<1>8. items'[f] = WithCapability(f, rx'[f].last) /\ DOMAIN items' = Flows
      /\ \A g \in Flows \ {f} : items'[g] = items[g]
  BY <1>2, <1>7
<1>9. items'[f] \subseteq Item(f) /\ \A g \in Flows : Held(g)' # {} => Held(g) # {}
  <2>1. items'[f] \subseteq Item(f) /\ \A j \in items'[f] : j.at = "held" => Held(f) # {}
    BY <1>5, <1>7, <1>8, CapabilitySent
  <2> QED
    BY <1>8, <2>1 DEF Held
<1>10. /\ \A g \in Flows : FlowOK(g)'
       /\ AckedIsReceived'
       /\ SenderAwake'
       /\ \A g \in Flows : g \in Active(Dst[g])' <=> g \in Active(Dst[g])
  BY <1>2, <1>3, <1>5, <1>6, <1>8, <1>9, RecordsVisited
<1>11. HostsOK'
  <2>1. capaProc' \in [Receivers -> {"none", "now", "timeout"}]
    BY <1>2, <1>7
  <2> QED
    BY <1>2, <1>3, <1>8, <2>1 DEF ByFlow, HostsOK
<1>12. ReceiverAwake'
  <2>1. ASSUME NEW g \in Flows, g \in Active(Dst[g])' PROVE capaProc'[Dst[g]] # "none"
    <3>1. capaProc[Dst[g]] # "none" /\ Dst[g] \in Receivers
      BY <1>10, <2>1 DEF ByFlow, ReceiverAwake, Receivers
    <3> QED
      BY <1>2, <1>7, <3>1
  <2> QED
    BY <2>1 DEF ReceiverAwake
<1> QED
  BY <1>10, <1>11, <1>12 DEF ByFlow

LEMMA SendNoCapabilityKeeps ==
  ASSUME ByFlow, NEW h \in Receivers, SendNoCapability(h)
  PROVE  ByFlow'
<1>1. /\ rx' = [f \in Flows |-> IF f \in Active(h) THEN Visited(rx[f], f) ELSE rx[f]]
      /\ capaProc' = [capaProc EXCEPT ![h] = IF Active(h) = {} THEN "none" ELSE "timeout"]
      /\ UNCHANGED <<st, items, rtses, acks, hostProc, holdOn>>
  BY DEF SendNoCapability
<1>2. DOMAIN rx' = Flows
      /\ \A g \in Flows : rx'[g] = IF g \in Active(h) THEN Visited(rx[g], g) ELSE rx[g]
  BY <1>1
<1>3. ASSUME NEW g \in Flows
      PROVE  /\ rx'[g].rtsReceived = rx[g].rtsReceived /\ rx'[g].got = rx[g].got
             /\ rx'[g].finished = rx[g].finished
             /\ rx'[g] = rx[g] \/ (st[g] # "finished" /\ RecordOK(g, rx'[g]))
  <2>1. CASE g \in Active(h)
    <3>1. st[g] # "finished" /\ RecordOK(g, rx[g]) /\ ~rx[g].finished
      BY <2>1, ActiveRecordOK
    <3> QED
      BY <1>2, <2>1, <3>1, VisitedOK
  <2>2. CASE g \notin Active(h)
    BY <1>2, <2>2
  <2> QED
    BY <2>1, <2>2
<1>4. \A g \in Flows : Held(g)' # {} => Held(g) # {}
  BY <1>1 DEF Held
<1>5. /\ \A g \in Flows : FlowOK(g)'
      /\ AckedIsReceived'
      /\ SenderAwake'
      /\ \A g \in Flows : g \in Active(Dst[g])' <=> g \in Active(Dst[g])
  BY <1>1, <1>2, <1>3, <1>4, RecordsVisited
<1>6. capaProc \in [Receivers -> {"none", "now", "timeout"}]
  BY DEF ByFlow, HostsOK
<1>7. HostsOK'
  <2>1. capaProc' \in [Receivers -> {"none", "now", "timeout"}]
    BY <1>1, <1>6
  <2> QED
    BY <1>1, <1>2, <2>1 DEF ByFlow, HostsOK
<1>8. ReceiverAwake'
  <2>1. ASSUME NEW g \in Flows, g \in Active(Dst[g])' PROVE capaProc'[Dst[g]] # "none"
    <3>1. g \in Active(Dst[g]) /\ capaProc[Dst[g]] # "none" /\ Dst[g] \in Receivers
      BY <1>5, <2>1 DEF ByFlow, ReceiverAwake, Receivers
    <3> QED
      BY <1>1, <1>6, <3>1
  <2> QED
    BY <2>1 DEF ReceiverAwake
<1> QED
  BY <1>5, <1>7, <1>8 DEF ByFlow

LEMMA HoldKeeps ==
  ASSUME ByFlow, NEW h \in Receivers, Hold(h)
  PROVE  ByFlow'
<1>1. UNCHANGED <<st, items, rtses, acks, hostProc, rx>>
      /\ capaProc' = [capaProc EXCEPT ![h] = "now"]
  BY DEF Hold
<1>2. HostsOK'
  <2>1. holdOn \in [Receivers -> 0..Initial] /\ Initial \in Nat
    BY WindowAssumption DEF ByFlow, HostsOK
  <2>2. holdOn[h] - 1 \in 0..Initial
    BY <2>1 DEF Hold
  <2>3. holdOn' \in [Receivers -> 0..Initial]
    BY <2>1, <2>2 DEF Hold
  <2> QED
    BY <1>1, <2>3 DEF ByFlow, HostsOK
<1>3. \A g \in Flows : FlowOK(g)'
  BY <1>1 DEF ByFlow, FlowOK
<1>4. AckedIsReceived' /\ SenderAwake'
  BY <1>1 DEF ByFlow, AckedIsReceived, SenderAwake, SendChoices, Held
<1>5. ReceiverAwake'
  <2>1. ASSUME NEW g \in Flows, g \in Active(Dst[g])' PROVE capaProc'[Dst[g]] # "none"
    <3>1. capaProc[Dst[g]] # "none" /\ Dst[g] \in Receivers
      BY <1>1, <2>1 DEF ByFlow, ReceiverAwake, Receivers, Active
    <3> QED
      BY <1>1, <3>1 DEF ByFlow, HostsOK
  <2> QED
    BY <2>1 DEF ReceiverAwake
<1> QED
  BY <1>2, <1>3, <1>4, <1>5 DEF ByFlow

-----------------------------------------------------------------------------
(* The theorems *)

LEMMA InitByFlow ==
  ASSUME Init
  PROVE  ByFlow
<1>1. ASSUME NEW f \in Flows
      PROVE  /\ items[f] = {} /\ rx[f] = NewFlow(f) /\ st[f] = "idle"
             /\ RecordOK(f, rx[f]) /\ ~rx[f].rtsReceived
  BY NewFlowOK DEF Init
<1>2. \A f \in Flows : FlowOK(f)
  BY <1>1 DEF FlowOK, RecordOK
<1>3. HostsOK
  BY WindowAssumption DEF Init, HostsOK
<1>4. AckedIsReceived /\ ReceiverAwake /\ SenderAwake
  BY <1>1 DEF Init, AckedIsReceived, ReceiverAwake, SenderAwake, Active, SendChoices, Held
<1> QED
  BY <1>2, <1>3, <1>4 DEF ByFlow

LEMMA NextByFlow ==
  ASSUME ByFlow, [Next]_vars
  PROVE  ByFlow'
<1>1. CASE UNCHANGED vars
  <2>1. HostsOK' /\ \A g \in Flows : FlowOK(g)'
    BY <1>1 DEF vars, ByFlow, HostsOK, FlowOK
  <2> QED
    BY <1>1, <2>1 DEF vars, ByFlow, AckedIsReceived, ReceiverAwake, SenderAwake, Active,
                      SendChoices, Held
<1>2. ASSUME NEW f \in Flows,
             \/ StartFlow(f) \/ ReceiveRts(f) \/ ReceiveAck(f)
             \/ RdDue(f) \/ WindowDue(f) \/ SendCapability(f)
      PROVE  ByFlow'
  BY <1>2, StartFlowKeeps, ReceiveRtsKeeps, ReceiveAckKeeps, TimerKeeps, SendCapabilityKeeps
<1>3. ASSUME NEW f \in Flows, NEW i \in items[f],
             \/ ReceiveCapability(f, i) \/ Expire(f, i) \/ SendData(f, i)
             \/ ReceiveData(f, i) \/ DropItem(f, i)
      PROVE  ByFlow'
  BY <1>3, ReceiveCapabilityKeeps, ItemGoes, ReceiveDataKeeps
<1>4. ASSUME NEW h \in Senders, SendNothing(h) PROVE ByFlow'
  BY <1>4, SendNothingKeeps
<1>5. ASSUME NEW h \in Receivers, SendNoCapability(h) \/ Hold(h) PROVE ByFlow'
  BY <1>5, SendNoCapabilityKeeps, HoldKeeps
<1>6. CASE DropControl
  BY <1>6, DropControlKeeps
<1> QED
  BY <1>1, <1>2, <1>3, <1>4, <1>5, <1>6 DEF Next

(* The inductive invariant: a packet counts once at its receiver, the goal of
   capabilities covers the missing packets not asked for in this round, and
   those come before the others. *)
THEOREM IInvInvariant == Spec => []IInv
<1>1. Init => ByFlow
  BY InitByFlow
<1>2. ByFlow /\ [Next]_vars => ByFlow'
  BY NextByFlow
<1>3. ByFlow => IInv
  BY InvariantByFlow
<1> QED
  BY <1>1, <1>2, <1>3, PTL DEF Spec

(* Every field of every flow and host keeps its type and its range: no
   capability names a packet the flow does not have, and no count goes below
   zero. *)
THEOREM TypeCorrect == Spec => []TypeOK
<1>1. IInv => TypeOK
  BY DEF IInv
<1> QED
  BY <1>1, IInvInvariant, PTL

(* An ACK is sent for a flow that was received whole. *)
THEOREM AckMeansReceived == Spec => []AckedIsReceived
<1>1. IInv => AckedIsReceived
  BY DEF IInv
<1> QED
  BY <1>1, IInvInvariant, PTL

(* A receiver with an incomplete flow has its event scheduled. *)
THEOREM ReceiverStaysAwake == Spec => []ReceiverAwake
<1>1. IInv => ReceiverAwake
  BY DEF IInv
<1> QED
  BY <1>1, IInvInvariant, PTL

(* A sender that holds a capability has its event scheduled. *)
THEOREM SenderStaysAwake == Spec => []SenderAwake
<1>1. IInv => SenderAwake
  BY DEF IInv
<1> QED
  BY <1>1, IInvInvariant, PTL

(* redundancy_ctrl_timeout is set only when a capability was sent for every
   packet missing. *)
THEOREM FullRound == Spec => []FullRoundBeforeRdCtrl
<1>1. ASSUME IInv, NEW f \in Flows, st[f] = "started", rx[f].rd = "set"
      PROVE  Packets(f) \ rx[f].got \subseteq rx[f].asked
  <2>1. /\ rx[f] \in FlowState(f) /\ GoalCoversUnasked(f, rx[f])
    BY <1>1 DEF IInv, TypeOK, FlowsConsistent
  <2>2. rx[f].left = 0 /\ Cardinality(Unasked(f, rx[f])) <= 0
    <3>1. rx[f].left \in Nat
      BY <2>1, StateFields
    <3> QED
      BY <1>1, <2>1, <3>1 DEF GoalCoversUnasked
  <2>3. IsFiniteSet(Unasked(f, rx[f])) /\ Cardinality(Unasked(f, rx[f])) \in Nat
    <3>1. Unasked(f, rx[f]) \in SUBSET Packets(f)
      BY DEF Unasked, Missing
    <3> QED
      BY <3>1, PacketSets, FS_CardinalityType
  <2>4. Unasked(f, rx[f]) = {}
    BY <2>2, <2>3, FS_EmptySet
  <2> QED
    BY <2>4 DEF Unasked, Missing
<1>2. IInv => FullRoundBeforeRdCtrl
  BY <1>1 DEF FullRoundBeforeRdCtrl
<1> QED
  BY <1>2, IInvInvariant, PTL

=============================================================================
