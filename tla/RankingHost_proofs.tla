------------------------- MODULE RankingHost_proofs -------------------------
(***************************************************************************)
(* Proofs of the safety properties of RankingHost, for any flows from any  *)
(* sources, any sizes, any window and any number of tokens in a grant.     *)
(* IInv of that module is inductive: there are lemmas about the record of  *)
(* a flow, about what a list of sources and the end of a grant change, and *)
(* one per action.                                                         *)
(***************************************************************************)
EXTENDS RankingHost, FiniteSetTheorems, WellFoundedInduction, TLAPS

-----------------------------------------------------------------------------
(* Numbers and sets *)

(* The least element of a set of natural numbers. *)
LEMMA MinOfNaturals ==
  ASSUME NEW S \in SUBSET Nat, S # {}
  PROVE  Min(S) \in S /\ \A y \in S : Min(S) <= y
<1> DEFINE Less == {p \in Nat \X Nat : p[1] < p[2]}
<1>1. IsWellFoundedOn(Less, Nat)
  BY NatLessThanWellFounded, Zenon DEF OpToRel
<1>2. PICK x \in S : \A y \in S : <<y, x>> \notin Less
  <2> HIDE DEF Less
  <2> QED
    BY <1>1, WFMin
<1>3. ASSUME NEW y \in S PROVE x <= y
  <2>1. <<y, x>> \notin Less
    BY <1>2
  <2>2. ~(<<y, x>>[1] < <<y, x>>[2])
    BY <2>1
  <2> QED
    BY <2>2
<1> QED
  BY <1>3 DEF Min

LEMMA PacketsOfFlow ==
  ASSUME NEW f \in Flows
  PROVE  /\ Size[f] \in Nat \ {0}
         /\ Packets(f) = 0..Size[f] - 1
         /\ Cardinality(Packets(f)) = Size[f]
         /\ Packets(f) # {}
<1> DEFINE n == Size[f] - 1
<1>1. Size[f] \in Nat \ {0}
  BY SizeAssumption
<1>2. n \in Int /\ 0 \in Int /\ ~(0 > n) /\ n - 0 + 1 = Size[f]
  BY <1>1
<1>3. Cardinality(0..n) = Size[f]
  <2> HIDE DEF n
  <2>1. Cardinality(0..n) = IF 0 > n THEN 0 ELSE n - 0 + 1
    BY <1>2, FS_Interval
  <2> QED
    BY <1>2, <2>1
<1> QED
  BY <1>1, <1>3 DEF Packets

-----------------------------------------------------------------------------
(* The record of one flow *)

RecordOK(f, r) == r \in FlowState /\ FlowConsistent(f, r)

Shape(r) ==
  r = [st |-> r.st, got |-> r.got, until |-> r.until, last |-> r.last,
       tokens |-> r.tokens, largest |-> r.largest, rd |-> r.rd]

(* A record is a flow's state if its fields are. *)
LEMMA StateFields ==
  ASSUME NEW r
  PROVE  r \in FlowState <=>
           /\ Shape(r)
           /\ r.st \in {"idle", "sent", "open", "done"} /\ r.rd \in {"off", "wait", "met"}
           /\ r.got \in SUBSET Nat /\ r.until \in Nat /\ r.last \in Int
           /\ r.tokens \in Nat /\ r.largest \in Int
  BY DEF Shape, FlowState

LEMMA NewFlowOK ==
  ASSUME NEW f \in Flows
  PROVE  RecordOK(f, NewFlow) /\ NewFlow.st = "idle"
<1> DEFINE r == NewFlow
<1>1. /\ r.st = "idle" /\ r.got = {} /\ r.until = 0 /\ r.last = -1 /\ r.tokens = 0
      /\ r.largest = -1 /\ r.rd = "off"
  BY DEF NewFlow
<1>2. Shape(r)
  BY DEF NewFlow, Shape
<1> HIDE DEF r
<1>3. r.got \in SUBSET Nat /\ r.until \in Nat /\ r.last \in Int /\ r.tokens \in Nat
      /\ r.largest \in Int
  BY <1>1
<1>4. r \in FlowState
  BY <1>1, <1>2, <1>3, StateFields
<1>5. FlowConsistent(f, r)
  BY <1>1, PacketsOfFlow DEF FlowConsistent
<1> QED
  BY <1>1, <1>4, <1>5 DEF RecordOK, r

(* The RTS is sent, the flow opens, or redundancy_ctrl_timeout is over. *)
LEMMA StepOK ==
  ASSUME NEW f \in Flows, NEW old, RecordOK(f, old), NEW r,
         \/ old.st = "idle" /\ r = [old EXCEPT !.st = "sent"]
         \/ old.st = "sent" /\ r = [old EXCEPT !.st = "open"]
         \/ r = [old EXCEPT !.rd = "met"]
         \/ r = [old EXCEPT !.rd = "off"]
  PROVE  RecordOK(f, r) /\ r.tokens = old.tokens
<1>1. old \in FlowState
  BY DEF RecordOK
<1>2. r \in FlowState
  BY <1>1 DEF FlowState
<1>3. /\ r.got = old.got /\ r.until = old.until /\ r.last = old.last
      /\ r.tokens = old.tokens /\ r.largest = old.largest
      /\ r.st = old.st \/ (old.st = "idle" /\ r.st = "sent") \/ (old.st = "sent" /\ r.st = "open")
  BY <1>1 DEF FlowState
<1>4. Packets(f) # {}
  BY PacketsOfFlow
<1> QED
  BY <1>2, <1>3, <1>4 DEF RecordOK, FlowConsistent

LEMMA OpenShortOK ==
  ASSUME NEW f \in Flows, NEW old, RecordOK(f, old), old.st = "sent"
  PROVE  /\ RecordOK(f, OpenShort(f, old))
         /\ OpenShort(f, old).st = "open" /\ OpenShort(f, old).tokens = Size[f]
<1> DEFINE r == OpenShort(f, old)
           a == Size[f]
           b == Size[f] - 1
<1>1. old \in FlowState
  BY DEF RecordOK
<1>2. /\ r.st = "open" /\ r.tokens = a /\ r.last = b /\ r.rd = "wait"
      /\ r.got = old.got /\ r.until = old.until /\ r.largest = old.largest
      /\ Shape(r)
  <2>1. r = [old EXCEPT !.st = "open", !.tokens = a, !.last = b, !.rd = "wait"]
    BY DEF OpenShort
  <2> HIDE DEF r, a, b
  <2> QED
    BY <1>1, <2>1 DEF Shape, FlowState
<1> HIDE DEF r
<1>3. Size[f] \in Nat \ {0} /\ Packets(f) # {}
  BY PacketsOfFlow
<1>4. r \in FlowState
  BY <1>1, <1>2, <1>3, StateFields
<1>5. old.largest = -1 /\ old.got = {}
  BY <1>1, StateFields DEF RecordOK, FlowConsistent
<1>6. FlowConsistent(f, r)
  BY <1>2, <1>3, <1>5 DEF RecordOK, FlowConsistent
<1> QED
  BY <1>2, <1>4, <1>6 DEF RecordOK, r

(* receive of a data packet: received_until passes over no hole. *)
LEMMA ReceivedOK ==
  ASSUME NEW f \in Flows, NEW old, RecordOK(f, old), old.st = "open",
         NEW d, d.seq \in Packets(f), d.tok \in Nat, d.tok < old.tokens
  PROVE  /\ RecordOK(f, Received(f, old, d))
         /\ Received(f, old, d).tokens = old.tokens /\ Received(f, old, d).rd = old.rd
         /\ Received(f, old, d).st \in {"open", "done"}
<1> DEFINE r == Received(f, old, d)
           a == old.got \cup {d.seq}
           b == Until(f, a, old.until)
           c == IF d.tok > old.largest THEN d.tok ELSE old.largest
           e == IF Cardinality(a) >= Size[f] THEN "done" ELSE old.st
           holes == {i \in old.until..Size[f] : i \notin a}
<1>1. old \in FlowState /\ old.got \in SUBSET Packets(f) /\ old.until \in 0..Size[f]
      /\ old.tokens \in Nat /\ old.largest \in Int /\ -1 <= old.largest
      /\ old.largest < old.tokens /\ 0..old.until - 1 \subseteq old.got
  BY StateFields DEF RecordOK, FlowConsistent
<1>2. Size[f] \in Nat \ {0} /\ Packets(f) = 0..Size[f] - 1 /\ Cardinality(Packets(f)) = Size[f]
  BY PacketsOfFlow
<1>3. /\ r.got = a /\ r.until = b /\ r.largest = c /\ r.st = e
      /\ r.last = old.last /\ r.tokens = old.tokens /\ r.rd = old.rd /\ Shape(r)
  <2>1. r = [old EXCEPT !.got = a, !.until = b, !.largest = c, !.st = e]
    BY DEF Received
  <2> HIDE DEF r, a, b, c, e
  <2> QED
    BY <1>1, <2>1 DEF Shape, FlowState
<1>4. a \in SUBSET Packets(f) /\ Size[f] \notin a
  BY <1>1, <1>2
<1>5. b \in holes /\ \A i \in holes : b <= i
  <2>1. holes # {} /\ holes \in SUBSET Nat
    BY <1>1, <1>2, <1>4
  <2>2. b = Min(holes)
    BY DEF Until
  <2> HIDE DEF b, holes
  <2> QED
    BY <2>1, <2>2, MinOfNaturals
<1>6. b \in 0..Size[f] /\ 0..b - 1 \subseteq a
  <2>1. b \in old.until..Size[f]
    BY <1>5
  <2>2. ASSUME NEW i \in 0..b - 1 PROVE i \in a
    <3>1. CASE i < old.until
      BY <1>1, <3>1
    <3>2. CASE i >= old.until
      <4> HIDE DEF b
      <4>1. i \in old.until..Size[f] /\ ~(b <= i)
        BY <1>1, <1>2, <2>1, <3>2
      <4> QED
        BY <1>5, <4>1
    <3> QED
      BY <1>1, <3>1, <3>2
  <2> HIDE DEF a, b
  <2> QED
    BY <1>1, <1>2, <2>1, <2>2
<1>7. c \in Int /\ -1 <= c /\ c < old.tokens
  BY <1>1
<1>8. e \in {"open", "done"} /\ (e = "open" => a # Packets(f))
  <2>1. e = "open" => ~(Cardinality(a) >= Size[f])
    OBVIOUS
  <2>2. a = Packets(f) => Cardinality(a) >= Size[f]
    <3> HIDE DEF a
    <3>1. a = Packets(f) => Cardinality(a) = Size[f]
      BY <1>2
    <3> QED
      BY <1>2, <3>1
  <2> QED
    BY <2>1, <2>2
<1>9. Packets(f) \subseteq Nat
  BY <1>2
<1> HIDE DEF r, a, b, c, e, holes
<1>10. r \in FlowState
  <2>1. /\ r.got \in SUBSET Nat /\ r.until \in Nat /\ r.largest \in Int
        /\ r.st \in {"idle", "sent", "open", "done"}
    BY <1>2, <1>3, <1>4, <1>6, <1>7, <1>8, <1>9
  <2> QED
    BY <1>1, <1>3, <2>1, StateFields
<1>11. FlowConsistent(f, r)
  BY <1>3, <1>4, <1>6, <1>7, <1>8 DEF RecordOK, FlowConsistent
<1> QED
  BY <1>3, <1>8, <1>10, <1>11 DEF RecordOK, r

(* get_next_token_seq_num finds a missing packet for every open flow. *)
LEMMA NextToken ==
  ASSUME NEW f \in Flows, NEW r, RecordOK(f, r), r.st = "open"
  PROVE  HasNextToken(f, r) /\ NextTokenSeq(f, r) \in Packets(f)
<1>1. /\ r.got \in SUBSET Packets(f) /\ r.got # Packets(f)
      /\ r.until \in 0..Size[f] /\ 0..r.until - 1 \subseteq r.got /\ r.last \in -1..Size[f] - 1
  BY DEF RecordOK, FlowConsistent
<1>2. Size[f] \in Nat \ {0} /\ Packets(f) = 0..Size[f] - 1
  BY PacketsOfFlow
<1>3. NextFrom(f, r) \in 0..Size[f] - 1
  BY <1>1, <1>2 DEF NextFrom
<1>4. Ahead(f, r) \in SUBSET Packets(f) /\ Wrapped(f, r) \in SUBSET Packets(f)
      /\ Packets(f) \in SUBSET Nat
  BY <1>1, <1>2, <1>3 DEF Ahead, Wrapped
<1>5. PICK i \in Packets(f) : i \notin r.got
  BY <1>1
<1>6. i \in 0..Size[f] - 1 /\ i >= r.until
  BY <1>1, <1>2, <1>5
<1>7. CASE i >= NextFrom(f, r)
  <2>1. i \in Ahead(f, r)
    BY <1>2, <1>3, <1>5, <1>6, <1>7 DEF Ahead
  <2>2. Min(Ahead(f, r)) \in Ahead(f, r)
    BY <1>4, <2>1, MinOfNaturals
  <2> QED
    BY <1>4, <2>1, <2>2 DEF HasNextToken, NextTokenSeq
<1>8. CASE i < NextFrom(f, r)
  <2>1. i \in Wrapped(f, r)
    BY <1>1, <1>2, <1>3, <1>5, <1>6, <1>8 DEF Wrapped
  <2>2. Ahead(f, r) # {} => Min(Ahead(f, r)) \in Ahead(f, r)
    BY <1>4, MinOfNaturals
  <2>3. Min(Wrapped(f, r)) \in Wrapped(f, r)
    BY <1>4, <2>1, MinOfNaturals
  <2> QED
    BY <1>4, <2>1, <2>2, <2>3 DEF HasNextToken, NextTokenSeq
<1> QED
  BY <1>2, <1>3, <1>6, <1>7, <1>8

LEMMA WithTokenOK ==
  ASSUME NEW f \in Flows, NEW old, RecordOK(f, old), old.st = "open"
  PROVE  /\ RecordOK(f, WithToken(f, old))
         /\ WithToken(f, old).st = "open" /\ WithToken(f, old).tokens = old.tokens + 1
         /\ WithToken(f, old).last \in Packets(f)
<1> DEFINE a == old.tokens + 1
           b == NextTokenSeq(f, old)
           c == IF TokenGap(old) > TokenWindow THEN old.tokens - TokenWindow ELSE old.largest
           relaxed == [old EXCEPT !.rd = "off", !.tokens = a, !.last = b, !.largest = c]
           e == IF b >= NextTokenSeq(f, relaxed) THEN "wait" ELSE "off"
           r == WithToken(f, old)
<1>1. /\ old \in FlowState /\ old.tokens \in Nat /\ old.largest \in Int
      /\ -1 <= old.largest /\ old.largest < old.tokens
  BY StateFields DEF RecordOK, FlowConsistent
<1>2. b \in Packets(f) /\ Size[f] \in Nat \ {0} /\ Packets(f) = 0..Size[f] - 1
  BY NextToken, PacketsOfFlow
<1>3. c \in Int /\ -1 <= c /\ c < a
  BY <1>1, TokensAssumption DEF TokenGap
<1>4. e \in {"off", "wait"} /\ a \in Nat /\ b \in Int /\ c \in Int
  BY <1>1, <1>2, <1>3
<1>5. /\ r.rd = e /\ r.tokens = a /\ r.last = b /\ r.largest = c
      /\ r.st = old.st /\ r.got = old.got /\ r.until = old.until /\ Shape(r)
  <2>1. r = [relaxed EXCEPT !.rd = e]
    BY DEF WithToken
  <2> HIDE DEF a, b, c, e
  <2>2. relaxed = [old EXCEPT !.rd = "off", !.tokens = a, !.last = b, !.largest = c]
    OBVIOUS
  <2> HIDE DEF relaxed, r
  <2>3. /\ relaxed.rd = "off" /\ relaxed.tokens = a /\ relaxed.last = b
        /\ relaxed.largest = c /\ relaxed.st = old.st /\ relaxed.got = old.got
        /\ relaxed.until = old.until /\ Shape(relaxed)
    BY <1>1, <2>2 DEF Shape, FlowState
  <2>4. relaxed \in FlowState
    BY <1>1, <1>4, <2>3, StateFields
  <2>5. /\ r.rd = e /\ r.tokens = a /\ r.last = b /\ r.largest = c
        /\ r.st = old.st /\ r.got = old.got /\ r.until = old.until
    BY <2>1, <2>3, <2>4 DEF FlowState
  <2>6. Shape(r)
    BY <2>1, <2>4 DEF Shape, FlowState
  <2> QED
    BY <2>5, <2>6
<1> HIDE DEF a, b, c, e, relaxed, r
<1>6. r \in FlowState
  BY <1>1, <1>2, <1>3, <1>4, <1>5, StateFields
<1>7. FlowConsistent(f, r)
  BY <1>2, <1>3, <1>5 DEF RecordOK, FlowConsistent
<1> QED
  BY <1>2, <1>5, <1>6, <1>7 DEF RecordOK, r, a

-----------------------------------------------------------------------------
(* The invariant in parts *)

GosrcType == [src : Srcs \cup {NoSrc}, remain : -1..MaxTokens, round : 0..MaxRound,
              sendNrts : BOOLEAN]
DataType == [flow : Flows, seq : Nat, tok : Nat, round : -1..MaxRound]
ListType == [nrts : Srcs \cup {NoSrc}, srcs : SUBSET Srcs]
CtlType == [busy : BOOLEAN, asked : SUBSET Srcs]

(* The flows, and the tokens and packets on their way. *)
RecordsOK == /\ DOMAIN rx = Flows /\ rx \in [Flows -> FlowState]
             /\ \A f \in Flows : RecordOK(f, rx[f])
FlightsOK == inFlight \subseteq DataType /\ TokensCounted

(* The host and the arbiter. *)
HostOK == /\ gosrc \in GosrcType
          /\ hold \in Nat /\ wakeup \in BOOLEAN /\ tok \in {"none", "normal", "timeout"}
          /\ failed = FALSE
ArbiterOK == listsrc \subseteq ListType /\ grants \subseteq Srcs /\ ctl \in CtlType

Parts == /\ RecordsOK
         /\ FlightsOK
         /\ HostOK
         /\ ArbiterOK
         /\ GrantInUse
         /\ ListRepeated
         /\ GrantInOnePlace
         /\ ShortFlowsServed

LEMMA InvariantInParts == IInv <=> Parts
  BY DEF IInv, Parts, RecordsOK, FlightsOK, HostOK, ArbiterOK, RecordOK, TypeOK, NoAssertFails,
         FlowsConsistent, GosrcType, DataType, ListType, CtlType

(* The record of the grant. *)
LEMMA GosrcFields ==
  ASSUME NEW g
  PROVE  g \in GosrcType <=>
           /\ g = [src |-> g.src, remain |-> g.remain, round |-> g.round,
                   sendNrts |-> g.sendNrts]
           /\ g.src \in Srcs \cup {NoSrc} /\ g.remain \in -1..MaxTokens
           /\ g.round \in 0..MaxRound /\ g.sendNrts \in BOOLEAN
  BY DEF GosrcType

LEMMA ResetFields ==
  ASSUME NEW g \in GosrcType
  PROVE  /\ Reset(g) \in GosrcType
         /\ Reset(g).src = NoSrc /\ Reset(g).remain = -1 /\ Reset(g).round = g.round
         /\ Reset(g).sendNrts = g.sendNrts
<1> DEFINE none == -1
           r == Reset(g)
<1>1. none \in -1..MaxTokens
  BY TokensAssumption
<1>2. r = [g EXCEPT !.src = NoSrc, !.remain = none]
  BY DEF Reset
<1> HIDE DEF none, r
<1>3. /\ r.src = NoSrc /\ r.remain = none /\ r.round = g.round /\ r.sendNrts = g.sendNrts
      /\ r = [src |-> r.src, remain |-> r.remain, round |-> r.round, sendNrts |-> r.sendNrts]
  BY <1>2 DEF GosrcType
<1>4. r \in GosrcType
  BY <1>1, <1>3, GosrcFields
<1> QED
  BY <1>3, <1>4 DEF r, none

LEMMA GivenBackFields ==
  ASSUME NEW g \in GosrcType
  PROVE  /\ GivenBack(g) \in GosrcType
         /\ GivenBack(g).src = g.src /\ GivenBack(g).remain = g.remain
         /\ GivenBack(g).round = g.round /\ GivenBack(g).sendNrts = TRUE
<1> DEFINE yes == TRUE
           r == GivenBack(g)
<1>1. yes \in BOOLEAN
  OBVIOUS
<1>2. r = [g EXCEPT !.sendNrts = yes]
  BY DEF GivenBack
<1> HIDE DEF yes, r
<1>3. /\ r.src = g.src /\ r.remain = g.remain /\ r.round = g.round /\ r.sendNrts = yes
      /\ r = [src |-> r.src, remain |-> r.remain, round |-> r.round, sendNrts |-> r.sendNrts]
  BY <1>2 DEF GosrcType
<1>4. r \in GosrcType
  BY <1>1, <1>3, GosrcFields
<1> QED
  BY <1>3, <1>4 DEF r, yes

(* send_listSrcs: at most one listSrcs more, and one with an NRTS if it is to
   carry one. *)
LEMMA ListSent ==
  ASSUME ArbiterOK, NEW nrts \in Srcs \cup {NoSrc}, NEW state, NEW g,
         SendListSrcs(nrts, state, g)
  PROVE  /\ listsrc' \subseteq ListType
         /\ nrts = NoSrc => Returns' = Returns
         /\ nrts # NoSrc => \E m : Returns' = Returns \cup {m}
<1>1. PICK s \in SourceLists(nrts, state, g) :
        listsrc' = IF s = {} /\ nrts = NoSrc THEN listsrc
                   ELSE listsrc \cup {[nrts |-> nrts, srcs |-> s]}
  BY DEF SendListSrcs
<1> DEFINE m == [nrts |-> nrts, srcs |-> s]
<1>2. s \in SUBSET Srcs
  BY DEF SourceLists
<1>3. m \in ListType /\ m.nrts = nrts
  BY <1>2 DEF ListType
<1>4. listsrc' = listsrc \/ listsrc' = listsrc \cup {m}
  BY <1>1
<1>5. nrts # NoSrc => listsrc' = listsrc \cup {m}
  BY <1>1
<1> HIDE DEF m
<1>6. listsrc' \subseteq ListType
  BY <1>3, <1>4 DEF ArbiterOK
<1>7. nrts = NoSrc => Returns' = Returns
  BY <1>3, <1>4 DEF Returns
<1>8. nrts # NoSrc => Returns' = Returns \cup {m}
  BY <1>3, <1>5 DEF Returns
<1> QED
  BY <1>6, <1>7, <1>8

(* A grant is lost or forgotten, or nothing happens to it. *)
LEMMA PlaceKept ==
  ASSUME GrantInOnePlace, grants' \subseteq grants, Returns' \subseteq Returns,
         InGrant' => InGrant, ctl' = ctl
  PROVE  GrantInOnePlace'
  BY DEF GrantInOnePlace

(* A grant in use is given back. *)
LEMMA PlaceReturned ==
  ASSUME GrantInOnePlace, InGrant, ~InGrant', grants' = grants, ctl' = ctl,
         NEW m, Returns' = Returns \cup {m}
  PROVE  GrantInOnePlace'
  BY DEF GrantInOnePlace

(* A token stays counted while its flow opens, asks for more and ends. *)
LEMMA FlightsKept ==
  ASSUME FlightsOK, inFlight' \subseteq inFlight, RecordsOK, RecordsOK',
         \A f \in Short : rx[f].st = "sent" =>
           \/ rx'[f].st = "sent"
           \/ rx'[f].st \in {"open", "done"} /\ rx'[f].tokens >= Size[f],
         \A f \in Flows : rx[f].st \in {"open", "done"} =>
           rx'[f].st \in {"open", "done"} /\ rx'[f].tokens >= rx[f].tokens
  PROVE  FlightsOK'
<1>1. ASSUME NEW d \in inFlight' PROVE TokenCounted(d, rx'[d.flow])
  <2>1. d \in inFlight /\ d.flow \in Flows /\ d.tok \in Nat /\ TokenCounted(d, rx[d.flow])
    BY DEF FlightsOK, DataType, TokensCounted
  <2>2. rx[d.flow] \in FlowState /\ rx'[d.flow] \in FlowState /\ Size[d.flow] \in Nat
    BY <2>1, SizeAssumption DEF RecordsOK, RecordOK
  <2>3. rx[d.flow].tokens \in Nat /\ rx'[d.flow].tokens \in Nat
    BY <2>2, StateFields
  <2> QED
    BY <2>1, <2>2, <2>3 DEF TokenCounted
<1> QED
  BY <1>1 DEF FlightsOK, TokensCounted, TokenCounted, DataType

(* A step of flows and packets that opens and ends no flow. *)
LEMMA HostKept ==
  ASSUME Parts, UNCHANGED <<hostVars, listsrc, arbiterVars>>, RecordsOK', FlightsOK',
         \A g \in Flows : Open(g)' <=> Open(g),
         \A g \in Flows : Open(g) /\ rx[g].rd # "wait" => rx'[g].rd # "wait"
  PROVE  Parts'
<1> USE DEF hostVars, arbiterVars
<1>1. HostOK' /\ ArbiterOK'
  BY DEF Parts, HostOK, ArbiterOK, GosrcType, ListType, CtlType
<1>2. GrantInUse'
  <2>1. \A s : Unfinished(s, rx) # {} => Unfinished(s, rx') # {}
    BY DEF Unfinished, Open, Long
  <2> QED
    BY <2>1 DEF Parts, GrantInUse, InGrant, Long, Unfinished
<1>3. ListRepeated' /\ ShortFlowsServed'
  BY DEF Parts, ListRepeated, SomeLongOpen, ShortFlowsServed, Long, Short
<1>4. GrantInOnePlace'
  BY PlaceKept DEF Parts, Returns, InGrant
<1> QED
  BY <1>1, <1>2, <1>3, <1>4 DEF Parts

(* One record changes. *)
LEMMA OneRecord ==
  ASSUME RecordsOK, NEW f \in Flows, NEW r, RecordOK(f, r), rx' = [rx EXCEPT ![f] = r]
  PROVE  RecordsOK' /\ rx'[f] = r /\ \A g \in Flows \ {f} : rx'[g] = rx[g]
<1>1. r \in FlowState
  BY DEF RecordOK
<1>2. rx' \in [Flows -> FlowState] /\ rx'[f] = r /\ \A g \in Flows \ {f} : rx'[g] = rx[g]
  BY <1>1 DEF RecordsOK
<1>3. ASSUME NEW g \in Flows PROVE RecordOK(g, rx'[g])
  BY <1>2 DEF RecordsOK
<1> QED
  BY <1>2, <1>3 DEF RecordsOK, RecordOK

-----------------------------------------------------------------------------
(* Events of flows and packets *)

LEMMA StartFlowKeeps ==
  ASSUME Parts, NEW f \in Flows, StartFlow(f)
  PROVE  Parts'
<1> DEFINE r == [rx[f] EXCEPT !.st = "sent"]
<1>1. /\ rx[f].st = "idle" /\ rx' = [rx EXCEPT ![f] = r]
      /\ UNCHANGED <<hostVars, listsrc, arbiterVars>>
  BY DEF StartFlow
<1>2. RecordsOK /\ RecordOK(f, rx[f]) /\ FlightsOK /\ rx[f] \in FlowState
  BY DEF Parts, RecordsOK, RecordOK
<1>3. RecordOK(f, r) /\ r.st = "sent"
  BY <1>1, <1>2, StepOK DEF FlowState
<1> HIDE DEF r
<1>4. RecordsOK' /\ rx'[f] = r /\ \A g \in Flows \ {f} : rx'[g] = rx[g]
  BY <1>1, <1>2, <1>3, OneRecord
<1>5. FlightsOK'
  <2> DEFINE new == {[flow |-> f, seq |-> i, tok |-> i, round |-> -1] : i \in Packets(f)}
  <2>1. inFlight' = IF f \in Short THEN inFlight \cup new ELSE inFlight
    BY DEF StartFlow
  <2>2. ASSUME NEW d \in inFlight PROVE d \in DataType /\ TokenCounted(d, rx'[d.flow])
    <3>1. d \in DataType /\ d.flow \in Flows /\ TokenCounted(d, rx[d.flow])
      BY <1>2 DEF FlightsOK, TokensCounted, DataType
    <3>2. d.flow # f
      BY <1>1, <3>1 DEF TokenCounted
    <3> QED
      BY <1>4, <3>1, <3>2
  <2>3. ASSUME f \in Short, NEW d \in new PROVE d \in DataType /\ TokenCounted(d, rx'[d.flow])
    <3>1. PICK i \in Packets(f) : d = [flow |-> f, seq |-> i, tok |-> i, round |-> -1]
      OBVIOUS
    <3>2. -1 \in -1..MaxRound
      BY BoundAssumption
    <3>3. i \in Nat /\ i < Size[f]
      BY PacketsOfFlow
    <3> DEFINE none == -1
    <3>4. d = [flow |-> f, seq |-> i, tok |-> i, round |-> none] /\ none \in -1..MaxRound
      BY <3>1, <3>2
    <3> HIDE DEF none
    <3>5. d \in DataType /\ d.flow = f /\ d.seq = i /\ d.tok = i
      BY <3>3, <3>4 DEF DataType
    <3> QED
      BY <1>3, <1>4, <2>3, <3>3, <3>5 DEF TokenCounted
  <2> HIDE DEF new
  <2>4. \A d \in inFlight' : d \in DataType /\ TokenCounted(d, rx'[d.flow])
    BY <2>1, <2>2, <2>3
  <2> QED
    BY <2>4 DEF FlightsOK, TokensCounted, TokenCounted, DataType
<1>6. \A g \in Flows : (Open(g)' <=> Open(g)) /\ (g # f => rx'[g] = rx[g])
  BY <1>1, <1>3, <1>4 DEF Open
<1> QED
  BY <1>1, <1>4, <1>5, <1>6, HostKept DEF Open

LEMMA ReceiveLongRtsKeeps ==
  ASSUME Parts, NEW f \in Flows, ReceiveLongRts(f)
  PROVE  Parts'
<1> DEFINE r == [rx[f] EXCEPT !.st = "open"]
<1>1. /\ f \in Long /\ rx[f].st = "sent" /\ rx' = [rx EXCEPT ![f] = r]
      /\ UNCHANGED <<gosrc, hold, failed, inFlight, arbiterVars>>
  BY DEF ReceiveLongRts
<1>2. RecordsOK /\ RecordOK(f, rx[f]) /\ FlightsOK /\ rx[f] \in FlowState
  BY DEF Parts, RecordsOK, RecordOK
<1>3. RecordOK(f, r) /\ r.st = "open"
  BY <1>1, <1>2, StepOK DEF FlowState
<1> HIDE DEF r
<1>4. RecordsOK' /\ rx'[f] = r /\ \A g \in Flows \ {f} : rx'[g] = rx[g]
  BY <1>1, <1>2, <1>3, OneRecord
<1>5. FlightsOK'
  <2>1. \A g \in Flows : g # f => rx'[g] = rx[g]
    BY <1>4
  <2>2. f \notin Short
    BY <1>1 DEF Long
  <2>3. \A g \in Flows : rx[g].tokens \in Nat
    BY <1>2, StateFields DEF RecordsOK, RecordOK
  <2>4. \A g \in Short : rx'[g] = rx[g]
    BY <2>1, <2>2 DEF Short
  <2>5. \A g \in Flows : rx[g].st \in {"open", "done"} => rx'[g] = rx[g]
    BY <1>1, <2>1
  <2>6. \A g \in Flows : rx[g].st \in {"open", "done"} =>
          rx'[g].st \in {"open", "done"} /\ rx'[g].tokens >= rx[g].tokens
    BY <2>3, <2>5
  <2> QED
    BY <1>1, <1>2, <1>4, <2>4, <2>6, FlightsKept
<1>6. /\ wakeup' \in BOOLEAN /\ tok' \in {"none", "normal", "timeout"}
      /\ listsrc' \subseteq ListType /\ Returns' = Returns
      /\ tok # "none" => tok' # "none"
      /\ wakeup' = IF gosrc.src = NoSrc THEN TRUE ELSE wakeup
  <2>1. CASE gosrc.src = NoSrc /\ SendAndRepeat(NoSrc, rx', gosrc) /\ UNCHANGED tok
    <3>1. SendListSrcs(NoSrc, rx', gosrc) /\ wakeup' = TRUE
      BY <2>1 DEF SendAndRepeat
    <3>2. listsrc' \subseteq ListType /\ Returns' = Returns
      BY <3>1, ListSent DEF Parts
    <3> QED
      BY <2>1, <3>1, <3>2 DEF Parts, HostOK
  <2>2. CASE gosrc.src = Src[f] /\ tok' \in {tok, "normal"} /\ UNCHANGED <<wakeup, listsrc>>
    <3>1. gosrc.src # NoSrc
      BY <2>2, NullAssumption
    <3> QED
      BY <2>2, <3>1 DEF Parts, HostOK, ArbiterOK, Returns
  <2>3. CASE gosrc.src \notin {NoSrc, Src[f]} /\ UNCHANGED <<tok, wakeup, listsrc>>
    BY <2>3 DEF Parts, HostOK, ArbiterOK, Returns
  <2> QED
    BY <2>1, <2>2, <2>3 DEF ReceiveLongRts
<1>7. HostOK' /\ ArbiterOK'
  BY <1>1, <1>6 DEF Parts, HostOK, ArbiterOK, arbiterVars, GosrcType, ListType, CtlType
<1>8. \A g \in Flows : Open(g) => Open(g)' /\ rx'[g] = rx[g]
  BY <1>1, <1>4 DEF Open
<1>9. GrantInUse'
  <2>1. \A s : Unfinished(s, rx) \subseteq Unfinished(s, rx')
    BY <1>8 DEF Unfinished, Open, Long
  <2>2. InGrant' => InGrant
    BY <1>1 DEF InGrant
  <2>3. gosrc.src # NoSrc => wakeup' = wakeup
    BY <1>6
  <2>4. InGrant => gosrc.src # NoSrc
    BY DEF InGrant
  <2>5. GrantInUse
    BY DEF Parts
  <2>6. gosrc'.src # NoSrc => /\ gosrc'.remain > 0 /\ gosrc'.round > 0
                              /\ \E g \in Long : Open(g)' /\ Src[g] = gosrc'.src
    BY <1>1, <1>8, <2>5 DEF GrantInUse, Long
  <2>7. InGrant' => Unfinished(gosrc'.src, rx') # {} /\ tok' # "none" /\ ~wakeup'
    BY <1>1, <1>6, <2>1, <2>2, <2>3, <2>4, <2>5 DEF GrantInUse
  <2> QED
    BY <2>6, <2>7 DEF GrantInUse
<1>10. ListRepeated'
  <2>1. gosrc.src # NoSrc => SomeLongOpen /\ wakeup' = wakeup
    BY <1>6 DEF Parts, GrantInUse, SomeLongOpen
  <2>2. gosrc.src = NoSrc => wakeup'
    BY <1>6
  <2> QED
    BY <1>1, <2>1, <2>2 DEF Parts, ListRepeated
<1>11. GrantInOnePlace'
  BY <1>1, <1>6, PlaceKept DEF Parts, InGrant, arbiterVars
<1>12. ShortFlowsServed'
  <2>1. \A g \in Short : Open(g)' => Open(g)
    BY <1>1, <1>4 DEF Open, Short, Long
  <2> QED
    BY <1>6, <2>1 DEF Parts, ShortFlowsServed
<1> QED
  BY <1>4, <1>5, <1>7, <1>9, <1>10, <1>11, <1>12 DEF Parts

LEMMA ReceiveShortRtsKeeps ==
  ASSUME Parts, NEW f \in Flows, ReceiveShortRts(f)
  PROVE  Parts'
<1> DEFINE r == OpenShort(f, rx[f])
<1>1. /\ f \in Short /\ rx[f].st = "sent" /\ rx' = [rx EXCEPT ![f] = r]
      /\ hold' = Size[f] /\ tok' = "normal"
      /\ UNCHANGED <<gosrc, wakeup, failed, inFlight, listsrc, arbiterVars>>
  BY DEF ReceiveShortRts
<1>2. RecordsOK /\ RecordOK(f, rx[f]) /\ FlightsOK /\ rx[f] \in FlowState
      /\ Size[f] \in Nat
  BY SizeAssumption DEF Parts, RecordsOK, RecordOK
<1>3. RecordOK(f, r) /\ r.st = "open" /\ r.tokens = Size[f]
  BY <1>1, <1>2, OpenShortOK
<1> HIDE DEF r
<1>4. RecordsOK' /\ rx'[f] = r /\ \A g \in Flows \ {f} : rx'[g] = rx[g]
  BY <1>1, <1>2, <1>3, OneRecord
<1>5. \A g \in Flows : rx[g].tokens \in Nat
  BY <1>2, StateFields DEF RecordsOK, RecordOK
<1>6. FlightsOK'
  <2>1. \A g \in Short : rx[g].st = "sent" =>
           \/ rx'[g].st = "sent"
           \/ rx'[g].st \in {"open", "done"} /\ rx'[g].tokens >= Size[g]
    BY <1>2, <1>3, <1>4 DEF Short
  <2>2. \A g \in Flows : rx[g].st \in {"open", "done"} => rx'[g] = rx[g]
    BY <1>1, <1>4
  <2>3. \A g \in Flows : rx[g].st \in {"open", "done"} =>
          rx'[g].st \in {"open", "done"} /\ rx'[g].tokens >= rx[g].tokens
    BY <1>5, <2>2
  <2> QED
    BY <1>1, <1>2, <1>4, <2>1, <2>3, FlightsKept
<1>7. HostOK' /\ ArbiterOK'
  BY <1>1, <1>2 DEF Parts, HostOK, ArbiterOK, arbiterVars, GosrcType, ListType, CtlType
<1>8. \A g \in Long : rx'[g] = rx[g]
  BY <1>1, <1>4 DEF Long
<1>9. GrantInUse' /\ ListRepeated'
  <2>1. \A s : Unfinished(s, rx) = Unfinished(s, rx')
    BY <1>8 DEF Unfinished
  <2>2. \A g \in Long : Open(g)' <=> Open(g)
    BY <1>8 DEF Open
  <2> QED
    BY <1>1, <2>1, <2>2 DEF Parts, GrantInUse, InGrant, ListRepeated, SomeLongOpen
<1>10. GrantInOnePlace'
  BY <1>1, PlaceKept DEF Parts, InGrant, Returns, arbiterVars
<1>11. ShortFlowsServed'
  BY <1>1 DEF ShortFlowsServed
<1> QED
  BY <1>4, <1>6, <1>7, <1>9, <1>10, <1>11 DEF Parts

(* The first data packet of a short flow opens it, any other is one more. *)
LEMMA DataRecord ==
  ASSUME Parts, NEW d \in inFlight, rx[d.flow].st \in {"sent", "open"},
         NEW r,
         r = Received(d.flow, IF rx[d.flow].st = "sent" THEN OpenShort(d.flow, rx[d.flow])
                              ELSE rx[d.flow], d)
  PROVE  /\ d.flow \in Flows /\ RecordOK(d.flow, r) /\ r.st \in {"open", "done"}
         /\ rx[d.flow].st = "sent" => d.flow \in Short /\ r.tokens = Size[d.flow]
         /\ rx[d.flow].st = "open" => r.tokens = rx[d.flow].tokens /\ r.rd = rx[d.flow].rd
<1> DEFINE f == d.flow
           o == IF rx[f].st = "sent" THEN OpenShort(f, rx[f]) ELSE rx[f]
<1>1. f \in Flows /\ d.seq \in Packets(f) /\ d.tok \in Nat /\ TokenCounted(d, rx[f])
  BY DEF Parts, FlightsOK, TokensCounted, TokenCounted, DataType
<1>2. RecordOK(f, rx[f])
  BY <1>1 DEF Parts, RecordsOK
<1>3. CASE rx[f].st = "sent"
  <2>1. RecordOK(f, o) /\ o.st = "open" /\ o.tokens = Size[f]
    BY <1>1, <1>2, <1>3, OpenShortOK
  <2>2. f \in Short /\ d.tok < Size[f]
    BY <1>1, <1>3 DEF TokenCounted
  <2>3. r = Received(f, o, d)
    OBVIOUS
  <2> HIDE DEF o, f
  <2>4. RecordOK(f, r) /\ r.tokens = o.tokens /\ r.st \in {"open", "done"}
    BY <1>1, <2>1, <2>2, <2>3, ReceivedOK
  <2> QED
    BY <1>1, <1>3, <2>1, <2>2, <2>4 DEF f
<1>4. CASE rx[f].st = "open"
  <2>1. d.tok < rx[f].tokens
    BY <1>1, <1>4 DEF TokenCounted
  <2>2. r = Received(f, rx[f], d)
    BY <1>4
  <2> HIDE DEF o, f
  <2>3. RecordOK(f, r) /\ r.tokens = rx[f].tokens /\ r.st \in {"open", "done"} /\ r.rd = rx[f].rd
    BY <1>1, <1>2, <1>4, <2>1, <2>2, ReceivedOK
  <2> QED
    BY <1>1, <1>4, <2>3 DEF f
<1> QED
  BY <1>3, <1>4

(* flow_finish_at_receiver *)
LEMMA FinishLongKeeps ==
  ASSUME Parts, NEW f \in Long, NEW round, FinishLong(f, round), RecordsOK', FlightsOK',
         rx[f].st = "open", rx'[f].st = "done", \A g \in Flows \ {f} : rx'[g] = rx[g],
         UNCHANGED <<hold, tok, arbiterVars>>
  PROVE  Parts'
<1>1. gosrc \in GosrcType /\ f \in Flows /\ f \notin Short /\ Src[f] \in Srcs
      /\ Src[f] # NoSrc
  BY NullAssumption DEF Parts, HostOK, Long, Srcs
<1>2. \A g \in Flows : Open(g)' => Open(g)
  BY DEF Open
<1>3. SomeLongOpen' => SomeLongOpen
  BY <1>2 DEF SomeLongOpen, Long
<1>4. ShortFlowsServed'
  BY <1>2 DEF Parts, ShortFlowsServed, Short
<1>5. grants' = grants /\ ctl' = ctl
  BY DEF arbiterVars
<1>6. CASE gosrc' = Reset(gosrc) /\ UNCHANGED <<wakeup, listsrc, failed>>
  <2>1. gosrc' \in GosrcType /\ gosrc'.src = NoSrc /\ gosrc'.round = gosrc.round
        /\ gosrc'.sendNrts = gosrc.sendNrts
    BY <1>1, <1>6, ResetFields
  <2>2. HostOK' /\ ArbiterOK'
    BY <1>5, <1>6, <2>1 DEF Parts, HostOK, ArbiterOK, GosrcType, ListType, CtlType
  <2>3. GrantInUse'
    BY <2>1 DEF GrantInUse, InGrant
  <2>4. ListRepeated'
    BY <1>3, <1>6, <2>1 DEF Parts, ListRepeated
  <2>5. GrantInOnePlace'
    BY <1>5, <1>6, <2>1, PlaceKept DEF Parts, InGrant, Returns
  <2> QED
    BY <1>4, <2>2, <2>3, <2>4, <2>5 DEF Parts
<1>7. CASE /\ gosrc.src = Src[f] /\ ~gosrc.sendNrts
           /\ SendAndRepeat(Src[f], rx', gosrc)
           /\ failed' = (failed \/ wakeup)
           /\ gosrc' = Reset(GivenBack(gosrc))
  <2>1. gosrc' \in GosrcType /\ gosrc'.src = NoSrc /\ gosrc'.sendNrts = TRUE
    BY <1>1, <1>7, GivenBackFields, ResetFields
  <2>2. InGrant /\ ~InGrant' /\ ~wakeup
    BY <1>1, <1>7, <2>1 DEF InGrant, Parts, GrantInUse
  <2>3. SendListSrcs(Src[f], rx', gosrc) /\ wakeup' = TRUE
    BY <1>7 DEF SendAndRepeat
  <2>4. listsrc' \subseteq ListType /\ \E m : Returns' = Returns \cup {m}
    BY <1>1, <2>3, ListSent DEF Parts
  <2>5. HostOK' /\ ArbiterOK'
    BY <1>5, <1>7, <2>1, <2>2, <2>3, <2>4 DEF Parts, HostOK, ArbiterOK, GosrcType, ListType, CtlType
  <2>6. GrantInUse' /\ ListRepeated'
    BY <2>1, <2>3 DEF GrantInUse, InGrant, ListRepeated
  <2>7. GrantInOnePlace'
    BY <1>5, <2>2, <2>4, PlaceReturned DEF Parts
  <2> QED
    BY <1>4, <2>5, <2>6, <2>7 DEF Parts
<1>8. CASE /\ gosrc.sendNrts /\ gosrc' = Reset(GivenBack(gosrc))
           /\ UNCHANGED <<wakeup, listsrc, failed>>
  <2>1. gosrc' \in GosrcType /\ gosrc'.src = NoSrc /\ gosrc'.sendNrts = TRUE
    BY <1>1, <1>8, GivenBackFields, ResetFields
  <2>2. HostOK' /\ ArbiterOK'
    BY <1>5, <1>8, <2>1 DEF Parts, HostOK, ArbiterOK, GosrcType, ListType, CtlType
  <2>3. GrantInUse'
    BY <2>1 DEF GrantInUse, InGrant
  <2>4. ListRepeated'
    BY <1>3, <1>8, <2>1 DEF Parts, ListRepeated
  <2>5. GrantInOnePlace'
    BY <1>5, <1>8, <2>1, PlaceKept DEF Parts, InGrant, Returns
  <2> QED
    BY <1>4, <2>2, <2>3, <2>4, <2>5 DEF Parts
<1>9. CASE /\ ~(gosrc.src = Src[f] /\ Unfinished(Src[f], rx') = {})
           /\ UNCHANGED <<gosrc, wakeup, listsrc, failed>>
  <2>1. HostOK' /\ ArbiterOK'
    BY <1>5, <1>9 DEF Parts, HostOK, ArbiterOK, GosrcType, ListType, CtlType
  <2>2. GrantInUse'
    <3>1. CASE gosrc.src = Src[f]
      <4>1. PICK g \in Unfinished(Src[f], rx') : TRUE
        BY <1>9, <3>1
      <4>2. g \in Long /\ Open(g)' /\ Src[g] = gosrc.src
        BY <3>1, <4>1 DEF Unfinished, Open
      <4> QED
        BY <1>1, <1>9, <3>1, <4>1, <4>2 DEF Parts, GrantInUse, InGrant
    <3>2. CASE gosrc.src # Src[f]
      <4>1. Unfinished(gosrc.src, rx') = Unfinished(gosrc.src, rx)
        BY <3>2 DEF Unfinished, Long
      <4>2. \A g \in Long : Src[g] = gosrc.src => (Open(g)' <=> Open(g))
        BY <3>2 DEF Open, Long
      <4> QED
        BY <1>9, <4>1, <4>2 DEF Parts, GrantInUse, InGrant
    <3> QED
      BY <3>1, <3>2
  <2>3. ListRepeated'
    BY <1>3, <1>9 DEF Parts, ListRepeated
  <2>4. GrantInOnePlace'
    BY <1>5, <1>9, PlaceKept DEF Parts, InGrant, Returns
  <2> QED
    BY <1>4, <2>1, <2>2, <2>3, <2>4 DEF Parts
<1> QED
  BY <1>6, <1>7, <1>8, <1>9 DEF FinishLong

LEMMA ReceiveDataKeeps ==
  ASSUME Parts, NEW d \in inFlight, ReceiveData(d)
  PROVE  Parts'
<1>1. inFlight' \subseteq inFlight /\ UNCHANGED arbiterVars
  BY DEF ReceiveData
<1>2. RecordsOK /\ FlightsOK /\ \A g \in Flows : rx[g].tokens \in Nat
  BY StateFields DEF Parts, RecordsOK, RecordOK
<1>3. CASE rx[d.flow].st = "done" /\ UNCHANGED <<rx, hostVars, listsrc>>
  <2>1. RecordsOK'
    BY <1>2, <1>3 DEF RecordsOK, RecordOK
  <2>2. FlightsOK'
    BY <1>1, <1>2, <1>3, <2>1, FlightsKept
  <2> QED
    BY <1>1, <1>3, <2>1, <2>2, HostKept DEF Open
<1>4. CASE rx[d.flow].st \in {"sent", "open"} /\ ReceiveNewData(d)
  <2> DEFINE f == d.flow
             first == rx[f].st = "sent"
             r == Received(f, IF first THEN OpenShort(f, rx[f]) ELSE rx[f], d)
             goOn == /\ f \in Long
                     /\ TokenGap(r) <= TokenWindow
                     /\ gosrc.src = Src[f]
                     /\ gosrc.remain > 0
                     /\ f \in Unfinished(Src[f], rx')
  <2>1. /\ rx' = [rx EXCEPT ![f] = r]
        /\ hold' = IF first THEN Size[f] ELSE hold
        /\ \/ /\ r.st = "done" /\ f \in Long
              /\ FinishLong(f, d.round)
              /\ UNCHANGED tok
           \/ /\ r.st # "done" \/ f \in Short
              /\ tok' \in IF first THEN {"normal"}
                          ELSE IF r.st # "done" /\ goOn THEN {tok, "normal"} ELSE {tok}
              /\ failed' = (failed \/ TokenGap(r) < -1)
              /\ UNCHANGED <<gosrc, wakeup, listsrc>>
    BY <1>4 DEF ReceiveNewData
  <2>2. /\ f \in Flows /\ RecordOK(f, r) /\ r.st \in {"open", "done"}
        /\ first => f \in Short /\ r.tokens = Size[f]
        /\ rx[f].st = "open" => r.tokens = rx[f].tokens /\ r.rd = rx[f].rd
    BY <1>4, DataRecord
  <2>3. RecordsOK' /\ rx'[f] = r /\ \A g \in Flows \ {f} : rx'[g] = rx[g]
    <3> HIDE DEF f, r, first, goOn
    <3> QED
      BY <1>2, <2>1, <2>2, OneRecord
  <2> HIDE DEF r, goOn
  <2>4. FlightsOK'
    <3>1. \A g \in Short : rx[g].st = "sent" =>
           \/ rx'[g].st = "sent"
           \/ rx'[g].st \in {"open", "done"} /\ rx'[g].tokens >= Size[g]
      <4>1. \A g \in Short : Size[g] \in Nat /\ g \in Flows
        BY SizeAssumption DEF Short
      <4> QED
        BY <2>2, <2>3, <4>1
    <3>2. \A g \in Flows : rx[g].st \in {"open", "done"} =>
            rx'[g].st \in {"open", "done"} /\ rx'[g].tokens >= rx[g].tokens
      BY <1>2, <1>4, <2>2, <2>3
    <3> QED
      BY <1>1, <1>2, <2>3, <3>1, <3>2, FlightsKept
  <2>5. CASE r.st = "done" /\ f \in Long /\ FinishLong(f, d.round) /\ UNCHANGED tok
    <3>1. rx[f].st = "open" /\ hold' = hold
      BY <1>4, <2>1, <2>2, <2>5 DEF Long
    <3> HIDE DEF f
    <3> QED
      BY <1>1, <2>3, <2>4, <2>5, <3>1, FinishLongKeeps
  <2>6. CASE /\ r.st # "done" \/ f \in Short
             /\ tok' \in IF first THEN {"normal"}
                         ELSE IF r.st # "done" /\ goOn THEN {tok, "normal"} ELSE {tok}
             /\ failed' = (failed \/ TokenGap(r) < -1)
             /\ UNCHANGED <<gosrc, wakeup, listsrc>>
    <3>1. ~(TokenGap(r) < -1)
      <4>1. r.tokens \in Nat /\ r.largest \in Int /\ r.largest < r.tokens
        BY <2>2, StateFields DEF RecordOK, FlowConsistent
      <4> QED
        BY <4>1 DEF TokenGap
    <3>2. tok' \in {tok, "normal"} /\ (first => tok' = "normal")
      BY <2>6
    <3>3. HostOK' /\ ArbiterOK'
      <4>1. hold' \in Nat
        BY <2>1, <2>2, SizeAssumption DEF Parts, HostOK
      <4> QED
        BY <1>1, <2>6, <3>1, <3>2, <4>1 DEF Parts, HostOK, ArbiterOK, arbiterVars,
                                            GosrcType, ListType, CtlType
    <3>4. \A g \in Long : (Open(g)' <=> Open(g)) /\ rx'[g].rd = rx[g].rd
      <4>1. ASSUME NEW g \in Long PROVE (Open(g)' <=> Open(g)) /\ rx'[g].rd = rx[g].rd
        <5>1. CASE g = f
          BY <1>4, <2>2, <2>3, <2>6, <5>1 DEF Open, Long
        <5>2. CASE g # f
          BY <2>3, <5>2 DEF Open, Long
        <5> QED
          BY <5>1, <5>2
      <4> QED
        BY <4>1
    <3>5. \A s : Unfinished(s, rx') = Unfinished(s, rx)
      BY <3>4 DEF Unfinished, Open
    <3>6. GrantInUse'
      BY <2>6, <3>2, <3>4, <3>5 DEF Parts, GrantInUse, InGrant
    <3>7. ListRepeated'
      BY <2>6, <3>4 DEF Parts, ListRepeated, SomeLongOpen
    <3>8. GrantInOnePlace'
      BY <1>1, <2>6, PlaceKept DEF Parts, InGrant, Returns, arbiterVars
    <3>9. ShortFlowsServed'
      <4>1. CASE first
        BY <3>2, <4>1 DEF ShortFlowsServed
      <4>2. CASE ~first
        <5>1. rx[f].st = "open"
          BY <1>4, <4>2
        <5>2. \A g \in Short : Open(g)' => Open(g)
          BY <2>3, <5>1 DEF Open, Short
        <5> QED
          BY <3>2, <5>2 DEF Parts, ShortFlowsServed
      <4> QED
        BY <4>1, <4>2
    <3> QED
      BY <2>3, <2>4, <3>3, <3>6, <3>7, <3>8, <3>9 DEF Parts
  <2> QED
    BY <2>1, <2>5, <2>6
<1> QED
  BY <1>3, <1>4 DEF ReceiveData

LEMMA LoseDataKeeps ==
  ASSUME Parts, NEW d \in inFlight, LoseData(d)
  PROVE  Parts'
<1>1. inFlight' \subseteq inFlight /\ UNCHANGED <<rx, hostVars, listsrc, arbiterVars>>
  BY DEF LoseData
<1>2. RecordsOK /\ FlightsOK /\ \A g \in Flows : rx[g].tokens \in Nat
  BY StateFields DEF Parts, RecordsOK, RecordOK
<1>3. RecordsOK'
  BY <1>1, <1>2 DEF RecordsOK, RecordOK
<1>4. FlightsOK'
  BY <1>1, <1>2, <1>3, FlightsKept
<1> QED
  BY <1>1, <1>3, <1>4, HostKept DEF Open

LEMMA RedundancyTimeoutKeeps ==
  ASSUME Parts, NEW f \in Flows, RedundancyTimeout(f)
  PROVE  Parts'
<1> DEFINE r == [rx[f] EXCEPT !.rd = "met"]
<1>1. /\ rx' = [rx EXCEPT ![f] = r] /\ rx[f].rd = "wait"
      /\ UNCHANGED <<hostVars, inFlight, listsrc, arbiterVars>>
  BY DEF RedundancyTimeout
<1>2. RecordsOK /\ RecordOK(f, rx[f]) /\ FlightsOK /\ rx[f] \in FlowState
      /\ \A g \in Flows : rx[g].tokens \in Nat
  BY StateFields DEF Parts, RecordsOK, RecordOK
<1>3. RecordOK(f, r) /\ r.tokens = rx[f].tokens
  BY <1>1, <1>2, StepOK
<1>4. r.st = rx[f].st
  BY <1>2 DEF FlowState
<1> HIDE DEF r
<1>5. RecordsOK' /\ rx'[f] = r /\ \A g \in Flows \ {f} : rx'[g] = rx[g]
  BY <1>1, <1>2, <1>3, OneRecord
<1>6. \A g \in Flows : rx'[g].st = rx[g].st /\ rx'[g].tokens >= rx[g].tokens
  BY <1>2, <1>3, <1>4, <1>5
<1>7. FlightsOK'
  BY <1>1, <1>2, <1>5, <1>6, FlightsKept DEF Short
<1>8. \A g \in Flows : (Open(g)' <=> Open(g)) /\ (rx[g].rd # "wait" => rx'[g].rd # "wait")
  BY <1>1, <1>5, <1>6 DEF Open
<1> QED
  BY <1>1, <1>5, <1>7, <1>8, HostKept

-----------------------------------------------------------------------------
(* Grants, timed events, the arbiter *)

LEMMA FlowsUnchanged ==
  ASSUME Parts, UNCHANGED <<rx, inFlight>>
  PROVE  /\ RecordsOK' /\ FlightsOK'
         /\ SomeLongOpen' <=> SomeLongOpen
         /\ (\E f \in Short : Open(f))' <=> (\E f \in Short : Open(f))
         /\ \A f \in Flows : Open(f)' <=> Open(f)
         /\ \A s : Unfinished(s, rx') = Unfinished(s, rx)
  BY DEF Parts, RecordsOK, RecordOK, FlightsOK, TokensCounted, TokenCounted, DataType,
         SomeLongOpen, Open, Unfinished

LEMMA ReceiveGosrcKeeps ==
  ASSUME Parts, NEW s \in grants, ReceiveGosrc(s)
  PROVE  Parts'
<1>1. /\ grants' = grants \ {s} /\ gosrc.round < MaxRound /\ s \in Srcs /\ s # NoSrc
      /\ UNCHANGED <<rx, hold, failed, inFlight, ctl>>
  BY NullAssumption DEF ReceiveGosrc, Parts, ArbiterOK, Srcs
<1>2. grants' = {} /\ Returns = {} /\ ~InGrant /\ ctl.busy /\ gosrc \in GosrcType
  BY <1>1 DEF Parts, GrantInOnePlace, HostOK
<1>3. /\ RecordsOK' /\ FlightsOK'
      /\ SomeLongOpen' <=> SomeLongOpen
      /\ (\E f \in Short : Open(f))' <=> (\E f \in Short : Open(f))
      /\ \A f \in Flows : Open(f)' <=> Open(f)
      /\ \A t : Unfinished(t, rx') = Unfinished(t, rx)
  BY <1>1, FlowsUnchanged
<1>4. CASE RefuseGrant(s)
  <2>1. SendListSrcs(s, rx, gosrc) /\ wakeup' = TRUE /\ gosrc' = Reset(GivenBack(gosrc))
        /\ tok' = tok
    BY <1>4 DEF RefuseGrant, SendAndRepeat
  <2>2. gosrc' \in GosrcType /\ gosrc'.src = NoSrc /\ gosrc'.sendNrts = TRUE
    BY <1>2, <2>1, GivenBackFields, ResetFields
  <2>3. listsrc' \subseteq ListType /\ \E m : Returns' = Returns \cup {m}
    BY <1>1, <2>1, ListSent DEF Parts
  <2>4. HostOK' /\ ArbiterOK'
    BY <1>1, <1>2, <2>1, <2>2, <2>3 DEF Parts, HostOK, ArbiterOK, GosrcType, ListType, CtlType
  <2>5. GrantInUse' /\ ListRepeated'
    BY <2>1, <2>2 DEF GrantInUse, InGrant, ListRepeated
  <2>6. GrantInOnePlace'
    BY <1>1, <1>2, <2>2, <2>3 DEF GrantInOnePlace, InGrant
  <2>7. ShortFlowsServed'
    BY <1>3, <2>1 DEF Parts, ShortFlowsServed
  <2> QED
    BY <1>3, <2>4, <2>5, <2>6, <2>7 DEF Parts
<1>5. CASE TakeGrant(s)
  <2> DEFINE n == gosrc.round + 1
             no == FALSE
  <2>1. /\ Unfinished(s, rx) # {} /\ wakeup' = FALSE /\ tok' = "normal" /\ listsrc' = listsrc
        /\ gosrc' = [src |-> s, remain |-> MaxTokens, round |-> n, sendNrts |-> no]
    BY <1>5 DEF TakeGrant
  <2>2. n \in 0..MaxRound /\ n > 0 /\ MaxTokens \in -1..MaxTokens /\ MaxTokens > 0
    BY <1>1, <1>2, BoundAssumption, TokensAssumption DEF GosrcType
  <2>3. no \in BOOLEAN /\ ~no
    OBVIOUS
  <2> HIDE DEF n, no
  <2>4. gosrc' \in GosrcType /\ gosrc'.src = s /\ gosrc'.remain = MaxTokens
        /\ gosrc'.round = n /\ gosrc'.sendNrts = no
    BY <1>1, <2>1, <2>2, <2>3 DEF GosrcType
  <2>5. HostOK' /\ ArbiterOK'
    BY <1>1, <1>2, <2>1, <2>4 DEF Parts, HostOK, ArbiterOK, GosrcType, ListType, CtlType
  <2>6. GrantInUse'
    <3>1. PICK f \in Unfinished(s, rx) : TRUE
      BY <2>1
    <3>2. f \in Long /\ Open(f)' /\ Src[f] = s
      BY <1>3, <3>1 DEF Unfinished, Open, Long
    <3>3. Unfinished(gosrc'.src, rx') # {}
      BY <1>3, <2>1, <2>4
    <3> QED
      BY <2>1, <2>2, <2>4, <3>2, <3>3 DEF GrantInUse
  <2>7. ListRepeated'
    BY <2>2, <2>3, <2>4 DEF ListRepeated
  <2>8. GrantInOnePlace'
    BY <1>1, <1>2, <2>1 DEF GrantInOnePlace, Returns
  <2>9. ShortFlowsServed'
    BY <2>1 DEF ShortFlowsServed
  <2> QED
    BY <1>3, <2>5, <2>6, <2>7, <2>8, <2>9 DEF Parts
<1> QED
  BY <1>4, <1>5 DEF ReceiveGosrc

LEMMA WakeupKeeps ==
  ASSUME Parts, Wakeup
  PROVE  Parts'
<1>1. /\ wakeup /\ SendListSrcs(NoSrc, rx, gosrc)
      /\ wakeup' = SomeLongOpen
      /\ UNCHANGED <<rx, gosrc, hold, tok, failed, inFlight, arbiterVars>>
  BY DEF Wakeup, SomeLongOpen
<1>2. /\ RecordsOK' /\ FlightsOK'
      /\ SomeLongOpen' <=> SomeLongOpen
      /\ (\E f \in Short : Open(f))' <=> (\E f \in Short : Open(f))
      /\ \A f \in Flows : Open(f)' <=> Open(f)
      /\ \A t : Unfinished(t, rx') = Unfinished(t, rx)
  BY <1>1, FlowsUnchanged
<1>3. listsrc' \subseteq ListType /\ Returns' = Returns
  BY <1>1, ListSent DEF Parts
<1>4. SomeLongOpen \in BOOLEAN
  BY DEF SomeLongOpen
<1>5. HostOK' /\ ArbiterOK'
  BY <1>1, <1>3, <1>4 DEF Parts, HostOK, ArbiterOK, arbiterVars, GosrcType, ListType, CtlType
<1>6. ~InGrant
  BY <1>1 DEF Parts, GrantInUse
<1>7. GrantInUse'
  BY <1>1, <1>2, <1>6 DEF Parts, GrantInUse, InGrant, Long
<1>8. ListRepeated'
  BY <1>1, <1>2 DEF ListRepeated
<1>9. GrantInOnePlace'
  BY <1>1, <1>3, PlaceKept DEF Parts, InGrant, arbiterVars
<1>10. ShortFlowsServed'
  BY <1>1, <1>2 DEF Parts, ShortFlowsServed
<1> QED
  BY <1>2, <1>5, <1>7, <1>8, <1>9, <1>10 DEF Parts

LEMMA HoldKeeps ==
  ASSUME Parts, Hold
  PROVE  Parts'
<1>1. /\ hold > 0 /\ hold' = hold - 1 /\ tok' = "normal"
      /\ UNCHANGED <<rx, gosrc, wakeup, failed, inFlight, listsrc, arbiterVars>>
  BY DEF Hold
<1>2. /\ RecordsOK' /\ FlightsOK'
      /\ SomeLongOpen' <=> SomeLongOpen
      /\ (\E f \in Short : Open(f))' <=> (\E f \in Short : Open(f))
      /\ \A f \in Flows : Open(f)' <=> Open(f)
      /\ \A t : Unfinished(t, rx') = Unfinished(t, rx)
  BY <1>1, FlowsUnchanged
<1>3. HostOK' /\ ArbiterOK'
  BY <1>1 DEF Parts, HostOK, ArbiterOK, arbiterVars, GosrcType, ListType, CtlType
<1>4. GrantInUse' /\ ListRepeated'
  BY <1>1, <1>2 DEF Parts, GrantInUse, InGrant, Long, ListRepeated
<1>5. GrantInOnePlace'
  BY <1>1, PlaceKept DEF Parts, InGrant, Returns, arbiterVars
<1>6. ShortFlowsServed'
  BY <1>1 DEF ShortFlowsServed
<1> QED
  BY <1>2, <1>3, <1>4, <1>5, <1>6 DEF Parts

(* The end of send_token: the grant, charged for the token, goes back or not. *)
LEMMA GrantEnds ==
  ASSUME Parts, RecordsOK', FlightsOK',
         NEW best \in Picks(gosrc.src, rx), NEW tried \in SUBSET Flows,
         best \in Flows \ tried => rx'[best] = rx[best],
         NEW g \in GosrcType, g.round = gosrc.round, g.sendNrts = gosrc.sendNrts,
         g.src = NoSrc \/ (g.src = gosrc.src /\ g.remain > 0),
         EndOfGrant(tried, best, rx', g),
         failed' = (failed \/ (NrtsDue(tried, best, rx', g) /\ wakeup)),
         UNCHANGED <<hold, arbiterVars>>,
         tok' \in {"none", "normal", "timeout"},
         best \in Flows => tok' # "none", ShortFlowsServed',
         \A h \in Flows : Open(h)' <=> Open(h)
  PROVE  Parts'
<1>1. /\ UNCHANGED <<hold, grants, ctl>> /\ gosrc \in GosrcType /\ failed = FALSE
      /\ wakeup \in BOOLEAN
  BY DEF arbiterVars, Parts, HostOK
<1>2. \A h \in Long : h \in Flows /\ (Open(h)' <=> Open(h))
  BY DEF Long
<1>3. SomeLongOpen' <=> SomeLongOpen
  BY <1>2 DEF SomeLongOpen
<1>4. best \in Flows => best \in Unfinished(gosrc.src, rx)
  BY NullAssumption DEF Picks
<1>5. \A h : h \in Unfinished(gosrc.src, rx) => h \in Long /\ Open(h) /\ Src[h] = gosrc.src
  BY DEF Unfinished, Open
<1>6. CASE NrtsDue(tried, best, rx', g)
  <2>1. wakeup' = TRUE /\ SendListSrcs(Src[best], rx', g) /\ gosrc' = GivenBack(g)
    BY <1>6 DEF EndOfGrant, SendAndRepeat
  <2>2. best \in tried /\ best \in Flows /\ ~gosrc.sendNrts
    BY <1>6 DEF NrtsDue
  <2>3. Src[best] = gosrc.src /\ gosrc.src # NoSrc /\ Src[best] \in Srcs
    BY <1>4, <1>5, <2>2, NullAssumption DEF Srcs
  <2>4. InGrant /\ ~wakeup
    BY <2>2, <2>3 DEF InGrant, Parts, GrantInUse
  <2>5. /\ gosrc' \in GosrcType /\ gosrc'.src = g.src /\ gosrc'.remain = g.remain
        /\ gosrc'.round = g.round /\ gosrc'.sendNrts = TRUE
    BY <2>1, GivenBackFields
  <2>6. ~InGrant'
    BY <2>5 DEF InGrant
  <2>7. listsrc' \subseteq ListType /\ \E m : Returns' = Returns \cup {m}
    BY <2>1, <2>3, ListSent DEF Parts
  <2>8. HostOK' /\ ArbiterOK'
    BY <1>1, <2>1, <2>4, <2>5, <2>7 DEF Parts, HostOK, ArbiterOK, GosrcType, ListType, CtlType
  <2>9. GrantInUse'
    <3>1. ASSUME gosrc'.src # NoSrc
          PROVE  /\ gosrc'.remain > 0 /\ gosrc'.round > 0
                 /\ \E h \in Long : Open(h)' /\ Src[h] = gosrc'.src
      BY <1>2, <2>3, <2>5, <3>1 DEF Parts, GrantInUse
    <3> QED
      BY <2>6, <3>1 DEF GrantInUse
  <2>10. ListRepeated'
    BY <2>1 DEF ListRepeated
  <2>11. GrantInOnePlace'
    BY <1>1, <2>4, <2>6, <2>7, PlaceReturned DEF Parts
  <2> QED
    BY <2>8, <2>9, <2>10, <2>11 DEF Parts
<1>7. CASE ~NrtsDue(tried, best, rx', g)
  <2>1. gosrc' = g /\ UNCHANGED <<wakeup, listsrc>> /\ failed' = FALSE
    BY <1>1, <1>7 DEF EndOfGrant
  <2>2. HostOK' /\ ArbiterOK'
    BY <1>1, <2>1 DEF Parts, HostOK, ArbiterOK, GosrcType, ListType, CtlType
  <2>3. GrantInUse'
    <3>1. ASSUME gosrc'.src # NoSrc
          PROVE  /\ gosrc'.remain > 0 /\ gosrc'.round > 0
                 /\ \E h \in Long : Open(h)' /\ Src[h] = gosrc'.src
      BY <1>2, <2>1, <3>1 DEF Parts, GrantInUse
    <3>2. ASSUME InGrant'
          PROVE  Unfinished(gosrc'.src, rx') # {} /\ tok' # "none" /\ ~wakeup'
      <4>1. InGrant /\ gosrc'.src = gosrc.src
        BY <2>1, <3>2 DEF InGrant
      <4>2. Unfinished(gosrc.src, rx) # {} /\ ~wakeup
        BY <4>1 DEF Parts, GrantInUse
      <4>3. best \in Unfinished(gosrc.src, rx) /\ best \in Flows
        BY <4>2 DEF Picks, Unfinished, Long
      <4>4. rx'[best].rd # "wait"
        <5>1. CASE best \in tried
          BY <1>7, <2>1, <3>2, <5>1 DEF NrtsDue, InGrant
        <5>2. CASE best \notin tried
          BY <4>3, <5>2 DEF Unfinished
        <5> QED
          BY <5>1, <5>2
      <4>5. rx'[best].st = "open"
        BY <1>5, <4>3 DEF Open
      <4>6. best \in Unfinished(gosrc'.src, rx')
        BY <1>5, <4>1, <4>3, <4>4, <4>5 DEF Unfinished
      <4> QED
        BY <2>1, <4>2, <4>3, <4>6
    <3> QED
      BY <3>1, <3>2 DEF GrantInUse
  <2>4. ListRepeated'
    BY <1>3, <2>1 DEF Parts, ListRepeated
  <2>5. GrantInOnePlace'
    <3>1. InGrant' => InGrant
      BY <2>1 DEF InGrant
    <3> QED
      BY <1>1, <2>1, <3>1, PlaceKept DEF Parts, Returns
  <2> QED
    BY <2>2, <2>3, <2>4, <2>5 DEF Parts
<1> QED
  BY <1>6, <1>7

(* The flows that send_token may come to. *)
LEMMA CandidateFlows ==
  ASSUME Parts, NEW best \in Picks(gosrc.src, rx)
  PROVE  /\ \A f \in Candidates(best) : f \in Flows /\ Open(f)
         /\ best \in Flows => best \in Candidates(best) /\ gosrc.src # NoSrc
         /\ \A f \in Short : Open(f) => f \in Candidates(best)
         /\ \A f \in Candidates(best) \cap Long : f = best
  BY NullAssumption DEF Picks, Candidates, Unfinished, Open, Short, Long

LEMMA PassedOK ==
  ASSUME NEW f \in Flows, NEW r, RecordOK(f, r)
  PROVE  RecordOK(f, Passed(r)) /\ Passed(r).st = r.st /\ Passed(r).tokens = r.tokens
<1>1. r \in FlowState
  BY DEF RecordOK
<1>2. CASE r.rd = "met"
  <2> DEFINE p == [r EXCEPT !.rd = "off"]
  <2>1. Passed(r) = p
    BY <1>2 DEF Passed
  <2>2. RecordOK(f, p) /\ p.tokens = r.tokens
    BY StepOK
  <2>3. p.st = r.st
    BY <1>1 DEF FlowState
  <2> QED
    BY <2>1, <2>2, <2>3
<1>3. CASE r.rd # "met"
  BY <1>3 DEF Passed
<1> QED
  BY <1>2, <1>3

LEMMA SendNoTokenKeeps ==
  ASSUME Parts, NEW best \in Picks(gosrc.src, rx), SendNoToken(best),
         UNCHANGED <<hold, arbiterVars>>
  PROVE  Parts'
<1>1. /\ rx' = [f \in Flows |-> IF f \in Candidates(best) THEN Passed(rx[f]) ELSE rx[f]]
      /\ EndOfGrant(Candidates(best), best, rx', gosrc)
      /\ tok' = IF Candidates(best) = {} THEN "none" ELSE "timeout"
      /\ failed' = (failed \/ (NrtsDue(Candidates(best), best, rx', gosrc) /\ wakeup))
      /\ inFlight' = inFlight
  BY DEF SendNoToken
<1>2. /\ \A f \in Candidates(best) : f \in Flows /\ Open(f)
      /\ best \in Flows => best \in Candidates(best) /\ gosrc.src # NoSrc
      /\ \A f \in Short : Open(f) => f \in Candidates(best)
  BY CandidateFlows
<1>3. ASSUME NEW f \in Flows
      PROVE  RecordOK(f, rx'[f]) /\ rx'[f].st = rx[f].st /\ rx'[f].tokens = rx[f].tokens
  <2>1. RecordOK(f, rx[f])
    BY DEF Parts, RecordsOK
  <2> QED
    BY <1>1, <2>1, PassedOK
<1>4. RecordsOK'
  <2>1. rx' \in [Flows -> FlowState]
    BY <1>1, <1>3 DEF RecordOK
  <2> QED
    BY <1>3, <2>1 DEF RecordsOK, RecordOK
<1>5. FlightsOK'
  <2>1. \A f \in Flows : rx'[f].tokens \in Nat
    BY <1>3, StateFields DEF RecordOK
  <2>2. \A f \in Flows : rx'[f].st = rx[f].st /\ rx'[f].tokens >= rx[f].tokens
    BY <1>3, <2>1
  <2> QED
    BY <1>1, <1>4, <2>2, FlightsKept DEF Parts, Short
<1>6. \A f \in Flows : Open(f)' <=> Open(f)
  BY <1>3 DEF Open
<1>7. gosrc \in GosrcType /\ (gosrc.src # NoSrc => gosrc.remain > 0)
  BY DEF Parts, HostOK, GrantInUse
<1>8. Candidates(best) \in SUBSET Flows /\ (best \in Flows \ Candidates(best) => rx'[best] = rx[best])
  BY <1>2
<1>9. tok' \in {"none", "normal", "timeout"} /\ (best \in Flows => tok' # "none")
  BY <1>1, <1>2
<1>10. ShortFlowsServed'
  BY <1>1, <1>2, <1>6 DEF ShortFlowsServed, Short
<1> QED
  BY <1>1, <1>4, <1>5, <1>6, <1>7, <1>8, <1>9, <1>10, GrantEnds

LEMMA ChargedFields ==
  ASSUME Parts, NEW best \in Picks(gosrc.src, rx), NEW f \in Candidates(best)
  PROVE  /\ Charged(f) \in GosrcType
         /\ Charged(f).round = gosrc.round /\ Charged(f).sendNrts = gosrc.sendNrts
         /\ Charged(f).src = NoSrc \/ (Charged(f).src = gosrc.src /\ Charged(f).remain > 0)
<1>1. gosrc \in GosrcType /\ (gosrc.src # NoSrc => gosrc.remain > 0)
  BY DEF Parts, HostOK, GrantInUse
<1>2. CASE f \notin Long
  BY <1>1, <1>2 DEF Charged
<1>3. CASE f \in Long /\ gosrc.remain = 1
  BY <1>1, <1>3, ResetFields DEF Charged
<1>4. CASE f \in Long /\ gosrc.remain # 1
  <2> DEFINE n == gosrc.remain - 1
             g == Charged(f)
  <2>1. f = best /\ f \in Flows /\ gosrc.src # NoSrc
    BY <1>4, CandidateFlows
  <2>2. n \in -1..MaxTokens /\ n > 0
    BY <1>1, <1>4, <2>1, TokensAssumption DEF GosrcType
  <2>3. g = [gosrc EXCEPT !.remain = n]
    BY <1>4 DEF Charged
  <2> HIDE DEF n, g
  <2>4. /\ g.src = gosrc.src /\ g.remain = n /\ g.round = gosrc.round
        /\ g.sendNrts = gosrc.sendNrts /\ g \in GosrcType
    BY <1>1, <2>2, <2>3 DEF GosrcType
  <2> QED
    BY <2>2, <2>4 DEF g
<1> QED
  BY <1>2, <1>3, <1>4

LEMMA SendTokenOfKeeps ==
  ASSUME Parts, NEW best \in Picks(gosrc.src, rx), NEW f \in Candidates(best),
         NEW passed \in SUBSET {g \in Candidates(best) : Waits(g)},
         SendTokenOf(f, best, passed),
         UNCHANGED <<hold, arbiterVars>>
  PROVE  Parts'
<1> DEFINE tried == passed \cup {f}
           g == Charged(f)
           round == IF f \in Long THEN gosrc.round ELSE -1
           d == [flow |-> f, seq |-> rx'[f].last, tok |-> rx[f].tokens, round |-> round]
<1>1. /\ f \notin passed
      /\ rx' = [h \in Flows |-> IF h = f THEN WithToken(f, rx[f])
                                ELSE IF h \in passed THEN Passed(rx[h])
                                ELSE rx[h]]
      /\ inFlight' = inFlight \cup {d}
      /\ EndOfGrant(tried, best, rx', g)
      /\ tok' = "normal"
      /\ failed' = \/ failed
                   \/ f = best /\ gosrc.remain <= 0
                   \/ ~HasNextToken(f, rx[f])
                   \/ TokenGap(rx[f]) < -1
                   \/ NrtsDue(tried, best, rx', g) /\ wakeup
  BY DEF SendTokenOf
<1>2. /\ \A h \in Candidates(best) : h \in Flows /\ Open(h)
      /\ best \in Flows => best \in Candidates(best) /\ gosrc.src # NoSrc
  BY CandidateFlows
<1>3. f \in Flows /\ rx[f].st = "open" /\ RecordOK(f, rx[f]) /\ rx[f].tokens \in Nat
      /\ TokenGap(rx[f]) >= -1 /\ HasNextToken(f, rx[f])
  <2>1. f \in Flows /\ rx[f].st = "open" /\ RecordOK(f, rx[f])
    BY <1>2 DEF Open, Parts, RecordsOK
  <2>2. rx[f].tokens \in Nat /\ rx[f].largest \in Int /\ rx[f].largest < rx[f].tokens
    BY <2>1, StateFields DEF RecordOK, FlowConsistent
  <2> QED
    BY <2>1, <2>2, NextToken DEF TokenGap
<1>4. /\ RecordOK(f, rx'[f]) /\ rx'[f].st = "open" /\ rx'[f].tokens = rx[f].tokens + 1
      /\ rx'[f].last \in Packets(f)
  BY <1>1, <1>3, WithTokenOK
<1>5. ASSUME NEW h \in Flows \ {f}
      PROVE  /\ RecordOK(h, rx'[h]) /\ rx'[h].st = rx[h].st /\ rx'[h].tokens = rx[h].tokens
             /\ h \notin passed => rx'[h] = rx[h]
  <2>1. RecordOK(h, rx[h])
    BY DEF Parts, RecordsOK
  <2> QED
    BY <1>1, <2>1, PassedOK
<1>6. RecordsOK'
  <2>1. \A h \in Flows : RecordOK(h, rx'[h])
    BY <1>4, <1>5
  <2>2. rx' \in [Flows -> FlowState]
    BY <1>1, <2>1 DEF RecordOK
  <2> QED
    BY <2>1, <2>2 DEF RecordsOK, RecordOK
<1>7. gosrc \in GosrcType /\ (gosrc.src # NoSrc => gosrc.remain > 0) /\ wakeup \in BOOLEAN
      /\ failed = FALSE
  BY DEF Parts, HostOK, GrantInUse
<1>8. FlightsOK'
  <2>1. d \in DataType
    <3>1. round \in -1..MaxRound
      BY <1>7, BoundAssumption DEF GosrcType
    <3>2. rx'[f].last \in Nat
      BY <1>3, <1>4, PacketsOfFlow
    <3> HIDE DEF round
    <3> QED
      BY <1>3, <3>1, <3>2 DEF DataType
  <2>2. TokenCounted(d, rx'[f])
    BY <1>3, <1>4 DEF TokenCounted
  <2>3. d.flow = f
    OBVIOUS
  <2> HIDE DEF d
  <2>4. ASSUME NEW e \in inFlight PROVE e \in DataType /\ TokenCounted(e, rx'[e.flow])
    <3>1. e \in DataType /\ e.flow \in Flows /\ e.tok \in Nat /\ TokenCounted(e, rx[e.flow])
      BY DEF Parts, FlightsOK, TokensCounted, DataType
    <3>2. CASE e.flow = f
      BY <1>3, <1>4, <3>1, <3>2 DEF TokenCounted
    <3>3. CASE e.flow # f
      BY <1>5, <3>1, <3>3 DEF TokenCounted
    <3> QED
      BY <3>1, <3>2, <3>3
  <2>5. \A e \in inFlight' : e \in DataType /\ TokenCounted(e, rx'[e.flow])
    BY <1>1, <2>1, <2>2, <2>3, <2>4
  <2> QED
    BY <2>5 DEF FlightsOK, TokensCounted, TokenCounted, DataType
<1>9. \A h \in Flows : Open(h)' <=> Open(h)
  BY <1>3, <1>4, <1>5 DEF Open
<1>10. failed' = (failed \/ (NrtsDue(tried, best, rx', g) /\ wakeup))
  <2>1. ~(f = best /\ gosrc.remain <= 0)
    BY <1>2, <1>3, <1>7 DEF GosrcType
  <2>2. ~(TokenGap(rx[f]) < -1)
    <3>1. TokenGap(rx[f]) \in Int
      BY <1>3, StateFields DEF TokenGap, RecordOK
    <3> QED
      BY <1>3, <3>1
  <2> HIDE DEF tried, g
  <2> QED
    BY <1>1, <1>3, <2>1, <2>2
<1>11. tried \in SUBSET Flows /\ (best \in Flows \ tried => rx'[best] = rx[best])
  BY <1>2, <1>3, <1>5
<1>12. tok' \in {"none", "normal", "timeout"} /\ (best \in Flows => tok' # "none")
       /\ ShortFlowsServed'
  BY <1>1 DEF ShortFlowsServed
<1>13. /\ g \in GosrcType
       /\ g.round = gosrc.round /\ g.sendNrts = gosrc.sendNrts
       /\ g.src = NoSrc \/ (g.src = gosrc.src /\ g.remain > 0)
  BY ChargedFields
<1> HIDE DEF tried, g, d
<1> QED
  BY <1>1, <1>6, <1>8, <1>9, <1>10, <1>11, <1>12, <1>13, GrantEnds

LEMMA ReceiveListSrcsKeeps ==
  ASSUME Parts, NEW m \in listsrc, ReceiveListSrcs(m)
  PROVE  Parts'
<1>1. /\ listsrc' = listsrc \ {m}
      /\ ctl' = [busy |-> ctl.busy /\ m.nrts = NoSrc, asked |-> ctl.asked \cup m.srcs]
      /\ UNCHANGED <<rx, hostVars, inFlight, grants>>
  BY DEF ReceiveListSrcs
<1>2. /\ RecordsOK' /\ FlightsOK'
      /\ SomeLongOpen' <=> SomeLongOpen
      /\ (\E f \in Short : Open(f))' <=> (\E f \in Short : Open(f))
      /\ \A f \in Flows : Open(f)' <=> Open(f)
      /\ \A t : Unfinished(t, rx') = Unfinished(t, rx)
  BY <1>1, FlowsUnchanged
<1>3. HostOK' /\ ArbiterOK'
  <2>1. m \in ListType /\ ctl \in CtlType
    BY DEF Parts, ArbiterOK
  <2>2. ctl' \in CtlType
    BY <1>1, <2>1 DEF ListType, CtlType
  <2> QED
    BY <1>1, <2>2 DEF Parts, HostOK, ArbiterOK, hostVars, GosrcType, ListType, CtlType
<1>4. GrantInUse' /\ ListRepeated' /\ ShortFlowsServed'
  BY <1>1, <1>2 DEF Parts, GrantInUse, InGrant, Long, ListRepeated, ShortFlowsServed, hostVars
<1>5. GrantInOnePlace'
  <2>1. CASE m.nrts = NoSrc
    BY <1>1, <2>1 DEF Parts, GrantInOnePlace, InGrant, Returns, hostVars
  <2>2. CASE m.nrts # NoSrc
    BY <1>1, <2>2 DEF Parts, GrantInOnePlace, InGrant, Returns, hostVars
  <2> QED
    BY <2>1, <2>2
<1> QED
  BY <1>2, <1>3, <1>4, <1>5 DEF Parts

LEMMA ScheduleEpochKeeps ==
  ASSUME Parts, ScheduleEpoch
  PROVE  Parts'
<1>1. UNCHANGED <<rx, hostVars, inFlight, listsrc>>
  BY DEF ScheduleEpoch
<1>2. /\ RecordsOK' /\ FlightsOK'
      /\ SomeLongOpen' <=> SomeLongOpen
      /\ (\E f \in Short : Open(f))' <=> (\E f \in Short : Open(f))
      /\ \A f \in Flows : Open(f)' <=> Open(f)
      /\ \A t : Unfinished(t, rx') = Unfinished(t, rx)
  BY <1>1, FlowsUnchanged
<1>3. ctl \in CtlType /\ grants \subseteq Srcs
  BY DEF Parts, ArbiterOK
<1>4. GrantInUse' /\ ListRepeated' /\ ShortFlowsServed'
  BY <1>1, <1>2 DEF Parts, GrantInUse, InGrant, Long, ListRepeated, ShortFlowsServed, hostVars
<1>5. CASE ctl' = [ctl EXCEPT !.asked = {}] /\ UNCHANGED grants
  <2>1. ctl' \in CtlType /\ ctl'.busy = ctl.busy
    BY <1>3, <1>5 DEF CtlType
  <2>2. HostOK' /\ ArbiterOK'
    BY <1>1, <1>3, <1>5, <2>1 DEF Parts, HostOK, ArbiterOK, hostVars, GosrcType, ListType, CtlType
  <2>3. GrantInOnePlace'
    BY <1>1, <1>5, <2>1 DEF Parts, GrantInOnePlace, InGrant, Returns, hostVars
  <2> QED
    BY <1>2, <1>4, <2>2, <2>3 DEF Parts
<1>6. ASSUME ~ctl.busy, NEW s \in ctl.asked, grants' = grants \cup {s},
             ctl' = [busy |-> TRUE, asked |-> {}]
      PROVE  Parts'
  <2>1. ctl' \in CtlType /\ ctl'.busy /\ s \in Srcs
    BY <1>3, <1>6 DEF CtlType
  <2>2. HostOK' /\ ArbiterOK'
    BY <1>1, <1>3, <1>6, <2>1 DEF Parts, HostOK, ArbiterOK, hostVars, GosrcType, ListType, CtlType
  <2>3. GrantInOnePlace'
    BY <1>1, <1>6, <2>1 DEF Parts, GrantInOnePlace, InGrant, Returns, hostVars
  <2> QED
    BY <1>2, <1>4, <2>2, <2>3 DEF Parts
<1> QED
  BY <1>5, <1>6 DEF ScheduleEpoch

LEMMA LoseControlKeeps ==
  ASSUME Parts, LoseControl
  PROVE  Parts'
<1>1. /\ UNCHANGED <<rx, hostVars, inFlight, ctl>>
      /\ listsrc' \subseteq listsrc /\ grants' \subseteq grants
  BY DEF LoseControl
<1>2. /\ RecordsOK' /\ FlightsOK'
      /\ SomeLongOpen' <=> SomeLongOpen
      /\ (\E f \in Short : Open(f))' <=> (\E f \in Short : Open(f))
      /\ \A f \in Flows : Open(f)' <=> Open(f)
      /\ \A t : Unfinished(t, rx') = Unfinished(t, rx)
  BY <1>1, FlowsUnchanged
<1>3. HostOK' /\ ArbiterOK'
  BY <1>1 DEF Parts, HostOK, ArbiterOK, hostVars, GosrcType, ListType, CtlType
<1>4. GrantInUse' /\ ListRepeated' /\ ShortFlowsServed'
  BY <1>1, <1>2 DEF Parts, GrantInUse, InGrant, Long, ListRepeated, ShortFlowsServed, hostVars
<1>5. GrantInOnePlace'
  BY <1>1, PlaceKept DEF Parts, InGrant, Returns, hostVars
<1> QED
  BY <1>2, <1>3, <1>4, <1>5 DEF Parts

-----------------------------------------------------------------------------
(* The theorems *)

LEMMA InitParts ==
  ASSUME Init
  PROVE  Parts
<1>1. \A f \in Flows : rx[f] = NewFlow /\ RecordOK(f, rx[f]) /\ ~Open(f)
  BY NewFlowOK DEF Init, Open
<1>2. RecordsOK
  BY <1>1 DEF Init, RecordsOK, RecordOK
<1>3. FlightsOK
  BY DEF Init, FlightsOK, TokensCounted
<1>4. HostOK
  <2> DEFINE none == -1
             no == FALSE
             n == 0
  <2>1. none \in -1..MaxTokens /\ n \in 0..MaxRound /\ no \in BOOLEAN
    BY TokensAssumption, BoundAssumption
  <2>2. gosrc = [src |-> NoSrc, remain |-> none, round |-> n, sendNrts |-> no]
    BY DEF Init
  <2> HIDE DEF none, no, n
  <2>3. gosrc \in GosrcType
    BY <2>1, <2>2 DEF GosrcType
  <2> QED
    BY <2>3 DEF Init, HostOK
<1>5. ArbiterOK
  BY DEF Init, ArbiterOK, CtlType
<1>6. GrantInUse
  BY DEF Init, GrantInUse, InGrant
<1>7. ListRepeated /\ ShortFlowsServed
  BY <1>1 DEF ListRepeated, SomeLongOpen, ShortFlowsServed, Long, Short
<1>8. GrantInOnePlace
  BY <1>6 DEF Init, GrantInOnePlace, InGrant, Returns
<1> QED
  BY <1>2, <1>3, <1>4, <1>5, <1>6, <1>7, <1>8 DEF Parts

LEMMA NextParts ==
  ASSUME Parts, [Next]_vars
  PROVE  Parts'
<1>1. CASE UNCHANGED vars
  <2>1. /\ RecordsOK' /\ FlightsOK'
        /\ \A f \in Flows : Open(f)' <=> Open(f)
    BY <1>1, FlowsUnchanged DEF vars
  <2> QED
    BY <1>1, <2>1, HostKept DEF vars
<1>2. ASSUME NEW f \in Flows,
             \/ StartFlow(f) \/ ReceiveLongRts(f) \/ ReceiveShortRts(f) \/ RedundancyTimeout(f)
      PROVE  Parts'
  BY <1>2, StartFlowKeeps, ReceiveLongRtsKeeps, ReceiveShortRtsKeeps, RedundancyTimeoutKeeps
<1>3. ASSUME NEW d \in inFlight, ReceiveData(d) \/ LoseData(d) PROVE Parts'
  BY <1>3, ReceiveDataKeeps, LoseDataKeeps
<1>4. ASSUME NEW s \in grants, ReceiveGosrc(s) PROVE Parts'
  BY <1>4, ReceiveGosrcKeeps
<1>5. CASE Wakeup \/ Hold
  BY <1>5, WakeupKeeps, HoldKeeps
<1>6. CASE SendToken
  <2>1. PICK best \in Picks(gosrc.src, rx) :
          \/ SendNoToken(best)
          \/ \E f \in Candidates(best) :
               \E passed \in SUBSET {g \in Candidates(best) : Waits(g)} :
                 SendTokenOf(f, best, passed)
    BY <1>6 DEF SendToken
  <2>2. UNCHANGED <<hold, arbiterVars>>
    BY <1>6 DEF SendToken
  <2> QED
    BY <2>1, <2>2, SendNoTokenKeeps, SendTokenOfKeeps
<1>7. ASSUME NEW m \in listsrc, ReceiveListSrcs(m) PROVE Parts'
  BY <1>7, ReceiveListSrcsKeeps
<1>8. CASE ScheduleEpoch \/ LoseControl
  BY <1>8, ScheduleEpochKeeps, LoseControlKeeps
<1> QED
  BY <1>1, <1>2, <1>3, <1>4, <1>5, <1>6, <1>7, <1>8 DEF Next

(* The inductive invariant: what is known of each flow, a grant in use has a
   flow to serve and keeps its token event, and is in one place. *)
THEOREM IInvInvariant == Spec => []IInv
<1>1. Init => Parts
  BY InitParts
<1>2. Parts /\ [Next]_vars => Parts'
  BY NextParts
<1>3. Parts => IInv
  BY InvariantInParts
<1> QED
  BY <1>1, <1>2, <1>3, PTL DEF Spec

(* No assertion of rankinghost.cpp and rankingflow.cpp that the model holds
   fails. *)
THEOREM AssertionsHold == Spec => []NoAssertFails
<1>1. IInv => NoAssertFails
  BY DEF IInv
<1> QED
  BY <1>1, IInvInvariant, PTL

(* A receiver has at most one grant, and is down as busy while it has one. *)
THEOREM GrantExclusive == Spec => []OneGrant
<1>1. ASSUME GrantInOnePlace PROVE OneGrant
  <2> DEFINE back == {m \in listsrc : m.nrts # NoSrc}
             lease == IF gosrc.src # NoSrc /\ ~gosrc.sendNrts THEN 1 ELSE 0
             claims == Cardinality(grants) + lease + Cardinality(back)
  <2>1. back = Returns /\ lease = IF InGrant THEN 1 ELSE 0
    BY DEF Returns, InGrant
  <2>2. Cardinality(grants) = IF grants = {} THEN 0 ELSE 1
    <3>1. grants # {} => \E s : grants = {s}
      BY <1>1 DEF GrantInOnePlace
    <3> QED
      BY <3>1, FS_EmptySet, FS_Singleton
  <2>3. Cardinality(back) = IF Returns = {} THEN 0 ELSE 1
    <3>1. back # {} => \E m : back = {m}
      BY <1>1, <2>1 DEF GrantInOnePlace
    <3> HIDE DEF back
    <3> QED
      BY <2>1, <3>1, FS_EmptySet, FS_Singleton
  <2> HIDE DEF back, lease
  <2>4. claims <= 1 /\ (claims = 1 => ctl.busy)
    BY <1>1, <2>1, <2>2, <2>3 DEF GrantInOnePlace
  <2> QED
    BY <2>4 DEF OneGrant, back, lease
<1>2. IInv => OneGrant
  BY <1>1 DEF IInv
<1> QED
  BY <1>2, IInvInvariant, PTL

(* A receiver with an incomplete long flow asks again or goes on, unless its
   grant was forgotten. *)
THEOREM SilenceMeansForgotten == Spec => []NeverSilent
<1>1. ASSUME TypeOK, GrantInUse, ListRepeated PROVE NeverSilent
  <2>1. gosrc.round \in Nat /\ gosrc.sendNrts \in BOOLEAN
    BY <1>1, BoundAssumption DEF TypeOK
  <2>2. CASE InGrant
    BY <1>1, <2>2 DEF GrantInUse, NeverSilent
  <2>3. CASE ~InGrant
    BY <1>1, <2>1, <2>3 DEF InGrant, ListRepeated, SomeLongOpen, NeverSilent, GrantForgotten
  <2> QED
    BY <2>2, <2>3
<1>2. IInv => NeverSilent
  BY <1>1 DEF IInv
<1> QED
  BY <1>2, IInvInvariant, PTL

(* The shared token event stays set for a short flow that lost packets. *)
THEOREM ShortFlowsKeepTheirEvent == Spec => []ShortFlowsServed
<1>1. IInv => ShortFlowsServed
  BY DEF IInv
<1> QED
  BY <1>1, IInvInvariant, PTL

-----------------------------------------------------------------------------
(* The grant as GrantLease sees it *)

LeaseStep == [GrantLeaseSpec!Next \/ Forget]_Lease

LEMMA LeaseIs ==
  /\ Lease = IF grants # {} THEN "granted"
             ELSE IF InGrant THEN "held"
             ELSE IF Returns # {} THEN "returning"
             ELSE IF ctl.busy THEN "lost" ELSE "free"
  /\ Lease' = IF grants' # {} THEN "granted"
              ELSE IF InGrant' THEN "held"
              ELSE IF Returns' # {} THEN "returning"
              ELSE IF ctl'.busy THEN "lost" ELSE "free"
<1>1. (\E m \in listsrc : m.nrts # NoSrc) <=> Returns # {}
  BY DEF Returns
<1>2. (\E m \in listsrc' : m.nrts # NoSrc) <=> Returns' # {}
  BY DEF Returns
<1> QED
  BY <1>1, <1>2 DEF Lease, InGrant

LEMMA LeaseMoves ==
  ASSUME \/ Lease' = Lease
         \/ Lease = "free" /\ Lease' = "granted"
         \/ Lease = "granted" /\ Lease' \in {"held", "returning", "lost"}
         \/ Lease = "held" /\ Lease' = "returning"
         \/ Lease = "returning" /\ Lease' \in {"free", "lost"}
  PROVE  LeaseStep
  BY DEF LeaseStep, GrantLeaseSpec!Next, GrantLeaseSpec!Grant, GrantLeaseSpec!Take,
     GrantLeaseSpec!Refuse, GrantLeaseSpec!Return, GrantLeaseSpec!Free, GrantLeaseSpec!Lose

(* Control packets are lost, or nothing happens to the grant. *)
LEMMA LeaseLost ==
  ASSUME GrantInOnePlace, grants' \subseteq grants, Returns' \subseteq Returns,
         InGrant' <=> InGrant, ctl' = ctl
  PROVE  LeaseStep
<1>1. CASE grants # {}
  BY <1>1, LeaseIs, LeaseMoves DEF GrantInOnePlace
<1>2. CASE grants = {}
  BY <1>2, LeaseIs, LeaseMoves DEF GrantInOnePlace
<1> QED
  BY <1>1, <1>2

(* A grant in use is given back. *)
LEMMA LeaseReturned ==
  ASSUME GrantInOnePlace, InGrant, ~InGrant', grants' = grants, Returns' # {}
  PROVE  LeaseStep
  BY LeaseIs, LeaseMoves DEF GrantInOnePlace

LEMMA LeaseUntouched ==
  ASSUME Parts, UNCHANGED <<gosrc, grants, ctl>>, Returns' = Returns
  PROVE  LeaseStep
  BY LeaseLost DEF Parts, InGrant

(* A list of sources without NRTS. *)
LEMMA ListLease ==
  ASSUME Parts, UNCHANGED <<gosrc, arbiterVars>>,
         \/ UNCHANGED listsrc
         \/ \E state, g : SendListSrcs(NoSrc, state, g)
  PROVE  LeaseStep
<1>1. Returns' = Returns
  BY ListSent DEF Parts, Returns
<1> QED
  BY <1>1, LeaseUntouched DEF arbiterVars

(* flow_finish_at_receiver: the only event that forgets a grant. *)
LEMMA FinishLongLease ==
  ASSUME Parts, NEW f \in Long, NEW round, FinishLong(f, round),
         Open(f), rx'[f].st = "done", UNCHANGED arbiterVars
  PROVE  LeaseStep
<1>1. /\ gosrc \in GosrcType /\ Src[f] \in Srcs /\ Src[f] # NoSrc /\ GrantInOnePlace
      /\ grants' = grants /\ ctl' = ctl
  BY NullAssumption DEF Parts, HostOK, Long, Srcs, arbiterVars
<1>2. CASE gosrc' = Reset(gosrc) /\ UNCHANGED listsrc
  <2>1. gosrc'.src = NoSrc /\ gosrc'.round = gosrc.round /\ gosrc'.sendNrts = gosrc.sendNrts
    BY <1>1, <1>2, ResetFields
  <2>2. ~InGrant' /\ Returns' = Returns
    BY <1>2, <2>1 DEF InGrant, Returns
  <2>3. CASE InGrant
    <3>1. GrantForgotten'
      BY <2>1, <2>3 DEF Parts, GrantInUse, InGrant, GrantForgotten
    <3>2. Lease = "held" /\ Lease' = "lost"
      BY <1>1, <2>2, <2>3, LeaseIs DEF GrantInOnePlace
    <3> QED
      BY <3>1, <3>2 DEF LeaseStep, Forget
  <2>4. CASE ~InGrant
    BY <1>1, <2>2, <2>4, LeaseLost
  <2> QED
    BY <2>3, <2>4
<1>3. CASE /\ gosrc.src = Src[f] /\ ~gosrc.sendNrts
           /\ SendListSrcs(Src[f], rx', gosrc)
           /\ gosrc' = Reset(GivenBack(gosrc))
  <2>1. gosrc'.src = NoSrc
    BY <1>1, <1>3, GivenBackFields, ResetFields
  <2>2. \E m : Returns' = Returns \cup {m}
    BY <1>1, <1>3, ListSent DEF Parts
  <2>3. InGrant /\ ~InGrant' /\ Returns' # {}
    BY <1>1, <1>3, <2>1, <2>2 DEF InGrant
  <2> QED
    BY <1>1, <2>3, LeaseReturned
<1>4. CASE gosrc.sendNrts /\ gosrc' = Reset(GivenBack(gosrc)) /\ UNCHANGED listsrc
  <2>1. gosrc'.src = NoSrc
    BY <1>1, <1>4, GivenBackFields, ResetFields
  <2>2. ~InGrant /\ ~InGrant' /\ Returns' = Returns
    BY <1>4, <2>1 DEF InGrant, Returns
  <2> QED
    BY <1>1, <2>2, LeaseLost
<1>5. CASE UNCHANGED <<gosrc, listsrc>>
  BY <1>5, ListLease
<1> QED
  BY <1>2, <1>3, <1>4, <1>5 DEF FinishLong, SendAndRepeat

LEMMA ReceiveDataLease ==
  ASSUME Parts, NEW d \in inFlight, ReceiveData(d)
  PROVE  LeaseStep
<1>1. UNCHANGED arbiterVars
  BY DEF ReceiveData
<1>2. CASE UNCHANGED <<gosrc, listsrc>>
  BY <1>1, <1>2, ListLease
<1>3. CASE rx[d.flow].st \in {"sent", "open"} /\ ReceiveNewData(d)
  <2> DEFINE f == d.flow
             first == rx[f].st = "sent"
             r == Received(f, IF first THEN OpenShort(f, rx[f]) ELSE rx[f], d)
  <2>1. /\ rx' = [rx EXCEPT ![f] = r]
        /\ \/ r.st = "done" /\ f \in Long /\ FinishLong(f, d.round)
           \/ UNCHANGED <<gosrc, listsrc>>
    BY <1>3 DEF ReceiveNewData
  <2>2. f \in Flows /\ (first => f \in Short)
    BY <1>3, DataRecord
  <2>3. DOMAIN rx = Flows /\ rx \in [Flows -> FlowState]
    BY DEF Parts, RecordsOK
  <2>4. CASE r.st = "done" /\ f \in Long /\ FinishLong(f, d.round)
    <3>1. Open(f)
      BY <1>3, <2>2, <2>4 DEF Open, Long
    <3> HIDE DEF r
    <3>2. rx'[f].st = "done"
      BY <2>1, <2>2, <2>3, <2>4
    <3> HIDE DEF f
    <3> QED
      BY <1>1, <2>4, <3>1, <3>2, FinishLongLease
  <2> QED
    BY <1>2, <2>1, <2>4
<1> QED
  BY <1>2, <1>3 DEF ReceiveData, hostVars

(* A grant arrives and is taken or refused. *)
LEMMA ReceiveGosrcLease ==
  ASSUME Parts, NEW s \in grants, ReceiveGosrc(s)
  PROVE  LeaseStep
<1>1. /\ grants' = grants \ {s} /\ s \in Srcs /\ s # NoSrc /\ ctl' = ctl
      /\ gosrc \in GosrcType /\ Lease = "granted"
  BY NullAssumption, LeaseIs DEF ReceiveGosrc, Parts, HostOK, ArbiterOK, Srcs
<1>2. grants' = {} /\ Returns = {}
  BY <1>1 DEF Parts, GrantInOnePlace
<1>3. CASE RefuseGrant(s)
  <2>1. SendListSrcs(s, rx, gosrc)
    BY <1>3 DEF RefuseGrant, SendAndRepeat
  <2>2. \E m : Returns' = Returns \cup {m}
    BY <1>1, <2>1, ListSent DEF Parts
  <2>3. Lease' \in {"held", "returning"}
    BY <1>2, <2>2, LeaseIs
  <2> QED
    BY <1>1, <2>3, LeaseMoves
<1>4. CASE TakeGrant(s)
  <2>1. gosrc'.src = s /\ gosrc'.sendNrts = FALSE
    BY <1>4 DEF TakeGrant
  <2>2. Lease' = "held"
    BY <1>1, <1>2, <2>1, LeaseIs DEF InGrant
  <2> QED
    BY <1>1, <2>2, LeaseMoves
<1> QED
  BY <1>3, <1>4 DEF ReceiveGosrc

(* send_token: the grant that the last token uses up is given back with it. *)
LEMMA EndOfGrantLease ==
  ASSUME Parts, NEW best \in Picks(gosrc.src, rx), NEW tried \in SUBSET Flows,
         NEW g \in GosrcType, g.sendNrts = gosrc.sendNrts,
         \/ g.src = gosrc.src
         \/ g.src = NoSrc /\ g.remain <= NrtsGap /\ best \in tried,
         EndOfGrant(tried, best, rx', g), UNCHANGED arbiterVars
  PROVE  LeaseStep
<1>1. grants' = grants /\ ctl' = ctl /\ GrantInOnePlace
  BY DEF arbiterVars, Parts
<1>2. CASE NrtsDue(tried, best, rx', g)
  <2>1. SendListSrcs(Src[best], rx', g) /\ gosrc' = GivenBack(g)
    BY <1>2 DEF EndOfGrant, SendAndRepeat
  <2>2. best \in Flows => Src[best] \in Srcs /\ Src[best] # NoSrc /\ Src[best] = gosrc.src
    BY NullAssumption DEF Picks, Unfinished, Srcs
  <2>3. CASE best \in Flows
    <3>1. InGrant
      BY <1>2, <2>2, <2>3 DEF InGrant, NrtsDue
    <3>2. ~InGrant'
      BY <2>1, GivenBackFields DEF InGrant
    <3>3. \E m : Returns' = Returns \cup {m}
      BY <2>1, <2>2, <2>3, ListSent DEF Parts
    <3> QED
      BY <1>1, <3>1, <3>2, <3>3, LeaseReturned
  <2>4. CASE best \notin Flows
    BY <1>2, <2>4 DEF NrtsDue
  <2> QED
    BY <2>3, <2>4
<1>3. CASE ~NrtsDue(tried, best, rx', g)
  <2>1. gosrc' = g /\ Returns' = Returns
    BY <1>3 DEF EndOfGrant, Returns
  <2>2. InGrant' <=> InGrant
    BY <1>3, <2>1 DEF InGrant, NrtsDue
  <2> QED
    BY <1>1, <2>1, <2>2, LeaseLost
<1> QED
  BY <1>2, <1>3

LEMMA SendTokenLease ==
  ASSUME Parts, SendToken
  PROVE  LeaseStep
<1>1. PICK best \in Picks(gosrc.src, rx) :
        \/ SendNoToken(best)
        \/ \E f \in Candidates(best) :
             \E passed \in SUBSET {g \in Candidates(best) : Waits(g)} :
               SendTokenOf(f, best, passed)
  BY DEF SendToken
<1>2. UNCHANGED arbiterVars /\ gosrc \in GosrcType
  BY DEF SendToken, Parts, HostOK
<1>0. Candidates(best) \in SUBSET Flows
  BY CandidateFlows
<1>3. CASE SendNoToken(best)
  <2>1. EndOfGrant(Candidates(best), best, rx', gosrc)
    BY <1>3 DEF SendNoToken
  <2> QED
    BY <1>0, <1>2, <2>1, EndOfGrantLease
<1>4. ASSUME NEW f \in Candidates(best),
             NEW passed \in SUBSET {g \in Candidates(best) : Waits(g)},
             SendTokenOf(f, best, passed)
      PROVE  LeaseStep
  <2>1. EndOfGrant(passed \cup {f}, best, rx', Charged(f))
    BY <1>4 DEF SendTokenOf
  <2>2. Charged(f) \in GosrcType /\ Charged(f).sendNrts = gosrc.sendNrts
    BY ChargedFields
  <2>3. \/ Charged(f).src = gosrc.src
        \/ Charged(f).src = NoSrc /\ Charged(f).remain = -1 /\ f \in Long
    <3>1. CASE f \in Long /\ gosrc.remain = 1
      BY <1>2, <3>1, ResetFields DEF Charged
    <3>2. CASE ~(f \in Long /\ gosrc.remain = 1)
      BY <1>2, <3>2 DEF Charged, GosrcType
    <3> QED
      BY <3>1, <3>2
  <2>4. f \in Long => f = best
    BY CandidateFlows
  <2>5. \/ Charged(f).src = gosrc.src
        \/ /\ Charged(f).src = NoSrc /\ Charged(f).remain <= NrtsGap
           /\ best \in passed \cup {f}
    BY <2>3, <2>4, GapAssumption
  <2>6. passed \cup {f} \in SUBSET Flows
    BY <1>0
  <2> QED
    BY <1>2, <2>1, <2>2, <2>5, <2>6, EndOfGrantLease
<1> QED
  BY <1>1, <1>3, <1>4

(* The arbiter frees the receiver, or grants. *)
LEMMA ReceiveListSrcsLease ==
  ASSUME Parts, NEW m \in listsrc, ReceiveListSrcs(m)
  PROVE  LeaseStep
<1>1. /\ listsrc' = listsrc \ {m} /\ UNCHANGED <<gosrc, grants>>
      /\ ctl'.busy = (ctl.busy /\ m.nrts = NoSrc) /\ GrantInOnePlace
  BY DEF ReceiveListSrcs, hostVars, Parts
<1>2. InGrant' <=> InGrant
  BY <1>1 DEF InGrant
<1>3. CASE m.nrts = NoSrc
  <2>1. Returns' = Returns /\ (ctl'.busy <=> ctl.busy)
    BY <1>1, <1>3 DEF Returns
  <2> QED
    BY <1>1, <1>2, <2>1, LeaseIs, LeaseMoves
<1>4. CASE m.nrts # NoSrc
  <2>1. m \in Returns /\ Returns' = Returns \ {m}
    BY <1>1, <1>4 DEF Returns
  <2>2. Returns' = {} /\ grants = {} /\ ~InGrant /\ ~ctl'.busy
    BY <1>1, <1>4, <2>1 DEF GrantInOnePlace
  <2> QED
    BY <1>1, <1>2, <2>1, <2>2, LeaseIs, LeaseMoves
<1> QED
  BY <1>3, <1>4

LEMMA ScheduleEpochLease ==
  ASSUME Parts, ScheduleEpoch
  PROVE  LeaseStep
<1>1. UNCHANGED <<gosrc, listsrc>> /\ GrantInOnePlace /\ ctl \in CtlType
  BY DEF ScheduleEpoch, hostVars, Parts, ArbiterOK
<1>2. (InGrant' <=> InGrant) /\ Returns' = Returns
  BY <1>1 DEF InGrant, Returns
<1>3. CASE ctl' = [ctl EXCEPT !.asked = {}] /\ UNCHANGED grants
  <2>1. ctl'.busy = ctl.busy
    BY <1>1, <1>3 DEF CtlType
  <2> QED
    BY <1>2, <1>3, <2>1, LeaseIs, LeaseMoves
<1>4. CASE ~ctl.busy /\ \E s \in ctl.asked : grants' = grants \cup {s}
  <2>1. Lease = "free" /\ Lease' = "granted"
    BY <1>1, <1>4, LeaseIs DEF GrantInOnePlace
  <2> QED
    BY <2>1, LeaseMoves
<1> QED
  BY <1>3, <1>4 DEF ScheduleEpoch

(* rankinghost.cpp: the receiver and the arbiter treat a grant as GrantLease
   says, except that the end of a flow may forget it. *)
THEOREM AlmostImplementsGrantLease == Spec => ReturnedOrForgotten
<1>1. Init => GrantLeaseSpec!Init
  <2> SUFFICES ASSUME Init PROVE Lease = "free"
    BY DEF GrantLeaseSpec!Init
  <2>1. grants = {} /\ gosrc.src = NoSrc /\ listsrc = {} /\ ~ctl.busy
    BY DEF Init
  <2> QED
    BY <2>1 DEF Lease
<1>2. ASSUME Parts, [Next]_vars PROVE LeaseStep
  <2>1. CASE UNCHANGED vars
    BY <1>2, <2>1, ListLease DEF vars, hostVars
  <2>2. ASSUME NEW f \in Flows, StartFlow(f) \/ ReceiveShortRts(f) \/ RedundancyTimeout(f)
        PROVE  LeaseStep
    BY <1>2, <2>2, ListLease DEF StartFlow, ReceiveShortRts, RedundancyTimeout, hostVars
  <2>3. ASSUME NEW f \in Flows, ReceiveLongRts(f) PROVE LeaseStep
    BY <1>2, <2>3, ListLease DEF ReceiveLongRts, SendAndRepeat
  <2>4. ASSUME NEW d \in inFlight, ReceiveData(d) PROVE LeaseStep
    BY <1>2, <2>4, ReceiveDataLease
  <2>5. ASSUME NEW d \in inFlight, LoseData(d) PROVE LeaseStep
    BY <1>2, <2>5, ListLease DEF LoseData, hostVars
  <2>6. ASSUME NEW s \in grants, ReceiveGosrc(s) PROVE LeaseStep
    BY <1>2, <2>6, ReceiveGosrcLease
  <2>7. CASE Wakeup
    BY <1>2, <2>7, ListLease DEF Wakeup
  <2>8. CASE Hold
    BY <1>2, <2>8, ListLease DEF Hold
  <2>9. CASE SendToken
    BY <1>2, <2>9, SendTokenLease
  <2>10. ASSUME NEW m \in listsrc, ReceiveListSrcs(m) PROVE LeaseStep
    BY <1>2, <2>10, ReceiveListSrcsLease
  <2>11. CASE ScheduleEpoch
    BY <1>2, <2>11, ScheduleEpochLease
  <2>12. CASE LoseControl
    <3>1. /\ grants' \subseteq grants /\ Returns' \subseteq Returns
          /\ UNCHANGED <<gosrc, ctl>>
      BY <2>12 DEF LoseControl, hostVars, Returns
    <3> QED
      BY <1>2, <3>1, LeaseLost DEF Parts, InGrant
  <2> QED
    BY <1>2, <2>1, <2>2, <2>3, <2>4, <2>5, <2>6, <2>7, <2>8, <2>9, <2>10, <2>11, <2>12 DEF Next
<1>3. IInv /\ [Next]_vars => [GrantLeaseSpec!Next \/ Forget]_Lease
  BY <1>2, InvariantInParts DEF LeaseStep
<1> QED
  BY <1>1, <1>3, IInvInvariant, PTL DEF Spec, ReturnedOrForgotten

=============================================================================
