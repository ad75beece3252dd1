------------------------- MODULE RtpReceiver_proofs -------------------------
(***************************************************************************)
(* Proofs about RtpReceiver, for any flows, sizes, sources, batches and    *)
(* grants: its safety properties, from the inductive invariant IInv of     *)
(* that module, and that it implements GrantLease.  IInv is taken in three *)
(* parts that are disturbed by different actions: the flows and their      *)
(* tokens, the grant at work on lcore 1, and the claims on the grant.      *)
(***************************************************************************)
EXTENDS RtpReceiver, FiniteSetTheorems, WellFoundedInduction, TLAPS

FlowPart == /\ FlowsConsistent
            /\ InFlightStarted
            /\ TokenSeqsIssuedOnce

GrantPart == /\ GrantAtWork
             /\ JobConsistent
             /\ TokensUnderGrant
             /\ NeverSilent
             /\ NoExit

-----------------------------------------------------------------------------
(* Numbers and sets *)

(* The least element of a set of natural numbers. *)
LEMMA MinOfNaturals ==
  ASSUME NEW S \in SUBSET Nat, S # {}
  PROVE  Min(S) \in S /\ \A y \in S : Min(S) <= y
<1> DEFINE Less == {p \in Nat \X Nat : p[1] < p[2]}
<1>1. IsWellFoundedOn(Less, Nat)
  BY NatLessThanWellFounded, Zenon DEF OpToRel
<1>2. PICK x \in S : \A y \in S : <<y, x>> \notin Less
  <2> HIDE DEF Less
  <2> QED
    BY <1>1, WFMin
<1>3. ASSUME NEW y \in S PROVE x <= y
  <2>1. <<y, x>> \notin Less
    BY <1>2
  <2>2. ~(<<y, x>>[1] < <<y, x>>[2])
    BY <2>1
  <2> QED
    BY <2>2
<1> QED
  BY <1>3 DEF Min

(* A set of packets of a flow has size_in_pkt members only if it has all. *)
LEMMA AllPackets ==
  ASSUME NEW f \in Flows, NEW S \in SUBSET Packets(f)
  PROVE  ~(Cardinality(S) >= Size[f]) => Packets(f) \ S # {}
<1> DEFINE n == Size[f] - 1
<1>1. Size[f] \in Nat \ {0}
  BY SizeAssumption
<1>2. n \in Int /\ 0 <= n /\ n - 0 + 1 = Size[f]
  BY <1>1
<1>3. Cardinality(0..n) = IF 0 > n THEN 0 ELSE n - 0 + 1
  <2> HIDE DEF n
  <2> QED
    BY <1>2, FS_Interval
<1>4. Packets(f) \ S = {} => S = 0..n
  BY DEF Packets
<1> HIDE DEF n
<1> QED
  BY <1>1, <1>2, <1>3, <1>4

(* Sets in which any two elements are equal have no or one element. *)
LEMMA AtMostOne ==
  ASSUME NEW S, \A x, y \in S : x = y
  PROVE  Cardinality(S) = IF S = {} THEN 0 ELSE 1
<1>1. CASE S = {}
  BY <1>1, FS_EmptySet
<1>2. CASE S # {}
  <2>1. PICK x : x \in S
    BY <1>2
  <2>2. S = {x}
    BY <2>1
  <2> QED
    BY <1>2, <2>2, FS_Singleton
<1> QED
  BY <1>1, <1>2

-----------------------------------------------------------------------------
(* Token sequence numbers *)

(* rtp_get_next_token_seq_num of a flow that misses a packet returns a
   missing one: the first after the last token's, or if there is none the
   first of all. *)
LEMMA NextTokenIsMissing ==
  ASSUME NEW f \in Flows, NEW r \in FlowState,
         r.until \in 0..Size[f],
         \A p \in Packets(f) \ r.got : p >= r.until,
         r.last \in -1..Size[f] - 1,
         Packets(f) \ r.got # {}
  PROVE  /\ HasNextToken(f, r)
         /\ NextTokenSeq(f, r) \in Packets(f) \ r.got
         /\ \/ /\ NextTokenSeq(f, r) > r.last
               /\ \A p \in Packets(f) \ r.got : p <= r.last \/ p >= NextTokenSeq(f, r)
            \/ \A p \in Packets(f) \ r.got : p <= r.last /\ p >= NextTokenSeq(f, r)
<1> DEFINE missing == Packets(f) \ r.got
           from == NextFrom(f, r)
           i == NextTokenSeq(f, r)
<1>1. Size[f] \in Nat \ {0} /\ missing \in SUBSET Nat
  BY SizeAssumption DEF Packets
<1>2. from = IF r.last = Size[f] - 1 THEN 0 ELSE r.last + 1
  <2>1. CASE r.last = Size[f] - 1
    <3>1. r.last + 1 = Size[f]
      BY <2>1, <1>1
    <3>2. Size[f] % Size[f] = 0
      BY <1>1
    <3> QED
      BY <2>1, <3>1, <3>2 DEF NextFrom
  <2>2. CASE r.last # Size[f] - 1
    <3>1. r.last + 1 \in 0..Size[f] - 1
      BY <2>2, <1>1
    <3>2. (r.last + 1) % Size[f] = r.last + 1
      BY <3>1, <1>1
    <3> QED
      BY <2>2, <3>2 DEF NextFrom
  <2> QED
    BY <2>1, <2>2
<1>3. from \in 0..Size[f] - 1
  BY <1>1, <1>2
<1>4. Ahead(f, r) = {p \in missing : p >= from}
  <2> HIDE DEF from
  <2> QED
    BY <1>1, <1>3 DEF Ahead, Packets, from
<1>5. Ahead(f, r) = {} => Wrapped(f, r) = missing
  <2> SUFFICES ASSUME Ahead(f, r) = {} PROVE Wrapped(f, r) = missing
    OBVIOUS
  <2>1. ASSUME NEW p \in missing PROVE p \in Wrapped(f, r)
    <3>1. p < from /\ p >= r.until /\ p \in 0..Size[f] - 1 /\ p \notin r.got
      <4> HIDE DEF from
      <4> QED
        BY <1>1, <1>3, <1>4 DEF Packets
    <3>2. Size[f] - from + p - r.until < Size[f] /\ p \in r.until..Size[f] - 1
      <4> HIDE DEF from
      <4> QED
        BY <3>1, <1>1, <1>3
    <3> QED
      BY <3>1, <3>2 DEF Wrapped
  <2>2. Wrapped(f, r) \subseteq missing
    BY <1>1 DEF Wrapped, Packets
  <2> QED
    BY <2>1, <2>2
<1>6. CASE Ahead(f, r) # {}
  <2>1. i \in Ahead(f, r) /\ \A p \in Ahead(f, r) : i <= p
    <3>1. Ahead(f, r) \in SUBSET Nat
      BY <1>1, <1>4
    <3> QED
      BY <1>6, <3>1, MinOfNaturals DEF NextTokenSeq
  <2>2. i \in missing /\ i >= from /\ \A p \in missing : p >= from => i <= p
    BY <1>4, <2>1
  <2>3. HasNextToken(f, r)
    BY <1>6 DEF HasNextToken
  <2> HIDE DEF i, from
  <2>4. CASE r.last = Size[f] - 1
    <3>1. \A p \in missing : p <= r.last /\ p >= i
      BY <1>1, <1>2, <2>2, <2>4 DEF Packets
    <3> QED
      BY <2>2, <2>3, <3>1 DEF i
  <2>5. CASE r.last # Size[f] - 1
    <3>1. i > r.last /\ \A p \in missing : p <= r.last \/ p >= i
      BY <1>1, <1>2, <2>2, <2>5
    <3> QED
      BY <2>2, <2>3, <3>1 DEF i
  <2> QED
    BY <2>4, <2>5
<1>7. CASE Ahead(f, r) = {}
  <2>1. i \in missing /\ \A p \in missing : i <= p
    BY <1>1, <1>5, <1>7, MinOfNaturals DEF NextTokenSeq
  <2>2. HasNextToken(f, r)
    BY <1>5, <1>7 DEF HasNextToken
  <2> HIDE DEF i, from
  <2>3. \A p \in missing : p < from
    BY <1>1, <1>3, <1>4, <1>7
  <2>4. \A p \in missing : p <= r.last /\ p >= i
    BY <1>1, <1>2, <1>3, <2>1, <2>3
  <2> QED
    BY <2>1, <2>2, <2>4 DEF i
<1> QED
  BY <1>6, <1>7

(* The loop that advances received_until stops at a packet that is missing,
   or at the end, and passes over none. *)
LEMMA AdvanceFindsMissing ==
  ASSUME NEW f \in Flows, NEW got \in SUBSET Packets(f), NEW from \in 0..Size[f],
         \A p \in Packets(f) \ got : p >= from
  PROVE  /\ Advance(f, from, got) \in 0..Size[f]
         /\ \A p \in Packets(f) \ got : p >= Advance(f, from, got)
<1> DEFINE S == {i \in from..Size[f] : i \notin got}
<1>1. Size[f] \in Nat \ {0}
  BY SizeAssumption
<1>2. S \in SUBSET Nat /\ Size[f] \in S
  BY <1>1 DEF Packets
<1>3. Min(S) \in S /\ \A y \in S : Min(S) <= y
  <2> HIDE DEF S
  <2> QED
    BY <1>2, MinOfNaturals
<1>4. \A p \in Packets(f) \ got : p \in S
  BY <1>1 DEF Packets
<1> QED
  BY <1>1, <1>3, <1>4 DEF Advance

-----------------------------------------------------------------------------
(* The flows and their tokens *)

LEMMA FlowTypes ==
  ASSUME TypeOK, NEW f \in Flows
  PROVE  /\ rx[f] \in FlowState
         /\ Size[f] \in Nat \ {0}
         /\ Src[f] \in Nat \ {0}
  BY SizeAssumption, SrcAssumption DEF TypeOK

(* What is in flight may be delivered or lost. *)
LEMMA FlowsUntouched ==
  ASSUME FlowPart, UNCHANGED rx, inFlight' \subseteq inFlight
  PROVE  FlowPart'
  BY DEF FlowPart, FlowsConsistent, InFlightStarted, TokenSeqsIssuedOnce, Open

(* A step of one flow that sends no token. *)
LEMMA FlowChanges ==
  ASSUME TypeOK, FlowPart, NEW f \in Flows, NEW r \in FlowState,
         rx' = [rx EXCEPT ![f] = r], inFlight' \subseteq inFlight,
         FlowConsistent(f, r), RoundConsistent(f, r),
         r.st = "new" => rx[f].st = "new", r.largest < r.tokens,
         r.st = "open" => r.tokens = rx[f].tokens /\ rx[f].st \in {"new", "open"}
  PROVE  FlowPart' /\ rx' \in [Flows -> FlowState]
<1>1. rx'[f] = r /\ \A g \in Flows \ {f} : rx'[g] = rx[g]
  BY DEF TypeOK
<1>2. FlowsConsistent'
  BY <1>1 DEF FlowPart, FlowsConsistent
<1>3. InFlightStarted'
  BY <1>1 DEF FlowPart, InFlightStarted, TypeOK
<1>4. TokenSeqsIssuedOnce'
  <2>1. \A g \in Flows : rx'[g].largest < rx'[g].tokens
    BY <1>1 DEF FlowPart, TokenSeqsIssuedOnce
  <2>2. ASSUME NEW d \in inFlight', Open(d.flow)'
        PROVE  /\ Open(d.flow)
               /\ rx'[d.flow].tokens = rx[d.flow].tokens
    <3>1. d \in inFlight /\ d.flow \in Flows /\ rx[d.flow].st # "new"
      BY DEF FlowPart, InFlightStarted, TypeOK
    <3> QED
      BY <1>1, <2>2, <3>1 DEF Open
  <2> QED
    BY <2>1, <2>2 DEF FlowPart, TokenSeqsIssuedOnce
<1>5. rx' \in [Flows -> FlowState]
  BY DEF TypeOK
<1> QED
  BY <1>2, <1>3, <1>4, <1>5 DEF FlowPart

LEMMA ReceiveRtsFlow ==
  ASSUME TypeOK, FlowPart, NEW f \in Flows, ReceiveRts(f)
  PROVE  FlowPart' /\ rx' \in [Flows -> FlowState]
<1> DEFINE r == [rx[f] EXCEPT !.st = "open"]
<1>1. rx[f] \in FlowState /\ rx[f].st = "new"
  BY FlowTypes DEF ReceiveRts
<1>2. r \in FlowState /\ rx' = [rx EXCEPT ![f] = r] /\ inFlight' = inFlight
  BY <1>1 DEF FlowState, ReceiveRts, netVars
<1>3. FlowConsistent(f, r) /\ RoundConsistent(f, r)
  BY <1>1 DEF FlowPart, FlowsConsistent, FlowConsistent, RoundConsistent, Missing, Asked,
     Wrapping, FlowState
<1>4. r.largest < r.tokens /\ r.tokens = rx[f].tokens /\ r.st = "open"
  BY <1>1 DEF FlowPart, TokenSeqsIssuedOnce, FlowState
<1> QED
  BY <1>1, <1>2, <1>3, <1>4, FlowChanges

LEMMA RdCtrlTimeoutFlow ==
  ASSUME TypeOK, FlowPart, NEW f \in Flows, RdCtrlTimeout(f)
  PROVE  FlowPart' /\ rx' \in [Flows -> FlowState]
<1> DEFINE r == [rx[f] EXCEPT !.rdCtrl = FALSE, !.asked = {}]
<1>1. rx[f] \in FlowState /\ rx[f].rdCtrl
  BY FlowTypes DEF RdCtrlTimeout
<1>2. r \in FlowState /\ rx' = [rx EXCEPT ![f] = r] /\ inFlight' = inFlight
  BY <1>1 DEF FlowState, RdCtrlTimeout, netVars, TypeOK
<1>3. FlowConsistent(f, r) /\ RoundConsistent(f, r)
  BY <1>1 DEF FlowPart, FlowsConsistent, FlowConsistent, RoundConsistent, Missing, Asked,
     Wrapping, FlowState
<1>4. r.largest < r.tokens /\ r.tokens = rx[f].tokens /\ r.st = rx[f].st
  BY <1>1 DEF FlowPart, TokenSeqsIssuedOnce, FlowState
<1> QED
  BY <1>1, <1>2, <1>3, <1>4, FlowChanges

LEMMA FinishTimeoutFlow ==
  ASSUME TypeOK, FlowPart, NEW f \in Flows, FinishTimeout(f)
  PROVE  FlowPart' /\ rx' \in [Flows -> FlowState]
<1>1. Size[f] \in Nat \ {0} /\ GoneFlow \in FlowState
  <2>1. NewFlow \in FlowState
    BY DEF NewFlow, FlowState
  <2>2. GoneFlow \in FlowState
    BY <2>1 DEF GoneFlow, FlowState
  <2> QED
    BY <2>2, FlowTypes
<1>2. rx' = [rx EXCEPT ![f] = GoneFlow] /\ inFlight' = inFlight
  BY DEF FinishTimeout, netVars
<1>3. FlowConsistent(f, GoneFlow) /\ RoundConsistent(f, GoneFlow)
  BY <1>1 DEF FlowConsistent, RoundConsistent, Missing, Asked, Packets, GoneFlow, NewFlow
<1>4. GoneFlow.st = "gone" /\ GoneFlow.largest < GoneFlow.tokens
  BY DEF GoneFlow, NewFlow
<1> QED
  BY <1>1, <1>2, <1>3, <1>4, FlowChanges

(* A data packet of an open flow: the flow is finished only when it has all
   packets, and until then received_until stays below what is missing. *)
LEMMA ReceivedFlow ==
  ASSUME TypeOK, FlowPart, NEW d \in inFlight, Open(d.flow)
  PROVE  LET r == Received(d.flow, rx[d.flow], d)
         IN  /\ r \in FlowState
             /\ r.st \in {"open", "finished"}
             /\ r.tokens = rx[d.flow].tokens
             /\ r.largest < r.tokens
             /\ FlowConsistent(d.flow, r)
             /\ RoundConsistent(d.flow, r)
<1> DEFINE f == d.flow
           old == rx[f]
           r == Received(f, old, d)
           got == old.got \cup {d.seq}
           until == Advance(f, old.until, got)
           largest == IF d.tok > old.largest THEN d.tok ELSE old.largest
<1>1. f \in Flows /\ d.tok \in Nat /\ old \in FlowState /\ old.st = "open"
  BY FlowTypes DEF TypeOK, Open
<1>2. FlowConsistent(f, old) /\ RoundConsistent(f, old) /\ d.seq \in Packets(f)
  BY <1>1 DEF FlowPart, FlowsConsistent, InFlightStarted
<1>3. old.largest < old.tokens /\ d.tok < old.tokens
  BY <1>1 DEF FlowPart, TokenSeqsIssuedOnce, Open
<1>4. got \subseteq Packets(f) /\ Packets(f) \ got \subseteq Missing(f, old)
  BY <1>2 DEF FlowConsistent, Missing
<1>5. until \in 0..Size[f] /\ \A p \in Packets(f) \ got : p >= until
  <2>1. old.until \in 0..Size[f] /\ \A p \in Packets(f) \ got : p >= old.until
    BY <1>2, <1>4 DEF FlowConsistent
  <2> HIDE DEF f, old, got
  <2> QED
    BY <1>1, <1>4, <2>1, AdvanceFindsMissing
<1>6. /\ r.got = got /\ r.until = until /\ r.largest = largest
      /\ r.last = old.last /\ r.tokens = old.tokens /\ r.asked = old.asked
      /\ r.rdCtrl \in {old.rdCtrl, FALSE}
      /\ r.st = IF Cardinality(got) >= Size[f] THEN "finished" ELSE "open"
      /\ r = [st |-> r.st, got |-> r.got, until |-> r.until, last |-> r.last,
              tokens |-> r.tokens, largest |-> r.largest, rdCtrl |-> r.rdCtrl,
              asked |-> r.asked]
  <2> HIDE DEF f, old
  <2> QED
    BY <1>1 DEF Received, FlowState
<1>7. largest \in Int /\ largest < old.tokens
  <2> HIDE DEF f, old
  <2> QED
    BY <1>1, <1>3 DEF FlowState
<1>8. r.st = "open" => Missing(f, r) # {}
  <2>1. ~(Cardinality(got) >= Size[f]) => Packets(f) \ got # {}
    BY <1>1, <1>4, AllPackets
  <2> QED
    BY <1>6, <2>1 DEF Missing
<1> HIDE DEF f, old, r, got, until, largest
<1>9. Missing(f, r) \subseteq Missing(f, old)
  BY <1>4, <1>6 DEF Missing
<1>10. FlowConsistent(f, r)
  BY <1>2, <1>4, <1>5, <1>6, <1>8 DEF FlowConsistent, Missing
<1>11. RoundConsistent(f, r)
  BY <1>2, <1>6, <1>9 DEF RoundConsistent, Asked, Wrapping
<1>12. r \in FlowState
  <2>1. Size[f] \in Nat \ {0}
    BY <1>1, SizeAssumption
  <2>2. r.got \in SUBSET Nat /\ r.until \in Nat /\ r.last \in Int
    BY <1>2, <1>4, <1>5, <1>6, <2>1 DEF FlowConsistent, Packets
  <2>3. r.tokens \in Nat /\ r.largest \in Int /\ r.asked \in SUBSET Nat
        /\ r.rdCtrl \in BOOLEAN /\ r.st \in {"open", "finished"}
    BY <1>1, <1>6, <1>7 DEF FlowState
  <2> QED
    BY <1>6, <2>2, <2>3 DEF FlowState
<1> QED
  BY <1>3, <1>6, <1>7, <1>10, <1>11, <1>12 DEF f, old, r

LEMMA ReceiveDataFlow ==
  ASSUME TypeOK, FlowPart, NEW d \in inFlight, ReceiveData(d)
  PROVE  FlowPart' /\ rx' \in [Flows -> FlowState]
<1>1. inFlight' \subseteq inFlight /\ d.flow \in Flows
  BY DEF ReceiveData, TypeOK
<1>2. CASE Open(d.flow)
  <2> DEFINE r == Received(d.flow, rx[d.flow], d)
  <2>1. /\ r \in FlowState /\ r.st \in {"open", "finished"} /\ r.tokens = rx[d.flow].tokens
        /\ r.largest < r.tokens /\ FlowConsistent(d.flow, r) /\ RoundConsistent(d.flow, r)
    BY <1>2, ReceivedFlow
  <2>2. rx' = [rx EXCEPT ![d.flow] = r]
    BY <1>2 DEF ReceiveData
  <2> HIDE DEF r
  <2> QED
    BY <1>1, <1>2, <2>1, <2>2, FlowChanges DEF Open
<1>3. CASE ~Open(d.flow)
  BY <1>1, <1>3, FlowsUntouched DEF ReceiveData, TypeOK
<1> QED
  BY <1>2, <1>3

(* A token for an open flow that is not under redundancy control: it is for
   a missing packet, and the next one wraps around exactly when nothing is
   missing above it. *)
LEMMA TokenOfFlow ==
  ASSUME TypeOK, FlowPart, NEW f \in Flows, Open(f)
  PROVE  LET i == NextTokenSeq(f, rx[f])
             sent == WithToken(rx[f], i)
         IN  /\ HasNextToken(f, rx[f])
             /\ i \in Missing(f, rx[f])
             /\ Asked(f, sent)
             /\ i >= NextTokenSeq(f, sent) <=> Wrapping(f, sent)
<1> DEFINE old == rx[f]
           i == NextTokenSeq(f, old)
           sent == WithToken(old, i)
           j == NextTokenSeq(f, sent)
           missing == Packets(f) \ old.got
<1>1. old \in FlowState /\ old.st = "open" /\ Size[f] \in Nat \ {0}
  BY FlowTypes DEF Open
<1>2. FlowConsistent(f, old) /\ RoundConsistent(f, old) /\ missing = Missing(f, old)
  BY DEF FlowPart, FlowsConsistent, Missing
<1>3. missing # {} /\ missing \in SUBSET Nat
  BY <1>1, <1>2 DEF FlowConsistent, Packets
<1>4. /\ HasNextToken(f, old)
      /\ i \in missing
      /\ \/ /\ i > old.last
            /\ \A p \in missing : p <= old.last \/ p >= i
         \/ \A p \in missing : p <= old.last /\ p >= i
  <2> HIDE DEF old
  <2> QED
    BY <1>1, <1>2, <1>3, NextTokenIsMissing DEF FlowConsistent, Missing
<1>5. i \in Nat /\ i \in 0..Size[f] - 1
  <2> HIDE DEF i
  <2> QED
    BY <1>1, <1>3, <1>4 DEF Packets
<1>6. /\ sent.got = old.got /\ sent.until = old.until /\ sent.last = i
      /\ sent.asked = old.asked \cup {i} /\ sent \in FlowState
  <2> DEFINE n == old.tokens + 1
             a == old.asked \cup {i}
  <2>1. n \in Nat /\ a \in SUBSET Nat
    <3> HIDE DEF i, old
    <3> QED
      BY <1>1, <1>5 DEF FlowState
  <2>2. sent = [old EXCEPT !.last = i, !.tokens = n, !.asked = a]
    BY DEF WithToken
  <2> HIDE DEF i, old, sent, n, a
  <2>3. sent = [st |-> old.st, got |-> old.got, until |-> old.until, last |-> i,
                tokens |-> n, largest |-> old.largest, rdCtrl |-> old.rdCtrl, asked |-> a]
    BY <1>1, <2>2 DEF FlowState
  <2>4. sent \in FlowState
    BY <1>1, <1>5, <2>1, <2>3 DEF FlowState
  <2> QED
    BY <2>3, <2>4 DEF a
<1> HIDE DEF sent, i, old
<1>7. Asked(f, sent)
  <2>1. old.last \in Int
    BY <1>1 DEF FlowState
  <2>2. ASSUME NEW p \in missing, p <= i PROVE p \in old.asked \cup {i}
    <3>1. CASE p <= old.last /\ i > old.last
      <4>1. ~Wrapping(f, old)
        BY <1>2, <1>4, <1>5, <2>1, <3>1 DEF Wrapping
      <4> QED
        BY <1>2, <2>2, <3>1, <4>1 DEF RoundConsistent, Asked
    <3>2. CASE ~(p <= old.last /\ i > old.last)
      <4>1. p >= i
        BY <1>3, <1>4, <1>5, <2>1, <2>2, <3>2
      <4> QED
        BY <1>3, <1>5, <2>2, <4>1
    <3> QED
      BY <3>1, <3>2
  <2> QED
    BY <1>2, <1>6, <2>2 DEF Asked, Missing
<1>8. i >= j <=> Wrapping(f, sent)
  <2>1. sent.until \in 0..Size[f] /\ sent.last \in -1..Size[f] - 1
        /\ \A p \in Packets(f) \ sent.got : p >= sent.until
    BY <1>1, <1>2, <1>5, <1>6 DEF FlowConsistent, Missing
  <2>2. /\ j \in missing
        /\ \/ /\ j > i
              /\ \A p \in missing : p <= i \/ p >= j
           \/ \A p \in missing : p <= i /\ p >= j
    BY <1>3, <1>6, <2>1, NextTokenIsMissing
  <2> HIDE DEF j
  <2> QED
    BY <1>3, <1>4, <1>5, <1>6, <2>2 DEF Wrapping, Missing
<1> QED
  BY <1>2, <1>4, <1>7, <1>8 DEF i, sent, old

(* A round of the loop of send_token_evt_handler changes the flow it serves
   to r, and puts one token in flight. *)
LEMMA EvtTokenFlow ==
  ASSUME TypeOK, FlowPart, JobConsistent, EvtToken
  PROVE  /\ rx' \in [Flows -> FlowState]
         /\ inFlight' \subseteq [flow : Flows, seq : Nat, tok : Nat]
         /\ \A f \in Flows : rx'[f].st = rx[f].st
         /\ \A f \in Flows : f # job.flow => rx'[f] = rx[f]
         /\ rx'[job.flow].rdCtrl
              <=> NextTokenSeq(job.flow, rx[job.flow])
                    >= NextTokenSeq(job.flow, WithToken(rx[job.flow], NextTokenSeq(job.flow, rx[job.flow])))
         /\ FlowPart'
<1> DEFINE f == job.flow
           old == rx[f]
           i == NextTokenSeq(f, old)
           sent == WithToken(old, i)
           wraps == i >= NextTokenSeq(f, sent)
           rd == wraps \/ sent.rdCtrl
           r == [sent EXCEPT !.rdCtrl = rd]
           d == [flow |-> f, seq |-> i, tok |-> old.tokens]
<1>1. f \in Flows /\ Open(f) /\ ~old.rdCtrl
  BY DEF EvtToken, JobConsistent, TypeOK
<1>2. rx' = [rx EXCEPT ![f] = r] /\ inFlight' = inFlight \cup {d}
  BY DEF EvtToken
<1>3. old \in FlowState /\ old.st = "open" /\ Size[f] \in Nat \ {0}
  BY <1>1, FlowTypes DEF Open
<1>4. /\ i \in Missing(f, old)
      /\ Asked(f, sent)
      /\ wraps <=> Wrapping(f, sent)
  BY <1>1, TokenOfFlow
<1>5. FlowConsistent(f, old) /\ old.largest < old.tokens
  BY <1>1 DEF FlowPart, FlowsConsistent, TokenSeqsIssuedOnce
<1>6. i \in Nat /\ i \in 0..Size[f] - 1
  BY <1>3, <1>4 DEF Missing, Packets
<1>7. /\ sent \in FlowState /\ sent.st = "open" /\ sent.got = old.got
      /\ sent.until = old.until /\ sent.last = i /\ sent.tokens = old.tokens + 1
      /\ sent.largest = old.largest /\ sent.rdCtrl = FALSE
  <2> DEFINE n == old.tokens + 1
             a == old.asked \cup {i}
  <2>1. n \in Nat /\ a \in SUBSET Nat
    <3> HIDE DEF i, old
    <3> QED
      BY <1>3, <1>6 DEF FlowState
  <2>2. sent = [old EXCEPT !.last = i, !.tokens = n, !.asked = a]
    BY DEF WithToken
  <2>3. old.rdCtrl = FALSE
    BY <1>1, <1>3 DEF FlowState
  <2> HIDE DEF i, old, sent, n, a
  <2>4. sent = [st |-> old.st, got |-> old.got, until |-> old.until, last |-> i,
                tokens |-> n, largest |-> old.largest, rdCtrl |-> old.rdCtrl, asked |-> a]
    BY <1>3, <2>2 DEF FlowState
  <2>5. sent \in FlowState
    BY <1>3, <1>6, <2>1, <2>4 DEF FlowState
  <2> QED
    BY <1>3, <2>3, <2>4, <2>5 DEF n
<1>8. rd \in BOOLEAN
  OBVIOUS
<1> HIDE DEF old, i, sent, wraps, rd
<1>9. /\ r \in FlowState /\ r.st = "open" /\ r.got = old.got /\ r.until = old.until
      /\ r.last = i /\ r.tokens = old.tokens + 1 /\ r.largest = old.largest
      /\ r.asked = sent.asked /\ r.rdCtrl = rd
  BY <1>7, <1>8 DEF FlowState
<1> HIDE DEF r
<1>10. r.rdCtrl <=> wraps
  BY <1>7, <1>9 DEF rd
<1>11. FlowConsistent(f, r)
  BY <1>3, <1>5, <1>6, <1>9 DEF FlowConsistent, Missing
<1>12. RoundConsistent(f, r)
  BY <1>4, <1>7, <1>9, <1>10 DEF RoundConsistent, Asked, Wrapping, Missing
<1>13. rx'[f] = r /\ \A g \in Flows : g # f => rx'[g] = rx[g]
  BY <1>1, <1>2 DEF TypeOK
<1>14. rx' \in [Flows -> FlowState]
  BY <1>2, <1>9 DEF TypeOK
<1>15. d \in [flow : Flows, seq : Nat, tok : Nat] /\ d.flow = f /\ d.tok = old.tokens
       /\ d.seq \in Packets(f)
  BY <1>1, <1>3, <1>6 DEF FlowState, Packets
<1> HIDE DEF d, f
<1>16. FlowsConsistent'
  BY <1>11, <1>12, <1>13 DEF FlowPart, FlowsConsistent
<1>17. InFlightStarted'
  BY <1>2, <1>3, <1>9, <1>13, <1>15 DEF FlowPart, InFlightStarted, TypeOK, old
<1>18. TokenSeqsIssuedOnce'
  <2>1. old.tokens \in Nat /\ old.largest \in Int
    BY <1>3 DEF FlowState
  <2>2. \A g \in Flows : rx'[g].largest < rx'[g].tokens
    BY <1>5, <1>9, <1>13, <2>1 DEF FlowPart, TokenSeqsIssuedOnce
  <2>3. \A g \in Flows : rx'[g].st = rx[g].st
    BY <1>3, <1>9, <1>13 DEF old
  <2>4. \A g \in Flows : rx[g].tokens \in Nat
    BY FlowTypes DEF FlowState
  <2>5. ASSUME NEW e \in inFlight, Open(e.flow)' 
        PROVE  e.flow \in Flows /\ e.tok \in Nat /\ Open(e.flow) /\ e.tok < rx[e.flow].tokens
    BY <2>3, <2>5 DEF FlowPart, TokenSeqsIssuedOnce, TypeOK, Open
  <2>6. ASSUME NEW e \in inFlight', Open(e.flow)' PROVE e.tok < rx'[e.flow].tokens
    BY <1>2, <1>9, <1>13, <1>15, <2>1, <2>4, <2>5, <2>6 DEF old
  <2>7. ASSUME NEW e \in inFlight', NEW h \in inFlight', Open(e.flow)',
               h.flow = e.flow, h.tok = e.tok
        PROVE  h = e
    <3>1. CASE e \in inFlight /\ h \in inFlight
      BY <2>5, <2>7, <3>1 DEF FlowPart, TokenSeqsIssuedOnce
    <3>2. CASE e = d /\ h \in inFlight
      BY <1>15, <2>1, <2>5, <2>7, <3>2 DEF old
    <3>3. CASE h = d /\ e \in inFlight
      BY <1>15, <2>1, <2>5, <2>7, <3>3 DEF old
    <3> QED
      BY <1>2, <3>1, <3>2, <3>3
  <2> QED
    BY <2>2, <2>6, <2>7 DEF TokenSeqsIssuedOnce
<1> QED
  BY <1>2, <1>3, <1>9, <1>10, <1>13, <1>14, <1>15, <1>16, <1>17, <1>18
  DEF FlowPart, TypeOK, wraps, sent, i, old, f

-----------------------------------------------------------------------------
(* The claims on the grant *)

NrtsWaiting == lst.nrts # NoNrts

LeaseOfClaims ==
  CASE grants # {} -> "granted"
    [] grants = {} /\ GrantHeld -> "held"
    [] grants = {} /\ ~GrantHeld /\ (NrtsWaiting \/ NrtsSent # {}) -> "returning"
    [] grants = {} /\ ~GrantHeld /\ ~NrtsWaiting /\ NrtsSent = {} ->
         IF ctl.busy THEN "lost" ELSE "free"

LeaseMatches == Lease = LeaseOfClaims

(* Exclusive claims add up to none or one. *)
LEMMA LeaseIs == ExclusiveClaims => LeaseMatches
<1> SUFFICES ASSUME ExclusiveClaims PROVE Lease = LeaseOfClaims
  BY DEF LeaseMatches
<1>1. Cardinality(grants) = IF grants = {} THEN 0 ELSE 1
  BY AtMostOne DEF ExclusiveClaims
<1>2. Cardinality(NrtsSent) = IF NrtsSent = {} THEN 0 ELSE 1
  BY AtMostOne DEF ExclusiveClaims
<1>3. Claims = IF grants # {} \/ GrantHeld \/ NrtsWaiting \/ NrtsSent # {} THEN 1 ELSE 0
  BY <1>1, <1>2 DEF Claims, ExclusiveClaims, NrtsWaiting
<1> QED
  BY <1>3 DEF Lease, LeaseOfClaims, ExclusiveClaims, NrtsWaiting

LEMMA LeaseIsPrimed == ExclusiveClaims' => LeaseMatches'
  BY LeaseIs, PTL

(* What a step may do to the claims: it keeps them exclusive, and GrantLease
   allows it. *)
LeaseNext == [GrantLeaseSpec!Next]_Lease
ClaimStep == ExclusiveClaims' /\ LeaseNext

LEMMA LeaseStep ==
  ASSUME ExclusiveClaims, ExclusiveClaims',
         \/ LeaseOfClaims' = LeaseOfClaims
         \/ LeaseOfClaims = "free" /\ LeaseOfClaims' = "granted"
         \/ LeaseOfClaims = "granted" /\ LeaseOfClaims' \in {"held", "returning", "lost"}
         \/ LeaseOfClaims = "held" /\ LeaseOfClaims' = "returning"
         \/ LeaseOfClaims = "returning" /\ LeaseOfClaims' \in {"free", "lost"}
  PROVE  ClaimStep
<1>1. Lease = LeaseOfClaims /\ Lease' = LeaseOfClaims'
  BY LeaseIs, LeaseIsPrimed DEF LeaseMatches
<1>2. LeaseNext
  BY <1>1 DEF LeaseNext, GrantLeaseSpec!Next, GrantLeaseSpec!Grant, GrantLeaseSpec!Take,
     GrantLeaseSpec!Refuse, GrantLeaseSpec!Return, GrantLeaseSpec!Free, GrantLeaseSpec!Lose
<1> QED
  BY <1>2 DEF ClaimStep

(* A listsrc without an NRTS may replace one with an NRTS: the lease is lost. *)
LEMMA ClaimsKept ==
  ASSUME ExclusiveClaims, UNCHANGED <<grants, listsrc, ctl>>,
         GrantHeld' <=> GrantHeld, lst'.nrts \in {lst.nrts, NoNrts}
  PROVE  ClaimStep
<1>1. NrtsSent' = NrtsSent /\ (NrtsWaiting' => NrtsWaiting)
  BY DEF NrtsSent, NrtsWaiting
<1>2. ExclusiveClaims'
  BY <1>1 DEF ExclusiveClaims, NrtsWaiting
<1>3. \/ LeaseOfClaims' = LeaseOfClaims
      \/ LeaseOfClaims = "returning" /\ LeaseOfClaims' = "lost"
  BY <1>1 DEF LeaseOfClaims, ExclusiveClaims, NrtsWaiting
<1> QED
  BY <1>2, <1>3, LeaseStep

(* The receiver gives back the grant it holds. *)
LEMMA HeldIsReturned ==
  ASSUME ExclusiveClaims, UNCHANGED <<grants, listsrc, ctl>>,
         GrantHeld, ~GrantHeld', lst'.nrts # NoNrts
  PROVE  ClaimStep
<1>1. NrtsSent' = NrtsSent
  BY DEF NrtsSent
<1>2. ExclusiveClaims'
  BY <1>1 DEF ExclusiveClaims
<1>3. LeaseOfClaims = "held" /\ LeaseOfClaims' = "returning"
  BY <1>1 DEF LeaseOfClaims, ExclusiveClaims, NrtsWaiting
<1> QED
  BY <1>2, <1>3, LeaseStep

(* The receiver takes or refuses a grant. *)
LEMMA GrantArrives ==
  ASSUME ExclusiveClaims, NEW g \in grants, grants' = grants \ {g}, UNCHANGED <<listsrc, ctl>>,
         \/ GrantHeld' /\ lst' = lst
         \/ ~GrantHeld' /\ lst'.nrts # NoNrts
  PROVE  ClaimStep
<1>1. NrtsSent' = NrtsSent /\ grants' = {}
  BY DEF NrtsSent, ExclusiveClaims
<1>2. ExclusiveClaims'
  BY <1>1 DEF ExclusiveClaims
<1>3. LeaseOfClaims = "granted" /\ LeaseOfClaims' \in {"held", "returning"}
  BY <1>1 DEF LeaseOfClaims, ExclusiveClaims, NrtsWaiting
<1> QED
  BY <1>2, <1>3, LeaseStep

(* lcore 5 sends the listsrc. *)
LEMMA SendListsrcEndClaims ==
  ASSUME ExclusiveClaims, SendListsrcEnd
  PROVE  ClaimStep
<1> DEFINE srcs == {Src[f] : f \in {g \in Flows : Open(g) /\ ~rx[g].rdCtrl}}
           m == [nrts |-> lst.nrts, srcs |-> srcs]
<1>1. /\ UNCHANGED <<grants, gosrc, ctl>>
      /\ ~NrtsWaiting'
      /\ GrantHeld' <=> GrantHeld
      /\ \/ listsrc' = listsrc /\ ~NrtsWaiting
         \/ listsrc' = listsrc \cup {m}
  BY DEF SendListsrcEnd, lcore1Vars, NrtsWaiting, GrantHeld
<1>2. m.nrts = lst.nrts
  OBVIOUS
<1> HIDE DEF m
<1>3. NrtsSent' = IF NrtsWaiting THEN NrtsSent \cup {m} ELSE NrtsSent
  BY <1>1, <1>2 DEF NrtsSent, NrtsWaiting
<1>4. ExclusiveClaims'
  BY <1>1, <1>3 DEF ExclusiveClaims, NrtsWaiting
<1>5. LeaseOfClaims' = LeaseOfClaims
  BY <1>1, <1>3 DEF LeaseOfClaims, ExclusiveClaims, NrtsWaiting
<1> QED
  BY <1>4, <1>5, LeaseStep

(* The controller takes a listsrc: an NRTS frees the receiver. *)
LEMMA CtlReceiveClaims ==
  ASSUME ExclusiveClaims, NEW m \in listsrc, CtlReceive(m)
  PROVE  ClaimStep
<1>1. /\ UNCHANGED <<grants, gosrc, lst>>
      /\ listsrc' = listsrc \ {m}
      /\ ctl'.busy = (ctl.busy /\ m.nrts = NoNrts)
      /\ GrantHeld' <=> GrantHeld
      /\ NrtsWaiting' <=> NrtsWaiting
  BY DEF CtlReceive, lcore1Vars, GrantHeld, NrtsWaiting
<1>2. CASE m.nrts = NoNrts
  <2>1. NrtsSent' = NrtsSent
    BY <1>1, <1>2 DEF NrtsSent
  <2>2. ctl'.busy <=> ctl.busy
    BY <1>1, <1>2
  <2>3. ExclusiveClaims'
    BY <1>1, <2>1, <2>2 DEF ExclusiveClaims
  <2>4. LeaseOfClaims' = LeaseOfClaims
    BY <1>1, <2>1, <2>2 DEF LeaseOfClaims
  <2> QED
    BY <2>3, <2>4, LeaseStep
<1>3. CASE m.nrts # NoNrts
  <2>1. m \in NrtsSent /\ NrtsSent' = {}
    BY <1>1, <1>3 DEF NrtsSent, ExclusiveClaims
  <2>2. ~ctl'.busy
    BY <1>1, <1>3
  <2>3. ExclusiveClaims'
    BY <1>1, <2>1 DEF ExclusiveClaims
  <2>4. LeaseOfClaims = "returning" /\ LeaseOfClaims' = "free"
    BY <1>1, <2>1, <2>2 DEF LeaseOfClaims, ExclusiveClaims, NrtsWaiting
  <2> QED
    BY <2>3, <2>4, LeaseStep
<1> QED
  BY <1>2, <1>3

(* The controller answers the requests: a grant only to a free receiver. *)
LEMMA CtlHandleClaims ==
  ASSUME ExclusiveClaims, CtlHandle
  PROVE  ClaimStep
<1>1. /\ UNCHANGED <<gosrc, lst, listsrc>>
      /\ GrantHeld' <=> GrantHeld
      /\ NrtsWaiting' <=> NrtsWaiting
      /\ NrtsSent' = NrtsSent
  BY DEF CtlHandle, lcore1Vars, GrantHeld, NrtsWaiting, NrtsSent
<1>2. CASE ctl' = [ctl EXCEPT !.asked = {}] /\ UNCHANGED grants
  <2>1. ctl'.busy = ctl.busy
    BY <1>2
  <2>2. ExclusiveClaims'
    BY <1>1, <1>2, <2>1 DEF ExclusiveClaims
  <2>3. LeaseOfClaims' = LeaseOfClaims
    BY <1>1, <1>2, <2>1 DEF LeaseOfClaims
  <2> QED
    BY <2>2, <2>3, LeaseStep
<1>3. ASSUME ~ctl.busy, NEW g, grants' = grants \cup {g}, ctl' = [busy |-> TRUE, asked |-> {}]
      PROVE  ClaimStep
  <2>1. grants = {} /\ ~GrantHeld /\ ~NrtsWaiting /\ NrtsSent = {}
    BY <1>3 DEF ExclusiveClaims, NrtsWaiting
  <2>2. ExclusiveClaims'
    BY <1>1, <1>3, <2>1 DEF ExclusiveClaims, NrtsWaiting
  <2>3. LeaseOfClaims = "free" /\ LeaseOfClaims' = "granted"
    BY <1>1, <1>3, <2>1 DEF LeaseOfClaims
  <2> QED
    BY <2>2, <2>3, LeaseStep
<1> QED
  BY <1>2, <1>3 DEF CtlHandle

LEMMA LoseControlClaims ==
  ASSUME ExclusiveClaims, LoseControl
  PROVE  ClaimStep
<1>1. /\ UNCHANGED <<gosrc, lst, ctl>>
      /\ GrantHeld' <=> GrantHeld
      /\ NrtsWaiting' <=> NrtsWaiting
      /\ grants' \subseteq grants /\ listsrc' \subseteq listsrc
      /\ grants' = grants \/ listsrc' = listsrc
  BY DEF LoseControl, lcore1Vars, GrantHeld, NrtsWaiting
<1>2. NrtsSent' \subseteq NrtsSent /\ (listsrc' = listsrc => NrtsSent' = NrtsSent)
  BY <1>1 DEF NrtsSent
<1>3. ExclusiveClaims'
  BY <1>1, <1>2 DEF ExclusiveClaims, NrtsWaiting
<1>4. \/ LeaseOfClaims' = LeaseOfClaims
      \/ LeaseOfClaims \in {"granted", "returning"} /\ LeaseOfClaims' = "lost"
  BY <1>1, <1>2 DEF LeaseOfClaims, ExclusiveClaims, NrtsWaiting
<1> QED
  BY <1>3, <1>4, LeaseStep

-----------------------------------------------------------------------------
(* One lemma per action *)

StepOK == IInv' /\ LeaseNext

LEMMA IInvParts == IInv <=> TypeOK /\ FlowPart /\ GrantPart /\ ExclusiveClaims
  BY DEF IInv, FlowPart, GrantPart

LEMMA PartsStep ==
  ASSUME TypeOK', FlowPart', GrantPart', ClaimStep
  PROVE  StepOK
  BY DEF StepOK, IInv, FlowPart, GrantPart, ClaimStep

LEMMA IdleReset == ResetIdleTimeout => idle' \in {"armed", "stopped", "misread"}
  BY DEF ResetIdleTimeout, HasIdleParams

GosrcState == [has : BOOLEAN, sendNrts : BOOLEAN, src : Nat, remain : Int,
               cur : Flows \cup {NoFlow}]

LEMMA GosrcReset ==
  ASSUME NEW g \in GosrcState
  PROVE  /\ ResetGosrc(g) \in GosrcState
         /\ ~ResetGosrc(g).has /\ ResetGosrc(g).sendNrts = g.sendNrts
         /\ ResetGosrc(g).cur = NoFlow /\ ResetGosrc(g).src = 0
<1> DEFINE no == FALSE
           zero == 0
           none == -1
<1>1. no \in BOOLEAN /\ zero \in Nat /\ none \in Int /\ NoFlow \in Flows \cup {NoFlow}
  OBVIOUS
<1>2. ResetGosrc(g) = [g EXCEPT !.has = no, !.src = zero, !.remain = none, !.cur = NoFlow]
  BY Zenon DEF ResetGosrc
<1>3. ~no /\ zero = 0
  OBVIOUS
<1> HIDE DEF no, zero, none
<1> QED
  BY <1>1, <1>2, <1>3 DEF GosrcState

LEMMA GosrcGivenBack ==
  ASSUME NEW g \in GosrcState
  PROVE  /\ GivenBack(g) \in GosrcState
         /\ GivenBack(g).sendNrts
         /\ GivenBack(g).has = g.has /\ GivenBack(g).src = g.src
         /\ GivenBack(g).remain = g.remain /\ GivenBack(g).cur = g.cur
  BY DEF GivenBack, GosrcState

LEMMA InitIInv == Init => IInv
<1> SUFFICES ASSUME Init PROVE IInv
  OBVIOUS
<1>1. NewFlow \in FlowState
  BY DEF NewFlow, FlowState
<1>2. TypeOK
  <2>1. rx \in [Flows -> FlowState]
    BY <1>1 DEF Init
  <2>2. gosrc \in [has : BOOLEAN, sendNrts : BOOLEAN, src : Nat, remain : Int,
                   cur : Flows \cup {NoFlow}]
    BY DEF Init
  <2>3. job \in [on : BOOLEAN, flow : Flows \cup {NoFlow}, left : Nat, rdSet : BOOLEAN]
    BY DEF Init, NoJob
  <2>4. /\ lst \in [st : {"stop", "pending", "running"}, nrts : Nat \cup {NoNrts}]
        /\ ctl \in [busy : BOOLEAN, asked : SUBSET Srcs]
    BY DEF Init
  <2> QED
    BY <2>1, <2>2, <2>3, <2>4 DEF Init, TypeOK
<1>3. FlowPart
  <2>1. ASSUME NEW f \in Flows
        PROVE  FlowConsistent(f, NewFlow) /\ RoundConsistent(f, NewFlow)
    <3>1. Size[f] \in Nat \ {0}
      BY SizeAssumption
    <3>2. Missing(f, NewFlow) = 0..Size[f] - 1
      BY DEF Missing, Packets, NewFlow
    <3> QED
      BY <3>1, <3>2 DEF FlowConsistent, RoundConsistent, Asked, NewFlow
  <2>2. NewFlow.largest < NewFlow.tokens
    BY DEF NewFlow
  <2> QED
    BY <2>1, <2>2 DEF Init, FlowPart, FlowsConsistent, InFlightStarted, TokenSeqsIssuedOnce
<1>4. GrantPart
  BY DEF Init, GrantPart, GrantAtWork, JobConsistent, TokensUnderGrant, NeverSilent, NoExit,
     NoJob, GrantHeld, Open, NewFlow
<1>5. ExclusiveClaims
  BY DEF Init, ExclusiveClaims, GrantHeld, NrtsSent
<1> QED
  BY <1>2, <1>3, <1>4, <1>5, IInvParts

LEMMA ReceiveRtsStep ==
  ASSUME IInv, NEW f \in Flows, ReceiveRts(f)
  PROVE  StepOK
<1>1. TypeOK /\ FlowPart /\ GrantPart /\ ExclusiveClaims
  BY IInvParts
<1>2. /\ ~job.on
      /\ \/ gosrc.has /\ UNCHANGED <<lst, idle>>
         \/ ~gosrc.has /\ InvokeListsrc /\ ResetIdleTimeout
      /\ UNCHANGED <<gosrc, evt, job, exit, inFlight, listsrc, grants, ctl>>
  BY DEF ReceiveRts, netVars
<1>3. FlowPart' /\ rx' \in [Flows -> FlowState]
  BY <1>1, ReceiveRtsFlow
<1>4. lst' \in {lst, [st |-> "pending", nrts |-> NoNrts]}
  BY <1>2 DEF InvokeListsrc
<1>5. idle' \in {"armed", "stopped", "misread"} \/ (gosrc.has /\ idle' = idle)
  BY <1>2, IdleReset
<1>6. TypeOK'
  BY <1>1, <1>2, <1>3, <1>4, <1>5 DEF TypeOK
<1>7. GrantPart'
  BY <1>1, <1>2, <1>5 DEF GrantPart, GrantAtWork, JobConsistent, TokensUnderGrant, NeverSilent,
     NoExit, GrantHeld, TypeOK
<1>8. ClaimStep
  BY <1>1, <1>2, <1>4, ClaimsKept DEF GrantHeld
<1> QED
  BY <1>3, <1>6, <1>7, <1>8, PartsStep

LEMMA RdCtrlTimeoutStep ==
  ASSUME IInv, NEW f \in Flows, RdCtrlTimeout(f)
  PROVE  StepOK
<1>1. TypeOK /\ FlowPart /\ GrantPart /\ ExclusiveClaims
  BY IInvParts
<1>2. ~job.on /\ UNCHANGED <<gosrc, idle, evt, job, exit, lst, inFlight, listsrc, grants, ctl>>
  BY DEF RdCtrlTimeout, netVars
<1>3. FlowPart' /\ rx' \in [Flows -> FlowState]
  BY <1>1, RdCtrlTimeoutFlow
<1>4. \A g \in Flows : Open(g)' => Open(g)
  BY <1>1 DEF RdCtrlTimeout, Open, TypeOK, FlowState
<1>5. TypeOK'
  BY <1>1, <1>2, <1>3 DEF TypeOK
<1>6. GrantPart'
  BY <1>1, <1>2, <1>4 DEF GrantPart, GrantAtWork, JobConsistent, TokensUnderGrant, NeverSilent,
     NoExit, GrantHeld
<1>7. ClaimStep
  BY <1>1, <1>2, ClaimsKept DEF GrantHeld
<1> QED
  BY <1>3, <1>5, <1>6, <1>7, PartsStep

LEMMA FinishTimeoutStep ==
  ASSUME IInv, NEW f \in Flows, FinishTimeout(f)
  PROVE  StepOK
<1>1. TypeOK /\ FlowPart /\ GrantPart /\ ExclusiveClaims
  BY IInvParts
<1>2. ~job.on /\ UNCHANGED <<gosrc, idle, evt, job, exit, lst, inFlight, listsrc, grants, ctl>>
  BY DEF FinishTimeout, netVars
<1>3. FlowPart' /\ rx' \in [Flows -> FlowState]
  BY <1>1, FinishTimeoutFlow
<1>4. \A g \in Flows : Open(g)' => Open(g)
  BY <1>1 DEF FinishTimeout, Open, TypeOK, GoneFlow, NewFlow
<1>5. TypeOK'
  BY <1>1, <1>2, <1>3 DEF TypeOK
<1>6. GrantPart'
  BY <1>1, <1>2, <1>4 DEF GrantPart, GrantAtWork, JobConsistent, TokensUnderGrant, NeverSilent,
     NoExit, GrantHeld
<1>7. ClaimStep
  BY <1>1, <1>2, ClaimsKept DEF GrantHeld
<1> QED
  BY <1>3, <1>5, <1>6, <1>7, PartsStep

LEMMA ReceiveDataStep ==
  ASSUME IInv, NEW d \in inFlight, ReceiveData(d)
  PROVE  StepOK
<1>1. TypeOK /\ FlowPart /\ GrantPart /\ ExclusiveClaims
  BY IInvParts
<1>2. /\ ~job.on /\ inFlight' \subseteq inFlight
      /\ UNCHANGED <<gosrc, idle, evt, job, exit, lst, listsrc, grants, ctl>>
  BY DEF ReceiveData
<1>3. FlowPart' /\ rx' \in [Flows -> FlowState]
  BY <1>1, ReceiveDataFlow
<1>4. \A g \in Flows : Open(g)' => Open(g)
  BY <1>1 DEF ReceiveData, Open, TypeOK
<1>5. TypeOK'
  BY <1>1, <1>2, <1>3 DEF TypeOK
<1>6. GrantPart'
  BY <1>1, <1>2, <1>4 DEF GrantPart, GrantAtWork, JobConsistent, TokensUnderGrant, NeverSilent,
     NoExit, GrantHeld
<1>7. ClaimStep
  BY <1>1, <1>2, ClaimsKept DEF GrantHeld
<1> QED
  BY <1>3, <1>5, <1>6, <1>7, PartsStep

(* The receiver gets a grant: it holds it, or gives it back at once. *)
LEMMA ReceiveGosrcStep ==
  ASSUME IInv, NEW g \in grants, ReceiveGosrc(g)
  PROVE  StepOK
<1>1. TypeOK /\ FlowPart /\ GrantPart /\ ExclusiveClaims
  BY IInvParts
<1>2. /\ ~job.on /\ grants' = grants \ {g}
      /\ RefuseGrant(g) \/ TakeGrant(g)
      /\ UNCHANGED <<rx, job, exit, inFlight, listsrc, ctl>>
  BY DEF ReceiveGosrc
<1>3. g.src \in Nat /\ g.src # NoNrts /\ g.tokens \in Nat \ {0}
  <2>1. g.src \in Srcs /\ g.tokens \in GrantTokens
    BY <1>1 DEF TypeOK
  <2> QED
    <3>1. g.src \in Nat /\ g.tokens \in Nat \ {0}
      BY <2>1, SrcAssumption, GrantAssumption DEF Srcs
    <3> QED
      BY <3>1 DEF NoNrts
<1>4. FlowPart'
  BY <1>1, <1>2, FlowsUntouched
<1>5. UNCHANGED rx /\ \A f \in Flows : Open(f)' <=> Open(f)
  BY <1>2 DEF Open
<1>6. CASE RefuseGrant(g)
  <2>1. /\ gosrc' = ResetGosrc(gosrc) /\ evt' = FALSE
        /\ lst' = [st |-> "pending", nrts |-> g.src]
        /\ idle' \in {"armed", "stopped", "misread"}
    BY <1>6, IdleReset DEF RefuseGrant, GiveBack, InvokeNrts
  <2>2. /\ gosrc' \in GosrcState
        /\ ~gosrc'.has /\ gosrc'.sendNrts = gosrc.sendNrts /\ gosrc'.cur = NoFlow
    <3>1. gosrc \in GosrcState
      BY <1>1 DEF TypeOK, GosrcState
    <3> QED
      BY <2>1, <3>1, GosrcReset
  <2>3. TypeOK'
    BY <1>1, <1>2, <1>3, <2>1, <2>2 DEF TypeOK, GosrcState
  <2>4. GrantPart'
    BY <1>1, <1>2, <2>1, <2>2 DEF GrantPart, GrantAtWork, JobConsistent, TokensUnderGrant,
       NeverSilent, NoExit, GrantHeld
  <2>5. ClaimStep
    BY <1>1, <1>2, <1>3, <2>1, <2>2, GrantArrives DEF GrantHeld
  <2> QED
    BY <1>4, <2>3, <2>4, <2>5, PartsStep
<1>7. CASE TakeGrant(g)
  <2>1. PICK f \in Unfinished(g.src, rx) :
          gosrc' = [has |-> TRUE, sendNrts |-> FALSE, src |-> g.src,
                    remain |-> g.tokens, cur |-> f]
    BY <1>7 DEF TakeGrant
  <2>2. f \in Flows /\ Src[f] = g.src /\ idle' = "none" /\ evt' = TRUE /\ lst' = lst
    BY <1>7 DEF Unfinished, TakeGrant
  <2>3. TypeOK'
    BY <1>1, <1>2, <1>3, <2>1, <2>2 DEF TypeOK
  <2>4. GrantPart'
    BY <1>1, <1>2, <1>3, <2>1, <2>2 DEF GrantPart, GrantAtWork, JobConsistent, TokensUnderGrant,
       NeverSilent, NoExit, GrantHeld
  <2>5. ClaimStep
    BY <1>1, <1>2, <2>1, <2>2, GrantArrives DEF GrantHeld
  <2> QED
    BY <1>4, <2>3, <2>4, <2>5, PartsStep
<1> QED
  BY <1>2, <1>6, <1>7

LEMMA IdleTimeoutStep ==
  ASSUME IInv, IdleTimeout
  PROVE  StepOK
<1>1. TypeOK /\ FlowPart /\ GrantPart /\ ExclusiveClaims
  BY IInvParts
<1>2. /\ ~job.on /\ idle = "armed" /\ idle' \in {"stopped", "armed"}
      /\ exit' = (exit \/ (gosrc.has /\ ~gosrc.sendNrts))
      /\ lst' \in {lst, [st |-> "pending", nrts |-> NoNrts]}
      /\ UNCHANGED <<rx, gosrc, evt, job, inFlight, listsrc, grants, ctl>>
  BY DEF IdleTimeout, InvokeListsrc, netVars
<1>3. FlowPart'
  BY <1>1, <1>2, FlowsUntouched
<1>4. ~exit /\ ~(gosrc.has /\ ~gosrc.sendNrts) /\ exit' = FALSE
  BY <1>1, <1>2 DEF GrantPart, GrantAtWork, NoExit, GrantHeld
<1>5. TypeOK'
  BY <1>1, <1>2, <1>4 DEF TypeOK
<1>6. GrantPart'
  BY <1>1, <1>2, <1>4 DEF GrantPart, GrantAtWork, JobConsistent, TokensUnderGrant, NeverSilent,
     NoExit, GrantHeld
<1>7. ClaimStep
  BY <1>1, <1>2, ClaimsKept DEF GrantHeld
<1> QED
  BY <1>3, <1>5, <1>6, <1>7, PartsStep

(* send_token_evt_handler without a flow to serve gives the grant back... *)
LEMMA EvtNoFlowStep ==
  ASSUME TypeOK, FlowPart, GrantPart, ExclusiveClaims, ~job.on, evt, evt' = FALSE,
         EvtNoFlow, UNCHANGED job, UNCHANGED <<rx, netVars>>
  PROVE  StepOK
<1> DEFINE back == GivenBack(gosrc)
<1>1. /\ ~gosrc.sendNrts
      /\ gosrc' = ResetGosrc(back)
      /\ lst' = [st |-> "pending", nrts |-> gosrc'.src]
      /\ idle' \in {"armed", "stopped", "misread"}
      /\ exit' = (exit \/ ~gosrc.has \/ HasIdleParams)
  BY IdleReset DEF EvtNoFlow, GiveBack, InvokeNrts
<1>2. gosrc \in GosrcState /\ evt' = FALSE
  BY DEF TypeOK, GosrcState, EvtNoFlow
<1>3. back \in GosrcState /\ back.sendNrts
  BY <1>2, GosrcGivenBack
<1> HIDE DEF back
<1>4. /\ gosrc' \in GosrcState /\ ~gosrc'.has /\ gosrc'.sendNrts
      /\ gosrc'.cur = NoFlow /\ gosrc'.src = 0
  BY <1>1, <1>3, GosrcReset
<1>5. gosrc.has /\ idle = "none" /\ ~exit
  BY <1>1 DEF GrantPart, GrantAtWork, NoExit, GrantHeld
<1>6. exit' = FALSE
  BY <1>1, <1>5 DEF HasIdleParams
<1>7. FlowPart'
  BY FlowsUntouched DEF netVars
<1>8. TypeOK'
  BY <1>1, <1>2, <1>4, <1>6 DEF TypeOK, GosrcState, netVars
<1>9. GrantPart'
  BY <1>1, <1>2, <1>4, <1>6 DEF GrantPart, GrantAtWork, JobConsistent, TokensUnderGrant,
     NeverSilent, NoExit, GrantHeld
<1>10. ClaimStep
  BY <1>1, <1>4, <1>5, HeldIsReturned DEF GrantHeld, NoNrts, netVars
<1> QED
  BY <1>7, <1>8, <1>9, <1>10, PartsStep

(* ...or has done so already... *)
LEMMA EvtNothingLeftStep ==
  ASSUME TypeOK, FlowPart, GrantPart, ExclusiveClaims, ~job.on, evt, evt' = FALSE,
         EvtNothingLeft, UNCHANGED job, UNCHANGED <<rx, netVars>>
  PROVE  StepOK
<1>1. /\ gosrc.sendNrts /\ exit' = (exit \/ ~gosrc.has)
      /\ UNCHANGED <<gosrc, lst, idle>>
  BY DEF EvtNothingLeft
<1>2. gosrc.has /\ ~exit /\ exit' = FALSE
  BY <1>1 DEF GrantPart, GrantAtWork, NoExit
<1>3. FlowPart'
  BY FlowsUntouched DEF netVars
<1>4. TypeOK'
  BY <1>1, <1>2 DEF TypeOK, netVars
<1>5. GrantPart'
  BY <1>1, <1>2 DEF GrantPart, GrantAtWork, JobConsistent, TokensUnderGrant, NeverSilent,
     NoExit, GrantHeld, TypeOK
<1>6. ClaimStep
  BY <1>1, ClaimsKept DEF GrantHeld, netVars
<1> QED
  BY <1>3, <1>4, <1>5, <1>6, PartsStep

(* ...and with one enters its loop. *)
LEMMA EvtLoopStep ==
  ASSUME TypeOK, FlowPart, GrantPart, ExclusiveClaims, ~job.on, evt, evt' = FALSE,
         NEW f \in StartFlows, f # NoFlow,
         job' = [on |-> TRUE, flow |-> f, rdSet |-> FALSE,
                 left |-> Min({BatchTokens, gosrc.remain})],
         exit' = (exit \/ ~gosrc.has),
         UNCHANGED <<gosrc, lst, idle>>, UNCHANGED <<rx, netVars>>
  PROVE  StepOK
<1> DEFINE left == Min({BatchTokens, gosrc.remain})
<1>1. gosrc.has /\ gosrc.remain \in Nat /\ ~exit /\ exit' = FALSE
  BY DEF GrantPart, GrantAtWork, NoExit, TypeOK
<1>2. left \in Nat /\ left <= gosrc.remain
  <2>1. {BatchTokens, gosrc.remain} \in SUBSET Nat
    BY <1>1, BatchAssumption
  <2>2. left \in {BatchTokens, gosrc.remain} /\ \A y \in {BatchTokens, gosrc.remain} : left <= y
    BY <2>1, MinOfNaturals
  <2> QED
    BY <2>1, <2>2
<1>3. f \in Flows /\ Open(f) /\ ~rx[f].rdCtrl /\ Src[f] = gosrc.src
  <2>1. CASE Usable(gosrc.cur)
    BY <2>1 DEF StartFlows, Usable, GrantPart, GrantAtWork, TypeOK
  <2>2. CASE ~Usable(gosrc.cur)
    BY <2>2 DEF StartFlows, Picks, Unfinished, Open
  <2> QED
    BY <2>1, <2>2
<1> HIDE DEF left
<1>4. job' = [on |-> TRUE, flow |-> f, rdSet |-> FALSE, left |-> left]
  BY DEF left
<1>5. FlowPart'
  BY FlowsUntouched DEF netVars
<1>6. TypeOK'
  <2>1. job' \in [on : BOOLEAN, flow : Flows \cup {NoFlow}, left : Nat, rdSet : BOOLEAN]
    BY <1>2, <1>3, <1>4
  <2> QED
    BY <1>1, <2>1 DEF TypeOK, netVars
<1>7. GrantPart'
  BY <1>1, <1>2, <1>3, <1>4 DEF GrantPart, GrantAtWork, JobConsistent, TokensUnderGrant,
     NeverSilent, NoExit, GrantHeld, Open
<1>8. ClaimStep
  BY ClaimsKept DEF GrantHeld, netVars
<1> QED
  BY <1>5, <1>6, <1>7, <1>8, PartsStep

LEMMA EvtStartStep ==
  ASSUME IInv, EvtStart
  PROVE  StepOK
<1>1. TypeOK /\ FlowPart /\ GrantPart /\ ExclusiveClaims
  BY IInvParts
<1>2. ~job.on /\ evt /\ evt' = FALSE /\ UNCHANGED <<rx, netVars>>
  BY DEF EvtStart
<1>3. PICK f \in StartFlows :
        \/ /\ f = NoFlow
           /\ EvtNoFlow \/ EvtNothingLeft
           /\ UNCHANGED job
        \/ /\ f # NoFlow
           /\ job' = [on |-> TRUE, flow |-> f, rdSet |-> FALSE,
                      left |-> Min({BatchTokens, gosrc.remain})]
           /\ exit' = (exit \/ ~gosrc.has)
           /\ UNCHANGED <<gosrc, lst, idle>>
  BY DEF EvtStart
<1>4. CASE EvtNoFlow /\ UNCHANGED job
  BY <1>1, <1>2, <1>4, EvtNoFlowStep
<1>5. CASE EvtNothingLeft /\ UNCHANGED job
  BY <1>1, <1>2, <1>5, EvtNothingLeftStep
<1>6. CASE f # NoFlow
  BY <1>1, <1>2, <1>3, <1>6, EvtLoopStep
<1> QED
  BY <1>3, <1>4, <1>5, <1>6

LEMMA EvtTokenStep ==
  ASSUME IInv, EvtToken
  PROVE  StepOK
<1> DEFINE f == job.flow
           i == NextTokenSeq(f, rx[f])
           wraps == i >= NextTokenSeq(f, WithToken(rx[f], i))
<1>1. TypeOK /\ FlowPart /\ GrantPart /\ ExclusiveClaims
  BY IInvParts
<1>2. f \in Flows /\ f # NoFlow /\ Open(f) /\ ~rx[f].rdCtrl /\ job.on /\ job.left > 0
  BY <1>1 DEF EvtToken, GrantPart, JobConsistent, TypeOK
<1>3. /\ rx' \in [Flows -> FlowState]
      /\ inFlight' \subseteq [flow : Flows, seq : Nat, tok : Nat]
      /\ \A g \in Flows : rx'[g].st = rx[g].st
      /\ rx'[f].rdCtrl <=> wraps
      /\ FlowPart'
  BY <1>1, EvtTokenFlow DEF GrantPart
<1>4. HasNextToken(f, rx[f])
  BY <1>1, <1>2, TokenOfFlow
<1>5. /\ exit' = (exit \/ ~HasNextToken(f, rx[f]) \/ (wraps /\ rx[f].rdCtrl))
      /\ \/ /\ wraps
            /\ \E g \in Picks(gosrc.src, rx') :
                 /\ job' = [on |-> TRUE, flow |-> g, left |-> job.left - 1, rdSet |-> TRUE]
                 /\ gosrc' = [gosrc EXCEPT !.remain = @ - 1, !.cur = g]
         \/ /\ ~wraps
            /\ job' = [job EXCEPT !.left = @ - 1]
            /\ gosrc' = [gosrc EXCEPT !.remain = @ - 1]
      /\ UNCHANGED <<idle, evt, lst, listsrc, grants, ctl>>
  BY DEF EvtToken
<1> HIDE DEF wraps, i
<1>6. exit' = FALSE
  BY <1>1, <1>2, <1>4, <1>5 DEF GrantPart, NoExit
<1>7. /\ gosrc \in GosrcState /\ gosrc.has /\ job.left \in Nat /\ job.left <= gosrc.remain
      /\ Src[f] = gosrc.src
  <2>1. gosrc \in GosrcState /\ job.left \in Nat
    BY <1>1 DEF TypeOK, GosrcState
  <2> QED
    BY <1>1, <1>2, <2>1 DEF GrantPart, TokensUnderGrant
<1> DEFINE left == job.left - 1
           remain == gosrc.remain - 1
<1>8. left \in Nat /\ left <= remain /\ remain \in Int
  BY <1>2, <1>7 DEF GosrcState
<1>9. PICK g \in Flows \cup {NoFlow} :
        /\ job'.on /\ job'.flow = g /\ job'.left = left
        /\ job' \in [on : BOOLEAN, flow : Flows \cup {NoFlow}, left : Nat, rdSet : BOOLEAN]
        /\ gosrc' \in GosrcState /\ gosrc'.has = gosrc.has /\ gosrc'.sendNrts = gosrc.sendNrts
        /\ gosrc'.src = gosrc.src /\ gosrc'.remain = remain
        /\ gosrc'.cur \in {gosrc.cur, g}
        /\ g # NoFlow => rx'[g].st = "open" /\ ~rx'[g].rdCtrl /\ Src[g] = gosrc.src
        /\ g = NoFlow => job'.rdSet
  <2>1. CASE wraps
    <3>1. PICK g \in Picks(gosrc.src, rx') :
            /\ job' = [on |-> TRUE, flow |-> g, left |-> left, rdSet |-> TRUE]
            /\ gosrc' = [gosrc EXCEPT !.remain = remain, !.cur = g]
      BY <1>5, <2>1
    <3>2. /\ g \in Flows \cup {NoFlow}
          /\ g # NoFlow => rx'[g].st = "open" /\ ~rx'[g].rdCtrl /\ Src[g] = gosrc.src
      BY DEF Picks, Unfinished, Open
    <3> HIDE DEF left, remain
    <3>3. job' \in [on : BOOLEAN, flow : Flows \cup {NoFlow}, left : Nat, rdSet : BOOLEAN]
      BY <1>8, <3>1, <3>2
    <3>4. /\ gosrc' \in GosrcState /\ gosrc'.has = gosrc.has /\ gosrc'.sendNrts = gosrc.sendNrts
          /\ gosrc'.src = gosrc.src /\ gosrc'.remain = remain /\ gosrc'.cur = g
      BY <1>7, <1>8, <3>1, <3>2 DEF GosrcState
    <3> QED
      BY <3>1, <3>2, <3>3, <3>4
  <2>2. CASE ~wraps
    <3>1. job' = [job EXCEPT !.left = left] /\ gosrc' = [gosrc EXCEPT !.remain = remain]
      BY <1>5, <2>2
    <3>2. rx'[f].st = "open" /\ ~rx'[f].rdCtrl /\ f # NoFlow
      BY <1>2, <1>3, <2>2 DEF Open
    <3> HIDE DEF left, remain
    <3>3. /\ job' \in [on : BOOLEAN, flow : Flows \cup {NoFlow}, left : Nat, rdSet : BOOLEAN]
          /\ job'.on /\ job'.flow = f /\ job'.left = left
      BY <1>1, <1>2, <1>8, <3>1 DEF TypeOK
    <3>4. /\ gosrc' \in GosrcState /\ gosrc'.has = gosrc.has /\ gosrc'.sendNrts = gosrc.sendNrts
          /\ gosrc'.src = gosrc.src /\ gosrc'.remain = remain /\ gosrc'.cur = gosrc.cur
      BY <1>7, <1>8, <3>1 DEF GosrcState
    <3> QED
      BY <1>2, <1>7, <3>2, <3>3, <3>4
  <2> QED
    BY <2>1, <2>2
<1> HIDE DEF left, remain
<1>10. TypeOK'
  BY <1>1, <1>3, <1>5, <1>6, <1>9 DEF TypeOK, GosrcState
<1>11. GrantPart'
  <2>1. GrantAtWork'
    <3>1. ~evt'
      BY <1>1, <1>2, <1>5 DEF GrantPart, GrantAtWork
    <3> QED
      BY <1>1, <1>5, <1>9, <3>1 DEF GrantPart, GrantAtWork, GrantHeld
  <2>2. JobConsistent' /\ TokensUnderGrant' /\ NeverSilent' /\ NoExit'
    BY <1>6, <1>7, <1>8, <1>9 DEF JobConsistent, TokensUnderGrant, NeverSilent, NoExit, Open
  <2> QED
    BY <2>1, <2>2 DEF GrantPart
<1>12. ClaimStep
  BY <1>1, <1>5, <1>9, ClaimsKept DEF GrantHeld
<1> QED
  BY <1>3, <1>10, <1>11, <1>12, PartsStep

(* The end of the loop: before the last token of a grant is used the grant
   has been given back, as a gap of nothing is no longer than NrtsGap. *)
LEMMA EvtEndStep ==
  ASSUME IInv, EvtEnd
  PROVE  StepOK
<1> DEFINE g == IF NrtsDue THEN GivenBack(gosrc) ELSE gosrc
<1>1. TypeOK /\ FlowPart /\ GrantPart /\ ExclusiveClaims
  BY IInvParts
<1>2. /\ job.on
      /\ job.left = 0 \/ job.flow = NoFlow
      /\ job' = NoJob
      /\ \/ NrtsDue /\ GiveBack(gosrc.src)
         \/ ~NrtsDue /\ UNCHANGED <<lst, idle>>
      /\ exit' = (exit \/ (NrtsDue /\ HasIdleParams)
                       \/ (~gosrc.sendNrts /\ job.flow = NoFlow /\ ~job.rdSet)
                       \/ (~gosrc.sendNrts /\ job.flow # NoFlow /\ TokenGap(job.flow) < -1)
                       \/ (g.remain = 0 /\ ~g.sendNrts))
      /\ gosrc' = IF g.remain = 0 THEN ResetGosrc(g) ELSE g
      /\ evt' = (g.remain # 0)
      /\ UNCHANGED <<rx, inFlight, listsrc, grants, ctl>>
  BY DEF EvtEnd, netVars
<1>3. /\ gosrc \in GosrcState /\ gosrc.has /\ gosrc.remain \in Nat /\ gosrc.src \in Nat
      /\ ~exit /\ ~evt
  <2>1. gosrc \in GosrcState /\ job.left \in Nat /\ gosrc.remain \in Int /\ gosrc.src \in Nat
    BY <1>1 DEF TypeOK, GosrcState
  <2> QED
    BY <1>1, <1>2, <2>1 DEF GrantPart, GrantAtWork, TokensUnderGrant, NoExit
<1>4. /\ g \in GosrcState /\ g.has /\ g.remain = gosrc.remain /\ g.src = gosrc.src
      /\ g.cur = gosrc.cur
      /\ g.sendNrts <=> (gosrc.sendNrts \/ NrtsDue)
  <2>1. CASE NrtsDue
    BY <1>3, <2>1, GosrcGivenBack
  <2>2. CASE ~NrtsDue
    BY <1>3, <2>2
  <2> QED
    BY <2>1, <2>2
<1> HIDE DEF g
<1>5. gosrc.remain = 0 => g.sendNrts
  <2> SUFFICES ASSUME gosrc.remain = 0, ~gosrc.sendNrts PROVE NrtsDue
    BY <1>4
  <2> DEFINE need == RemainingPkts(job.flow) - TokenGap(job.flow)
  <2>1. Gap = IF job.flow # NoFlow /\ 0 > need THEN need ELSE 0
    BY DEF Gap
  <2>2. NrtsGap \in Nat
    BY GapAssumption
  <2>3. CASE job.flow # NoFlow /\ job.flow \in Flows
    BY <2>1, <2>2 DEF NrtsDue
  <2>4. CASE job.flow = NoFlow
    BY <1>1, <1>2, <2>4 DEF NrtsDue, GrantPart, JobConsistent
  <2> QED
    BY <1>1, <2>3, <2>4 DEF TypeOK
<1>6. NrtsDue => idle = "none" /\ ~gosrc.sendNrts
  BY <1>1, <1>3 DEF NrtsDue, GrantPart, GrantAtWork, GrantHeld
<1>7. ~(TokenGap(job.flow) < -1) \/ job.flow = NoFlow
  <2> SUFFICES ASSUME job.flow # NoFlow PROVE ~(TokenGap(job.flow) < -1)
    OBVIOUS
  <2>1. job.flow \in Flows
    BY <1>1 DEF TypeOK
  <2>2. /\ rx[job.flow].tokens \in Nat /\ rx[job.flow].largest \in Int
        /\ rx[job.flow].largest < rx[job.flow].tokens
    BY <1>1, <2>1, FlowTypes DEF FlowPart, TokenSeqsIssuedOnce, FlowState
  <2> QED
    BY <2>2 DEF TokenGap
<1>8. exit' = FALSE
  <2>1. job.flow = NoFlow => job.rdSet
    BY <1>1, <1>2 DEF GrantPart, JobConsistent
  <2> QED
    BY <1>2, <1>3, <1>4, <1>5, <1>6, <1>7, <2>1 DEF HasIdleParams
<1>9. /\ gosrc' \in GosrcState
      /\ gosrc'.sendNrts = g.sendNrts
      /\ gosrc'.has <=> gosrc.remain # 0
      /\ gosrc.remain # 0 => gosrc'.remain > 0 /\ gosrc'.src = gosrc.src
      /\ gosrc'.cur # NoFlow => gosrc'.cur = gosrc.cur /\ gosrc'.src = gosrc.src
  BY <1>2, <1>3, <1>4, GosrcReset
<1>10. /\ evt' = (gosrc.remain # 0) /\ ~job'.on
       /\ job' \in [on : BOOLEAN, flow : Flows \cup {NoFlow}, left : Nat, rdSet : BOOLEAN]
  BY <1>2, <1>4 DEF NoJob
<1>11. \/ /\ NrtsDue /\ idle' \in {"armed", "stopped", "misread"}
          /\ lst' = [st |-> "pending", nrts |-> gosrc.src]
       \/ ~NrtsDue /\ UNCHANGED <<lst, idle>>
  BY <1>2, IdleReset DEF GiveBack, InvokeNrts
<1>12. FlowPart'
  BY <1>1, <1>2, FlowsUntouched
<1>13. TypeOK'
  BY <1>1, <1>2, <1>3, <1>8, <1>9, <1>10, <1>11 DEF TypeOK, GosrcState
<1>14. GrantPart'
  <2>1. GrantAtWork'
    BY <1>1, <1>3, <1>4, <1>5, <1>6, <1>9, <1>10, <1>11 DEF GrantPart, GrantAtWork, GrantHeld
  <2>2. NeverSilent'
    <3>1. g.sendNrts => idle' \in {"armed", "stopped", "misread"}
      BY <1>1, <1>4, <1>11 DEF GrantPart, GrantAtWork, TypeOK
    <3> QED
      BY <1>5, <1>10, <3>1 DEF NeverSilent
  <2> QED
    BY <1>8, <1>10, <2>1, <2>2 DEF GrantPart, JobConsistent, TokensUnderGrant, NoExit
<1>15. ClaimStep
  <2>1. CASE NrtsDue
    <3>1. GrantHeld /\ ~GrantHeld' /\ lst'.nrts # NoNrts
      BY <1>3, <1>4, <1>6, <1>9, <1>11, <2>1 DEF GrantHeld, NoNrts
    <3> QED
      BY <1>1, <1>2, <3>1, HeldIsReturned
  <2>2. CASE ~NrtsDue
    <3>1. GrantHeld' <=> GrantHeld
      BY <1>3, <1>4, <1>5, <1>9, <2>2 DEF GrantHeld
    <3> QED
      BY <1>1, <1>2, <1>11, <2>2, <3>1, ClaimsKept
  <2> QED
    BY <2>1, <2>2
<1> QED
  BY <1>12, <1>13, <1>14, <1>15, PartsStep

(* What lcore 5, the network and the controller do leaves lcore 1 alone. *)
LEMMA Lcore1Untouched ==
  ASSUME FlowPart, GrantPart, UNCHANGED lcore1Vars, inFlight' \subseteq inFlight
  PROVE  FlowPart' /\ GrantPart'
<1>1. FlowPart'
  BY FlowsUntouched DEF lcore1Vars
<1>2. GrantPart'
  BY DEF GrantPart, GrantAtWork, JobConsistent, TokensUnderGrant, NeverSilent, NoExit,
     GrantHeld, Open, lcore1Vars
<1> QED
  BY <1>1, <1>2

LEMMA SendListsrcStep ==
  ASSUME IInv, SendListsrcStart \/ SendListsrcEnd
  PROVE  StepOK
<1>1. TypeOK /\ FlowPart /\ GrantPart /\ ExclusiveClaims
  BY IInvParts
<1>2. UNCHANGED <<lcore1Vars, inFlight>>
  BY DEF SendListsrcStart, SendListsrcEnd, netVars
<1>3. FlowPart' /\ GrantPart'
  BY <1>1, <1>2, Lcore1Untouched
<1>4. CASE SendListsrcStart
  <2>1. /\ UNCHANGED <<grants, listsrc, ctl, gosrc>> /\ lst'.nrts = lst.nrts
        /\ lst' \in [st : {"stop", "pending", "running"}, nrts : Nat \cup {NoNrts}]
    BY <1>1, <1>4 DEF SendListsrcStart, lcore1Vars, netVars, TypeOK
  <2>2. TypeOK'
    BY <1>1, <1>2, <2>1 DEF TypeOK, lcore1Vars
  <2>3. ClaimStep
    BY <1>1, <2>1, ClaimsKept DEF GrantHeld
  <2> QED
    BY <1>3, <2>2, <2>3, PartsStep
<1>5. CASE SendListsrcEnd
  <2> DEFINE srcs == {Src[f] : f \in {g \in Flows : Open(g) /\ ~rx[g].rdCtrl}}
             m == [nrts |-> lst.nrts, srcs |-> srcs]
  <2>1. /\ listsrc' \subseteq listsrc \cup {m}
        /\ lst' = [st |-> "stop", nrts |-> NoNrts]
        /\ UNCHANGED <<grants, ctl>>
    BY <1>5 DEF SendListsrcEnd
  <2>2. m \in [nrts : Nat \cup {NoNrts}, srcs : SUBSET Srcs]
    BY <1>1 DEF TypeOK, Srcs
  <2> HIDE DEF m
  <2>3. TypeOK'
    BY <1>1, <1>2, <2>1, <2>2 DEF TypeOK, lcore1Vars
  <2> QED
    BY <1>1, <1>3, <1>5, <2>3, SendListsrcEndClaims, PartsStep
<1> QED
  BY <1>4, <1>5

LEMMA CtlStep ==
  ASSUME IInv, (\E m \in listsrc : CtlReceive(m)) \/ CtlHandle \/ LoseControl
  PROVE  StepOK
<1>1. TypeOK /\ FlowPart /\ GrantPart /\ ExclusiveClaims
  BY IInvParts
<1>2. UNCHANGED <<lcore1Vars, lst, inFlight>>
  BY DEF CtlReceive, CtlHandle, LoseControl
<1>3. FlowPart' /\ GrantPart'
  BY <1>1, <1>2, Lcore1Untouched
<1>4. TypeOK'
  <2>1. /\ listsrc' \subseteq listsrc
        /\ grants' \subseteq [src : Srcs, tokens : GrantTokens]
        /\ ctl' \in [busy : BOOLEAN, asked : SUBSET Srcs]
    <3>1. ASSUME NEW m \in listsrc, CtlReceive(m)
          PROVE  listsrc' \subseteq listsrc /\ grants' = grants
                 /\ ctl' \in [busy : BOOLEAN, asked : SUBSET Srcs]
      <4>1. m.srcs \subseteq Srcs /\ ctl.asked \subseteq Srcs
        BY <1>1 DEF TypeOK
      <4>2. (ctl.busy /\ m.nrts = NoNrts) \in BOOLEAN
        OBVIOUS
      <4> QED
        BY <3>1, <4>1, <4>2 DEF CtlReceive
    <3>2. CASE CtlHandle
      <4>1. ctl.asked \subseteq Srcs /\ ctl.busy \in BOOLEAN
        BY <1>1 DEF TypeOK
      <4>2. CASE ctl' = [ctl EXCEPT !.asked = {}] /\ UNCHANGED grants
        BY <1>1, <3>2, <4>2 DEF TypeOK, CtlHandle
      <4>3. ASSUME NEW s \in ctl.asked, NEW n \in GrantTokens,
                   grants' = grants \cup {[src |-> s, tokens |-> n]},
                   ctl' = [busy |-> TRUE, asked |-> {}]
            PROVE  /\ grants' \subseteq [src : Srcs, tokens : GrantTokens]
                   /\ ctl' \in [busy : BOOLEAN, asked : SUBSET Srcs]
        BY <1>1, <4>1, <4>3 DEF TypeOK
      <4>4. listsrc' = listsrc
        BY <3>2 DEF CtlHandle
      <4> QED
        BY <1>1, <3>2, <4>2, <4>3, <4>4 DEF CtlHandle, TypeOK
    <3>3. CASE LoseControl
      BY <1>1, <3>3 DEF LoseControl, TypeOK
    <3> QED
      BY <1>1, <3>1, <3>2, <3>3 DEF TypeOK
  <2> QED
    BY <1>1, <1>2, <2>1 DEF TypeOK, lcore1Vars
<1>5. ClaimStep
  BY <1>1, CtlReceiveClaims, CtlHandleClaims, LoseControlClaims
<1> QED
  BY <1>3, <1>4, <1>5, PartsStep

LEMMA QuietStep ==
  ASSUME IInv, (\E d \in inFlight : LoseData(d)) \/ UNCHANGED vars
  PROVE  StepOK
<1>1. TypeOK /\ FlowPart /\ GrantPart /\ ExclusiveClaims
  BY IInvParts
<1>2. inFlight' \subseteq inFlight /\ UNCHANGED <<lcore1Vars, lst, listsrc, grants, ctl>>
  BY DEF LoseData, vars, netVars
<1>3. FlowPart' /\ GrantPart'
  BY <1>1, <1>2, Lcore1Untouched
<1>4. TypeOK'
  BY <1>1, <1>2 DEF TypeOK, lcore1Vars
<1>5. ClaimStep
  BY <1>1, <1>2, ClaimsKept DEF GrantHeld, lcore1Vars
<1> QED
  BY <1>3, <1>4, <1>5, PartsStep

LEMMA NextStep == IInv /\ [Next]_vars => StepOK
<1> SUFFICES ASSUME IInv, [Next]_vars PROVE StepOK
  OBVIOUS
<1>1. ASSUME NEW f \in Flows, ReceiveRts(f) \/ RdCtrlTimeout(f) \/ FinishTimeout(f)
      PROVE  StepOK
  BY <1>1, ReceiveRtsStep, RdCtrlTimeoutStep, FinishTimeoutStep
<1>2. CASE \E g \in grants : ReceiveGosrc(g)
  BY <1>2, ReceiveGosrcStep
<1>3. ASSUME NEW d \in inFlight, ReceiveData(d) \/ LoseData(d) PROVE StepOK
  BY <1>3, ReceiveDataStep, QuietStep
<1>4. CASE IdleTimeout
  BY <1>4, IdleTimeoutStep
<1>5. CASE EvtStart
  BY <1>5, EvtStartStep
<1>6. CASE EvtToken
  BY <1>6, EvtTokenStep
<1>7. CASE EvtEnd
  BY <1>7, EvtEndStep
<1>8. CASE SendListsrcStart \/ SendListsrcEnd
  BY <1>8, SendListsrcStep
<1>9. CASE (\E m \in listsrc : CtlReceive(m)) \/ CtlHandle \/ LoseControl
  BY <1>9, CtlStep
<1>10. CASE UNCHANGED vars
  BY <1>10, QuietStep
<1> QED
  BY <1>1, <1>2, <1>3, <1>4, <1>5, <1>6, <1>7, <1>8, <1>9, <1>10 DEF Next

-----------------------------------------------------------------------------
(* The theorems *)

(* The inductive invariant holds in every reachable state. *)
THEOREM IInvInvariant == Spec => []IInv
<1>1. IInv /\ [Next]_vars => IInv'
  BY NextStep DEF StepOK
<1> QED
  BY <1>1, InitIInv, PTL DEF Spec

(* Every reachable state is well typed: no address, token count or remainder
   of a grant is used before it is set. *)
THEOREM TypeCorrect == Spec => []TypeOK
<1>1. IInv => TypeOK
  BY DEF IInv
<1> QED
  BY <1>1, IInvInvariant, PTL

(* No consistency check of the handlers of long flows (the rte_exit calls of
   rtp_host.c and rtp_flow.c) can fail, for any flows and grants and whatever
   the network loses. *)
THEOREM ChecksNeverFail == Spec => []NoExit
<1>1. IInv => NoExit
  BY DEF IInv
<1> QED
  BY <1>1, IInvInvariant, PTL

(* Only flows of the source the grant is for get tokens, and no more than
   send_token_evt_handler has left of it. *)
THEOREM TokensOnlyUnderGrant == Spec => []TokensUnderGrant
<1>1. IInv => TokensUnderGrant
  BY DEF IInv
<1> QED
  BY <1>1, IInvInvariant, PTL

(* seq_num tells the tokens of a flow apart, and the receiver believes no
   token used that it has not sent. *)
THEOREM SeqsIssuedOnce == Spec => []TokenSeqsIssuedOnce
<1>1. IInv => TokenSeqsIssuedOnce
  BY DEF IInv
<1> QED
  BY <1>1, IInvInvariant, PTL

(* A flow under redundancy control has been sent a token for each packet it
   misses since the last time. *)
THEOREM FullRound == Spec => []FullRoundBeforeRdCtrl
<1>1. IInv => FullRoundBeforeRdCtrl
  <2> SUFFICES ASSUME IInv, NEW f \in Flows, rx[f].rdCtrl
               PROVE  Packets(f) \ rx[f].got \subseteq rx[f].asked
    BY DEF FullRoundBeforeRdCtrl
  <2>1. RoundConsistent(f, rx[f])
    BY DEF IInv, FlowsConsistent
  <2> QED
    BY <2>1 DEF RoundConsistent, Asked, Wrapping, Missing
<1> QED
  BY <1>1, IInvInvariant, PTL

(* As long as a flow is incomplete, the idle timer or a grant is at work, or
   rte_ring_count has stopped the timer. *)
THEOREM SilenceIsMisread == Spec => []NeverSilent
<1>1. IInv => NeverSilent
  BY DEF IInv
<1> QED
  BY <1>1, IInvInvariant, PTL

(* The receiver, lcore 5, the network and the controller implement
   GrantLease: there is one grant at a time, whatever is lost. *)
THEOREM ImplementsGrantLease == Spec => OneGrantAtATime
<1>1. Init => GrantLeaseSpec!Init
  <2> SUFFICES ASSUME Init PROVE Lease = "free"
    BY DEF GrantLeaseSpec!Init
  <2>1. ExclusiveClaims
    BY InitIInv DEF IInv
  <2>2. LeaseOfClaims = "free"
    BY DEF Init, LeaseOfClaims, GrantHeld, NrtsWaiting, NrtsSent
  <2> QED
    BY <2>1, <2>2, LeaseIs DEF LeaseMatches
<1>2. IInv /\ [Next]_vars => [GrantLeaseSpec!Next]_Lease
  BY NextStep DEF StepOK, LeaseNext
<1> QED
  BY <1>1, <1>2, IInvInvariant, PTL DEF Spec, OneGrantAtATime, GrantLeaseSpec!Spec

=============================================================================
