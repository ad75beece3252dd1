--------------------------- MODULE TcpFlow_proofs ---------------------------
(***************************************************************************)
(* Proofs of the safety properties of TcpFlow, for every size of the flow  *)
(* and every window.  IInv of that module is inductive; there are lemmas   *)
(* about Min and Max, one for the loop that moves recv_till, one for       *)
(* send_pending_data, and one per action.                                  *)
(***************************************************************************)
EXTENDS TcpFlow, FiniteSetTheorems, WellFoundedInduction, TLAPS

(* The least element of a set of natural numbers. *)
LEMMA MinOfNaturals ==
  ASSUME NEW S \in SUBSET Nat, S # {}
  PROVE  Min(S) \in S /\ \A y \in S : Min(S) <= y
<1> DEFINE Less == {p \in Nat \X Nat : p[1] < p[2]}
<1>1. IsWellFoundedOn(Less, Nat)
  BY NatLessThanWellFounded, Zenon DEF OpToRel
<1>2. PICK x \in S : \A y \in S : <<y, x>> \notin Less
  <2> HIDE DEF Less
  <2> QED
    BY <1>1, WFMin
<1>3. ASSUME NEW y \in S PROVE x <= y
  <2>1. <<y, x>> \notin Less
    BY <1>2
  <2>2. ~(<<y, x>>[1] < <<y, x>>[2])
    BY <2>1
  <2> QED
    BY <2>2
<1> QED
  BY <1>3 DEF Min

(* The smaller and the larger of two numbers. *)
LEMMA MinOfTwo ==
  ASSUME NEW a \in Nat, NEW b \in Nat
  PROVE  Min({a, b}) = IF a <= b THEN a ELSE b
  BY MinOfNaturals

LEMMA MaxOfTwo ==
  ASSUME NEW a \in Nat, NEW b \in Nat
  PROVE  Max({a, b}) = IF a >= b THEN a ELSE b
<1> DEFINE m == IF a >= b THEN a ELSE b
<1>1. m \in {a, b} /\ \A y \in {a, b} : m >= y
  OBVIOUS
<1>2. \A x \in {a, b} : (\A y \in {a, b} : x >= y) => x = m
  OBVIOUS
<1> QED
  BY <1>1, <1>2 DEF Max

(* A set of packets is finite, and has Size members only if it has all. *)
LEMMA PacketSets ==
  ASSUME NEW S \in SUBSET Seqs
  PROVE  /\ IsFiniteSet(S)
         /\ Cardinality(S) \in 0..Size
         /\ Seqs \subseteq S => Cardinality(S) = Size
<1>1. Size \in Nat \ {0}
  BY SizeAssumption
<1>2. IsFiniteSet(Seqs) /\ Cardinality(Seqs) = Size
  <2> DEFINE n == Size - 1
  <2>1. n \in Int /\ 0 <= n /\ n - 0 + 1 = Size
    BY <1>1
  <2>2. IsFiniteSet(0..n) /\ Cardinality(0..n) = IF 0 > n THEN 0 ELSE n - 0 + 1
    <3> HIDE DEF n
    <3> QED
      BY <2>1, FS_Interval
  <2> QED
    BY <2>1, <2>2 DEF Seqs
<1>3. IsFiniteSet(S) /\ Cardinality(S) <= Cardinality(Seqs)
  BY <1>2, FS_Subset
<1>4. Cardinality(S) \in Nat
  BY <1>3, FS_CardinalityType
<1>5. Seqs \subseteq S => S = Seqs
  OBVIOUS
<1> QED
  BY <1>1, <1>2, <1>3, <1>4, <1>5

-----------------------------------------------------------------------------
(* The loop that moves recv_till from one hole to the next: it stops at a
   packet that is missing and passes over none. *)
LEMMA AdvanceFindsHole ==
  ASSUME NEW got \in SUBSET Seqs, NEW till \in 0..Size, NEW last \in Seqs,
         till <= last + 1,
         \A s \in got : s <= last,
         0..till - 1 \subseteq got
  PROVE  /\ Advance(till, got, last) \in till..last + 1
         /\ Advance(till, got, last) \in 0..Size
         /\ Advance(till, got, last) \notin got
         /\ 0..Advance(till, got, last) - 1 \subseteq got
<1> DEFINE holes == {s \in till..last + 1 : s \notin got}
           t == Advance(till, got, last)
<1>1. Size \in Nat \ {0} /\ last \in Nat /\ last + 1 <= Size /\ got \subseteq Nat
  BY SizeAssumption DEF Seqs
<1>2. last + 1 \in holes /\ holes \in SUBSET Nat
  BY <1>1
<1>3. t \in holes /\ \A s \in holes : t <= s
  <2> HIDE DEF holes
  <2> QED
    BY <1>2, MinOfNaturals DEF Advance, holes
<1>4. t \in till..last + 1 /\ t \notin got /\ t \in 0..Size
  <2>1. t \in till..last + 1 /\ t \notin got
    BY <1>3
  <2> HIDE DEF t
  <2> QED
    BY <2>1, <1>1
<1>5. ASSUME NEW s \in 0..t - 1 PROVE s \in got
  <2>1. CASE s < till
    BY <2>1, <1>1
  <2>2. CASE s >= till
    <3>1. s \in till..last + 1 /\ ~(t <= s)
      <4> HIDE DEF t
      <4> QED
        BY <2>2, <1>1, <1>4
    <3> QED
      BY <3>1, <1>3
  <2> QED
    BY <2>1, <2>2, <1>1
<1> QED
  BY <1>4, <1>5

(* send_pending_data sends packets of the flow only, never moves next_seq_no
   back, and sets the timer when it sends any. *)
LEMMA SendPendingDataStep ==
  ASSUME TypeOK, NEW n \in 0..Size, NEW u \in Nat, NEW w \in Nat, NEW t \in BOOLEAN,
         SendPendingData(n, u, w, t)
  PROVE  /\ nextSeq' \in 0..Size
         /\ n <= nextSeq'
         /\ timer' \in BOOLEAN
         /\ data' \subseteq Seqs
         /\ t => timer'
         /\ ~timer' => nextSeq' = n /\ data' = data
<1>1. Size \in Nat \ {0}
  BY SizeAssumption
<1>2. u + w \in Nat
  OBVIOUS
<1>3. WindowEnd(u, w) \in 0..Size
  BY <1>1, <1>2, MinOfTwo DEF WindowEnd
<1>4. CASE recvCount < Size /\ n < WindowEnd(u, w)
  <2>1. nextSeq' = WindowEnd(u, w) /\ timer' = TRUE
        /\ data' = data \cup ((n..WindowEnd(u, w) - 1) \ received)
    BY <1>4 DEF SendPendingData
  <2>2. n..WindowEnd(u, w) - 1 \subseteq Seqs
    BY <1>1, <1>3 DEF Seqs
  <2>3. n <= WindowEnd(u, w)
    BY <1>1, <1>3, <1>4
  <2> QED
    BY <1>3, <2>1, <2>2, <2>3 DEF TypeOK
<1>5. CASE ~(recvCount < Size /\ n < WindowEnd(u, w))
  <2>1. nextSeq' = n /\ timer' = t /\ data' = data
    BY <1>5 DEF SendPendingData
  <2>2. n <= n
    BY <1>1
  <2> QED
    BY <2>1, <2>2 DEF TypeOK
<1> QED
  BY <1>4, <1>5

(* The window stays within its limits. *)
LEMMA GrowCwndStep == TypeOK /\ GrowCwnd => cwnd' \in 1..MaxCwnd
<1> SUFFICES ASSUME TypeOK, GrowCwnd PROVE cwnd' \in 1..MaxCwnd
  OBVIOUS
<1>1. cwnd \in 1..MaxCwnd /\ MaxCwnd \in Nat
  BY CwndAssumption DEF TypeOK
<1>2. Min({cwnd + 1, MaxCwnd}) \in 1..MaxCwnd
  BY <1>1, MinOfTwo
<1> QED
  BY <1>1, <1>2 DEF GrowCwnd

-----------------------------------------------------------------------------
(* One lemma per action *)

LEMMA InitIInv == Init => IInv
<1> SUFFICES ASSUME Init PROVE IInv
  OBVIOUS
<1>1. Size \in Nat \ {0} /\ InitialCwnd \in 1..MaxCwnd
  BY SizeAssumption, CwndAssumption
<1>2. TypeOK
  <2>1. {timer, finished, ackDropped} \subseteq BOOLEAN
    BY DEF Init
  <2>2. /\ {nextSeq, unacked, recvCount, recvTill} \subseteq 0..Size
        /\ cwnd \in 1..MaxCwnd /\ sacked \in Nat /\ maxSeq \in Seqs
        /\ received = {} /\ data = {} /\ acks = {}
    BY <1>1 DEF Init, Seqs
  <2> QED
    BY <2>1, <2>2 DEF TypeOK
<1>3. Cardinality({}) = 0
  BY FS_EmptySet
<1> QED
  BY <1>2, <1>3 DEF Init, IInv, AckedIsReceived, RecvTillIsFirstHole,
     TimerUntilFinished, HoleAboveHighest, TimerWhenSent

LEMMA StartStep == IInv /\ Start => IInv'
<1> SUFFICES ASSUME IInv, Start PROVE IInv'
  OBVIOUS
<1> USE DEF IInv
<1>1. /\ cwnd \in Nat
      /\ 0 \in 0..Size
  BY SizeAssumption, CwndAssumption DEF TypeOK
<1>2. /\ SendPendingData(0, 0, cwnd, FALSE)
      /\ UNCHANGED <<unacked, cwnd, sacked, received, receiverVars, finished, acks, ackDropped>>
      /\ nextSeq = 0 /\ ~timer /\ ~finished
  BY DEF Start
<1>3. /\ nextSeq' \in 0..Size
      /\ timer' \in BOOLEAN
      /\ data' \subseteq Seqs
      /\ ~timer' => nextSeq' = 0 /\ data' = data
  BY <1>2, <1>1, SendPendingDataStep
<1>4. TypeOK'
  BY <1>2, <1>3 DEF TypeOK, receiverVars
<1>5. AckedIsReceived' /\ RecvTillIsFirstHole' /\ HoleAboveHighest'
  BY <1>2 DEF AckedIsReceived, RecvTillIsFirstHole, HoleAboveHighest, receiverVars
<1>6. TimerUntilFinished'
  <2>1. unacked = 0
    BY <1>2 DEF TimerUntilFinished, TypeOK
  <2> QED
    BY <1>2, <1>3, <2>1 DEF TimerUntilFinished
<1>7. TimerWhenSent'
  BY <1>2, <1>3 DEF TimerWhenSent
<1> QED
  BY <1>4, <1>5, <1>6, <1>7

LEMMA TimeoutStep == IInv /\ Timeout => IInv'
<1> SUFFICES ASSUME IInv, Timeout PROVE IInv'
  OBVIOUS
<1> USE DEF IInv
<1>1. /\ unacked \in 0..Size
      /\ unacked \in Nat
      /\ 1 + sacked \in Nat
  BY SizeAssumption DEF TypeOK
<1>2. timer \in BOOLEAN
  BY DEF TypeOK
<1>3. /\ timer
      /\ SendPendingData(unacked, unacked, 1 + sacked, timer)
      /\ cwnd' = 1
      /\ UNCHANGED <<unacked, sacked, received, receiverVars, finished, acks, ackDropped>>
  BY DEF Timeout
<1>4. /\ nextSeq' \in 0..Size
      /\ unacked <= nextSeq'
      /\ timer' \in BOOLEAN /\ timer'
      /\ data' \subseteq Seqs
  BY <1>3, <1>1, <1>2, SendPendingDataStep
<1>5. TypeOK'
  <2>1. cwnd' \in 1..MaxCwnd
    BY <1>3, CwndAssumption
  <2> QED
    BY <1>3, <1>4, <2>1 DEF TypeOK, receiverVars
<1>6. AckedIsReceived' /\ RecvTillIsFirstHole' /\ HoleAboveHighest'
  BY <1>3 DEF AckedIsReceived, RecvTillIsFirstHole, HoleAboveHighest, receiverVars
<1>7. TimerUntilFinished' /\ TimerWhenSent'
  BY <1>3, <1>4 DEF TimerUntilFinished, TimerWhenSent
<1> QED
  BY <1>5, <1>6, <1>7

LEMMA NewAckStep ==
  ASSUME IInv, NEW a \in acks, acks' \subseteq acks, ~finished, sacked' = a.sacks,
         NewAck(a), UNCHANGED <<receiverVars, ackDropped>>
  PROVE  IInv'
<1> USE DEF IInv
<1>1. /\ a.seq \in 0..Size /\ a.sacks \in Nat /\ a.seq <= recvTill
      /\ Size \in Nat \ {0} /\ nextSeq \in 0..Size /\ unacked \in 0..Size
  BY SizeAssumption DEF TypeOK, Ack, AckedIsReceived
<1>2. timer \in BOOLEAN /\ timer
  BY DEF TypeOK, TimerWhenSent
<1> DEFINE n == Max({nextSeq, a.seq})
           w == cwnd' + a.sacks
<1>3. /\ a.seq > unacked
      /\ unacked' = a.seq
      /\ SendPendingData(n, a.seq, w, timer)
      /\ UNCHANGED <<received, finished>>
  BY DEF NewAck
<1>4. n \in 0..Size /\ a.seq <= n
  BY <1>1, MaxOfTwo
<1>5. cwnd' \in 1..MaxCwnd
  BY GrowCwndStep DEF NewAck
<1>6. w \in Nat
  BY <1>1, <1>5
<1>7. /\ nextSeq' \in 0..Size
      /\ n <= nextSeq'
      /\ timer' \in BOOLEAN /\ timer'
      /\ data' \subseteq Seqs
  <2>1. a.seq \in Nat
    BY <1>1
  <2> HIDE DEF n, w
  <2> QED
    BY <1>2, <1>3, <1>4, <1>6, <2>1, SendPendingDataStep
<1>8. TypeOK'
  BY <1>1, <1>3, <1>5, <1>7 DEF TypeOK, receiverVars
<1>9. AckedIsReceived' /\ RecvTillIsFirstHole' /\ HoleAboveHighest'
  BY <1>1, <1>3 DEF AckedIsReceived, RecvTillIsFirstHole, HoleAboveHighest, receiverVars
<1>10. TimerUntilFinished' /\ TimerWhenSent'
  <2>1. unacked' <= nextSeq'
    <3> HIDE DEF n
    <3> QED
      BY <1>1, <1>3, <1>4, <1>7
  <2> QED
    BY <2>1, <1>7 DEF TimerUntilFinished, TimerWhenSent
<1> QED
  BY <1>8, <1>9, <1>10

LEMMA LastAckStep ==
  ASSUME IInv, NEW a \in acks, acks' \subseteq acks, ~finished, sacked' = a.sacks,
         LastAck(a), UNCHANGED <<receiverVars, ackDropped>>
  PROVE  IInv'
<1> USE DEF IInv
<1>1. /\ a.seq = Size /\ a.sacks \in Nat /\ Size <= recvTill
      /\ Size \in Nat \ {0} /\ recvTill \in 0..Size
  BY SizeAssumption DEF TypeOK, Ack, AckedIsReceived, LastAck
<1>2. recvCount = Size
  <2>1. Seqs \subseteq received /\ received \in SUBSET Seqs
    BY <1>1 DEF AckedIsReceived, TypeOK, Seqs
  <2> QED
    BY <2>1, PacketSets DEF RecvTillIsFirstHole
<1>3. /\ unacked' = Size /\ nextSeq' = Size /\ received' = {}
      /\ timer' = FALSE /\ finished' = TRUE /\ data' = data
  BY DEF LastAck
<1>4. cwnd' \in 1..MaxCwnd
  BY GrowCwndStep DEF LastAck
<1>5. TypeOK'
  <2>1. {timer', finished'} \subseteq BOOLEAN
    BY <1>3
  <2>2. nextSeq' \in 0..Size /\ unacked' \in 0..Size
    BY <1>1, <1>3
  <2> QED
    BY <1>1, <1>3, <1>4, <2>1, <2>2 DEF TypeOK, receiverVars
<1>6. AckedIsReceived'
  BY <1>1, <1>2, <1>3 DEF AckedIsReceived, receiverVars
<1>7. RecvTillIsFirstHole' /\ HoleAboveHighest' /\ TimerWhenSent'
  BY <1>3 DEF RecvTillIsFirstHole, HoleAboveHighest, TimerWhenSent
<1>8. TimerUntilFinished'
  BY <1>1, <1>3 DEF TimerUntilFinished
<1> QED
  BY <1>5, <1>6, <1>7, <1>8

LEMMA OldAckStep ==
  ASSUME IInv, NEW a \in acks, acks' \subseteq acks, ~finished, sacked' = a.sacks,
         OldAck(a), UNCHANGED <<receiverVars, ackDropped>>
  PROVE  IInv'
<1> USE DEF IInv
<1>1. /\ a.seq \in 0..Size /\ a.sacks \in Nat
      /\ Size \in Nat \ {0} /\ nextSeq \in 0..Size /\ unacked \in 0..Size
  BY SizeAssumption DEF TypeOK, Ack
<1>2. timer
  BY DEF TimerWhenSent
<1>3. /\ nextSeq' = Max({nextSeq, a.seq})
      /\ UNCHANGED <<unacked, cwnd, timer, received, finished, data>>
  BY DEF OldAck
<1>4. nextSeq' \in 0..Size /\ nextSeq <= nextSeq'
  BY <1>1, <1>3, MaxOfTwo
<1>5. TypeOK'
  BY <1>1, <1>3, <1>4 DEF TypeOK, receiverVars
<1>6. AckedIsReceived' /\ RecvTillIsFirstHole' /\ HoleAboveHighest'
  BY <1>3 DEF AckedIsReceived, RecvTillIsFirstHole, HoleAboveHighest, receiverVars
<1>7. TimerUntilFinished' /\ TimerWhenSent'
  BY <1>1, <1>2, <1>3, <1>4 DEF TimerUntilFinished, TimerWhenSent
<1> QED
  BY <1>5, <1>6, <1>7

(* An ACK that arrives after the end changes nothing but what is in flight. *)
LEMMA ReceiveAckStep ==
  ASSUME IInv, NEW a \in acks, ReceiveAck(a)
  PROVE  IInv'
<1>1. acks' \subseteq acks
  BY DEF ReceiveAck
<1>2. CASE ~finished
  BY <1>1, <1>2, NewAckStep, LastAckStep, OldAckStep DEF ReceiveAck
<1>3. CASE finished
  <2>1. UNCHANGED <<windowVars, received, finished, data, receiverVars, ackDropped>>
    BY <1>3 DEF ReceiveAck
  <2> QED
    BY <1>1, <1>3, <2>1 DEF IInv, TypeOK, AckedIsReceived, RecvTillIsFirstHole, HoleAboveHighest,
       TimerUntilFinished, TimerWhenSent, windowVars, receiverVars
<1> QED
  BY <1>2, <1>3
LEMMA ReceiveDataStep ==
  ASSUME IInv, NEW s \in data, ReceiveData(s)
  PROVE  IInv'
<1> USE DEF IInv
<1>1. /\ data' \subseteq data
      /\ UNCHANGED <<windowVars, finished, ackDropped>>
  BY DEF ReceiveData
<1>2. CASE finished
  <2>1. UNCHANGED <<received, receiverVars, acks>>
    BY <1>2 DEF ReceiveData
  <2> QED
    BY <1>1, <1>2, <2>1 DEF TypeOK, AckedIsReceived, RecvTillIsFirstHole, HoleAboveHighest,
       TimerUntilFinished, TimerWhenSent, windowVars, receiverVars
<1>3. CASE ~finished
  <2> DEFINE got == received \cup {s}
             last == Max({maxSeq, s})
             till == Advance(recvTill, got, last)
             sacks == Cardinality({i \in got : i > till})
  <2>1. /\ received' = got
        /\ recvCount' = Counted(s)
        /\ maxSeq' = last
        /\ recvTill' = till
        /\ acks' = acks \cup {[seq |-> till, sacks |-> sacks]}
    BY <1>3 DEF ReceiveData
  <2>2. got \in SUBSET Seqs /\ Size \in Nat \ {0} /\ s \in Nat /\ maxSeq \in Nat
    BY SizeAssumption DEF TypeOK, Seqs
  <2>3. last \in Seqs /\ last >= maxSeq /\ last >= s
    <3>1. last \in {maxSeq, s} /\ last >= maxSeq /\ last >= s
      BY <2>2, MaxOfTwo
    <3> QED
      BY <3>1 DEF TypeOK
  <2>4. /\ till \in recvTill..last + 1 /\ till \in 0..Size
        /\ till \notin got /\ 0..till - 1 \subseteq got
    <3>1. recvTill \in 0..Size /\ recvTill <= maxSeq + 1 /\ 0..recvTill - 1 \subseteq received
      BY <1>3 DEF TypeOK, HoleAboveHighest, AckedIsReceived
    <3>2. last \in Nat
      BY <2>3, SizeAssumption DEF Seqs
    <3>3. recvTill <= last + 1 /\ 0..recvTill - 1 \subseteq got
      <4> HIDE DEF last
      <4> QED
        BY <3>1, <3>2, <2>2, <2>3
    <3>4. \A i \in got : i <= last
      <4>1. \A i \in received : i \in Nat /\ i <= maxSeq
        BY <1>3, <2>2 DEF HoleAboveHighest, Seqs
      <4> HIDE DEF last
      <4> QED
        BY <4>1, <3>2, <2>2, <2>3
    <3> HIDE DEF last, got
    <3> QED
      BY <3>1, <3>3, <3>4, <2>2, <2>3, AdvanceFindsHole
  <2>5. sacks \in Nat
    <3>1. {i \in got : i > till} \in SUBSET Seqs
      BY <2>2
    <3> HIDE DEF got, till
    <3>2. Cardinality({i \in got : i > till}) \in 0..Size
      BY <3>1, PacketSets
    <3> QED
      BY <3>2, <2>2
  <2>6. recvCount' = Cardinality(got) /\ recvCount' \in 0..Size
    <3>1. IsFiniteSet(received) /\ recvCount = Cardinality(received)
      BY <1>3, PacketSets DEF TypeOK, RecvTillIsFirstHole
    <3>2. Cardinality(got) = IF s \in received THEN recvCount ELSE recvCount + 1
      BY <3>1, FS_AddElement
    <3>3. Cardinality(got) \in 0..Size
      BY <2>2, PacketSets
    <3> QED
      BY <2>1, <3>2, <3>3 DEF Counted
  <2> HIDE DEF got, last, till, sacks
  <2>7. TypeOK'
    <3>1. [seq |-> till, sacks |-> sacks] \in Ack
      BY <2>4, <2>5 DEF Ack
    <3> QED
      BY <1>1, <2>1, <2>2, <2>3, <2>4, <2>6, <3>1 DEF TypeOK, windowVars
  <2>8. AckedIsReceived'
    <3>1. recvTill \in Nat /\ unacked \in Nat /\ till \in Nat /\ recvTill <= till
      BY <2>3, <2>4, <2>2 DEF TypeOK, Seqs
    <3>2. \A a \in acks : a.seq \in Nat /\ a.seq <= recvTill
      BY <2>2 DEF TypeOK, Ack, AckedIsReceived
    <3>3. unacked' <= recvTill'
      BY <1>1, <2>1, <3>1 DEF AckedIsReceived, windowVars
    <3>4. ASSUME NEW a \in acks' PROVE a.seq <= recvTill'
      BY <2>1, <3>1, <3>2
    <3> QED
      BY <1>1, <1>3, <2>1, <2>4, <3>3, <3>4 DEF AckedIsReceived
  <2>9. RecvTillIsFirstHole'
    BY <2>1, <2>4, <2>6 DEF RecvTillIsFirstHole
  <2>10. HoleAboveHighest'
    <3>1. \A i \in got : i <= last
      <4>1. \A i \in received : i \in Nat /\ i <= maxSeq
        BY <1>3, <2>2 DEF HoleAboveHighest, TypeOK, Seqs
      <4>2. last \in Nat
        BY <2>3, <2>2 DEF Seqs
      <4> QED
        BY <4>1, <4>2, <2>2, <2>3 DEF got
    <3>2. till <= last + 1
      BY <2>3, <2>4, <2>2 DEF Seqs
    <3> QED
      BY <2>1, <3>1, <3>2 DEF HoleAboveHighest
  <2>11. TimerUntilFinished'
    BY <1>1 DEF TimerUntilFinished, windowVars
  <2>12. TimerWhenSent'
    BY <1>1, <1>3 DEF TimerWhenSent, windowVars
  <2> QED
    BY <2>7, <2>8, <2>9, <2>10, <2>11, <2>12
<1> QED
  BY <1>2, <1>3

LEMMA DropStep == IInv /\ Drop => IInv'
<1> SUFFICES ASSUME IInv, Drop PROVE IInv'
  OBVIOUS
<1>1. /\ data' \subseteq data
      /\ acks' \subseteq acks
      /\ ackDropped' \in {ackDropped, TRUE}
      /\ UNCHANGED <<windowVars, received, receiverVars, finished>>
  BY DEF Drop
<1> QED
  BY <1>1 DEF IInv, TypeOK, AckedIsReceived, RecvTillIsFirstHole, HoleAboveHighest,
     TimerUntilFinished, TimerWhenSent, windowVars, receiverVars

LEMMA NextStep == IInv /\ [Next]_vars => IInv'
<1> SUFFICES ASSUME IInv, [Next]_vars PROVE IInv'
  OBVIOUS
<1>1. CASE Start
  BY <1>1, StartStep
<1>2. CASE \E a \in acks : ReceiveAck(a)
  BY <1>2, ReceiveAckStep
<1>3. CASE Timeout
  BY <1>3, TimeoutStep
<1>4. CASE \E s \in data : ReceiveData(s)
  BY <1>4, ReceiveDataStep
<1>5. CASE Drop
  BY <1>5, DropStep
<1>6. CASE UNCHANGED vars
  BY <1>6 DEF IInv, TypeOK, AckedIsReceived, RecvTillIsFirstHole, HoleAboveHighest,
     TimerUntilFinished, TimerWhenSent, vars, windowVars, receiverVars
<1> QED
  BY <1>1, <1>2, <1>3, <1>4, <1>5, <1>6 DEF Next

-----------------------------------------------------------------------------
(* The theorems *)

(* The inductive invariant holds in every reachable state. *)
THEOREM IInvInvariant == Spec => []IInv
  BY InitIInv, NextStep, PTL DEF Spec

(* Every reachable state is well typed: sequence numbers never leave the
   flow, nor the window its limits. *)
THEOREM TypeCorrect == Spec => []TypeOK
<1>1. IInv => TypeOK
  BY DEF IInv
<1> QED
  BY <1>1, IInvInvariant, PTL

(* Whatever the order of packets and ACKs, no ACK covers a packet that is
   missing, and a flow that is over was received as a whole. *)
THEOREM AckedReceived == Spec => []AckedIsReceived
<1>1. IInv => AckedIsReceived
  BY DEF IInv
<1> QED
  BY <1>1, IInvInvariant, PTL

(* recv_till is the first hole and received_bytes counts each packet once. *)
THEOREM FirstHole == Spec => []RecvTillIsFirstHole
<1>1. IInv => RecvTillIsFirstHole
  BY DEF IInv
<1> QED
  BY <1>1, IInvInvariant, PTL

(* A flow that has sent anything has its timer set until it is over, in whatever
   order receive_ack, send_pending_data and handle_timeout run. *)
THEOREM TimerSet == Spec => []TimerUntilFinished
<1>1. IInv => TimerUntilFinished
  BY DEF IInv
<1> QED
  BY <1>1, IInvInvariant, PTL

=============================================================================
