--------------------------- MODULE HostPort_proofs ---------------------------
(***************************************************************************)
(* Proofs of the safety properties of HostPort, for any flows, any sizes,  *)
(* any type of queue and any limit.  IInv of that module is inductive.     *)
(* The first part shows of each type of queue that enque and deque keep a  *)
(* queue in order; the second looks at a step of the queue as a whole, and *)
(* the third at the steps of the host.                                     *)
(***************************************************************************)
EXTENDS HostPort, FiniteSetTheorems, SequenceTheorems, WellFoundedInduction, TLAPS

-----------------------------------------------------------------------------
(* Numbers *)

Least(S) == CHOOSE x \in S : \A y \in S : x <= y

LEMMA LeastOfNaturals ==
  ASSUME NEW S \in SUBSET Nat, S # {}
  PROVE  Least(S) \in S /\ \A y \in S : Least(S) <= y
<1> DEFINE Less == {p \in Nat \X Nat : p[1] < p[2]}
<1>1. IsWellFoundedOn(Less, Nat)
  BY NatLessThanWellFounded, Zenon DEF OpToRel
<1>2. PICK x \in S : \A y \in S : <<y, x>> \notin Less
  <2> HIDE DEF Less
  <2> QED
    BY <1>1, WFMin
<1>3. ASSUME NEW y \in S PROVE x <= y
  <2>1. <<y, x>> \notin Less
    BY <1>2
  <2>2. ~(<<y, x>>[1] < <<y, x>>[2])
    BY <2>1
  <2> QED
    BY <2>2
<1> QED
  BY <1>3 DEF Least

(* packet_priority ends its search: there is a class for each size. *)
LEMMA PriorityClass ==
  ASSUME NEW size
  PROVE  PacketPriority(size) \in 1..6
<1> DEFINE Fits(k) == size <= TokenInitial^k
           S == {k \in 1..6 : Fits(k) \/ k = 6}
<1> HIDE DEF Fits
<1>1. S \in SUBSET Nat /\ 6 \in S
  OBVIOUS
<1> DEFINE m == Least(S)
<1>2. m \in S /\ \A y \in S : m <= y
  <2> HIDE DEF S
  <2> QED
    BY <1>1, LeastOfNaturals
<1>3. m \in 1..6 /\ (Fits(m) \/ m = 6)
  BY <1>2
<1>4. \A j \in 1..m - 1 : ~Fits(j)
  <2>1. ASSUME NEW j \in 1..m - 1 PROVE ~Fits(j)
    <3> HIDE DEF m
    <3>1. j \in 1..6 /\ ~(m <= j)
      BY <1>3
    <3>2. j \notin S
      <4> HIDE DEF S
      <4> QED
        BY <1>2, <3>1
    <3> QED
      BY <3>1, <3>2
  <2> QED
    BY <2>1
<1> HIDE DEF m
<1> DEFINE Class(k) == (Fits(k) \/ k = 6) /\ \A j \in 1..k - 1 : ~Fits(j)
<1>5. (CHOOSE k \in 1..6 : Class(k)) \in 1..6
  <2>1. Class(m)
    BY <1>3, <1>4
  <2> HIDE DEF Class
  <2> QED
    BY <1>3, <2>1
<1>6. PacketPriority(size) = IF TokenInitial = 0 THEN 1 ELSE CHOOSE k \in 1..6 : Class(k)
  BY DEF PacketPriority, Fits
<1> QED
  BY <1>5, <1>6

(* A data packet is never better than a control packet. *)
LEMMA Priorities ==
  ASSUME NEW p \in Packet
  PROVE  /\ Priority(p) \in 0..6
         /\ p.kind = "data" => Priority(p) >= 1
         /\ p.kind # "data" => Priority(p) <= 1
<1>1. PacketPriority(Size[p.flow]) \in 1..6
  BY PriorityClass
<1> QED
  BY <1>1 DEF Priority

-----------------------------------------------------------------------------
(* Sequences without repetition *)

LEMMA Contents ==
  ASSUME NEW S, NEW q \in Seq(S)
  PROVE  /\ Len(q) \in Nat /\ DOMAIN q = 1..Len(q)
         /\ ToSet(q) \subseteq S
         /\ \A i \in 1..Len(q) : q[i] \in S /\ q[i] \in ToSet(q)
         /\ \A x \in ToSet(q) : \E i \in 1..Len(q) : x = q[i]
<1>1. Len(q) \in Nat /\ DOMAIN q = 1..Len(q)
  BY LenProperties
<1>2. \A i \in 1..Len(q) : q[i] \in S
  BY ElementOfSeq
<1> QED
  BY <1>1, <1>2 DEF ToSet

LEMMA Appended ==
  ASSUME NEW S, NEW q \in Seq(S), NoneTwice(q), NEW e \in S, e \notin ToSet(q)
  PROVE  /\ Append(q, e) \in Seq(S) /\ NoneTwice(Append(q, e))
         /\ Len(Append(q, e)) = Len(q) + 1 /\ Append(q, e)[Len(q) + 1] = e
         /\ \A i \in 1..Len(q) : Append(q, e)[i] = q[i]
         /\ ToSet(Append(q, e)) = ToSet(q) \cup {e}
<1> DEFINE all == Append(q, e)
<1>1. /\ all \in Seq(S) /\ Len(all) = Len(q) + 1
      /\ \A i \in 1..Len(q) : all[i] = q[i]
      /\ all[Len(q) + 1] = e
  BY AppendProperties
<1> HIDE DEF all
<1>2. /\ Len(q) \in Nat /\ DOMAIN q = 1..Len(q)
      /\ DOMAIN all = 1..Len(q) + 1
      /\ \A i \in 1..Len(q) : q[i] \in ToSet(q)
      /\ \A x \in ToSet(q) : \E i \in 1..Len(q) : x = q[i]
  BY <1>1, Contents
<1>3. \A i \in 1..Len(q) + 1 : i \in 1..Len(q) \/ i = Len(q) + 1
  BY <1>2
<1>4. NoneTwice(all)
  <2>1. ASSUME NEW i \in 1..Len(q) + 1, NEW j \in 1..Len(q) + 1, all[i] = all[j]
        PROVE  i = j
    <3>1. CASE i \in 1..Len(q) /\ j \in 1..Len(q)
      BY <2>1, <3>1, <1>1, <1>2 DEF NoneTwice
    <3>2. CASE i = Len(q) + 1 /\ j \in 1..Len(q)
      BY <2>1, <3>2, <1>1, <1>2
    <3>3. CASE j = Len(q) + 1 /\ i \in 1..Len(q)
      BY <2>1, <3>3, <1>1, <1>2
    <3> QED
      BY <1>3, <3>1, <3>2, <3>3
  <2> QED
    BY <2>1, <1>2 DEF NoneTwice
<1>5. ToSet(all) = ToSet(q) \cup {e}
  <2>1. ASSUME NEW x \in ToSet(all) PROVE x \in ToSet(q) \cup {e}
    <3>1. PICK i \in 1..Len(q) + 1 : x = all[i]
      BY <1>2 DEF ToSet
    <3> QED
      BY <1>1, <1>2, <1>3, <3>1
  <2>2. ASSUME NEW x \in ToSet(q) \cup {e} PROVE x \in ToSet(all)
    <3>1. \A i \in 1..Len(q) + 1 : all[i] \in ToSet(all)
      BY <1>2 DEF ToSet
    <3>2. \A i \in 1..Len(q) : i \in 1..Len(q) + 1
      BY <1>2
    <3>3. Len(q) + 1 \in 1..Len(q) + 1
      BY <1>2
    <3> QED
      BY <1>1, <1>2, <3>1, <3>2, <3>3
  <2> QED
    BY <2>1, <2>2
<1> QED
  BY <1>1, <1>4, <1>5 DEF all

LEMMA Removed ==
  ASSUME NEW S, NEW q \in Seq(S), NoneTwice(q), NEW n \in 1..Len(q)
  PROVE  /\ RemoveAt(q, n) \in Seq(S) /\ NoneTwice(RemoveAt(q, n))
         /\ Len(RemoveAt(q, n)) = Len(q) - 1
         /\ ToSet(RemoveAt(q, n)) = ToSet(q) \ {q[n]}
<1> DEFINE front == SubSeq(q, 1, n - 1)
           back == SubSeq(q, n + 1, Len(q))
           rest == RemoveAt(q, n)
           At(k) == IF k < n THEN k ELSE k + 1
<1>1. /\ Len(q) \in Nat /\ DOMAIN q = 1..Len(q)
      /\ \A k \in 1..Len(q) : q[k] \in S /\ q[k] \in ToSet(q)
      /\ \A x \in ToSet(q) : \E i \in 1..Len(q) : x = q[i]
  BY Contents
<1>0. Len(q) \in Nat /\ n \in Int
  BY <1>1
<1>2. /\ front \in Seq(S) /\ Len(front) = n - 1
      /\ \A k \in 1..n - 1 : front[k] = q[k]
  <2>1. /\ SubSeq(q, 1, n - 1) \in Seq(S)
        /\ Len(SubSeq(q, 1, n - 1)) = IF 1 <= n - 1 THEN n - 1 - 1 + 1 ELSE 0
        /\ \A k \in 1..n - 1 - 1 + 1 : SubSeq(q, 1, n - 1)[k] = q[1 + k - 1]
    <3>1. \A k \in 1..n - 1 : q[k] \in S
      BY <1>1
    <3>2. 1 \in Int /\ n - 1 \in Int
      BY <1>0
    <3> QED
      BY <3>1, <3>2, SubSeqProperties
  <2> QED
    BY <2>1, <1>0
<1>3. /\ back \in Seq(S) /\ Len(back) = Len(q) - n
      /\ \A k \in 1..Len(q) - n : back[k] = q[n + k]
  <2>1. /\ SubSeq(q, n + 1, Len(q)) \in Seq(S)
        /\ Len(SubSeq(q, n + 1, Len(q))) =
             IF n + 1 <= Len(q) THEN Len(q) - (n + 1) + 1 ELSE 0
        /\ \A k \in 1..Len(q) - (n + 1) + 1 :
             SubSeq(q, n + 1, Len(q))[k] = q[n + 1 + k - 1]
    <3>1. \A k \in n + 1..Len(q) : q[k] \in S
      BY <1>1
    <3>2. n + 1 \in Int /\ Len(q) \in Int
      BY <1>0
    <3> QED
      BY <3>1, <3>2, SubSeqProperties
  <2> QED
    BY <2>1, <1>0
<1>4. /\ rest \in Seq(S) /\ Len(rest) = Len(front) + Len(back)
      /\ \A k \in 1..Len(front) + Len(back) :
           rest[k] = IF k <= Len(front) THEN front[k] ELSE back[k - Len(front)]
  <2>1. rest = front \o back
    BY DEF RemoveAt
  <2> HIDE DEF front, back, rest
  <2> QED
    BY <2>1, <1>2, <1>3, ConcatProperties
<1> HIDE DEF front, back, rest
<1>5. Len(rest) = Len(q) - 1
  BY <1>2, <1>3, <1>4, <1>0
<1>6. ASSUME NEW k \in 1..Len(q) - 1 PROVE rest[k] = q[At(k)] /\ At(k) \in 1..Len(q)
  <2>1. rest[k] = IF k <= n - 1 THEN front[k] ELSE back[k - (n - 1)]
    BY <1>2, <1>3, <1>4, <1>0
  <2>2. CASE k < n
    <3>1. k \in 1..n - 1 /\ k <= n - 1 /\ k \in 1..Len(q)
      BY <2>2, <1>0
    <3> QED
      BY <2>1, <2>2, <3>1, <1>2
  <2>3. CASE ~(k < n)
    <3>1. /\ k - (n - 1) \in 1..Len(q) - n /\ ~(k <= n - 1) /\ k + 1 \in 1..Len(q)
          /\ n + (k - (n - 1)) = k + 1
      BY <2>3, <1>0
    <3>2. back[k - (n - 1)] = q[n + (k - (n - 1))]
      BY <3>1, <1>3
    <3> QED
      BY <2>1, <2>3, <3>1, <3>2
  <2> QED
    BY <2>2, <2>3
<1>7. DOMAIN rest = 1..Len(q) - 1
  BY <1>4, <1>5, LenProperties
<1>8. NoneTwice(rest)
  <2>1. ASSUME NEW i \in 1..Len(q) - 1, NEW j \in 1..Len(q) - 1, rest[i] = rest[j]
        PROVE  i = j
    <3>1. At(i) = At(j)
      <4> HIDE DEF At
      <4> QED
        BY <2>1, <1>1, <1>6 DEF NoneTwice
    <3> QED
      BY <3>1, <1>0
  <2> QED
    BY <2>1, <1>7 DEF NoneTwice
<1>9. ToSet(rest) = ToSet(q) \ {q[n]}
  <2>1. ASSUME NEW x \in ToSet(rest) PROVE x \in ToSet(q) \ {q[n]}
    <3>1. PICK k \in 1..Len(q) - 1 : x = rest[k]
      BY <1>7 DEF ToSet
    <3>2. x = q[At(k)] /\ At(k) \in 1..Len(q)
      BY <1>6, <3>1
    <3>3. At(k) # n
      BY <1>0
    <3> HIDE DEF At
    <3> QED
      BY <3>2, <3>3, <1>1 DEF NoneTwice
  <2>2. ASSUME NEW x \in ToSet(q) \ {q[n]} PROVE x \in ToSet(rest)
    <3>1. PICK i \in 1..Len(q) : x = q[i]
      BY <1>1
    <3>2. i # n
      BY <3>1
    <3> DEFINE k == IF i < n THEN i ELSE i - 1
    <3>3. k \in 1..Len(q) - 1 /\ At(k) = i
      BY <3>2, <1>0
    <3> HIDE DEF k, At
    <3>4. x = rest[k]
      BY <3>1, <3>3, <1>6
    <3> QED
      BY <3>3, <3>4, <1>7 DEF ToSet
  <2> QED
    BY <2>1, <2>2
<1> QED
  BY <1>4, <1>5, <1>8, <1>9 DEF rest

-----------------------------------------------------------------------------
(* The types of queues *)

(* What every type of queue keeps of its packets. *)
QueueOK(q) ==
  /\ q \in Seq(Packet)
  /\ NoneTwice(q)
  /\ OneData(ToSet(q))
  /\ BytesIn(q) <= LimitBytes

(* With at most one data packet, bytes_in_queue is the length of the queue
   but for the rest of that packet. *)
LEMMA BytesOfQueue ==
  ASSUME NEW q \in Seq(Packet), NoneTwice(q), OneData(ToSet(q))
  PROVE  BytesIn(q) = IF \E x \in ToSet(q) : x.kind = "data"
                      THEN Len(q) + DataBytes - 1 ELSE Len(q)
<1> DEFINE At == {i \in DOMAIN q : q[i].kind = "data"}
<1>1. /\ Len(q) \in Nat /\ DOMAIN q = 1..Len(q)
      /\ \A i \in 1..Len(q) : q[i] \in ToSet(q)
      /\ \A x \in ToSet(q) : \E i \in 1..Len(q) : x = q[i]
  BY Contents
<1>2. DataBytes \in Nat \ {0}
  BY BytesAssumption
<1>3. BytesIn(q) = Len(q) + (DataBytes - 1) * Cardinality(At)
  BY DEF BytesIn
<1>4. CASE \E x \in ToSet(q) : x.kind = "data"
  <2>1. PICK i \in 1..Len(q) : q[i].kind = "data"
    BY <1>1, <1>4
  <2>2. At = {i}
    BY <1>1, <2>1 DEF OneData, NoneTwice
  <2>3. Cardinality(At) = 1
    BY <2>2, FS_Singleton
  <2> HIDE DEF At
  <2>4. BytesIn(q) = Len(q) + (DataBytes - 1) * 1
    BY <1>3, <2>3
  <2>5. BytesIn(q) = Len(q) + DataBytes - 1
    BY <2>4, <1>1, <1>2
  <2> QED
    BY <1>4, <2>5
<1>5. CASE ~(\E x \in ToSet(q) : x.kind = "data")
  <2>1. At = {}
    BY <1>1, <1>5
  <2>2. Cardinality(At) = 0
    BY <2>1, FS_EmptySet
  <2> HIDE DEF At
  <2>3. BytesIn(q) = Len(q) + (DataBytes - 1) * 0
    BY <1>3, <2>2
  <2>4. (DataBytes - 1) * 0 = 0
    BY <1>2
  <2>5. BytesIn(q) = Len(q)
    BY <2>3, <2>4, <1>1
  <2> QED
    BY <1>5, <2>5
<1> QED
  BY <1>4, <1>5

(* A packet is counted when it is appended... *)
LEMMA BytesOfAppended ==
  ASSUME NEW q, QueueOK(q), NEW p \in Packet, p \notin ToSet(q),
         OneData(ToSet(q) \cup {p})
  PROVE  /\ BytesIn(q) \in Int
         /\ BytesIn(Append(q, p)) = BytesIn(q) + Bytes(p)
<1>1. /\ q \in Seq(Packet) /\ NoneTwice(q) /\ OneData(ToSet(q))
      /\ Len(q) \in Nat /\ DataBytes \in Nat
  BY BytesAssumption, Contents DEF QueueOK
<1> DEFINE all == Append(q, p)
<1>2. /\ all \in Seq(Packet) /\ NoneTwice(all) /\ Len(all) = Len(q) + 1
      /\ ToSet(all) = ToSet(q) \cup {p}
  BY <1>1, Appended
<1> HIDE DEF all
<1>3. BytesIn(q) = IF \E x \in ToSet(q) : x.kind = "data"
                   THEN Len(q) + DataBytes - 1 ELSE Len(q)
  BY <1>1, BytesOfQueue
<1>4. BytesIn(all) = IF \E x \in ToSet(all) : x.kind = "data"
                     THEN Len(all) + DataBytes - 1 ELSE Len(all)
  BY <1>2, BytesOfQueue
<1>5. CASE p.kind = "data"
  <2>1. ~(\E x \in ToSet(q) : x.kind = "data")
    BY <1>5 DEF OneData
  <2>2. BytesIn(q) = Len(q)
    BY <1>3, <2>1
  <2>3. BytesIn(all) = Len(q) + 1 + DataBytes - 1
    BY <1>2, <1>4, <1>5
  <2>4. Bytes(p) = DataBytes
    BY <1>5 DEF Bytes
  <2> QED
    BY <1>1, <2>2, <2>3, <2>4 DEF all
<1>6. CASE p.kind # "data"
  <2>1. (\E x \in ToSet(all) : x.kind = "data") <=> (\E x \in ToSet(q) : x.kind = "data")
    BY <1>2, <1>6
  <2>2. Bytes(p) = 1
    BY <1>6 DEF Bytes
  <2>3. CASE \E x \in ToSet(q) : x.kind = "data"
    <3>1. BytesIn(q) = Len(q) + DataBytes - 1 /\ BytesIn(all) = Len(q) + 1 + DataBytes - 1
      BY <1>2, <1>3, <1>4, <2>1, <2>3
    <3> QED
      BY <1>1, <2>2, <3>1 DEF all
  <2>4. CASE ~(\E x \in ToSet(q) : x.kind = "data")
    <3>1. BytesIn(q) = Len(q) /\ BytesIn(all) = Len(q) + 1
      BY <1>2, <1>3, <1>4, <2>1, <2>4
    <3> QED
      BY <1>1, <2>2, <3>1 DEF all
  <2> QED
    BY <2>3, <2>4
<1> QED
  BY <1>5, <1>6

(* ...and not any more when it is removed. *)
LEMMA BytesOfRemoved ==
  ASSUME NEW q \in Seq(Packet), NoneTwice(q), OneData(ToSet(q)), NEW n \in 1..Len(q)
  PROVE  /\ RemoveAt(q, n) \in Seq(Packet) /\ NoneTwice(RemoveAt(q, n))
         /\ OneData(ToSet(RemoveAt(q, n)))
         /\ ToSet(RemoveAt(q, n)) = ToSet(q) \ {q[n]}
         /\ BytesIn(q) \in Int /\ BytesIn(RemoveAt(q, n)) \in Int
         /\ BytesIn(RemoveAt(q, n)) <= BytesIn(q) - 1
<1> DEFINE rest == RemoveAt(q, n)
<1>1. /\ rest \in Seq(Packet) /\ NoneTwice(rest) /\ Len(rest) = Len(q) - 1
      /\ ToSet(rest) = ToSet(q) \ {q[n]}
  BY Removed
<1> HIDE DEF rest
<1>2. OneData(ToSet(rest))
  BY <1>1 DEF OneData
<1>3. Len(q) \in Nat /\ DataBytes \in Nat \ {0}
  BY Contents, BytesAssumption
<1>4. BytesIn(q) = IF \E x \in ToSet(q) : x.kind = "data"
                   THEN Len(q) + DataBytes - 1 ELSE Len(q)
  BY BytesOfQueue
<1>5. BytesIn(rest) = IF \E x \in ToSet(rest) : x.kind = "data"
                      THEN Len(q) - 1 + DataBytes - 1 ELSE Len(q) - 1
  BY <1>1, <1>2, BytesOfQueue
<1>6. (\E x \in ToSet(rest) : x.kind = "data") => (\E x \in ToSet(q) : x.kind = "data")
  BY <1>1
<1>7. /\ BytesIn(q) \in Int /\ BytesIn(rest) \in Int
      /\ BytesIn(rest) <= BytesIn(q) - 1
  BY <1>3, <1>4, <1>5, <1>6
<1> QED
  BY <1>1, <1>2, <1>7 DEF rest

LEMMA DroptailOK ==
  ASSUME NEW q, QueueOK(q), NEW p \in Packet, p \notin ToSet(q),
         OneData(ToSet(q) \cup {p})
  PROVE  QueueOK(Droptail(q, p)) /\ ToSet(Droptail(q, p)) \subseteq ToSet(q) \cup {p}
<1>1. CASE BytesIn(q) + Bytes(p) <= LimitBytes
  <2>1. Droptail(q, p) = Append(q, p)
    BY <1>1 DEF Droptail
  <2>2. q \in Seq(Packet) /\ NoneTwice(q)
    BY DEF QueueOK
  <2>3. /\ Append(q, p) \in Seq(Packet) /\ NoneTwice(Append(q, p))
        /\ ToSet(Append(q, p)) = ToSet(q) \cup {p}
    BY <2>2, Appended
  <2>4. BytesIn(Append(q, p)) <= LimitBytes
    BY <1>1, BytesOfAppended
  <2> QED
    BY <2>1, <2>3, <2>4 DEF QueueOK
<1>2. CASE ~(BytesIn(q) + Bytes(p) <= LimitBytes)
  <2>1. Droptail(q, p) = q
    BY <1>2 DEF Droptail
  <2> QED
    BY <2>1
<1> QED
  BY <1>1, <1>2

(* The packet that PFabricQueue::enque drops: the last one of the worst
   priority. *)
Worst(q, i) == \A j \in DOMAIN q : \/ Priority(q[j]) < Priority(q[i])
                                   \/ Priority(q[j]) = Priority(q[i]) /\ j <= i

LEMMA WorstExists ==
  ASSUME NEW q \in Seq(Packet), Len(q) # 0
  PROVE  \E i \in DOMAIN q : Worst(q, i)
<1>1. /\ Len(q) \in Nat /\ DOMAIN q = 1..Len(q)
      /\ \A i \in 1..Len(q) : Priority(q[i]) \in 0..6
  BY Contents, Priorities
<1> DEFINE Prio(i) == Priority(q[i])
           Ranks == {6 - Prio(i) : i \in 1..Len(q)}
           low == Least(Ranks)
<1>2. low \in Ranks /\ \A y \in Ranks : low <= y
  <2>1. Ranks \in SUBSET Nat
    BY <1>1
  <2>2. 6 - Prio(1) \in Ranks
    BY <1>1
  <2> HIDE DEF Ranks
  <2> QED
    BY <2>1, <2>2, LeastOfNaturals
<1>3. PICK k \in 1..Len(q) : low = 6 - Prio(k)
  BY <1>2
<1>4. \A j \in 1..Len(q) : Prio(j) <= Prio(k)
  <2>1. ASSUME NEW j \in 1..Len(q) PROVE Prio(j) <= Prio(k)
    <3>1. 6 - Prio(k) <= 6 - Prio(j)
      <4>1. 6 - Prio(j) \in Ranks
        OBVIOUS
      <4> HIDE DEF Ranks, low, Prio
      <4> QED
        BY <1>2, <1>3, <4>1
    <3>2. Prio(j) \in 0..6 /\ Prio(k) \in 0..6
      BY <1>1
    <3> HIDE DEF Prio
    <3> QED
      BY <3>1, <3>2
  <2> QED
    BY <2>1
<1> HIDE DEF low, Ranks
<1> DEFINE Back == {Len(q) - i : i \in {j \in 1..Len(q) : Prio(j) = Prio(k)}}
           near == Least(Back)
<1>5. near \in Back /\ \A y \in Back : near <= y
  <2>1. Back \in SUBSET Nat
    <3> HIDE DEF Prio
    <3> QED
      BY <1>1
  <2>2. Len(q) - k \in Back
    OBVIOUS
  <2> HIDE DEF Back
  <2> QED
    BY <2>1, <2>2, LeastOfNaturals
<1>6. PICK i \in 1..Len(q) : near = Len(q) - i /\ Prio(i) = Prio(k)
  BY <1>5
<1>7. ASSUME NEW j \in 1..Len(q)
      PROVE  \/ Prio(j) < Prio(i)
             \/ Prio(j) = Prio(i) /\ j <= i
  <2>1. CASE Prio(j) = Prio(k)
    <3>1. Len(q) - j \in Back
      BY <2>1
    <3>2. Len(q) - i <= Len(q) - j
      <4> HIDE DEF Back, near, Prio
      <4> QED
        BY <1>5, <1>6, <3>1
    <3>3. j <= i
      BY <1>1, <3>2
    <3> HIDE DEF Prio
    <3> QED
      BY <1>6, <2>1, <3>3
  <2>2. CASE Prio(j) # Prio(k)
    <3>1. Prio(j) \in 0..6 /\ Prio(k) \in 0..6 /\ Prio(j) <= Prio(k)
      BY <1>1, <1>4
    <3> HIDE DEF Prio
    <3> QED
      BY <1>6, <2>2, <3>1
  <2> QED
    BY <2>1, <2>2
<1>8. \A j \in 1..Len(q) : \/ Priority(q[j]) < Priority(q[i])
                           \/ Priority(q[j]) = Priority(q[i]) /\ j <= i
  BY <1>7
<1>9. Worst(q, i)
  BY <1>1, <1>8, Zenon DEF Worst
<1> QED
  BY <1>1, <1>9

LEMMA PfabricOK ==
  ASSUME NEW q, QueueOK(q), NEW p \in Packet, p \notin ToSet(q),
         OneData(ToSet(q) \cup {p})
  PROVE  QueueOK(Pfabric(q, p)) /\ ToSet(Pfabric(q, p)) \subseteq ToSet(q) \cup {p}
<1> DEFINE all == Append(q, p)
           worst == CHOOSE i \in DOMAIN all : Worst(all, i)
<1>1. /\ all \in Seq(Packet) /\ NoneTwice(all)
      /\ Len(all) = Len(q) + 1 /\ all[Len(q) + 1] = p
      /\ \A i \in 1..Len(q) : all[i] = q[i]
      /\ ToSet(all) = ToSet(q) \cup {p}
  <2>1. q \in Seq(Packet) /\ NoneTwice(q)
    BY DEF QueueOK
  <2> QED
    BY <2>1, Appended
<1>2. BytesIn(q) \in Int /\ BytesIn(all) = BytesIn(q) + Bytes(p)
  BY BytesOfAppended
<1>3. /\ Len(q) \in Nat /\ DOMAIN all = 1..Len(q) + 1
      /\ LimitBytes \in Nat /\ DataBytes \in Nat \ {0}
      /\ BytesIn(q) <= LimitBytes
  BY <1>1, Contents, LenProperties, BytesAssumption DEF QueueOK
<1>4. Pfabric(q, p) = IF BytesIn(all) > LimitBytes THEN RemoveAt(all, worst) ELSE all
  BY DEF Pfabric, Worst
<1> HIDE DEF all
<1>5. worst \in DOMAIN all /\ Worst(all, worst)
  <2>1. Len(all) # 0
    BY <1>1, <1>3
  <2>2. \E i \in DOMAIN all : Worst(all, i)
    BY <1>1, <2>1, WorstExists
  <2> QED
    BY <2>2
<1> HIDE DEF worst
<1>6. CASE ~(BytesIn(all) > LimitBytes)
  <2>1. Pfabric(q, p) = all /\ BytesIn(all) <= LimitBytes
    <3>1. Bytes(p) \in Int
      BY <1>3 DEF Bytes
    <3> QED
      BY <1>2, <1>4, <1>6, <3>1, <1>3
  <2> QED
    BY <1>1, <2>1 DEF QueueOK
<1>7. CASE BytesIn(all) > LimitBytes
  <2> DEFINE rest == RemoveAt(all, worst)
  <2>1. Pfabric(q, p) = rest
    BY <1>4, <1>7
  <2>2. worst \in 1..Len(all)
    BY <1>1, <1>3, <1>5
  <2>3. /\ rest \in Seq(Packet) /\ NoneTwice(rest) /\ OneData(ToSet(rest))
        /\ ToSet(rest) = ToSet(all) \ {all[worst]}
        /\ BytesIn(rest) \in Int /\ BytesIn(rest) <= BytesIn(all) - 1
    BY <1>1, <2>2, BytesOfRemoved
  <2>4. CASE p.kind # "data"
    <3>1. Bytes(p) = 1
      BY <2>4 DEF Bytes
    <3>2. BytesIn(rest) <= LimitBytes
      <4> HIDE DEF rest
      <4> QED
        BY <1>2, <1>3, <2>3, <3>1
    <3> QED
      BY <1>1, <2>1, <2>3, <3>2 DEF QueueOK
  <2>5. CASE p.kind = "data"
    <3>1. worst = Len(q) + 1
      <4>1. SUFFICES ASSUME worst # Len(q) + 1 PROVE FALSE
        OBVIOUS
      <4>2. worst \in 1..Len(q) /\ Len(q) + 1 \in DOMAIN all /\ ~(Len(q) + 1 <= worst)
        BY <1>3, <1>5, <4>1
      <4>3. all[worst] \in ToSet(q) /\ all[worst] \in Packet
        BY <1>1, <4>2, Contents DEF QueueOK
      <4>4. all[worst].kind # "data"
        <5>1. all[worst] # p
          BY <4>3
        <5> QED
          BY <2>5, <4>3, <5>1 DEF OneData
      <4>5. /\ Priority(all[worst]) <= 1 /\ Priority(p) >= 1
            /\ Priority(all[worst]) \in 0..6 /\ Priority(p) \in 0..6
        BY <2>5, <4>3, <4>4, Priorities
      <4>6. Priority(p) < Priority(all[worst])
        BY <1>1, <1>5, <4>2 DEF Worst
      <4> QED
        BY <4>5, <4>6
    <3>2. \A i \in 1..Len(q) : rest[i] = q[i]
      <4>1. SUFFICES ASSUME NEW i \in 1..Len(q) PROVE rest[i] = q[i]
        OBVIOUS
      <4>2. rest = SubSeq(all, 1, Len(q)) \o SubSeq(all, Len(q) + 2, Len(q) + 1)
        <5>1. worst - 1 = Len(q) /\ worst + 1 = Len(q) + 2
          BY <1>3, <3>1
        <5> QED
          BY <1>1, <5>1 DEF RemoveAt
      <4>3. SubSeq(all, Len(q) + 2, Len(q) + 1) = << >>
        <5>1. Len(q) + 2 \in Int /\ Len(q) + 1 \in Int /\ Len(q) + 1 < Len(q) + 2
          BY <1>3
        <5> QED
          BY <5>1, SubSeqEmpty
      <4>4. /\ SubSeq(all, 1, Len(q)) \in Seq(Packet)
            /\ \A k \in 1..Len(q) - 1 + 1 : SubSeq(all, 1, Len(q))[k] = all[1 + k - 1]
        <5>1. \A k \in 1..Len(q) : all[k] \in Packet
          BY <1>1, <1>3, ElementOfSeq
        <5>2. 1 \in Int /\ Len(q) \in Int
          BY <1>3
        <5> QED
          BY <5>1, <5>2, SubSeqProperties
      <4>5. rest = SubSeq(all, 1, Len(q))
        <5> HIDE DEF rest
        <5> QED
          BY <4>2, <4>3, <4>4, ConcatEmptySeq
      <4>6. i \in 1..Len(q) - 1 + 1 /\ 1 + i - 1 = i
        BY <1>3
      <4> HIDE DEF rest
      <4> QED
        BY <1>1, <4>4, <4>5, <4>6
    <3>3. rest = q
      <4>1. Len(rest) = Len(q)
        <5>1. Len(RemoveAt(all, worst)) = Len(all) - 1
          BY <1>1, <2>2, Removed
        <5> QED
          BY <1>1, <1>3, <5>1
      <4> HIDE DEF rest
      <4> QED
        BY <2>3, <3>2, <4>1, SeqEqual DEF QueueOK
    <3> HIDE DEF rest
    <3> QED
      BY <2>1, <3>3
  <2> QED
    BY <2>4, <2>5
<1> QED
  BY <1>6, <1>7

(* Whatever its type, a queue stays in order when a packet is put into it. *)
LEMMA EnquedOK ==
  ASSUME config.type \in QueueTypes,
         NEW q, QueueOK(q), NEW p \in Packet, p \notin ToSet(q),
         OneData(ToSet(q) \cup {p}), NEW r \in Enqued(q, p)
  PROVE  QueueOK(r) /\ ToSet(r) \subseteq ToSet(q) \cup {p}
<1>1. config.type \in {"droptail", "pfabric", "probdrop"}
  BY TypesAssumption
<1>2. r = Droptail(q, p) \/ r = Pfabric(q, p) \/ r = q
  BY <1>1 DEF Enqued
<1> QED
  BY <1>2, DroptailOK, PfabricOK

(* There is a first packet of the best priority, and a first one of its flow. *)
LEMMA DequeIndexOK ==
  ASSUME queue \in Seq(Packet), queue # << >>
  PROVE  DequeIndex \in 1..Len(queue)
<1>1. /\ Len(queue) \in Nat \ {0} /\ DOMAIN queue = 1..Len(queue)
  BY EmptySeq, LenProperties
<1>2. \A i \in 1..Len(queue) : Priority(queue[i]) \in 0..6
  BY Contents, Priorities
<1> DEFINE Best(i) == \A j \in DOMAIN queue :
                        \/ Priority(queue[j]) > Priority(queue[i])
                        \/ Priority(queue[j]) = Priority(queue[i]) /\ i <= j
           best == CHOOSE i \in DOMAIN queue : Best(i)
           First(i) == /\ queue[i].flow = queue[best].flow
                       /\ \A j \in 1..i - 1 : queue[j].flow # queue[best].flow
<1>3. DequeIndex = IF config.type # "pfabric" THEN 1
                   ELSE CHOOSE i \in DOMAIN queue : First(i)
  BY DEF DequeIndex
<1>4. best \in DOMAIN queue
  <2> DEFINE Prio(i) == Priority(queue[i])
             Prios == {Prio(i) : i \in 1..Len(queue)}
             low == Least(Prios)
  <2>1. low \in Prios /\ \A y \in Prios : low <= y
    <3>1. Prios \in SUBSET Nat /\ Prio(1) \in Prios
      <4> HIDE DEF Prio
      <4>1. \A i \in 1..Len(queue) : Prio(i) \in Nat
        BY <1>2 DEF Prio
      <4> QED
        BY <1>1, <4>1
    <3> HIDE DEF Prios
    <3> QED
      BY <3>1, LeastOfNaturals
  <2> DEFINE At == {i \in 1..Len(queue) : Prio(i) = low}
             i0 == Least(At)
  <2>2. i0 \in At /\ \A y \in At : i0 <= y
    <3>1. At \in SUBSET Nat /\ At # {}
      <4> HIDE DEF Prio, low
      <4> QED
        BY <1>1, <2>1
    <3> HIDE DEF At
    <3> QED
      BY <3>1, LeastOfNaturals
  <2>3. i0 \in 1..Len(queue) /\ Prio(i0) = low
    <3> HIDE DEF i0, Prio, low
    <3> QED
      BY <2>2
  <2>4. ASSUME NEW j \in 1..Len(queue)
        PROVE  \/ Prio(j) > Prio(i0)
               \/ Prio(j) = Prio(i0) /\ i0 <= j
    <3>1. Prio(j) \in 0..6 /\ Prio(i0) \in 0..6
      BY <1>2, <2>3
    <3>2. low <= Prio(j)
      <4>1. Prio(j) \in Prios
        OBVIOUS
      <4> HIDE DEF Prios, Prio, low
      <4> QED
        BY <2>1, <4>1
    <3>3. Prio(j) = low => i0 <= j
      <4>1. Prio(j) = low => j \in At
        OBVIOUS
      <4> HIDE DEF At, Prio, low, i0
      <4> QED
        BY <2>2, <4>1
    <3> HIDE DEF Prio, low, i0
    <3> QED
      BY <2>3, <3>1, <3>2, <3>3
  <2>5. Best(i0)
    <3>1. \A j \in 1..Len(queue) :
            \/ Priority(queue[j]) > Priority(queue[i0])
            \/ Priority(queue[j]) = Priority(queue[i0]) /\ i0 <= j
      <4> HIDE DEF i0
      <4> QED
        BY <2>4
    <3> HIDE DEF i0
    <3> QED
      BY <1>1, <3>1
  <2> HIDE DEF Best, i0
  <2> QED
    BY <1>1, <2>3, <2>5
<1> HIDE DEF best
<1>5. (CHOOSE i \in DOMAIN queue : First(i)) \in DOMAIN queue
  <2> DEFINE At == {i \in 1..Len(queue) : queue[i].flow = queue[best].flow}
             i0 == Least(At)
  <2>1. i0 \in At /\ \A y \in At : i0 <= y
    <3>1. At \in SUBSET Nat /\ best \in At
      BY <1>1, <1>4
    <3> HIDE DEF At
    <3> QED
      BY <3>1, LeastOfNaturals
  <2>2. i0 \in 1..Len(queue) /\ queue[i0].flow = queue[best].flow
    <3> HIDE DEF i0
    <3> QED
      BY <2>1
  <2>3. ASSUME NEW j \in 1..i0 - 1 PROVE queue[j].flow # queue[best].flow
    <3> HIDE DEF i0
    <3>1. j \in 1..Len(queue) /\ ~(i0 <= j)
      BY <1>1, <2>2
    <3>2. j \notin At
      <4> HIDE DEF At
      <4> QED
        BY <2>1, <3>1
    <3> QED
      BY <3>1, <3>2
  <2>4. First(i0)
    <3> HIDE DEF i0
    <3> QED
      BY <2>2, <2>3
  <2> HIDE DEF First, i0
  <2> QED
    BY <1>1, <2>2, <2>4
<1> HIDE DEF First
<1> QED
  BY <1>1, <1>3, <1>5

-----------------------------------------------------------------------------
(* The steps of the queue *)

PortOK ==
  /\ QueueOK(queue)
  /\ transmitting \in Packet \cup {NoPacket}
  /\ qpe \in {"none", "now", "later"}
  /\ sent \subseteq Packet /\ left \subseteq Packet /\ dropped \subseteq Packet
  /\ EventInStep
  /\ OnePlace
  /\ OneData(ToSet(queue) \cup OnWire)

LEMMA EmptyQueue == ToSet(<< >>) = {}
  BY DEF ToSet

(* A packet meets an idle queue. *)
LEMMA PutIdleStep ==
  ASSUME PortOK, config.type \in QueueTypes,
         NEW p \in Packet, p \notin sent, PutIdle(p)
  PROVE  PortOK' /\ sent' = sent \cup {p}
<1>1. /\ queue = << >> /\ ToSet(queue) = {} /\ OnWire = {} /\ qpe = "none"
      /\ sent = left \cup dropped /\ left \cap dropped = {}
      /\ sent \subseteq Packet /\ left \subseteq Packet /\ dropped \subseteq Packet
      /\ QueueOK(queue)
  BY EmptyQueue DEF PortOK, EventInStep, OnePlace, OnWire, PutIdle
<1>2. /\ qpe' = "now" /\ transmitting' = p /\ queue' \in Enqued(queue, p)
      /\ sent' = sent \cup {p} /\ left' = left
      /\ dropped' = dropped \cup
           {x \in sent' : /\ x \notin ToSet(queue') /\ x \notin left
                          /\ \/ x \in ToSet(queue) \cup {p}
                             \/ x = transmitting /\ x # transmitting'}
  BY DEF PutIdle, Drop
<1>3. QueueOK(queue') /\ ToSet(queue') \subseteq {p}
  <2>1. p \notin ToSet(queue) /\ OneData(ToSet(queue) \cup {p})
    BY <1>1 DEF OneData
  <2>2. QueueOK(queue') /\ ToSet(queue') \subseteq ToSet(queue) \cup {p}
    BY <1>1, <1>2, <2>1, EnquedOK
  <2> QED
    BY <1>1, <2>2
<1>4. OnWire' = {}
  BY <1>2 DEF OnWire
<1>5. EventInStep'
  BY <1>2 DEF EventInStep
<1>6. OnePlace'
  <2>1. dropped' = dropped \cup ({p} \ ToSet(queue'))
    BY <1>1, <1>2, <1>3
  <2>2. p \notin left /\ p \notin dropped
    BY <1>1
  <2>3. sent' = ToSet(queue') \cup OnWire' \cup left' \cup dropped'
    BY <1>1, <1>2, <1>3, <1>4, <2>1
  <2>4. ToSet(queue') \cap left' = {} /\ ToSet(queue') \cap dropped' = {}
    BY <1>2, <1>3, <2>1, <2>2
  <2>5. left' \cap dropped' = {}
    BY <1>1, <1>2, <2>1, <2>2
  <2> QED
    BY <1>4, <2>3, <2>4, <2>5 DEF OnePlace
<1>7. OneData(ToSet(queue') \cup OnWire')
  BY <1>3, <1>4 DEF OneData
<1>8. sent' \subseteq Packet /\ left' \subseteq Packet /\ dropped' \subseteq Packet
  BY <1>1, <1>2
<1> QED
  BY <1>2, <1>3, <1>5, <1>6, <1>7, <1>8 DEF PortOK

(* A control packet takes the place of the one on the wire, which goes back
   into the queue, or is dropped. *)
LEMMA PreemptStep ==
  ASSUME PortOK, config.type \in QueueTypes,
         NEW p \in Packet, p \notin sent, p.kind # "data", qpe = "later",
         qpe' = "now", transmitting' = p,
         \E b \in Preempted : left' = b[2] /\ queue' \in Enqued(b[1], p),
         sent' = sent \cup {p}, Drop(p)
  PROVE  PortOK'
<1> DEFINE t == transmitting
<1>1. /\ t \in Packet /\ OnWire = {t}
      /\ sent = ToSet(queue) \cup {t} \cup left \cup dropped
      /\ ToSet(queue) \cap left = {} /\ ToSet(queue) \cap dropped = {}
      /\ left \cap dropped = {} /\ t \notin ToSet(queue) \cup left \cup dropped
      /\ sent \subseteq Packet /\ left \subseteq Packet /\ dropped \subseteq Packet
      /\ QueueOK(queue) /\ OneData(ToSet(queue) \cup {t})
  BY DEF PortOK, EventInStep, OnePlace, OnWire
<1>2. PICK q \in Enqued(queue, t) : left' = left /\ queue' \in Enqued(q, p)
  BY DEF Preempted
<1>3. dropped' = dropped \cup
        {x \in sent' : /\ x \notin ToSet(queue') /\ x \notin left
                       /\ \/ x \in ToSet(queue) \cup {p}
                          \/ x = t /\ x # p}
  BY DEF Drop
<1> HIDE DEF t
<1>4. QueueOK(q) /\ ToSet(q) \subseteq ToSet(queue) \cup {t}
  BY <1>1, <1>2, EnquedOK
<1>5. QueueOK(queue') /\ ToSet(queue') \subseteq ToSet(queue) \cup {t, p}
  <2>1. p \notin ToSet(q) /\ OneData(ToSet(q) \cup {p})
    BY <1>1, <1>4 DEF OneData
  <2>2. QueueOK(queue') /\ ToSet(queue') \subseteq ToSet(q) \cup {p}
    BY <1>2, <1>4, <2>1, EnquedOK
  <2> QED
    BY <1>4, <2>2
<1>6. OnWire' = {}
  BY DEF OnWire
<1>7. EventInStep'
  BY DEF EventInStep
<1>8. OnePlace'
  <2>1. p # t /\ p \notin left /\ p \notin dropped
    BY <1>1
  <2>2. dropped' = dropped \cup ((ToSet(queue) \cup {t, p}) \ ToSet(queue'))
    BY <1>1, <1>3, <2>1
  <2>3. sent' = ToSet(queue') \cup left' \cup dropped'
    BY <1>1, <1>2, <1>5, <2>2
  <2>4. ToSet(queue') \cap left' = {} /\ ToSet(queue') \cap dropped' = {}
    BY <1>1, <1>2, <1>5, <2>1, <2>2
  <2>5. left' \cap dropped' = {}
    BY <1>1, <1>2, <2>1, <2>2
  <2> QED
    BY <1>6, <2>3, <2>4, <2>5 DEF OnePlace
<1>9. OneData(ToSet(queue') \cup OnWire')
  BY <1>5, <1>6, <1>1 DEF OneData
<1>10. sent' \subseteq Packet /\ left' \subseteq Packet /\ dropped' \subseteq Packet
  BY <1>1, <1>2, <1>3
<1> QED
  BY <1>5, <1>7, <1>8, <1>9, <1>10 DEF PortOK

(* A control packet joins the queue while another is on its way. *)
LEMMA JoinStep ==
  ASSUME PortOK, config.type \in QueueTypes,
         NEW p \in Packet, p \notin sent, p.kind # "data", qpe # "none",
         queue' \in Enqued(queue, p), UNCHANGED <<qpe, transmitting, left>>,
         sent' = sent \cup {p}, Drop(p)
  PROVE  PortOK'
<1>1. /\ transmitting \in Packet /\ qpe \in {"none", "now", "later"}
      /\ sent = ToSet(queue) \cup OnWire \cup left \cup dropped
      /\ ToSet(queue) \cap OnWire = {} /\ ToSet(queue) \cap left = {}
      /\ ToSet(queue) \cap dropped = {} /\ OnWire \cap left = {}
      /\ OnWire \cap dropped = {} /\ left \cap dropped = {}
      /\ sent \subseteq Packet /\ left \subseteq Packet /\ dropped \subseteq Packet
      /\ QueueOK(queue) /\ OneData(ToSet(queue) \cup OnWire)
  BY DEF PortOK, EventInStep, OnePlace
<1>2. dropped' = dropped \cup
        {x \in sent' : /\ x \notin ToSet(queue') /\ x \notin left
                       /\ x \in ToSet(queue) \cup {p}}
  BY DEF Drop
<1>3. OnWire' = OnWire
  BY DEF OnWire
<1>4. p \notin ToSet(queue) /\ p \notin OnWire /\ p \notin left /\ p \notin dropped
  BY <1>1
<1>5. QueueOK(queue') /\ ToSet(queue') \subseteq ToSet(queue) \cup {p}
  <2>1. OneData(ToSet(queue) \cup {p})
    BY <1>1 DEF OneData
  <2> QED
    BY <1>1, <1>4, <2>1, EnquedOK
<1>6. dropped' = dropped \cup ((ToSet(queue) \cup {p}) \ ToSet(queue'))
  BY <1>1, <1>2, <1>4
<1>7. OnePlace'
  <2>1. sent' = ToSet(queue') \cup OnWire' \cup left' \cup dropped'
    BY <1>1, <1>3, <1>5, <1>6
  <2>2. /\ ToSet(queue') \cap OnWire' = {} /\ ToSet(queue') \cap left' = {}
        /\ ToSet(queue') \cap dropped' = {}
    BY <1>1, <1>3, <1>4, <1>5, <1>6
  <2>3. /\ OnWire' \cap left' = {} /\ OnWire' \cap dropped' = {}
        /\ left' \cap dropped' = {}
    BY <1>1, <1>3, <1>4, <1>6
  <2> QED
    BY <2>1, <2>2, <2>3 DEF OnePlace
<1>8. OneData(ToSet(queue') \cup OnWire')
  BY <1>1, <1>3, <1>5 DEF OneData
<1>9. EventInStep'
  BY <1>1 DEF EventInStep
<1>10. sent' \subseteq Packet /\ left' \subseteq Packet /\ dropped' \subseteq Packet
  BY <1>1, <1>2
<1> QED
  BY <1>1, <1>5, <1>7, <1>8, <1>9, <1>10 DEF PortOK

(* A data packet is put into an idle queue only. *)
LEMMA PutStep ==
  ASSUME PortOK, config.type \in QueueTypes,
         NEW p \in Packet, p \notin sent, p.kind = "data" => qpe = "none", Put(p)
  PROVE  PortOK' /\ sent' = sent \cup {p}
<1>1. CASE PutIdle(p)
  BY <1>1, PutIdleStep
<1>2. CASE PutBusy(p)
  <2>1. /\ p.kind # "data" /\ qpe # "none" /\ sent' = sent \cup {p} /\ Drop(p)
        /\ \/ /\ Preempts(p) /\ qpe' = "now" /\ transmitting' = p
              /\ \E b \in Preempted : left' = b[2] /\ queue' \in Enqued(b[1], p)
           \/ /\ queue' \in Enqued(queue, p)
              /\ UNCHANGED <<qpe, transmitting, left>>
    BY <1>2 DEF PutBusy
  <2>2. CASE /\ Preempts(p) /\ qpe' = "now" /\ transmitting' = p
             /\ \E b \in Preempted : left' = b[2] /\ queue' \in Enqued(b[1], p)
    <3>1. qpe = "later"
      BY <2>2 DEF Preempts
    <3> QED
      BY <2>1, <2>2, <3>1, PreemptStep
  <2>3. CASE queue' \in Enqued(queue, p) /\ UNCHANGED <<qpe, transmitting, left>>
    BY <2>1, <2>3, JoinStep
  <2> QED
    BY <2>1, <2>2, <2>3
<1> QED
  BY <1>1, <1>2 DEF Put

(* The packet on the wire is through and the next one is taken. *)
LEMMA QueueProcessingStep ==
  ASSUME PortOK, QueueProcessing
  PROVE  PortOK'
<1>1. /\ transmitting \in Packet /\ qpe \in {"now", "later"}
      /\ sent = ToSet(queue) \cup OnWire \cup left \cup dropped
      /\ ToSet(queue) \cap OnWire = {} /\ ToSet(queue) \cap left = {}
      /\ ToSet(queue) \cap dropped = {} /\ OnWire \cap left = {}
      /\ OnWire \cap dropped = {} /\ left \cap dropped = {}
      /\ sent \subseteq Packet /\ left \subseteq Packet /\ dropped \subseteq Packet
      /\ QueueOK(queue) /\ OneData(ToSet(queue) \cup OnWire)
  BY DEF PortOK, EventInStep, OnePlace, QueueProcessing
<1>2. /\ left' = left \cup OnWire /\ sent' = sent /\ dropped' = dropped
  BY DEF QueueProcessing, OnWire
<1>3. left' \subseteq Packet
  BY <1>1, <1>2
<1>4. CASE queue # << >>
  <2> DEFINE n == DequeIndex
  <2>1. /\ transmitting' = queue[n] /\ queue' = RemoveAt(queue, n) /\ qpe' = "later"
    BY <1>4 DEF QueueProcessing
  <2>2. /\ queue \in Seq(Packet) /\ NoneTwice(queue) /\ OneData(ToSet(queue))
        /\ BytesIn(queue) <= LimitBytes
    BY <1>1 DEF QueueOK
  <2>3. n \in 1..Len(queue)
    BY <1>4, <2>2, DequeIndexOK
  <2> HIDE DEF n
  <2>4. queue[n] \in ToSet(queue) /\ queue[n] \in Packet
    BY <2>2, <2>3, Contents
  <2>5. /\ queue' \in Seq(Packet) /\ NoneTwice(queue') /\ OneData(ToSet(queue'))
        /\ ToSet(queue') = ToSet(queue) \ {queue[n]}
        /\ BytesIn(queue) \in Int /\ BytesIn(queue') \in Int
        /\ BytesIn(queue') <= BytesIn(queue) - 1
    BY <2>1, <2>2, <2>3, BytesOfRemoved
  <2>6. QueueOK(queue')
    <3>1. BytesIn(queue') <= LimitBytes
      BY <2>2, <2>5, BytesAssumption
    <3> QED
      BY <2>5, <3>1 DEF QueueOK
  <2>7. OnWire' = {queue[n]}
    BY <2>1 DEF OnWire
  <2>8. OnePlace'
    <3>1. sent' = ToSet(queue') \cup OnWire' \cup left' \cup dropped'
      BY <1>1, <1>2, <2>4, <2>5, <2>7
    <3>2. /\ ToSet(queue') \cap OnWire' = {} /\ ToSet(queue') \cap left' = {}
          /\ ToSet(queue') \cap dropped' = {}
      BY <1>1, <1>2, <2>5, <2>7
    <3>3. /\ OnWire' \cap left' = {} /\ OnWire' \cap dropped' = {}
          /\ left' \cap dropped' = {}
      BY <1>1, <1>2, <2>4, <2>7
    <3> QED
      BY <3>1, <3>2, <3>3 DEF OnePlace
  <2>9. OneData(ToSet(queue') \cup OnWire')
    BY <2>2, <2>4, <2>5, <2>7 DEF OneData
  <2>10. EventInStep' /\ transmitting' \in Packet
    BY <2>1, <2>4 DEF EventInStep
  <2> QED
    BY <1>1, <1>2, <1>3, <2>1, <2>6, <2>8, <2>9, <2>10 DEF PortOK
<1>5. CASE queue = << >>
  <2>1. transmitting' = NoPacket /\ qpe' = "none" /\ queue' = queue
    BY <1>5 DEF QueueProcessing
  <2>2. ToSet(queue') = {} /\ ToSet(queue) = {} /\ OnWire' = {}
    BY <1>5, <2>1, EmptyQueue DEF OnWire
  <2>3. OnePlace'
    BY <1>1, <1>2, <2>2 DEF OnePlace
  <2>4. OneData(ToSet(queue') \cup OnWire')
    BY <2>2 DEF OneData
  <2>5. EventInStep'
    BY <1>5, <2>1 DEF EventInStep
  <2>6. QueueOK(queue')
    BY <1>1, <2>1
  <2> QED
    BY <1>1, <1>2, <1>3, <2>1, <2>3, <2>4, <2>5, <2>6 DEF PortOK
<1> QED
  BY <1>4, <1>5

-----------------------------------------------------------------------------
(* The steps of the host *)

HostOK ==
  /\ config \in [type : QueueTypes, preemptive : BOOLEAN]
  /\ st \in [Flows -> {"new", "active", "acked", "finished"}]
  /\ tokens \in [Flows -> [used : Nat, given : Nat]]
  /\ hostEvt \in BOOLEAN
  /\ TokensInOrder
  /\ NumbersUsed

LEMMA IInvParts ==
  /\ IInv <=> (PortOK /\ HostOK)
  /\ IInv' <=> (PortOK' /\ HostOK')
<1>1. OneData(ToSet(queue) \cup OnWire) => OneData(ToSet(queue))
  BY DEF OneData
<1>2. OneData(ToSet(queue) \cup OnWire)' => OneData(ToSet(queue))'
  BY DEF OneData
<1>3. IInv <=> (PortOK /\ HostOK)
  BY <1>1 DEF IInv, TypeOK, PortOK, QueueOK, HostOK
<1>4. IInv' <=> (PortOK' /\ HostOK')
  BY <1>2 DEF IInv, TypeOK, PortOK, QueueOK, HostOK
<1> QED
  BY <1>3, <1>4

LEMMA PortUnchanged ==
  ASSUME PortOK, UNCHANGED portVars
  PROVE  PortOK'
  BY DEF portVars, PortOK, QueueOK, EventInStep, OnePlace, OnWire

(* Tokens are used up and flows go on, but nothing is sent. *)
LEMMA NothingSent ==
  ASSUME IInv, UNCHANGED <<config, portVars>>, hostEvt' \in BOOLEAN,
         st' \in [Flows -> {"new", "active", "acked", "finished"}],
         \A f \in Flows : st'[f] = "new" => st[f] = "new" /\ tokens'[f] = tokens[f],
         \A f \in Flows : st[f] = "new" => st'[f] = "new",
         tokens' \in [Flows -> [used : Nat, given : Nat]],
         \A f \in Flows : /\ tokens[f].used <= tokens'[f].used
                          /\ tokens'[f].used <= tokens'[f].given
  PROVE  IInv'
<1>1. PortOK'
  BY PortUnchanged, IInvParts
<1>2. tokens \in [Flows -> [used : Nat, given : Nat]] /\ TokensInOrder /\ NumbersUsed
  BY DEF IInv, TypeOK
<1>3. sent' = sent /\ sent \subseteq Packet
  BY DEF portVars, IInv, TypeOK
<1>4. TokensInOrder'
  BY <1>2 DEF TokensInOrder
<1>5. NumbersUsed'
  <2>1. ASSUME NEW p \in sent, p.kind = "data"
        PROVE  p.flow \in Flows /\ p.num < tokens'[p.flow].used
    <3>1. p.flow \in Flows /\ p.num < tokens[p.flow].used /\ p.num \in Nat
      BY <1>2, <1>3, <2>1 DEF NumbersUsed, Packet
    <3>2. tokens[p.flow].used \in Nat /\ tokens'[p.flow].used \in Nat
      BY <1>2, <3>1
    <3> QED
      BY <3>1, <3>2
  <2>2. ASSUME NEW p \in sent, p.kind = "rts"
        PROVE  p.flow \in Flows /\ st'[p.flow] # "new"
    BY <1>2, <2>2 DEF NumbersUsed
  <2> QED
    BY <1>3, <2>1, <2>2 DEF NumbersUsed
<1>6. HostOK'
  BY <1>4, <1>5, IInvParts DEF HostOK
<1> QED
  BY <1>1, <1>6, IInvParts

(* has_token of the flows tried: what they hold is void. *)
LEMMA TriedTokens ==
  ASSUME IInv, NEW fs \in SUBSET Sending
  PROVE  /\ Tried(fs) \in [Flows -> [used : Nat, given : Nat]]
         /\ \A g \in Flows \ fs : Tried(fs)[g] = tokens[g]
         /\ \A g \in Flows : /\ tokens[g].used <= Tried(fs)[g].used
                             /\ Tried(fs)[g].used <= Tried(fs)[g].given
         /\ \A g \in Flows : st[g] = "new" => Tried(fs)[g] = tokens[g]
<1>1. /\ tokens \in [Flows -> [used : Nat, given : Nat]]
      /\ \A g \in Flows : tokens[g].used <= tokens[g].given
  BY DEF IInv, TypeOK, TokensInOrder
<1>2. \A g \in fs : g \in Flows /\ st[g] # "new"
  BY DEF Sending
<1>3. ASSUME NEW g \in Flows
      PROVE  Tried(fs)[g] = IF g \in fs THEN [tokens[g] EXCEPT !.used = tokens[g].given]
                            ELSE tokens[g]
  BY DEF Tried
<1>4. ASSUME NEW g \in Flows
      PROVE  /\ Tried(fs)[g] \in [used : Nat, given : Nat]
             /\ tokens[g].used <= Tried(fs)[g].used
             /\ Tried(fs)[g].used <= Tried(fs)[g].given
  <2>1. /\ tokens[g] \in [used : Nat, given : Nat]
        /\ tokens[g].used <= tokens[g].given
    BY <1>1
  <2>2. tokens[g].used \in Nat /\ tokens[g].given \in Nat
    BY <2>1
  <2> DEFINE t == tokens[g]
             u == [t EXCEPT !.used = t.given]
  <2>3. u \in [used : Nat, given : Nat] /\ u.used = t.given /\ u.given = t.given
    <3> HIDE DEF t
    <3>1. t \in [used : Nat, given : Nat]
      BY <2>1 DEF t
    <3> QED
      BY <3>1
  <2>4. Tried(fs)[g] = IF g \in fs THEN u ELSE t
    BY <1>3
  <2> HIDE DEF u
  <2>5. CASE g \in fs
    BY <2>1, <2>2, <2>3, <2>4, <2>5
  <2>6. CASE g \notin fs
    BY <2>1, <2>2, <2>4, <2>6
  <2> QED
    BY <2>5, <2>6
<1>5. Tried(fs) \in [Flows -> [used : Nat, given : Nat]]
  <2>1. Tried(fs) = [g \in Flows |-> Tried(fs)[g]]
    BY DEF Tried
  <2> QED
    BY <1>4, <2>1
<1> QED
  BY <1>2, <1>3, <1>4, <1>5

LEMMA QueueProcessingKeepsIInv ==
  ASSUME IInv, QueueProcessing
  PROVE  IInv'
<1>1. PortOK'
  BY QueueProcessingStep, IInvParts
<1>2. UNCHANGED <<config, sent, hostVars>>
  BY DEF QueueProcessing
<1>3. HostOK'
  BY <1>2, IInvParts DEF HostOK, hostVars, TokensInOrder, NumbersUsed
<1> QED
  BY <1>1, <1>3, IInvParts

LEMMA StartFlowStep ==
  ASSUME IInv, NEW f \in Flows, StartFlow(f)
  PROVE  IInv'
<1> DEFINE p == Rts(f)
<1>1. /\ p \in Packet /\ p.kind = "rts" /\ p.flow = f /\ p.kind # "data"
  BY DEF Rts, Packet
<1>2. /\ st[f] = "new" /\ st' = [st EXCEPT ![f] = "active"]
      /\ tokens' = [tokens EXCEPT ![f].given = InitTokenSize(f)]
      /\ hostEvt' = (hostEvt \/ InitTokenSize(f) > 0) /\ Put(p) /\ config' = config
  BY DEF StartFlow
<1> HIDE DEF p
<1>3. /\ HostOK /\ PortOK /\ config.type \in QueueTypes
  BY IInvParts DEF HostOK
<1>4. p \notin sent
  BY <1>1, <1>2, <1>3 DEF HostOK, NumbersUsed
<1>5. PortOK' /\ sent' = sent \cup {p}
  BY <1>1, <1>2, <1>3, <1>4, PutStep
<1>6. InitTokenSize(f) \in Nat
  BY SizeAssumption DEF InitTokenSize
<1>7. /\ st \in [Flows -> {"new", "active", "acked", "finished"}]
      /\ tokens \in [Flows -> [used : Nat, given : Nat]] /\ hostEvt \in BOOLEAN
      /\ TokensInOrder /\ NumbersUsed
  BY <1>3 DEF HostOK
<1>8. /\ st'[f] = "active" /\ \A g \in Flows : g # f => st'[g] = st[g]
      /\ tokens'[f].used = tokens[f].used /\ tokens'[f].given = InitTokenSize(f)
      /\ \A g \in Flows : g # f => tokens'[g] = tokens[g]
      /\ tokens' \in [Flows -> [used : Nat, given : Nat]]
      /\ st' \in [Flows -> {"new", "active", "acked", "finished"}]
  BY <1>2, <1>6, <1>7
<1>9. TokensInOrder'
  <2>1. tokens'[f].used <= tokens'[f].given
    BY <1>2, <1>6, <1>7, <1>8 DEF TokensInOrder
  <2> QED
    BY <1>7, <1>8, <2>1 DEF TokensInOrder
<1>10. NumbersUsed'
  <2>1. \A g \in Flows : tokens'[g].used = tokens[g].used
    BY <1>8
  <2>2. \A g \in Flows : st[g] # "new" => st'[g] # "new"
    BY <1>8
  <2> QED
    BY <1>1, <1>5, <1>7, <1>8, <2>1, <2>2 DEF NumbersUsed
<1>11. hostEvt' \in BOOLEAN
  BY <1>2
<1>12. HostOK'
  BY <1>2, <1>3, <1>8, <1>9, <1>10, <1>11 DEF HostOK
<1> QED
  BY <1>5, <1>12, IInvParts

LEMMA SendControlStep ==
  ASSUME IInv, NEW f \in Peers, NEW k \in Control, SendControl(f, k)
  PROVE  IInv'
<1>1. k \in Packet /\ k.kind # "data" /\ k.kind # "rts"
  BY BoundAssumption DEF Control, Packet
<1>2. /\ HostOK /\ PortOK /\ config.type \in QueueTypes
  BY IInvParts DEF HostOK
<1>3. k \notin sent /\ Put(k) /\ UNCHANGED <<config, hostVars>>
  BY DEF SendControl
<1>4. PortOK' /\ sent' = sent \cup {k}
  BY <1>1, <1>2, <1>3, PutStep
<1>5. HostOK'
  BY <1>1, <1>2, <1>3, <1>4 DEF HostOK, hostVars, TokensInOrder, NumbersUsed
<1> QED
  BY <1>4, <1>5, IInvParts

LEMMA SendDataStep ==
  ASSUME IInv, NEW f \in Sending, SendData(f)
  PROVE  IInv'
<1>1. PICK i \in Held(f), fs \in SUBSET (Sending \ {f}) :
        tokens' = [Tried(fs) EXCEPT ![f].used = i + 1] /\ Put(Data(f, i))
  BY DEF SendData
<1> DEFINE p == Data(f, i)
<1>2. /\ HostOK /\ PortOK /\ config.type \in QueueTypes
      /\ tokens \in [Flows -> [used : Nat, given : Nat]]
      /\ TokensInOrder /\ NumbersUsed
  BY IInvParts DEF HostOK
<1>3. f \in Flows /\ st[f] # "new" /\ f \notin fs /\ fs \subseteq Sending
  BY DEF Sending
<1>4. /\ tokens[f].used \in Nat /\ tokens[f].given \in Nat /\ i \in Nat
      /\ tokens[f].used <= i /\ i + 1 <= tokens[f].given
  <2>1. tokens[f].used \in Nat /\ tokens[f].given \in Nat
    BY <1>2, <1>3
  <2>2. i \in tokens[f].used..tokens[f].given - 1
    BY DEF Held
  <2> QED
    BY <2>1, <2>2
<1>5. /\ p \in Packet /\ p.kind = "data" /\ p.flow = f /\ p.num = i
  BY <1>3, <1>4 DEF Data, Packet
<1>6. Put(p) /\ qpe = "none" /\ UNCHANGED <<config, st, hostEvt>>
  BY <1>1 DEF SendData, MaySend
<1> HIDE DEF p
<1>7. p \notin sent
  BY <1>2, <1>4, <1>5 DEF NumbersUsed
<1>8. PortOK' /\ sent' = sent \cup {p}
  BY <1>2, <1>5, <1>6, <1>7, PutStep
<1>9. /\ Tried(fs) \in [Flows -> [used : Nat, given : Nat]]
      /\ \A g \in Flows \ fs : Tried(fs)[g] = tokens[g]
      /\ \A g \in Flows : /\ tokens[g].used <= Tried(fs)[g].used
                          /\ Tried(fs)[g].used <= Tried(fs)[g].given
      /\ \A g \in Flows : st[g] = "new" => Tried(fs)[g] = tokens[g]
  BY <1>3, TriedTokens
<1>10. /\ tokens' \in [Flows -> [used : Nat, given : Nat]]
       /\ tokens'[f].used = i + 1 /\ tokens'[f].given = tokens[f].given
       /\ \A g \in Flows : g # f => tokens'[g] = Tried(fs)[g]
  <2>1. Tried(fs)[f] = tokens[f]
    BY <1>3, <1>9
  <2> QED
    BY <1>1, <1>3, <1>4, <1>9, <2>1
<1>11. ASSUME NEW g \in Flows
       PROVE  /\ tokens[g].used <= tokens'[g].used
              /\ tokens'[g].used <= tokens'[g].given
              /\ st[g] = "new" => tokens'[g] = tokens[g]
  <2>1. CASE g = f
    BY <1>3, <1>4, <1>10, <2>1
  <2>2. CASE g # f
    BY <1>9, <1>10, <2>2
  <2> QED
    BY <2>1, <2>2
<1>12. TokensInOrder'
  BY <1>2, <1>6, <1>11 DEF TokensInOrder
<1>13. NumbersUsed'
  <2>1. ASSUME NEW x \in sent, x.kind = "data"
        PROVE  x.flow \in Flows /\ x.num < tokens'[x.flow].used
    <3>1. /\ x.flow \in Flows /\ x.num < tokens[x.flow].used /\ x.num \in Nat
      BY <1>2, <2>1 DEF NumbersUsed, Packet, PortOK
    <3>2. tokens[x.flow].used \in Nat /\ tokens'[x.flow].used \in Nat
      BY <1>2, <1>10, <3>1
    <3> QED
      BY <1>11, <3>1, <3>2
  <2>2. p.num < tokens'[p.flow].used
    BY <1>4, <1>5, <1>10
  <2> QED
    BY <1>2, <1>3, <1>5, <1>6, <1>8, <2>1, <2>2 DEF NumbersUsed
<1>14. HostOK'
  BY <1>2, <1>6, <1>10, <1>12, <1>13 DEF HostOK
<1> QED
  BY <1>8, <1>14, IInvParts

(* What the other steps do to the tokens and the flows. *)
LEMMA QuietStep ==
  ASSUME IInv,
         \/ \E f \in Flows : ReceiveToken(f) \/ ReceiveAck(f) \/ FlowFinished(f)
         \/ SendNothing
         \/ UNCHANGED vars
  PROVE  IInv'
<1>1. /\ st \in [Flows -> {"new", "active", "acked", "finished"}]
      /\ tokens \in [Flows -> [used : Nat, given : Nat]] /\ hostEvt \in BOOLEAN
      /\ \A g \in Flows : tokens[g].used <= tokens[g].given
  BY DEF IInv, TypeOK, TokensInOrder
<1>2. ASSUME NEW f \in Flows, ReceiveToken(f) PROVE IInv'
  <2>1. /\ st[f] # "new" /\ UNCHANGED <<config, portVars, st>> /\ hostEvt' \in BOOLEAN
        /\ tokens' = [tokens EXCEPT ![f].given = @ + 1]
    BY <1>2 DEF ReceiveToken, Sending, Woken
  <2>2. /\ tokens' \in [Flows -> [used : Nat, given : Nat]]
        /\ tokens'[f].used = tokens[f].used /\ tokens'[f].given = tokens[f].given + 1
        /\ \A g \in Flows : g # f => tokens'[g] = tokens[g]
    BY <1>1, <2>1
  <2>3. ASSUME NEW g \in Flows
        PROVE  /\ tokens[g].used <= tokens'[g].used
               /\ tokens'[g].used <= tokens'[g].given
    <3>1. tokens[g].used \in Nat /\ tokens[g].given \in Nat
      BY <1>1
    <3> QED
      BY <1>1, <2>2, <3>1
  <2> QED
    BY <1>1, <2>1, <2>2, <2>3, NothingSent
<1>3. ASSUME NEW f \in Flows, ReceiveAck(f) PROVE IInv'
  <2>1. /\ st[f] # "new" /\ st' = [st EXCEPT ![f] = "acked"]
        /\ UNCHANGED <<config, portVars, hostEvt>>
        /\ tokens' = [tokens EXCEPT ![f].used = tokens[f].given]
    BY <1>3 DEF ReceiveAck
  <2>2. /\ tokens' \in [Flows -> [used : Nat, given : Nat]]
        /\ tokens'[f].used = tokens[f].given /\ tokens'[f].given = tokens[f].given
        /\ \A g \in Flows : g # f => tokens'[g] = tokens[g]
        /\ st' \in [Flows -> {"new", "active", "acked", "finished"}]
        /\ st'[f] = "acked" /\ \A g \in Flows : g # f => st'[g] = st[g]
    BY <1>1, <2>1
  <2>3. ASSUME NEW g \in Flows
        PROVE  /\ tokens[g].used <= tokens'[g].used
               /\ tokens'[g].used <= tokens'[g].given
    <3>1. tokens[g].used \in Nat /\ tokens[g].given \in Nat
      BY <1>1
    <3> QED
      BY <1>1, <2>2, <3>1
  <2> QED
    BY <1>1, <2>1, <2>2, <2>3, NothingSent
<1>4. ASSUME NEW f \in Flows, FlowFinished(f) PROVE IInv'
  <2>1. /\ st[f] # "new" /\ st' = [st EXCEPT ![f] = "finished"]
        /\ UNCHANGED <<config, portVars, tokens, hostEvt>>
    BY <1>4 DEF FlowFinished
  <2>2. ASSUME NEW g \in Flows
        PROVE  tokens[g].used <= tokens'[g].used /\ tokens'[g].used <= tokens'[g].given
    <3>1. tokens[g].used \in Nat /\ tokens[g].given \in Nat
      BY <1>1
    <3> QED
      BY <1>1, <2>1, <3>1
  <2> QED
    BY <1>1, <2>1, <2>2, NothingSent
<1>5. ASSUME SendNothing PROVE IInv'
  <2>1. /\ tokens' = Tried(Sending) /\ hostEvt' \in BOOLEAN
        /\ UNCHANGED <<config, portVars, st>>
    BY <1>5 DEF SendNothing
  <2> QED
    BY <1>1, <2>1, TriedTokens, NothingSent
<1>6. ASSUME UNCHANGED vars PROVE IInv'
  <2>1. UNCHANGED <<config, portVars, st, tokens, hostEvt>>
    BY <1>6 DEF vars, hostVars
  <2>2. ASSUME NEW g \in Flows
        PROVE  tokens[g].used <= tokens'[g].used /\ tokens'[g].used <= tokens'[g].given
    <3>1. tokens[g].used \in Nat /\ tokens[g].given \in Nat
      BY <1>1
    <3> QED
      BY <1>1, <2>1, <3>1
  <2> QED
    BY <1>1, <2>1, <2>2, NothingSent
<1> QED
  BY <1>2, <1>3, <1>4, <1>5, <1>6

LEMMA InitIInv == Init => IInv
<1> SUFFICES ASSUME Init PROVE IInv
  OBVIOUS
<1> USE DEF Init
<1>1. << >> \in Seq(Packet) /\ Len(<< >>) = 0
  BY EmptySeq
<1>2. NoneTwice(<< >>) /\ OneData(ToSet(<< >>))
  BY EmptyQueue DEF NoneTwice, OneData
<1>3. BytesIn(<< >>) <= LimitBytes
  <2>1. BytesIn(<< >>) = Len(<< >>)
    BY <1>1, <1>2, EmptyQueue, BytesOfQueue
  <2> QED
    BY <1>1, <2>1, BytesAssumption
<1>4. PortOK
  <2>1. OnWire = {}
    BY DEF OnWire
  <2> QED
    BY <1>1, <1>2, <1>3, <2>1, EmptyQueue
    DEF PortOK, QueueOK, EventInStep, OnePlace, OneData
<1>5. HostOK
  <2>1. /\ tokens \in [Flows -> [used : Nat, given : Nat]]
        /\ \A f \in Flows : tokens[f].used = 0 /\ tokens[f].given = 0
    OBVIOUS
  <2>2. TokensInOrder /\ NumbersUsed
    BY <2>1 DEF TokensInOrder, NumbersUsed
  <2> QED
    BY <2>1, <2>2 DEF HostOK
<1> QED
  BY <1>4, <1>5, IInvParts

(* IInv holds of every reachable state. *)
THEOREM IInvInvariant == Spec => []IInv
<1>1. ASSUME IInv, [Next]_vars PROVE IInv'
  <2>1. CASE QueueProcessing
    BY <1>1, <2>1, QueueProcessingKeepsIInv
  <2>2. CASE \E f \in Flows : StartFlow(f)
    BY <1>1, <2>2, StartFlowStep
  <2>3. CASE \E f \in Flows : ReceiveToken(f) \/ ReceiveAck(f) \/ FlowFinished(f)
    BY <1>1, <2>3, QuietStep
  <2>4. CASE \E f \in Peers, k \in Control : SendControl(f, k)
    BY <1>1, <2>4, SendControlStep
  <2>5. CASE SendNothing
    BY <1>1, <2>5, QuietStep
  <2>6. CASE \E f \in Sending : SendData(f)
    BY <1>1, <2>6, SendDataStep
  <2>7. CASE UNCHANGED vars
    BY <1>1, <2>7, QuietStep
  <2> QED
    BY <1>1, <2>1, <2>2, <2>3, <2>4, <2>5, <2>6, <2>7 DEF Next, HostProcessing
<1> QED
  BY <1>1, InitIInv, PTL DEF Spec

-----------------------------------------------------------------------------
(* The properties *)

(* The port is in one of its states, and the queue within its limit. *)
THEOREM TypeCorrect == Spec => []TypeOK
<1>1. IInv => TypeOK
  BY DEF IInv
<1> QED
  BY <1>1, IInvInvariant, PTL

(* A host has at most one data packet in its own queue or on its wire:
   whatever is preempted, dropped or put in between, a data packet is put
   into an idle queue only. *)
THEOREM OneDataAtATime == Spec => []OneDataPacket
<1>1. ASSUME IInv PROVE OneDataPacket
  <2> DEFINE inQueue == {i \in DOMAIN queue : queue[i].kind = "data"}
             onWire == IF qpe = "later" /\ transmitting.kind = "data" THEN 1 ELSE 0
  <2> SUFFICES Cardinality(inQueue) + onWire <= 1
    BY DEF OneDataPacket
  <2>1. /\ queue \in Seq(Packet) /\ NoneTwice(queue)
        /\ OneData(ToSet(queue) \cup OnWire) /\ ToSet(queue) \cap OnWire = {}
    BY <1>1 DEF IInv, TypeOK, OnePlace
  <2>2. /\ DOMAIN queue = 1..Len(queue)
        /\ \A i \in DOMAIN queue : queue[i] \in ToSet(queue)
    BY <2>1, Contents
  <2>3. qpe = "later" => OnWire = {transmitting}
    BY DEF OnWire
  <2>4. CASE inQueue = {}
    <3>1. Cardinality(inQueue) = 0
      BY <2>4, FS_EmptySet
    <3> HIDE DEF inQueue
    <3> QED
      BY <3>1
  <2>5. CASE inQueue # {}
    <3>1. PICK i \in DOMAIN queue : queue[i].kind = "data"
      BY <2>5
    <3>2. inQueue = {i}
      BY <2>1, <2>2, <3>1 DEF OneData, NoneTwice
    <3>3. Cardinality(inQueue) = 1
      BY <3>2, FS_Singleton
    <3>4. onWire = 0
      BY <2>1, <2>2, <2>3, <3>1 DEF OneData
    <3> HIDE DEF inQueue, onWire
    <3> QED
      BY <3>3, <3>4
  <2> QED
    BY <2>4, <2>5
<1> QED
  BY <1>1, IInvInvariant, PTL

(* A packet is in one place at a time: preemption and dropping neither lose
   a packet nor duplicate it. *)
THEOREM PacketsInOnePlace == Spec => []EachPacketOnce
<1>1. ASSUME IInv, NEW p \in sent PROVE Places(p) = 1
  <2> DEFINE At == {i \in DOMAIN queue : queue[i] = p}
             wire == IF qpe = "later" /\ transmitting = p THEN 1 ELSE 0
             through == IF p \in left THEN 1 ELSE 0
             lost == IF p \in dropped THEN 1 ELSE 0
  <2>1. Places(p) = Cardinality(At) + wire + through + lost
    BY DEF Places
  <2>2. queue \in Seq(Packet) /\ NoneTwice(queue) /\ OnePlace
    BY <1>1 DEF IInv, TypeOK
  <2>3. wire = IF p \in OnWire THEN 1 ELSE 0
    BY DEF OnWire
  <2>4. Cardinality(At) = IF p \in ToSet(queue) THEN 1 ELSE 0
    <3>1. CASE p \in ToSet(queue)
      <4>1. PICK i \in DOMAIN queue : queue[i] = p
        BY <3>1 DEF ToSet
      <4>2. At = {i}
        BY <2>2, <4>1 DEF NoneTwice
      <4>3. Cardinality(At) = 1
        BY <4>2, FS_Singleton
      <4> HIDE DEF At
      <4> QED
        BY <3>1, <4>3
    <3>2. CASE p \notin ToSet(queue)
      <4>1. At = {}
        BY <3>2 DEF ToSet
      <4>2. Cardinality(At) = 0
        BY <4>1, FS_EmptySet
      <4> HIDE DEF At
      <4> QED
        BY <3>2, <4>2
    <3> QED
      BY <3>1, <3>2
  <2>5. through = (IF p \in left THEN 1 ELSE 0) /\ lost = (IF p \in dropped THEN 1 ELSE 0)
    OBVIOUS
  <2> HIDE DEF At, wire, through, lost
  <2>6. p \in ToSet(queue) \/ p \in OnWire \/ p \in left \/ p \in dropped
    BY <1>1, <2>2 DEF OnePlace
  <2>7. CASE p \in ToSet(queue)
    <3>1. p \notin OnWire /\ p \notin left /\ p \notin dropped
      BY <2>2, <2>7 DEF OnePlace
    <3> QED
      BY <2>1, <2>3, <2>4, <2>5, <2>7, <3>1
  <2>8. CASE p \in OnWire
    <3>1. p \notin ToSet(queue) /\ p \notin left /\ p \notin dropped
      BY <2>2, <2>8 DEF OnePlace
    <3> QED
      BY <2>1, <2>3, <2>4, <2>5, <2>8, <3>1
  <2>9. CASE p \in left
    <3>1. p \notin ToSet(queue) /\ p \notin OnWire /\ p \notin dropped
      BY <2>2, <2>9 DEF OnePlace
    <3> QED
      BY <2>1, <2>3, <2>4, <2>5, <2>9, <3>1
  <2>10. CASE p \in dropped
    <3>1. p \notin ToSet(queue) /\ p \notin OnWire /\ p \notin left
      BY <2>2, <2>10 DEF OnePlace
    <3> QED
      BY <2>1, <2>3, <2>4, <2>5, <2>10, <3>1
  <2> QED
    BY <2>6, <2>7, <2>8, <2>9, <2>10
<1>2. IInv => EachPacketOnce
  BY <1>1 DEF EachPacketOnce
<1> QED
  BY <1>2, IInvInvariant, PTL

=============================================================================
