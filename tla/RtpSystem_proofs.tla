-------------------------- MODULE RtpSystem_proofs --------------------------
(***************************************************************************)
(* Proofs of the safety properties of RtpSystem, for any hosts, any sizes  *)
(* and any number of packets in flight.  IInv of that module is inductive. *)
(* The first part is about the priority queue of RtpController: push keeps *)
(* it ordered, and so does the loop over the requests of a packet.         *)
(***************************************************************************)
EXTENDS RtpSystem, FiniteSetTheorems, SequenceTheorems, WellFoundedInduction, TLAPS

-----------------------------------------------------------------------------
(* Numbers *)

(* The least element of a set of natural numbers. *)
LEMMA MinOfNaturals ==
  ASSUME NEW S \in SUBSET Nat, S # {}
  PROVE  Min(S) \in S /\ \A y \in S : Min(S) <= y
<1> DEFINE Less == {p \in Nat \X Nat : p[1] < p[2]}
<1>1. IsWellFoundedOn(Less, Nat)
  BY NatLessThanWellFounded, Zenon DEF OpToRel
<1>2. PICK x \in S : \A y \in S : <<y, x>> \notin Less
  <2> HIDE DEF Less
  <2> QED
    BY <1>1, WFMin
<1>3. ASSUME NEW y \in S PROVE x <= y
  <2>1. <<y, x>> \notin Less
    BY <1>2
  <2>2. ~(<<y, x>>[1] < <<y, x>>[2])
    BY <2>1
  <2> QED
    BY <2>2
<1> QED
  BY <1>3 DEF Min

-----------------------------------------------------------------------------
(* The priority queue *)

LEMMA Inserted ==
  ASSUME NEW S, NEW q \in Seq(S), NEW i \in 1..Len(q) + 1, NEW e \in S
  PROVE  /\ InsertAt(q, i, e) \in Seq(S)
         /\ Len(InsertAt(q, i, e)) = Len(q) + 1
         /\ \A k \in 1..Len(q) + 1 :
              InsertAt(q, i, e)[k] = IF k < i THEN q[k]
                                     ELSE IF k = i THEN e ELSE q[k - 1]
<1> DEFINE front == SubSeq(q, 1, i - 1)
           back == SubSeq(q, i, Len(q))
           one == front \o <<e>>
<1>1. Len(q) \in Nat /\ \A k \in 1..Len(q) : q[k] \in S
  BY LenProperties, ElementOfSeq
<1>2. /\ front \in Seq(S) /\ Len(front) = i - 1
      /\ \A k \in 1..i - 1 : front[k] = q[k]
  <2>1. /\ SubSeq(q, 1, i - 1) \in Seq(S)
        /\ Len(SubSeq(q, 1, i - 1)) = IF 1 <= i - 1 THEN i - 1 - 1 + 1 ELSE 0
        /\ \A k \in 1..i - 1 - 1 + 1 : SubSeq(q, 1, i - 1)[k] = q[1 + k - 1]
    <3>1. \A k \in 1..i - 1 : q[k] \in S
      BY <1>1
    <3>2. 1 \in Int /\ i - 1 \in Int
      BY <1>1
    <3> QED
      BY <3>1, <3>2, SubSeqProperties
  <2> QED
    BY <2>1, <1>1
<1>3. /\ back \in Seq(S) /\ Len(back) = Len(q) - i + 1
      /\ \A k \in 1..Len(q) - i + 1 : back[k] = q[i + k - 1]
  <2>1. \A k \in i..Len(q) : q[k] \in S
    BY <1>1
  <2>2. i \in Int /\ Len(q) \in Int
    BY <1>1
  <2> QED
    BY <2>1, <2>2, SubSeqProperties, <1>1
<1>4. <<e>> \in Seq(S) /\ Len(<<e>>) = 1 /\ <<e>>[1] = e
  OBVIOUS
<1>5. /\ one \in Seq(S) /\ Len(one) = i
      /\ \A k \in 1..i : one[k] = IF k < i THEN q[k] ELSE e
  <2> HIDE DEF front
  <2>1. /\ front \o <<e>> \in Seq(S)
        /\ Len(front \o <<e>>) = Len(front) + Len(<<e>>)
        /\ \A k \in 1..Len(front) + Len(<<e>>) :
             (front \o <<e>>)[k] = IF k <= Len(front) THEN front[k] ELSE <<e>>[k - Len(front)]
    BY <1>2, <1>4, ConcatProperties
  <2>2. Len(front \o <<e>>) = i
    BY <2>1, <1>2, <1>4, <1>1
  <2>3. ASSUME NEW k \in 1..i PROVE one[k] = IF k < i THEN q[k] ELSE e
    <3>1. (front \o <<e>>)[k] = IF k <= i - 1 THEN front[k] ELSE <<e>>[k - (i - 1)]
      BY <2>1, <1>2, <1>4, <1>1
    <3>2. CASE k < i
      BY <3>1, <3>2, <1>2, <1>1
    <3>3. CASE k = i
      <4>1. k - (i - 1) = 1 /\ ~(k <= i - 1) /\ ~(k < i)
        BY <3>3, <1>1
      <4>2. one[k] = <<e>>[1]
        BY <3>1, <4>1
      <4> QED
        BY <4>1, <4>2
    <3>4. k \in Int /\ i \in Int /\ k <= i
      BY <1>1
    <3> HIDE DEF one
    <3> QED
      BY <3>2, <3>3, <3>4
  <2> QED
    BY <2>1, <2>2, <2>3
<1>6. /\ one \o back \in Seq(S)
      /\ Len(one \o back) = Len(one) + Len(back)
      /\ \A k \in 1..Len(one) + Len(back) :
           (one \o back)[k] = IF k <= Len(one) THEN one[k] ELSE back[k - Len(one)]
  <2> HIDE DEF one, back
  <2> QED
    BY <1>3, <1>5, ConcatProperties
<1>7. InsertAt(q, i, e) = one \o back
  BY DEF InsertAt
<1>8. Len(one) + Len(back) = Len(q) + 1
  BY <1>3, <1>5, <1>1
<1>9. ASSUME NEW k \in 1..Len(q) + 1
      PROVE  (one \o back)[k] = IF k < i THEN q[k] ELSE IF k = i THEN e ELSE q[k - 1]
  <2> HIDE DEF one, back
  <2>1. (one \o back)[k] = IF k <= i THEN one[k] ELSE back[k - i]
    BY <1>6, <1>8, <1>5
  <2>2. CASE k <= i
    BY <2>1, <2>2, <1>5, <1>1
  <2>3. CASE k > i
    <3>1. k - i \in 1..Len(q) - i + 1 /\ i + (k - i) - 1 = k - 1
      BY <2>3, <1>1
    <3>2. back[k - i] = q[i + (k - i) - 1]
      BY <3>1, <1>3
    <3> QED
      BY <2>1, <2>3, <3>1, <3>2, <1>1
  <2>4. k <= i \/ k > i
    BY <1>1
  <2> QED
    BY <2>2, <2>3, <2>4
<1> QED
  <2> HIDE DEF one, back
  <2> QED
    BY <1>6, <1>7, <1>8, <1>9

(* push keeps the queue in the order of the sizes. *)
LEMMA PushKeepsOrder ==
  ASSUME NEW S, \A x \in S : x.size \in Nat,
         NEW q \in Seq(S), Ordered(q), NEW r \in S
  PROVE  Push(q, r) \in Seq(S) /\ Ordered(Push(q, r))
<1> DEFINE After == {k \in 1..Len(q) : k = Len(q) \/ q[k + 1].size >= r.size}
           p == Min(After)
           ins == InsertAt(q, p + 1, r)
<1>0. Len(q) \in Nat
  BY LenProperties
<1>1. /\ Len(q) \in Nat /\ DOMAIN q = 1..Len(q)
      /\ \A k \in 1..Len(q) : q[k] \in S /\ q[k].size \in Nat
      /\ r.size \in Nat
  BY LenProperties, ElementOfSeq
<1>2. \A i, j \in 1..Len(q) : i <= j => q[i].size <= q[j].size
  <2>1. ASSUME NEW i \in 1..Len(q), NEW j \in 1..Len(q), i <= j
        PROVE  q[i].size <= q[j].size
    <3>1. i < j => q[i].size <= q[j].size
      BY <1>1 DEF Ordered
    <3>2. i = j => q[i].size <= q[j].size
      BY <1>1
    <3>3. i < j \/ i = j
      BY <2>1, <1>1
    <3> QED
      BY <3>1, <3>2, <3>3
  <2> QED
    BY <2>1
<1>3. CASE q = <<>> \/ q[1].size > r.size
  <2> DEFINE new == <<r>> \o q
  <2>1. Push(q, r) = new
    BY <1>3 DEF Push
  <2>2. /\ new \in Seq(S) /\ Len(new) = Len(q) + 1
        /\ \A k \in 1..Len(q) + 1 : new[k] = IF k <= 1 THEN r ELSE q[k - 1]
    <3>1. <<r>> \in Seq(S) /\ Len(<<r>>) = 1 /\ <<r>>[1] = r
      OBVIOUS
    <3>2. /\ new \in Seq(S) /\ Len(new) = Len(<<r>>) + Len(q)
          /\ \A k \in 1..Len(<<r>>) + Len(q) :
               new[k] = IF k <= Len(<<r>>) THEN <<r>>[k] ELSE q[k - Len(<<r>>)]
      BY <3>1, ConcatProperties
    <3>3. ASSUME NEW k \in 1..Len(q) + 1
          PROVE  new[k] = IF k <= 1 THEN r ELSE q[k - 1]
      <4>1. new[k] = IF k <= 1 THEN <<r>>[k] ELSE q[k - 1]
        <5> HIDE DEF new
        <5> QED
          BY <3>1, <3>2, <1>1
      <4>2. k <= 1 => k = 1
        BY <1>0
      <4> HIDE DEF new
      <4> QED
        BY <4>1, <4>2, <3>1
    <3> HIDE DEF new
    <3> QED
      BY <3>1, <3>2, <3>3, <1>1
  <2>3. ASSUME NEW i \in 1..Len(q) + 1, NEW j \in 1..Len(q) + 1, i < j
        PROVE  new[i].size <= new[j].size
    <3>1. j - 1 \in 1..Len(q) /\ 1 \in 1..Len(q) /\ ~(j <= 1)
      BY <2>3, <1>0
    <3>2. new[j] = q[j - 1] /\ q[j - 1].size \in Nat
      <4> HIDE DEF new
      <4> QED
        BY <3>1, <2>2, <1>1
    <3>3. CASE i <= 1
      <4>1. new[i] = r
        <5> HIDE DEF new
        <5> QED
          BY <3>3, <2>2
      <4>2. q # <<>>
        BY <3>1, EmptySeq, <1>1
      <4>3. q[1].size > r.size /\ q[1].size <= q[j - 1].size
        BY <4>2, <1>3, <1>2, <3>1
      <4> HIDE DEF new
      <4> QED
        BY <4>1, <4>3, <3>1, <3>2, <1>1
    <3>4. CASE ~(i <= 1)
      <4>1. i - 1 \in 1..Len(q) /\ i - 1 <= j - 1
        BY <3>4, <2>3, <1>0
      <4>2. new[i] = q[i - 1]
        <5> HIDE DEF new
        <5> QED
          BY <3>4, <2>2
      <4>3. q[i - 1].size <= q[j - 1].size
        BY <4>1, <3>1, <1>2
      <4> HIDE DEF new
      <4> QED
        BY <4>2, <4>3, <3>2
    <3> QED
      BY <3>3, <3>4
  <2>4. DOMAIN new = 1..Len(q) + 1
    <3> HIDE DEF new
    <3> QED
      BY <2>2, LenProperties
  <2> HIDE DEF new
  <2> QED
    BY <2>1, <2>2, <2>3, <2>4 DEF Ordered
<1>4. CASE ~(q = <<>> \/ q[1].size > r.size)
  <2>1. Len(q) \in After
    <3>1. Len(q) \in Nat \ {0}
      BY <1>4, EmptySeq
    <3> QED
      BY <3>1
  <2>2. After \in SUBSET Nat
    BY <1>1
  <2>3. p \in After /\ \A y \in After : p <= y
    <3> HIDE DEF After
    <3> QED
      BY <2>1, <2>2, MinOfNaturals
  <2>4. /\ p \in 1..Len(q) /\ p + 1 \in 1..Len(q) + 1
        /\ p = Len(q) \/ q[p + 1].size >= r.size
        /\ \A y \in 1..Len(q) : y < p => ~(q[y + 1].size >= r.size)
    <3>1. p \in 1..Len(q) /\ (p = Len(q) \/ q[p + 1].size >= r.size)
      BY <2>3
    <3>2. ASSUME NEW y \in 1..Len(q), y < p PROVE ~(q[y + 1].size >= r.size)
      <4>1. y \notin After
        <5>1. ~(p <= y)
          BY <3>1, <3>2, <1>0
        <5> HIDE DEF After
        <5> QED
          BY <5>1, <2>3
      <4> QED
        BY <4>1
    <3> HIDE DEF p
    <3>3. p + 1 \in 1..Len(q) + 1
      BY <3>1, <1>0
    <3> QED
      BY <3>1, <3>2, <3>3
  <2>5. Push(q, r) = ins
    BY <1>4 DEF Push
  <2>6. /\ ins \in Seq(S) /\ Len(ins) = Len(q) + 1
        /\ \A k \in 1..Len(q) + 1 :
             ins[k] = IF k < p + 1 THEN q[k] ELSE IF k = p + 1 THEN r ELSE q[k - 1]
    <3> DEFINE i == p + 1
    <3>1. i \in 1..Len(q) + 1
      BY <2>4
    <3> HIDE DEF i
    <3>2. /\ InsertAt(q, i, r) \in Seq(S) /\ Len(InsertAt(q, i, r)) = Len(q) + 1
          /\ \A k \in 1..Len(q) + 1 :
               InsertAt(q, i, r)[k] = IF k < i THEN q[k]
                                      ELSE IF k = i THEN r ELSE q[k - 1]
      BY <3>1, Inserted
    <3> QED
      BY <3>2 DEF i
  <2>7. DOMAIN ins = 1..Len(q) + 1
    <3> HIDE DEF ins
    <3> QED
      BY <2>6, LenProperties
  <2> HIDE DEF ins, p
  <2>0. p \in 1..Len(q)
    BY <2>4
  <2>8. \A k \in 1..Len(q) : k <= p => q[k].size <= r.size
    <3>1. ASSUME NEW k \in 1..Len(q), k <= p PROVE q[k].size <= r.size
      <4>1. CASE k = 1
        BY <4>1, <3>1, <1>1, <1>4
      <4>2. CASE k # 1
        <5>1. k - 1 \in 1..Len(q) /\ k - 1 < p /\ (k - 1) + 1 = k
          BY <4>2, <3>1, <2>0, <1>0
        <5>2. ~(q[(k - 1) + 1].size >= r.size)
          BY <5>1, <2>4
        <5> QED
          BY <5>1, <5>2, <1>1
      <4> QED
        BY <4>1, <4>2
    <3> QED
      BY <3>1
  <2>9. \A k \in 1..Len(q) : k > p => r.size <= q[k].size
    <3>1. ASSUME NEW k \in 1..Len(q), k > p PROVE r.size <= q[k].size
      <4>1. p + 1 \in 1..Len(q) /\ p + 1 <= k /\ p # Len(q)
        BY <3>1, <2>0, <1>0
      <4>2. q[p + 1].size >= r.size
        BY <4>1, <2>4
      <4> QED
        BY <4>1, <4>2, <1>1, <1>2
    <3> QED
      BY <3>1
  <2>10. ASSUME NEW i \in 1..Len(q) + 1, NEW j \in 1..Len(q) + 1, i < j
         PROVE  ins[i].size <= ins[j].size
    <3>0. i \in Int /\ j \in Int /\ p \in Int
      BY <2>0, <1>0
    <3>1. CASE j < p + 1
      <4>1. i \in 1..Len(q) /\ j \in 1..Len(q) /\ i < p + 1
        BY <3>1, <2>0, <2>10, <1>0
      <4>2. ins[i] = q[i] /\ ins[j] = q[j]
        BY <4>1, <3>1, <2>6
      <4> QED
        BY <4>1, <4>2, <2>10, <1>2, <3>0
    <3>2. CASE j = p + 1
      <4>1. i \in 1..Len(q) /\ i < p + 1 /\ i <= p
        BY <3>2, <2>0, <2>10, <1>0
      <4>2. ins[i] = q[i] /\ ins[j] = r
        BY <4>1, <3>2, <2>6, <3>0
      <4> QED
        BY <4>1, <4>2, <2>8
    <3>3. CASE j > p + 1
      <4>1. j - 1 \in 1..Len(q) /\ j - 1 > p
        BY <3>3, <2>0, <1>0
      <4>2. ins[j] = q[j - 1]
        BY <3>3, <2>6, <3>0
      <4>3. CASE i < p + 1
        <5>1. i \in 1..Len(q) /\ i <= j - 1
          BY <4>3, <2>0, <2>10, <1>0
        <5>2. ins[i] = q[i]
          BY <4>3, <2>6
        <5> QED
          BY <5>1, <5>2, <4>1, <4>2, <1>2
      <4>4. CASE i = p + 1
        <5>1. ins[i] = r
          BY <4>4, <2>6, <3>0
        <5> QED
          BY <5>1, <4>1, <4>2, <2>9
      <4>5. CASE i > p + 1
        <5>1. i - 1 \in 1..Len(q) /\ i - 1 <= j - 1
          BY <4>5, <2>10, <2>0, <1>0
        <5>2. ins[i] = q[i - 1]
          BY <4>5, <2>6, <3>0
        <5> QED
          BY <5>1, <5>2, <4>1, <4>2, <1>2
      <4> QED
        BY <4>3, <4>4, <4>5, <3>0
    <3> QED
      BY <3>1, <3>2, <3>3, <3>0
  <2> QED
    BY <2>5, <2>6, <2>7, <2>10 DEF Ordered
<1> QED
  BY <1>3, <1>4

(* after is the queue after each of the first N requests: the function that
   PushAll defines by recursion. *)
QueueAfterEach(after, q, reqs, N) ==
  after = [n \in 0..N |-> IF n = 0 THEN q ELSE Push(after[n - 1], reqs[n])]

(* There is one, so that the loop over the requests has a result. *)
LEMMA LoopHasResult ==
  ASSUME NEW q, NEW reqs, NEW N \in Nat
  PROVE  \E after : QueueAfterEach(after, q, reqs, N)
<1> USE DEF QueueAfterEach
<1> DEFINE Is(g, M) == QueueAfterEach(g, q, reqs, M)
           Bad == {M \in Nat : ~(\E g : Is(g, M))}
<1>1. SUFFICES ASSUME Bad # {} PROVE FALSE
  <2>1. N \notin Bad
    BY <1>1
  <2> QED
    BY <2>1
<1> DEFINE M == Min(Bad)
<1>2. M \in Bad /\ \A y \in Bad : M <= y
  <2>1. Bad \in SUBSET Nat
    OBVIOUS
  <2> HIDE DEF Bad
  <2> QED
    BY <1>1, <2>1, MinOfNaturals
<1>3. M \in Nat /\ ~(\E g : Is(g, M))
  BY <1>2
<1> HIDE DEF M
<1>4. CASE M = 0
  <2> DEFINE g == [n \in 0..0 |-> q]
  <2>1. \A n \in 0..0 : n = 0
    OBVIOUS
  <2>2. Is(g, 0)
    BY <2>1
  <2> QED
    BY <1>3, <1>4, <2>2
<1>5. CASE M # 0
  <2>1. M - 1 \in Nat /\ ~(M <= M - 1)
    BY <1>3, <1>5
  <2>2. M - 1 \notin Bad
    <3> HIDE DEF Bad
    <3> QED
      BY <2>1, <1>2
  <2>3. PICK g : Is(g, M - 1)
    BY <2>1, <2>2
  <2> DEFINE h == [n \in 0..M |-> IF n <= M - 1 THEN g[n] ELSE Push(g[M - 1], reqs[M])]
             Step(f, n) == IF n = 0 THEN q ELSE Push(f[n - 1], reqs[n])
  <2>4. ASSUME NEW n \in 0..M PROVE h[n] = Step(h, n)
    <3>1. CASE n <= M - 1
      <4>1. n \in 0..M - 1 /\ n \in 0..M
        BY <3>1, <1>3
      <4>2. g[n] = Step(g, n)
        BY <2>3, <4>1
      <4>3. h[n] = g[n]
        BY <3>1, <4>1
      <4>4. n # 0 => h[n - 1] = g[n - 1]
        <5>1. n # 0 => n - 1 \in 0..M /\ n - 1 <= M - 1
          BY <4>1, <1>3
        <5> QED
          BY <5>1
      <4> HIDE DEF h
      <4> QED
        BY <4>2, <4>3, <4>4
    <3>2. CASE ~(n <= M - 1)
      <4>1. n = M /\ M - 1 \in 0..M /\ M - 1 <= M - 1 /\ n # 0
        BY <3>2, <1>3, <1>5
      <4>2. h[n] = Push(g[M - 1], reqs[M]) /\ h[M - 1] = g[M - 1]
        BY <3>2, <4>1
      <4> HIDE DEF h
      <4> QED
        BY <4>1, <4>2
    <3> QED
      BY <3>1, <3>2
  <2>5. h = [n \in 0..M |-> Step(h, n)]
    <3>1. h = [n \in 0..M |-> h[n]]
      OBVIOUS
    <3> HIDE DEF h, Step
    <3> QED
      BY <3>1, <2>4
  <2>6. Is(h, M)
    <3> HIDE DEF h
    <3> QED
      BY <2>5
  <2> HIDE DEF h
  <2> QED
    BY <1>3, <2>6
<1> QED
  BY <1>4, <1>5

(* rtp_receive_listsrc leaves the queue in the order of the sizes, however
   many requests the packet carries. *)
LEMMA PushAllKeepsOrder ==
  ASSUME NEW S, \A x \in S : x.size \in Nat,
         NEW q \in Seq(S), Ordered(q), NEW reqs \in Seq(S)
  PROVE  PushAll(q, reqs) \in Seq(S) /\ Ordered(PushAll(q, reqs))
<1> DEFINE N == Len(reqs)
           Is(g) == QueueAfterEach(g, q, reqs, N)
           after == CHOOSE g : Is(g)
<1>1. N \in Nat /\ \A n \in 1..N : reqs[n] \in S
  BY LenProperties, ElementOfSeq
<1>2. PushAll(q, reqs) = after[N]
  BY DEF PushAll, QueueAfterEach
<1>3. Is(after)
  <2>1. \E g : Is(g)
    <3> HIDE DEF N
    <3>1. N \in Nat
      BY <1>1
    <3> QED
      BY <3>1, LoopHasResult
  <2> HIDE DEF Is
  <2> QED
    BY <2>1
<1> HIDE DEF N, after
<1> DEFINE Good(s) == s \in Seq(S) /\ Ordered(s)
           Bad == {n \in 0..N : ~Good(after[n])}
<1>4. ASSUME Bad # {} PROVE FALSE
  <2> DEFINE m == Min(Bad)
  <2>1. m \in Bad /\ \A y \in Bad : m <= y
    <3>1. Bad \in SUBSET Nat
      BY <1>1
    <3> HIDE DEF Bad
    <3> QED
      BY <1>4, <3>1, MinOfNaturals
  <2>2. m \in 0..N /\ ~Good(after[m])
    BY <2>1
  <2> HIDE DEF m
  <2>3. CASE m = 0
    <3>1. after[0] = q
      BY <1>3, <1>1 DEF QueueAfterEach
    <3> QED
      BY <2>2, <2>3, <3>1
  <2>4. CASE m # 0
    <3>1. m - 1 \in 0..N /\ m \in 1..N /\ ~(m <= m - 1)
      BY <2>2, <2>4, <1>1
    <3>2. Good(after[m - 1])
      <4>1. m - 1 \notin Bad
        <5> HIDE DEF Bad
        <5> QED
          BY <3>1, <2>1
      <4> QED
        BY <4>1, <3>1
    <3>3. after[m] = Push(after[m - 1], reqs[m])
      BY <1>3, <2>2, <2>4 DEF QueueAfterEach
    <3>4. reqs[m] \in S
      BY <3>1, <1>1
    <3>5. Good(Push(after[m - 1], reqs[m]))
      BY <3>2, <3>4, PushKeepsOrder
    <3> QED
      BY <2>2, <3>3, <3>5
  <2> QED
    BY <2>3, <2>4
<1>5. N \in 0..N /\ N \notin Bad
  BY <1>1, <1>4
<1>6. Good(after[N])
  BY <1>5
<1> QED
  BY <1>2, <1>6

-----------------------------------------------------------------------------
(* The requests and the packets *)

LEMMA Requests ==
  /\ KnownRequest \subseteq Request
  /\ \A r \in KnownRequest :
       r.size \in Nat /\ r.src \in Senders /\ r.dst \in Receivers
  /\ Senders \subseteq Hosts /\ Receivers \subseteq Hosts
  BY RolesAssumption, SizesAssumption DEF KnownRequest, Request

(* What send_listsrc lists for a receiver. *)
LEMMA ListedRequests ==
  ASSUME NEW d \in Receivers, NEW q \in RequestLists(d)
  PROVE  q \in Seq(KnownRequest)
<1> DEFINE R == [src : Senders \ {d}, dst : {d}, size : Sizes]
           n == Cardinality(Senders)
<1>1. n \in Nat
  BY HostsAssumption, RolesAssumption, FS_Subset, FS_CardinalityType
<1>2. q \in BoundedSeq(R, n)
  BY DEF RequestLists
<1> HIDE DEF R, n
<1>3. PICK m \in 0..n : q \in [1..m -> R]
  BY <1>2 DEF BoundedSeq, SeqOf
<1>4. m \in Nat
  BY <1>1
<1>5. q \in Seq(R)
  BY <1>3, <1>4, SeqDef
<1>6. R \subseteq KnownRequest
  BY DEF R, KnownRequest
<1> QED
  BY <1>5, <1>6, SeqMonotonic

(* The packet that a receiver sends. *)
LEMMA SentListsrc ==
  ASSUME NEW d \in Receivers, NEW nrts \in Hosts \cup {NoNrts, NoAddr},
         SendListsrc(d, nrts)
  PROVE  \E m \in Listsrc : /\ listsrc' = listsrc \cup {m}
                            /\ m.dst = d /\ m.nrts = nrts
                            /\ m.reqs \in Seq(KnownRequest)
<1>1. PICK q \in RequestLists(d) :
        listsrc' = listsrc \cup {[dst |-> d, nrts |-> nrts, reqs |-> q]}
  BY DEF SendListsrc
<1> DEFINE m == [dst |-> d, nrts |-> nrts, reqs |-> q]
<1>2. q \in Seq(KnownRequest)
  BY ListedRequests
<1>3. q \in Seq(Request)
  BY <1>2, Requests, SeqMonotonic
<1>4. m \in Listsrc
  BY <1>3, Requests DEF Listsrc
<1> QED
  BY <1>1, <1>2, <1>4

(* The values that stand for no host. *)
LEMMA NoHosts ==
  NoHost \notin Hosts /\ NoNrts \notin Hosts /\ NoAddr \notin Hosts /\ NoAddr # NoNrts
  BY HostsAssumption DEF NoHost, NoNrts, NoAddr

-----------------------------------------------------------------------------
(* The steps and the exclusions *)

Busy == /\ \A d \in Receivers : ReceiverBusy(d)
        /\ \A s \in Senders \ {0} : SenderBusy(s)

(* With no new claim and no change of the states, nothing is freed. *)
LEMMA NoNewClaim ==
  ASSUME Busy, grants' \subseteq grants, Returns' \subseteq Returns,
         UNCHANGED <<lease, senderState, receiverState>>
  PROVE  Busy'
<1>1. ASSUME NEW d \in Receivers PROVE ReceiverBusy(d)'
  <2>1. ReceiverBusy(d)
    BY DEF Busy
  <2> QED
    BY <2>1 DEF ReceiverBusy
<1>2. ASSUME NEW s \in Senders \ {0} PROVE SenderBusy(s)'
  <2>1. SenderBusy(s)
    BY DEF Busy
  <2> QED
    BY <2>1 DEF SenderBusy
<1> QED
  BY <1>1, <1>2 DEF Busy

(* The packet with the NRTS was the only claim to what it frees. *)
LEMMA NrtsFreesNoOther ==
  ASSUME IInv, NEW m \in listsrc, m.nrts # NoNrts,
         listsrc' = listsrc \ {m},
         senderState' = Freed(senderState, IpToId(m.nrts)),
         receiverState' = Freed(receiverState, m.dst),
         UNCHANGED <<grants, lease>>
  PROVE  Busy'
<1>1. /\ senderState \in [Hosts -> BOOLEAN] /\ receiverState \in [Hosts -> BOOLEAN]
      /\ listsrc \subseteq Listsrc
  BY DEF IInv, TypeOK, ControllerTypeOK
<1>2. Returns' \subseteq Returns /\ m \notin Returns' /\ m \in Returns
  BY DEF Returns
<1>3. ASSUME NEW d \in Receivers PROVE ReceiverBusy(d)'
  <2>1. ReceiverBusy(d)
    BY DEF IInv
  <2>2. CASE m.dst = d
    BY <1>2, <2>1, <2>2 DEF ReceiverBusy
  <2>3. CASE m.dst # d
    <3>1. receiverState'[d] = receiverState[d]
      BY <1>1, <2>3, Requests DEF Freed
    <3> QED
      BY <1>2, <2>1, <3>1 DEF ReceiverBusy
  <2> QED
    BY <2>2, <2>3
<1>4. ASSUME NEW s \in Senders \ {0} PROVE SenderBusy(s)'
  <2>1. SenderBusy(s)
    BY DEF IInv
  <2>2. CASE m.nrts = s
    BY <1>2, <2>1, <2>2 DEF SenderBusy
  <2>3. CASE m.nrts # s
    <3>1. IpToId(m.nrts) # s
      BY <2>3 DEF IpToId
    <3>2. senderState'[s] = senderState[s]
      BY <1>1, <3>1, Requests DEF Freed
    <3> QED
      BY <1>2, <2>1, <3>2 DEF SenderBusy
  <2> QED
    BY <2>2, <2>3
<1> QED
  BY <1>3, <1>4 DEF Busy

(* A grant is made for a sender and a receiver that nobody claims. *)
LEMMA GrantIsExclusive ==
  ASSUME IInv, NEW r \in KnownRequest, GrantHead(r), UNCHANGED <<listsrc, lease>>
  PROVE  Busy'
<1>1. /\ senderState \in [Hosts -> BOOLEAN] /\ receiverState \in [Hosts -> BOOLEAN]
  BY DEF IInv, TypeOK, ControllerTypeOK
<1> DEFINE new == [src |-> r.src, dst |-> r.dst]
<1>2. /\ grants' = grants \cup {new} /\ new.src = r.src /\ new.dst = r.dst
      /\ senderState[r.src] /\ receiverState[r.dst]
      /\ r.src \in Senders /\ r.dst \in Receivers
  BY Requests DEF GrantHead, Feasible
<1>3. /\ senderState' = [senderState EXCEPT ![r.src] = FALSE]
      /\ receiverState' = [receiverState EXCEPT ![r.dst] = FALSE]
  BY DEF GrantHead
<1> HIDE DEF new
<1>4. Returns' = Returns
  BY DEF Returns
<1>5. ASSUME NEW d \in Receivers PROVE ReceiverBusy(d)'
  <2>1. ReceiverBusy(d)
    BY DEF IInv
  <2>2. CASE r.dst = d
    <3>1. receiverState[d] /\ ~receiverState'[d]
      BY <1>1, <1>2, <1>3, <2>2, Requests
    <3>2. /\ \A g \in grants : g.dst # d
          /\ lease[d] = NoHost /\ \A m \in Returns : m.dst # d
      BY <2>1, <3>1 DEF ReceiverBusy
    <3> QED
      BY <3>1, <3>2, <1>2, <1>4, <2>2 DEF ReceiverBusy
  <2>3. CASE r.dst # d
    <3>1. receiverState'[d] = receiverState[d]
      BY <1>1, <1>3, <2>3, Requests
    <3> QED
      BY <3>1, <1>2, <1>4, <2>1, <2>3 DEF ReceiverBusy
  <2> QED
    BY <2>2, <2>3
<1>6. ASSUME NEW s \in Senders \ {0} PROVE SenderBusy(s)'
  <2>1. SenderBusy(s)
    BY DEF IInv
  <2>2. CASE r.src = s
    <3>1. senderState[s] /\ ~senderState'[s]
      BY <1>1, <1>2, <1>3, <2>2, Requests
    <3>2. /\ \A g \in grants : g.src # s
          /\ \A d \in Receivers : lease[d] # s
          /\ \A m \in Returns : m.nrts # s
      BY <2>1, <3>1 DEF SenderBusy
    <3> QED
      BY <3>1, <3>2, <1>2, <1>4, <2>2 DEF SenderBusy
  <2>3. CASE r.src # s
    <3>1. senderState'[s] = senderState[s]
      BY <1>1, <1>3, <2>3, Requests
    <3> QED
      BY <3>1, <1>2, <1>4, <2>1, <2>3 DEF SenderBusy
  <2> QED
    BY <2>2, <2>3
<1> QED
  BY <1>5, <1>6 DEF Busy

(* A receiver that takes a grant holds what the packet claimed. *)
LEMMA LeaseReplacesGrant ==
  ASSUME IInv, NEW g \in grants, grants' = grants \ {g},
         lease' = [lease EXCEPT ![g.dst] = g.src],
         UNCHANGED <<listsrc, senderState, receiverState>>
  PROVE  Busy'
<1>1. /\ lease \in [Receivers -> Hosts \cup {NoHost}]
      /\ g.src \in Senders /\ g.dst \in Receivers
  BY DEF IInv, TypeOK, KnownHosts
<1>2. lease'[g.dst] = g.src /\ \A d \in Receivers : d # g.dst => lease'[d] = lease[d]
  BY <1>1
<1>3. g.src # NoHost
  BY <1>1, Requests, NoHosts
<1>4. Returns' = Returns
  BY DEF Returns
<1>5. ASSUME NEW d \in Receivers PROVE ReceiverBusy(d)'
  <2>1. ReceiverBusy(d)
    BY DEF IInv
  <2>2. CASE g.dst = d
    BY <1>2, <1>4, <2>1, <2>2 DEF ReceiverBusy
  <2>3. CASE g.dst # d
    <3>1. lease'[d] = lease[d]
      BY <1>2, <2>3
    <3> QED
      BY <1>4, <2>1, <3>1 DEF ReceiverBusy
  <2> QED
    BY <2>2, <2>3
<1>6. ASSUME NEW s \in Senders \ {0} PROVE SenderBusy(s)'
  <2>1. SenderBusy(s)
    BY DEF IInv
  <2>2. CASE g.src = s
    BY <1>2, <1>4, <2>1, <2>2 DEF SenderBusy
  <2>3. CASE g.src # s
    <3>1. \A d \in Receivers : lease'[d] = s => lease[d] = s
      BY <1>2, <2>3
    <3> QED
      BY <1>4, <2>1, <3>1 DEF SenderBusy
  <2> QED
    BY <2>2, <2>3
<1> QED
  BY <1>5, <1>6 DEF Busy

(* A receiver that gives its grant back, with the NRTS of its own source or
   with one that names no host, holds nothing any more. *)
LEMMA ReturnReplacesLease ==
  ASSUME IInv, NEW d \in Receivers, lease[d] # NoHost,
         NEW nrts \in {lease[d], NoAddr}, SendListsrc(d, nrts),
         lease' = [lease EXCEPT ![d] = NoHost],
         UNCHANGED <<grants, senderState, receiverState>>
  PROVE  Busy'
<1>1. lease \in [Receivers -> Hosts \cup {NoHost}]
  BY DEF IInv, TypeOK
<1>2. lease[d] \in Hosts /\ nrts \in Hosts \cup {NoNrts, NoAddr} /\ nrts # NoNrts
  BY <1>1, NoHosts
<1>3. PICK new : /\ listsrc' = listsrc \cup {new}
                 /\ new.dst = d /\ new.nrts = nrts
  BY <1>2, SentListsrc
<1>4. Returns' = Returns \cup {new}
  BY <1>2, <1>3 DEF Returns
<1>5. lease'[d] = NoHost /\ \A e \in Receivers : e # d => lease'[e] = lease[e]
  BY <1>1
<1>6. ASSUME NEW e \in Receivers PROVE ReceiverBusy(e)'
  <2>1. ReceiverBusy(e)
    BY DEF IInv
  <2>2. CASE e = d
    BY <1>3, <1>4, <1>5, <2>1, <2>2 DEF ReceiverBusy
  <2>3. CASE e # d
    <3>1. lease'[e] = lease[e]
      BY <1>5, <2>3
    <3> QED
      BY <1>3, <1>4, <2>1, <2>3, <3>1 DEF ReceiverBusy
  <2> QED
    BY <2>2, <2>3
<1>7. ASSUME NEW s \in Senders \ {0} PROVE SenderBusy(s)'
  <2>1. SenderBusy(s)
    BY DEF IInv
  <2>2. s # NoHost /\ s # NoAddr
    BY Requests, NoHosts
  <2>3. CASE nrts = s
    <3>1. lease[d] = s
      BY <2>2, <2>3
    <3>2. \A e \in Receivers : lease'[e] # s
      BY <1>5, <2>1, <2>2, <3>1 DEF SenderBusy
    <3> QED
      BY <1>3, <1>4, <2>1, <3>1, <3>2 DEF SenderBusy
  <2>4. CASE nrts # s
    <3>1. \A e \in Receivers : lease'[e] = s => lease[e] = s
      BY <1>5, <2>2
    <3> QED
      BY <1>3, <1>4, <2>1, <2>4, <3>1 DEF SenderBusy
  <2> QED
    BY <2>3, <2>4
<1> QED
  BY <1>6, <1>7 DEF Busy

(* The same for a grant that is refused at once. *)
LEMMA ReturnReplacesGrant ==
  ASSUME IInv, NEW g \in grants, grants' = grants \ {g},
         SendListsrc(g.dst, g.src), lease' = [lease EXCEPT ![g.dst] = NoHost],
         UNCHANGED <<senderState, receiverState>>
  PROVE  Busy'
<1>1. /\ lease \in [Receivers -> Hosts \cup {NoHost}]
      /\ g.src \in Senders /\ g.dst \in Receivers
  BY DEF IInv, TypeOK, KnownHosts
<1>2. g.src \in Hosts /\ g.src # NoNrts
  BY <1>1, Requests, NoHosts
<1>3. PICK new : /\ listsrc' = listsrc \cup {new}
                 /\ new.dst = g.dst /\ new.nrts = g.src
  BY <1>1, <1>2, SentListsrc
<1>4. Returns' = Returns \cup {new}
  BY <1>2, <1>3 DEF Returns
<1>5. \A e \in Receivers : lease'[e] = lease[e]
  <2>1. lease[g.dst] = NoHost
    <3>1. ReceiverBusy(g.dst)
      BY <1>1 DEF IInv
    <3> QED
      BY <3>1 DEF ReceiverBusy
  <2> QED
    BY <1>1, <2>1
<1>6. ASSUME NEW e \in Receivers PROVE ReceiverBusy(e)'
  <2>1. ReceiverBusy(e) /\ lease'[e] = lease[e]
    BY <1>5 DEF IInv
  <2>2. CASE e = g.dst
    BY <1>3, <1>4, <2>1, <2>2 DEF ReceiverBusy
  <2>3. CASE e # g.dst
    BY <1>3, <1>4, <2>1, <2>3 DEF ReceiverBusy
  <2> QED
    BY <2>2, <2>3
<1>7. ASSUME NEW s \in Senders \ {0} PROVE SenderBusy(s)'
  <2>1. SenderBusy(s)
    BY DEF IInv
  <2>2. CASE s = g.src
    BY <1>3, <1>4, <1>5, <2>1, <2>2 DEF SenderBusy
  <2>3. CASE s # g.src
    BY <1>3, <1>4, <1>5, <2>1, <2>3 DEF SenderBusy
  <2> QED
    BY <2>2, <2>3
<1> QED
  BY <1>6, <1>7 DEF Busy

-----------------------------------------------------------------------------
(* The inductive invariant *)

(* What IInv says besides the exclusions. *)
Shape == TypeOK /\ KnownHosts /\ Ordered(pq)

LEMMA IInvParts ==
  /\ IInv <=> (Shape /\ Busy)
  /\ IInv' <=> (Shape' /\ Busy')
  BY DEF IInv, Shape, Busy

(* A new packet fits the shape of the state. *)
LEMMA SentKeepsShape ==
  ASSUME IInv, NEW d \in Receivers, NEW nrts \in Hosts \cup {NoNrts, NoAddr},
         SendListsrc(d, nrts), grants' \subseteq grants,
         \/ UNCHANGED lease
         \/ lease' = [lease EXCEPT ![d] = NoHost],
         UNCHANGED controllerVars
  PROVE  Shape'
<1>1. PICK m \in Listsrc : /\ listsrc' = listsrc \cup {m}
                           /\ m.dst = d /\ m.nrts = nrts
                           /\ m.reqs \in Seq(KnownRequest)
  BY SentListsrc
<1> USE DEF controllerVars
<1>2. /\ lease' \in [Receivers -> Hosts \cup {NoHost}]
      /\ \A e \in Receivers : lease'[e] \in {lease[e], NoHost}
  BY DEF IInv, TypeOK
<1>3. TypeOK'
  BY <1>1, <1>2 DEF IInv, TypeOK, ControllerTypeOK
<1>4. KnownHosts'
  BY <1>1, <1>2 DEF IInv, KnownHosts
<1>5. Ordered(pq)'
  BY DEF IInv, Ordered
<1> QED
  BY <1>3, <1>4, <1>5 DEF Shape

(* So does the state after a packet is lost. *)
LEMMA LostKeepsShape ==
  ASSUME IInv, listsrc' \subseteq listsrc, grants' \subseteq grants,
         UNCHANGED <<controllerVars, lease>>
  PROVE  Shape'
<1> USE DEF controllerVars
<1>1. TypeOK'
  BY DEF IInv, TypeOK, ControllerTypeOK
<1>2. KnownHosts'
  BY DEF IInv, KnownHosts
<1>3. Ordered(pq)'
  BY DEF IInv, Ordered
<1> QED
  BY <1>1, <1>2, <1>3 DEF Shape

LEMMA AnnounceStep ==
  ASSUME IInv, NEW d \in Receivers, Announce(d)
  PROVE  IInv'
<1> USE DEF Announce, controllerVars
<1>1. Shape'
  BY SentKeepsShape
<1>2. PICK m \in Listsrc : listsrc' = listsrc \cup {m} /\ m.nrts = NoNrts
  BY SentListsrc
<1>3. Busy'
  <2>1. Returns' \subseteq Returns
    BY <1>2 DEF Returns
  <2> QED
    BY <2>1, NoNewClaim, IInvParts
<1> QED
  BY <1>1, <1>3, IInvParts

LEMMA GiveBackStep ==
  ASSUME IInv, NEW d \in Receivers, GiveBack(d) \/ GiveBackNoFlow(d)
  PROVE  IInv'
<1>1. PICK nrts \in {lease[d], NoAddr} :
        /\ lease[d] # NoHost /\ SendListsrc(d, nrts)
        /\ lease' = [lease EXCEPT ![d] = NoHost]
        /\ UNCHANGED <<controllerVars, grants>>
  BY DEF GiveBack, GiveBackNoFlow
<1>2. nrts \in Hosts \cup {NoNrts, NoAddr}
  BY <1>1 DEF IInv, TypeOK
<1>3. Shape'
  BY <1>1, <1>2, SentKeepsShape
<1>4. Busy'
  BY <1>1, ReturnReplacesLease DEF controllerVars
<1> QED
  BY <1>3, <1>4, IInvParts

LEMMA ReceiveGosrcStep ==
  ASSUME IInv, NEW g \in grants, ReceiveGosrc(g)
  PROVE  IInv'
<1>1. /\ g.src \in Senders /\ g.dst \in Receivers /\ g.src \in Hosts
      /\ grants' = grants \ {g} /\ UNCHANGED controllerVars
  BY Requests DEF IInv, KnownHosts, ReceiveGosrc
<1>2. CASE lease' = [lease EXCEPT ![g.dst] = g.src] /\ UNCHANGED listsrc
  <2> USE <1>1, <1>2 DEF controllerVars
  <2>1. /\ lease' \in [Receivers -> Hosts \cup {NoHost}]
        /\ \A e \in Receivers : lease'[e] \in {lease[e], g.src}
    BY DEF IInv, TypeOK
  <2>2. TypeOK'
    BY <2>1 DEF IInv, TypeOK, ControllerTypeOK
  <2>3. KnownHosts'
    BY <2>1 DEF IInv, KnownHosts
  <2>4. Ordered(pq)'
    BY DEF IInv, Ordered
  <2>5. Busy'
    BY LeaseReplacesGrant
  <2> QED
    BY <2>2, <2>3, <2>4, <2>5, IInvParts DEF Shape
<1>3. CASE lease' = [lease EXCEPT ![g.dst] = NoHost] /\ SendListsrc(g.dst, g.src)
  <2>1. Shape'
    BY <1>1, <1>3, SentKeepsShape
  <2>2. Busy'
    BY <1>1, <1>3, ReturnReplacesGrant DEF controllerVars
  <2> QED
    BY <2>1, <2>2, IInvParts
<1> QED
  BY <1>2, <1>3 DEF ReceiveGosrc

LEMMA LossStep ==
  ASSUME IInv, \/ \E m \in listsrc : LoseListsrc(m)
               \/ \E g \in grants : LoseGrant(g)
  PROVE  IInv'
<1>1. /\ listsrc' \subseteq listsrc /\ grants' \subseteq grants
      /\ UNCHANGED <<controllerVars, lease>>
  BY DEF LoseListsrc, LoseGrant, controllerVars
<1>2. Shape'
  BY <1>1, LostKeepsShape
<1>3. Returns' \subseteq Returns
  BY <1>1 DEF Returns
<1>4. Busy'
  BY <1>1, <1>3, NoNewClaim, IInvParts DEF controllerVars
<1> QED
  BY <1>2, <1>4, IInvParts

LEMMA HandleTimerStep ==
  ASSUME IInv, HandleTimer, UNCHANGED lease
  PROVE  IInv'
<1> USE DEF HandleTimer
<1>1. TypeOK'
  BY DEF IInv, TypeOK, ControllerTypeOK
<1>2. KnownHosts'
  BY DEF IInv, KnownHosts
<1>3. Ordered(pq)'
  BY DEF IInv, Ordered
<1>4. Returns' \subseteq Returns
  BY DEF Returns
<1>5. Busy'
  BY <1>4, NoNewClaim, IInvParts
<1> QED
  BY <1>1, <1>2, <1>3, <1>5, IInvParts DEF Shape

(* Any sizes, for what the queue holds. *)
LEMMA SizesAreNumbers == \A r \in KnownRequest : r.size \in Nat
  BY Requests

LEMMA ReceiveListsrcStep ==
  ASSUME IInv, NEW m \in listsrc, ReceiveListsrc(m), UNCHANGED lease
  PROVE  IInv'
<1>1. /\ pq \in Seq(KnownRequest) /\ Ordered(pq) /\ m.reqs \in Seq(KnownRequest)
      /\ m \in Listsrc /\ m.dst \in Receivers /\ m.dst \in Hosts
  BY Requests DEF IInv, TypeOK, ControllerTypeOK, KnownHosts
<1>2. pq' = PushAll(pq, m.reqs) /\ listsrc' = listsrc \ {m} /\ ~handling
      /\ UNCHANGED <<handling, grants>>
  BY DEF ReceiveListsrc
<1>3. pq' \in Seq(KnownRequest) /\ Ordered(pq')
  BY <1>1, <1>2, SizesAreNumbers, PushAllKeepsOrder
<1>4. pq' \in Seq(Request)
  BY <1>3, Requests, SeqMonotonic
<1>5. /\ senderState' \in [Hosts -> BOOLEAN]
      /\ receiverState' \in [Hosts -> BOOLEAN]
  <2>1. m.nrts # NoNrts => IpToId(m.nrts) \in Hosts
    BY <1>1, HostsAssumption DEF Listsrc, IpToId
  <2> QED
    BY <2>1, <1>1 DEF ReceiveListsrc, Freed, IInv, TypeOK, ControllerTypeOK
<1>6. TypeOK'
  BY <1>2, <1>4, <1>5 DEF IInv, TypeOK, ControllerTypeOK
<1>7. KnownHosts'
  BY <1>2, <1>3 DEF IInv, KnownHosts
<1>8. Ordered(pq)'
  BY <1>3
<1>9. Busy'
  <2>1. CASE m.nrts = NoNrts
    <3>1. Returns' \subseteq Returns
      BY <1>2 DEF Returns
    <3>2. UNCHANGED <<senderState, receiverState>>
      BY <2>1 DEF ReceiveListsrc
    <3> QED
      BY <3>1, <3>2, <1>2, NoNewClaim, IInvParts
  <2>2. CASE m.nrts # NoNrts
    BY <1>2, <2>2, NrtsFreesNoOther DEF ReceiveListsrc
  <2> QED
    BY <2>1, <2>2
<1> QED
  BY <1>6, <1>7, <1>8, <1>9, IInvParts DEF Shape

LEMMA HandleRequestStep ==
  ASSUME IInv, HandleRequest, UNCHANGED lease
  PROVE  IInv'
<1> DEFINE r == Head(pq)
<1>1. /\ pq # <<>> /\ pq \in Seq(KnownRequest) /\ Ordered(pq)
      /\ pq' = Tail(pq) /\ handling' = (Tail(pq) # <<>>) /\ listsrc' = listsrc
      /\ GrantHead(r) \/ DropHead(r)
  BY DEF HandleRequest, IInv, TypeOK, ControllerTypeOK, KnownHosts
<1>2. /\ r \in KnownRequest /\ Tail(pq) \in Seq(KnownRequest)
      /\ Len(Tail(pq)) = Len(pq) - 1
      /\ \A i \in 1..Len(Tail(pq)) : Tail(pq)[i] = pq[i + 1]
  BY <1>1, HeadTailProperties
<1>3. Tail(pq) \in Seq(Request)
  BY <1>2, Requests, SeqMonotonic
<1> HIDE DEF r
<1>4. r.src \in Senders /\ r.dst \in Receivers /\ r.src \in Hosts /\ r.dst \in Hosts
  BY <1>2, Requests
<1>5. /\ senderState' \in [Hosts -> BOOLEAN]
      /\ receiverState' \in [Hosts -> BOOLEAN]
      /\ grants' \subseteq grants \cup {[src |-> r.src, dst |-> r.dst]}
  BY <1>1, <1>4 DEF GrantHead, DropHead, IInv, TypeOK, ControllerTypeOK
<1>6. TypeOK'
  <2>1. grants' \subseteq Grant
    BY <1>4, <1>5 DEF Grant, IInv, TypeOK, ControllerTypeOK
  <2> QED
    BY <1>1, <1>3, <1>5, <2>1 DEF IInv, TypeOK, ControllerTypeOK
<1>7. KnownHosts'
  BY <1>1, <1>2, <1>4, <1>5 DEF IInv, KnownHosts
<1>8. Ordered(pq)'
  <2>1. /\ Len(pq) \in Nat /\ DOMAIN pq = 1..Len(pq)
        /\ Len(Tail(pq)) \in Nat /\ DOMAIN Tail(pq) = 1..Len(Tail(pq))
    BY <1>1, <1>2, LenProperties
  <2>2. ASSUME NEW i \in 1..Len(Tail(pq)), NEW j \in 1..Len(Tail(pq)), i < j
        PROVE  Tail(pq)[i].size <= Tail(pq)[j].size
    <3>1. i + 1 \in 1..Len(pq) /\ j + 1 \in 1..Len(pq) /\ i + 1 < j + 1
      BY <1>2, <2>1, <2>2
    <3> QED
      BY <1>1, <1>2, <2>1, <3>1 DEF Ordered
  <2> QED
    BY <1>1, <2>1, <2>2 DEF Ordered
<1>9. Busy'
  <2>1. CASE GrantHead(r)
    BY <1>1, <1>2, <2>1, GrantIsExclusive
  <2>2. CASE DropHead(r)
    <3>1. Returns' \subseteq Returns
      BY <1>1 DEF Returns
    <3>2. UNCHANGED <<senderState, receiverState, grants>>
      BY <2>2 DEF DropHead
    <3> QED
      BY <3>1, <3>2, NoNewClaim, IInvParts
  <2> QED
    BY <1>1, <2>1, <2>2
<1> QED
  BY <1>6, <1>7, <1>8, <1>9, IInvParts DEF Shape

LEMMA StutterKeepsIInv ==
  ASSUME IInv, UNCHANGED vars
  PROVE  IInv'
<1> USE DEF vars, controllerVars
<1>1. Shape'
  BY LostKeepsShape
<1>2. Returns' \subseteq Returns
  BY DEF Returns
<1>3. Busy'
  BY <1>2, NoNewClaim, IInvParts
<1> QED
  BY <1>1, <1>3, IInvParts

LEMMA InitIInv == Init => IInv
<1> SUFFICES ASSUME Init PROVE IInv
  OBVIOUS
<1> USE DEF Init, ControllerInit
<1>1. <<>> \in Seq(Request) /\ <<>> \in Seq(KnownRequest)
  BY EmptySeq
<1>2. TypeOK
  BY <1>1 DEF TypeOK, ControllerTypeOK
<1>3. KnownHosts
  BY <1>1 DEF KnownHosts
<1>4. Ordered(pq)
  BY DEF Ordered
<1>5. Returns = {} /\ \A d \in Receivers : lease[d] = NoHost
  BY DEF Returns
<1>6. \A d \in Receivers : ReceiverBusy(d)
  BY <1>5 DEF ReceiverBusy
<1>7. \A s \in Senders \ {0} : SenderBusy(s)
  <2>1. \A s \in Senders : s # NoHost
    BY Requests, NoHosts
  <2> QED
    BY <1>5, <2>1 DEF SenderBusy
<1> QED
  BY <1>2, <1>3, <1>4, <1>6, <1>7 DEF IInv

(* IInv holds of every reachable state. *)
THEOREM IInvInvariant == Spec => []IInv
<1>1. ASSUME IInv, [Next]_vars PROVE IInv'
  <2>1. CASE \E m \in listsrc : LoseListsrc(m)
    BY <1>1, <2>1, LossStep
  <2>2. CASE \E m \in listsrc : ReceiveListsrc(m) /\ UNCHANGED lease
    BY <1>1, <2>2, ReceiveListsrcStep
  <2>3. CASE HandleTimer /\ UNCHANGED lease
    BY <1>1, <2>3, HandleTimerStep
  <2>4. CASE HandleRequest /\ UNCHANGED lease
    BY <1>1, <2>4, HandleRequestStep
  <2>5. CASE \E g \in grants : ReceiveGosrc(g)
    BY <1>1, <2>5, ReceiveGosrcStep
  <2>6. CASE \E g \in grants : LoseGrant(g)
    BY <1>1, <2>6, LossStep
  <2>7. CASE \E d \in Receivers : Announce(d)
    BY <1>1, <2>7, AnnounceStep
  <2>8. CASE \E d \in Receivers : GiveBack(d) \/ GiveBackNoFlow(d)
    BY <1>1, <2>8, GiveBackStep
  <2>9. CASE UNCHANGED vars
    BY <1>1, <2>9, StutterKeepsIInv
  <2> QED
    BY <1>1, <2>1, <2>2, <2>3, <2>4, <2>5, <2>6, <2>7, <2>8, <2>9 DEF Next
<1> QED
  BY <1>1, InitIInv, PTL DEF Spec

-----------------------------------------------------------------------------
(* The properties *)

(* A set of two parts with one element in all. *)
LEMMA OneInAll ==
  ASSUME NEW A, NEW B,
         \/ A = {} /\ B = {}
         \/ (\E x : A = {x}) /\ B = {}
         \/ A = {} /\ (\E x : B = {x})
  PROVE  Cardinality(A) + Cardinality(B) <= 1
<1>1. Cardinality({}) = 0
  BY FS_EmptySet
<1>2. \A x : Cardinality({x}) = 1
  BY FS_Singleton
<1>3. CASE A = {} /\ B = {}
  BY <1>1, <1>3
<1>4. CASE (\E x : A = {x}) /\ B = {}
  <2>1. Cardinality(A) = 1 /\ Cardinality(B) = 0
    BY <1>1, <1>2, <1>4
  <2> QED
    BY <2>1
<1>5. CASE A = {} /\ (\E x : B = {x})
  <2>1. Cardinality(A) = 0 /\ Cardinality(B) = 1
    BY <1>1, <1>2, <1>5
  <2> QED
    BY <2>1
<1> QED
  BY <1>3, <1>4, <1>5

(* The state of the controller, its packets and the receivers is one of their
   types. *)
THEOREM TypeCorrect == Spec => []TypeOK
<1>1. IInv => TypeOK
  BY DEF IInv
<1> QED
  BY <1>1, IInvInvariant, PTL

LEMMA IInvImpliesReceiverExclusive == IInv => ReceiverExclusive
<1> SUFFICES ASSUME IInv PROVE ReceiverExclusive
  OBVIOUS
<1> DEFINE mine(d) == {c \in Claims : c[2] = d}
           back(d) == {m \in Returns : m.dst = d}
<1> SUFFICES ASSUME NEW d \in Receivers
             PROVE  /\ Cardinality(mine(d)) + Cardinality(back(d)) <= 1
                    /\ mine(d) \cup back(d) # {} => ~receiverState[d]
  BY DEF ReceiverExclusive
<1>1. ReceiverBusy(d)
  BY DEF IInv
<1>2. \A c : c \in mine(d) <=> \/ \E g \in grants : g.dst = d /\ c = <<g.src, g.dst>>
                               \/ lease[d] # NoHost /\ c = <<lease[d], d>>
  BY DEF Claims
<1>3. CASE \E g \in grants : g.dst = d
  <2>1. PICK g \in grants : g.dst = d
    BY <1>3
  <2>2. mine(d) = {<<g.src, g.dst>>} /\ ~receiverState[d]
    <3> HIDE DEF mine
    <3> QED
      BY <1>1, <1>2, <2>1 DEF ReceiverBusy
  <2>3. back(d) = {}
    BY <1>1, <2>1 DEF ReceiverBusy
  <2> HIDE DEF mine, back
  <2> QED
    BY <2>2, <2>3, OneInAll
<1>4. CASE lease[d] # NoHost
  <2>1. mine(d) = {<<lease[d], d>>} /\ ~receiverState[d]
    <3> HIDE DEF mine
    <3> QED
      BY <1>1, <1>2, <1>4 DEF ReceiverBusy
  <2>2. back(d) = {}
    BY <1>1, <1>4 DEF ReceiverBusy
  <2> HIDE DEF mine, back
  <2> QED
    BY <2>1, <2>2, OneInAll
<1>5. CASE (\A g \in grants : g.dst # d) /\ lease[d] = NoHost
  <2>1. mine(d) = {}
    <3> HIDE DEF mine
    <3> QED
      BY <1>2, <1>5
  <2>2. CASE back(d) = {}
    <3> HIDE DEF mine, back
    <3> QED
      BY <2>1, <2>2, OneInAll
  <2>3. CASE back(d) # {}
    <3>1. PICK m : m \in back(d)
      BY <2>3
    <3>2. back(d) = {m} /\ ~receiverState[d]
      BY <1>1, <3>1 DEF ReceiverBusy
    <3> HIDE DEF mine, back
    <3> QED
      BY <2>1, <3>2, OneInAll
  <2> QED
    BY <2>2, <2>3
<1> QED
  BY <1>3, <1>4, <1>5

(* Whatever is lost or reordered, a receiver has one grant at a time, and the
   controller does not grant it anything before it has seen the NRTS. *)
THEOREM ReceiversExclusive == Spec => []ReceiverExclusive
  BY IInvInvariant, IInvImpliesReceiverExclusive, PTL

LEMMA IInvImpliesSenderExclusive == IInv => SenderExclusive
<1> SUFFICES ASSUME IInv PROVE SenderExclusive
  OBVIOUS
<1> DEFINE its(s) == {c \in Claims : c[1] = s}
           back(s) == {m \in Returns : m.nrts = s}
<1> SUFFICES ASSUME NEW s \in Senders \ {0}
             PROVE  /\ Cardinality(its(s)) + Cardinality(back(s)) <= 1
                    /\ its(s) \cup back(s) # {} => ~senderState[s]
  BY DEF SenderExclusive
<1>1. SenderBusy(s) /\ s # NoHost
  BY Requests, NoHosts DEF IInv
<1>2. \A c : c \in its(s) <=> \/ \E g \in grants : g.src = s /\ c = <<g.src, g.dst>>
                              \/ \E d \in Receivers : lease[d] = s /\ c = <<lease[d], d>>
  BY <1>1 DEF Claims
<1>3. CASE \E g \in grants : g.src = s
  <2>1. PICK g \in grants : g.src = s
    BY <1>3
  <2>2. its(s) = {<<g.src, g.dst>>} /\ ~senderState[s]
    <3> HIDE DEF its
    <3> QED
      BY <1>1, <1>2, <2>1 DEF SenderBusy
  <2>3. back(s) = {}
    BY <1>1, <2>1 DEF SenderBusy
  <2> HIDE DEF its, back
  <2> QED
    BY <2>2, <2>3, OneInAll
<1>4. CASE \E d \in Receivers : lease[d] = s
  <2>1. PICK d \in Receivers : lease[d] = s
    BY <1>4
  <2>2. its(s) = {<<lease[d], d>>} /\ ~senderState[s]
    <3> HIDE DEF its
    <3> QED
      BY <1>1, <1>2, <2>1 DEF SenderBusy
  <2>3. back(s) = {}
    BY <1>1, <2>1 DEF SenderBusy
  <2> HIDE DEF its, back
  <2> QED
    BY <2>2, <2>3, OneInAll
<1>5. CASE (\A g \in grants : g.src # s) /\ (\A d \in Receivers : lease[d] # s)
  <2>1. its(s) = {}
    <3> HIDE DEF its
    <3> QED
      BY <1>2, <1>5
  <2>2. CASE back(s) = {}
    <3> HIDE DEF its, back
    <3> QED
      BY <2>1, <2>2, OneInAll
  <2>3. CASE back(s) # {}
    <3>1. PICK m : m \in back(s)
      BY <2>3
    <3>2. back(s) = {m} /\ ~senderState[s]
      BY <1>1, <3>1 DEF SenderBusy
    <3> HIDE DEF its, back
    <3> QED
      BY <2>1, <3>2, OneInAll
  <2> QED
    BY <2>2, <2>3
<1> QED
  BY <1>3, <1>4, <1>5

(* The same for a sender: no two receivers hold it, and none is granted it
   while its NRTS is on the way. *)
THEOREM SendersExclusive == Spec => []SenderExclusive
  BY IInvInvariant, IInvImpliesSenderExclusive, PTL

(* handle_requests serves the smallest of the requests it can serve: the
   queue is ordered whatever the order in which the requests came. *)
THEOREM SmallestServedFirst == Spec => SmallestFirst
<1>1. ASSUME IInv, HandleRequest, NEW i \in DOMAIN pq
      PROVE  Head(pq).size <= pq[i].size
  <2>1. pq # <<>> /\ pq \in Seq(KnownRequest) /\ Ordered(pq)
    BY <1>1 DEF HandleRequest, IInv, TypeOK, ControllerTypeOK, KnownHosts
  <2>2. Len(pq) \in Nat /\ DOMAIN pq = 1..Len(pq)
    BY <2>1, LenProperties
  <2>3. Head(pq) = pq[1]
    BY <2>1
  <2>4. CASE i = 1
    BY <2>1, <2>2, <2>3, <2>4, SizesAreNumbers, ElementOfSeq
  <2>5. CASE i # 1
    <3>1. 1 \in DOMAIN pq /\ 1 < i
      BY <1>1, <2>2, <2>5
    <3> QED
      BY <2>1, <2>3, <3>1 DEF Ordered
  <2> QED
    BY <2>4, <2>5
<1>2. IInv /\ [Next]_vars =>
        [HandleRequest /\ grants' # grants =>
           \A i \in DOMAIN pq : Feasible(pq[i]) => Head(pq).size <= pq[i].size]_vars
  BY <1>1
<1> QED
  BY <1>2, IInvInvariant, PTL DEF Spec, SmallestFirst

-----------------------------------------------------------------------------
(* The grant of each receiver *)

GrantSent(d) == \E g \in grants : g.dst = d
ReturnSent(d) == \E m \in Returns : m.dst = d

LEMMA LeaseIs ==
  ASSUME NEW d
  PROVE  /\ LeaseOf(d) = IF GrantSent(d) THEN "granted"
                         ELSE IF lease[d] # NoHost THEN "held"
                         ELSE IF ReturnSent(d) THEN "returning"
                         ELSE IF receiverState[d] THEN "free" ELSE "lost"
         /\ LeaseOf(d)' = IF GrantSent(d)' THEN "granted"
                          ELSE IF lease'[d] # NoHost THEN "held"
                          ELSE IF ReturnSent(d)' THEN "returning"
                          ELSE IF receiverState'[d] THEN "free" ELSE "lost"
  BY DEF LeaseOf, GrantSent, ReturnSent

(* It is in one of these places only, and a receiver that is free has none. *)
LEMMA OnePlace ==
  ASSUME IInv, NEW d \in Receivers
  PROVE  /\ GrantSent(d) => lease[d] = NoHost
         /\ ReturnSent(d) => ~GrantSent(d) /\ lease[d] = NoHost
         /\ GrantSent(d) \/ lease[d] # NoHost \/ ReturnSent(d) => ~receiverState[d]
         /\ \A g, h \in grants : g.dst = d /\ h.dst = d => g = h
         /\ \A m, n \in Returns : m.dst = d /\ n.dst = d => m = n
<1>1. ReceiverBusy(d)
  BY DEF IInv
<1> QED
  BY <1>1 DEF ReceiverBusy, GrantSent, ReturnSent

LeaseKept(d) == [GrantLeaseOf(d)!Next]_(LeaseOf(d))

LEMMA LeaseMoves ==
  ASSUME NEW d,
         \/ LeaseOf(d)' = LeaseOf(d)
         \/ LeaseOf(d) = "free" /\ LeaseOf(d)' = "granted"
         \/ LeaseOf(d) = "granted" /\ LeaseOf(d)' \in {"held", "returning", "lost"}
         \/ LeaseOf(d) = "held" /\ LeaseOf(d)' = "returning"
         \/ LeaseOf(d) = "returning" /\ LeaseOf(d)' \in {"free", "lost"}
  PROVE  LeaseKept(d)
  BY DEF LeaseKept, GrantLeaseOf!Next, GrantLeaseOf!Grant, GrantLeaseOf!Take,
     GrantLeaseOf!Refuse, GrantLeaseOf!Return, GrantLeaseOf!Free, GrantLeaseOf!Lose

LEMMA LeaseStays ==
  ASSUME NEW d, GrantSent(d)' <=> GrantSent(d), ReturnSent(d)' <=> ReturnSent(d),
         lease'[d] = lease[d], receiverState'[d] = receiverState[d]
  PROVE  LeaseKept(d)
  BY LeaseIs, LeaseMoves

(* A packet is lost. *)
LEMMA LossMovesLease ==
  ASSUME IInv, NEW d \in Receivers,
         \/ \E m \in listsrc : LoseListsrc(m)
         \/ \E g \in grants : LoseGrant(g)
  PROVE  LeaseKept(d)
<1>1. lease' = lease /\ receiverState' = receiverState
  BY DEF LoseListsrc, LoseGrant, controllerVars
<1>2. ASSUME NEW m \in listsrc, LoseListsrc(m)
      PROVE  LeaseKept(d)
  <2>1. (GrantSent(d)' <=> GrantSent(d)) /\ Returns' = Returns \ {m}
    BY <1>2 DEF LoseListsrc, GrantSent, Returns
  <2>2. CASE m \in Returns /\ m.dst = d
    <3>1. ReturnSent(d) /\ ~ReturnSent(d)'
      BY <2>1, <2>2, OnePlace DEF ReturnSent
    <3> QED
      BY <1>1, <2>1, <3>1, OnePlace, LeaseIs, LeaseMoves
  <2>3. CASE ~(m \in Returns /\ m.dst = d)
    <3>1. ReturnSent(d)' <=> ReturnSent(d)
      BY <2>1, <2>3 DEF ReturnSent
    <3> QED
      BY <1>1, <2>1, <3>1, LeaseStays
  <2> QED
    BY <2>2, <2>3
<1>3. ASSUME NEW g \in grants, LoseGrant(g)
      PROVE  LeaseKept(d)
  <2>1. (ReturnSent(d)' <=> ReturnSent(d)) /\ grants' = grants \ {g}
    BY <1>3 DEF LoseGrant, ReturnSent, Returns
  <2>2. CASE g.dst = d
    <3>1. GrantSent(d) /\ ~GrantSent(d)'
      BY <2>1, <2>2, OnePlace DEF GrantSent
    <3> QED
      BY <1>1, <2>1, <3>1, OnePlace, LeaseIs, LeaseMoves
  <2>3. CASE g.dst # d
    <3>1. GrantSent(d)' <=> GrantSent(d)
      BY <2>1, <2>3 DEF GrantSent
    <3> QED
      BY <1>1, <2>1, <3>1, LeaseStays
  <2> QED
    BY <2>2, <2>3
<1> QED
  BY <1>2, <1>3

(* The controller frees the receiver that an NRTS names. *)
LEMMA ReceiveListsrcMovesLease ==
  ASSUME IInv, NEW d \in Receivers, NEW m \in listsrc, ReceiveListsrc(m), UNCHANGED lease
  PROVE  LeaseKept(d)
<1>1. (GrantSent(d)' <=> GrantSent(d)) /\ Returns' = Returns \ {m}
  BY DEF ReceiveListsrc, GrantSent, Returns
<1>2. m.dst \in Hosts /\ receiverState \in [Hosts -> BOOLEAN] /\ d \in Hosts
  BY Requests DEF IInv, TypeOK, ControllerTypeOK, KnownHosts
<1>3. CASE m.nrts # NoNrts /\ m.dst = d
  <2>1. ReturnSent(d) /\ ~ReturnSent(d)'
    BY <1>1, <1>3, OnePlace DEF ReturnSent, Returns
  <2>2. receiverState'[d] = TRUE
    BY <1>2, <1>3 DEF ReceiveListsrc, Freed
  <2> QED
    BY <1>1, <2>1, <2>2, OnePlace, LeaseIs, LeaseMoves
<1>4. CASE ~(m.nrts # NoNrts /\ m.dst = d)
  <2>1. ReturnSent(d)' <=> ReturnSent(d)
    BY <1>1, <1>4 DEF ReturnSent, Returns
  <2>2. receiverState'[d] = receiverState[d]
    BY <1>2, <1>4 DEF ReceiveListsrc, Freed
  <2> QED
    BY <1>1, <2>1, <2>2, LeaseStays
<1> QED
  BY <1>3, <1>4

(* handle_requests grants to a free receiver. *)
LEMMA HandleRequestMovesLease ==
  ASSUME IInv, NEW d \in Receivers, HandleRequest, UNCHANGED lease
  PROVE  LeaseKept(d)
<1> DEFINE r == Head(pq)
           made == [src |-> r.src, dst |-> r.dst]
<1>1. GrantHead(r) \/ DropHead(r)
  BY DEF HandleRequest
<1>2. ReturnSent(d)' <=> ReturnSent(d)
  BY DEF HandleRequest, ReturnSent, Returns
<1>3. receiverState \in [Hosts -> BOOLEAN] /\ d \in Hosts
  BY Requests DEF IInv, TypeOK, ControllerTypeOK
<1> HIDE DEF r
<1>0. made.dst = r.dst
  OBVIOUS
<1>4. CASE DropHead(r)
  <2>1. (GrantSent(d)' <=> GrantSent(d)) /\ receiverState' = receiverState
    BY <1>4 DEF DropHead, GrantSent
  <2> QED
    BY <1>2, <2>1, LeaseStays
<1>5. CASE GrantHead(r)
  <2>1. /\ grants' = grants \cup {made}
        /\ receiverState' = [receiverState EXCEPT ![r.dst] = FALSE]
        /\ receiverState[r.dst]
    BY <1>5 DEF GrantHead, Feasible
  <2> HIDE DEF made
  <2>2. CASE r.dst = d
    <3>1. GrantSent(d)'
      BY <1>0, <2>1, <2>2 DEF GrantSent
    <3> QED
      BY <2>1, <2>2, <3>1, OnePlace, LeaseIs, LeaseMoves
  <2>3. CASE r.dst # d
    <3>1. GrantSent(d)' <=> GrantSent(d)
      BY <1>0, <2>1, <2>3 DEF GrantSent
    <3>2. receiverState'[d] = receiverState[d]
      BY <1>3, <2>1, <2>3
    <3>3. lease'[d] = lease[d]
      OBVIOUS
    <3> QED
      BY <1>2, <3>1, <3>2, <3>3, LeaseStays
  <2> QED
    BY <2>2, <2>3
<1> QED
  BY <1>1, <1>4, <1>5

(* A receiver sends a listsrc, with or without NRTS. *)
LEMMA SentReturn ==
  ASSUME NEW e \in Receivers, NEW nrts \in Hosts \cup {NoNrts, NoAddr},
         SendListsrc(e, nrts), NEW d \in Receivers
  PROVE  ReturnSent(d)' <=> ReturnSent(d) \/ (e = d /\ nrts # NoNrts)
<1>1. PICK m \in Listsrc : listsrc' = listsrc \cup {m} /\ m.dst = e /\ m.nrts = nrts
  BY SentListsrc
<1>2. Returns' = IF nrts # NoNrts THEN Returns \cup {m} ELSE Returns
  BY <1>1 DEF Returns
<1> QED
  BY <1>1, <1>2 DEF ReturnSent

(* A grant arrives and is taken or refused. *)
LEMMA ReceiveGosrcMovesLease ==
  ASSUME IInv, NEW d \in Receivers, NEW g \in grants, ReceiveGosrc(g)
  PROVE  LeaseKept(d)
<1>1. /\ g.src \in Hosts /\ g.dst \in Receivers /\ g.src # NoHost /\ g.src # NoNrts
      /\ grants' = grants \ {g} /\ receiverState' = receiverState
      /\ lease \in [Receivers -> Hosts \cup {NoHost}]
  BY Requests, NoHosts DEF IInv, TypeOK, KnownHosts, ReceiveGosrc, controllerVars
<1>2. \/ lease' = [lease EXCEPT ![g.dst] = g.src] /\ (ReturnSent(d)' <=> ReturnSent(d))
      \/ /\ lease' = [lease EXCEPT ![g.dst] = NoHost]
         /\ (ReturnSent(d)' <=> (ReturnSent(d) \/ g.dst = d))
  <2>1. UNCHANGED listsrc => (ReturnSent(d)' <=> ReturnSent(d))
    BY DEF ReturnSent, Returns
  <2>2. SendListsrc(g.dst, g.src) => (ReturnSent(d)' <=> (ReturnSent(d) \/ g.dst = d))
    BY <1>1, SentReturn
  <2> QED
    BY <2>1, <2>2 DEF ReceiveGosrc
<1>3. CASE g.dst = d
  <2>1. GrantSent(d) /\ ~GrantSent(d)'
    BY <1>1, <1>3, OnePlace DEF GrantSent
  <2>2. lease'[d] # NoHost \/ ReturnSent(d)'
    BY <1>1, <1>2, <1>3
  <2> QED
    BY <2>1, <2>2, LeaseIs, LeaseMoves
<1>4. CASE g.dst # d
  <2>1. GrantSent(d)' <=> GrantSent(d)
    BY <1>1, <1>4 DEF GrantSent
  <2>2. lease'[d] = lease[d]
    BY <1>1, <1>2, <1>4
  <2>3. ReturnSent(d)' <=> ReturnSent(d)
    BY <1>2, <1>4
  <2> QED
    BY <1>1, <2>1, <2>2, <2>3, LeaseStays
<1> QED
  BY <1>3, <1>4

(* The lease is given back, with the source or with no source in the NRTS. *)
LEMMA GiveBackMovesLease ==
  ASSUME IInv, NEW d \in Receivers, NEW e \in Receivers, GiveBack(e) \/ GiveBackNoFlow(e)
  PROVE  LeaseKept(d)
<1>1. PICK nrts \in {lease[e], NoAddr} :
        /\ lease[e] # NoHost /\ SendListsrc(e, nrts)
        /\ lease' = [lease EXCEPT ![e] = NoHost]
        /\ UNCHANGED <<controllerVars, grants>>
  BY DEF GiveBack, GiveBackNoFlow
<1>2. nrts \in Hosts \cup {NoNrts, NoAddr} /\ nrts # NoNrts
      /\ lease \in [Receivers -> Hosts \cup {NoHost}]
  BY <1>1, NoHosts DEF IInv, TypeOK
<1>3. ReturnSent(d)' <=> (ReturnSent(d) \/ e = d)
  BY <1>1, <1>2, SentReturn
<1>4. (GrantSent(d)' <=> GrantSent(d)) /\ receiverState' = receiverState
  BY <1>1 DEF GrantSent, controllerVars
<1>5. CASE e = d
  <2>1. lease[d] # NoHost /\ lease'[d] = NoHost /\ ReturnSent(d)' /\ ~GrantSent(d)
    BY <1>1, <1>2, <1>3, <1>5, OnePlace
  <2> QED
    BY <1>4, <2>1, LeaseIs, LeaseMoves
<1>6. CASE e # d
  <2>1. lease'[d] = lease[d]
    BY <1>1, <1>2, <1>6
  <2>2. ReturnSent(d)' <=> ReturnSent(d)
    BY <1>3, <1>6
  <2> QED
    BY <1>4, <2>1, <2>2, LeaseStays
<1> QED
  BY <1>5, <1>6

LEMMA QuietLease ==
  ASSUME IInv, NEW d \in Receivers,
         \/ \E e \in Receivers : Announce(e)
         \/ HandleTimer /\ UNCHANGED lease
         \/ UNCHANGED vars
  PROVE  LeaseKept(d)
<1>1. (GrantSent(d)' <=> GrantSent(d)) /\ lease' = lease /\ receiverState' = receiverState
  BY DEF Announce, HandleTimer, vars, controllerVars, GrantSent
<1>2. ReturnSent(d)' <=> ReturnSent(d)
  <2>1. UNCHANGED listsrc => (ReturnSent(d)' <=> ReturnSent(d))
    BY DEF ReturnSent, Returns
  <2>2. ASSUME NEW e \in Receivers, Announce(e)
        PROVE  ReturnSent(d)' <=> ReturnSent(d)
    <3>1. SendListsrc(e, NoNrts) /\ NoNrts \in Hosts \cup {NoNrts, NoAddr}
      BY <2>2 DEF Announce
    <3> QED
      BY <3>1, SentReturn
  <2> QED
    BY <2>1, <2>2 DEF HandleTimer, vars
<1> QED
  BY <1>1, <1>2, LeaseStays

(* rtp_host.c: for any receivers and senders that compete, and whatever is
   lost, every one of the receivers has its grants one at a time, as
   GrantLease says. *)
THEOREM ImplementsGrantLease == Spec => EachHasOneGrant
<1>1. Init => \A d \in Receivers : GrantLeaseOf(d)!Init
  <2> SUFFICES ASSUME Init, NEW d \in Receivers PROVE LeaseOf(d) = "free"
    BY DEF GrantLeaseOf!Init
  <2>1. ~GrantSent(d) /\ ~ReturnSent(d) /\ lease[d] = NoHost /\ receiverState[d]
    BY Requests DEF Init, ControllerInit, GrantSent, ReturnSent, Returns
  <2> QED
    BY <2>1, LeaseIs
<1>2. ASSUME IInv, [Next]_vars, NEW d \in Receivers PROVE LeaseKept(d)
  BY <1>2, LossMovesLease, ReceiveListsrcMovesLease, HandleRequestMovesLease,
     ReceiveGosrcMovesLease, GiveBackMovesLease, QuietLease DEF Next
<1>3. IInv /\ [Next]_vars => \A d \in Receivers : [GrantLeaseOf(d)!Next]_(LeaseOf(d))
  BY <1>2 DEF LeaseKept
<1> QED
  BY <1>1, <1>3, IInvInvariant, PTL DEF Spec, EachHasOneGrant

=============================================================================
