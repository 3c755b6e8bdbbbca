------------------------ MODULE CoapSendQueueProofs ------------------------
(***************************************************************************)
(* Machine-checked proofs about the retransmission timers, for any number  *)
(* of messages, any timeouts and any bounds: every deadline in the list of *)
(* relative times is exact, nothing due is left when coap_io_prepare_io()  *)
(* ends, and the timer descriptor wakes the application up in time.        *)
(***************************************************************************)
EXTENDS CoapSendQueue, InductionFacts

-----------------------------------------------------------------------------
(* The list of relative times.                                             *)

Nodes == [id : Node, t : Nat]

\* s holds the sums of the relative times of q.
IsSum(s, q) ==
  /\ s \in [0..Len(q) -> Nat]
  /\ s[0] = 0
  /\ \A k \in 1..Len(q) : s[k] = s[k - 1] + q[k].t

\* What SMT needs about a queue.
LEMMA QueueTypes ==
  ASSUME NEW q \in Seq(Nodes)
  PROVE  /\ Len(q) \in Nat
         /\ DOMAIN q = 1..Len(q)
         /\ \A k \in 1..Len(q) : q[k] \in Nodes /\ q[k].t \in Nat /\ q[k].id \in Node
<1>1. /\ Len(q) \in Nat /\ DOMAIN q = 1..Len(q)
      /\ \A k \in 1..Len(q) : q[k] \in Nodes
  OBVIOUS
<1> QED
  BY <1>1 DEF Nodes

LEMMA SumExists ==
  ASSUME NEW q \in Seq(Nodes)
  PROVE  \E s : IsSum(s, q)
<1>1. /\ Len(q) \in Nat
      /\ \A k \in 1..Len(q) : q[k].t \in Nat
  BY QueueTypes
<1> DEFINE n == Len(q)
           g == [x \in (1..n) \X Nat |-> x[2] + q[x[1]].t]
<1> HIDE DEF n
<1>2. g \in [(1..n) \X Nat -> Nat]
  BY <1>1 DEF n
<1>3. \A k \in 1..n, v \in Nat : g[<<k, v>>] = v + q[k].t
  OBVIOUS
<1> HIDE DEF g
<1>4. n \in Nat /\ 0 \in Nat
  BY <1>1 DEF n
<1>5. PICK s : Follows(s, Nat, n, 0, g)
  BY <1>2, <1>4, FollowsExists
<1>6. /\ s \in [0..n -> Nat] /\ s[0] = 0
      /\ \A k \in 1..n : s[k] = g[<<k, s[k - 1]>>]
  BY <1>5 DEF Follows
<1>7. \A k \in 1..n : s[k - 1] \in Nat
  BY <1>4, <1>6
<1> QED
  BY <1>3, <1>6, <1>7, ZenonT(60) DEF IsSum, n

\* There is one such function, and Since is it.
LEMMA SinceIsSum ==
  ASSUME NEW q \in Seq(Nodes), NEW s, IsSum(s, q)
  PROVE  \A i \in 0..Len(q) : Since(q, i) = s[i]
<1>1. /\ Len(q) \in Nat
      /\ \A k \in 1..Len(q) : q[k].t \in Nat
  BY QueueTypes
<1> DEFINE n == Len(q)
           Sum(f) == f = [k \in 0..n |-> IF k = 0 THEN 0 ELSE f[k - 1] + q[k].t]
           c == CHOOSE f : Sum(f)
<1> HIDE DEF n
<1>2. /\ s \in [0..n -> Nat] /\ s[0] = 0
      /\ \A k \in 1..n : s[k] = s[k - 1] + q[k].t
  BY DEF IsSum, n
<1>3. s = [k \in 0..n |-> IF k = 0 THEN 0 ELSE s[k - 1] + q[k].t]
  <2> DEFINE r == [k \in 0..n |-> IF k = 0 THEN 0 ELSE s[k - 1] + q[k].t]
  <2>1. \A k \in 0..n : s[k] = r[k]
    BY <1>1, <1>2 DEF n
  <2>2. s = [k \in 0..n |-> s[k]] /\ r = [k \in 0..n |-> r[k]]
    BY <1>2
  <2> QED
    BY <2>1, <2>2
<1>4. Sum(c)
  BY <1>3
<1>5. \A i \in 0..n : Since(q, i) = c[i]
  BY DEF Since, n
<1> HIDE DEF c
<1>6. c[0] = 0 /\ \A k \in 1..n : c[k] = c[k - 1] + q[k].t
  BY <1>1, <1>4 DEF n
<1> DEFINE G == {i \in 0..n : c[i] = s[i]}
<1>7. 0 \in G /\ \A k \in 1..n : k - 1 \in G => k \in G
  BY <1>1, <1>2, <1>6 DEF n
<1>8. n \in Nat
  BY <1>1 DEF n
<1> HIDE DEF G
<1>9. \A k \in 0..n : k \in G
  BY <1>7, <1>8, UpTo
<1> QED
  BY <1>5, <1>9 DEF G, n

\* Since as it is used: sums of the relative times.
LEMMA SinceSteps ==
  ASSUME NEW q \in Seq(Nodes)
  PROVE  /\ Since(q, 0) = 0
         /\ \A k \in 0..Len(q) : Since(q, k) \in Nat
         /\ \A k \in 1..Len(q) : Since(q, k) = Since(q, k - 1) + q[k].t
<1>1. Len(q) \in Nat
  BY QueueTypes
<1>2. PICK s : IsSum(s, q)
  BY SumExists
<1>3. \A i \in 0..Len(q) : Since(q, i) = s[i]
  BY <1>2, SinceIsSum
<1> DEFINE n == Len(q)
<1>4. /\ s \in [0..n -> Nat] /\ s[0] = 0
      /\ \A k \in 1..n : s[k] = s[k - 1] + q[k].t
  BY <1>2 DEF IsSum
<1>5. n \in Nat /\ \A i \in 0..n : Since(q, i) = s[i]
  BY <1>1, <1>3
<1> HIDE DEF n
<1>6. /\ Since(q, 0) = 0
      /\ \A k \in 0..n : Since(q, k) \in Nat
  BY <1>4, <1>5
<1>7. ASSUME NEW k \in 1..n PROVE Since(q, k) = Since(q, k - 1) + q[k].t
  <2>1. k \in 0..n /\ k - 1 \in 0..n
    BY <1>5
  <2> QED
    BY <1>4, <1>5, <2>1
<1> QED
  BY <1>6, <1>7 DEF n

\* Deadlines grow along the list.
LEMMA SinceGrows ==
  ASSUME NEW q \in Seq(Nodes), NEW i \in 0..Len(q)
  PROVE  \A j \in 0..Len(q) : i <= j => Since(q, i) <= Since(q, j)
<1> DEFINE n == Len(q)
           G == {j \in 0..n : i <= j => Since(q, i) <= Since(q, j)}
<1>1. n \in Nat /\ \A k \in 1..n : q[k].t \in Nat
  BY QueueTypes
<1>2. /\ Since(q, 0) = 0
      /\ \A k \in 0..n : Since(q, k) \in Nat
      /\ \A k \in 1..n : Since(q, k) = Since(q, k - 1) + q[k].t
  BY SinceSteps
<1>3. i \in 0..n
  OBVIOUS
<1> HIDE DEF n
<1>4. 0 \in G
  BY <1>1, <1>2, <1>3
<1>5. ASSUME NEW k \in 1..n, k - 1 \in G PROVE k \in G
  <2>1. k - 1 \in 0..n /\ k \in 0..n /\ Since(q, k - 1) <= Since(q, k)
    <3>1. k - 1 \in 0..n /\ k \in 0..n
      BY <1>1
    <3>2. /\ Since(q, k - 1) \in Nat /\ q[k].t \in Nat
          /\ Since(q, k) = Since(q, k - 1) + q[k].t
      BY <1>1, <1>2, <3>1
    <3> QED
      BY <3>1, <3>2
  <2>2. CASE i <= k - 1
    BY <1>1, <1>2, <1>3, <1>5, <2>1, <2>2
  <2>3. CASE i = k
    BY <1>2, <1>3, <2>1, <2>3
  <2>4. CASE i > k
    BY <1>3, <2>1, <2>4
  <2> QED
    BY <1>3, <2>2, <2>3, <2>4
<1> HIDE DEF G
<1>6. \A k \in 0..n : k \in G
  BY <1>1, <1>4, <1>5, UpTo
<1> QED
  BY <1>6 DEF G, n

\* The relative time of one node changes.
LEMMA ShiftFacts ==
  ASSUME NEW q \in Seq(Nodes), NEW i \in 1..Len(q), NEW d \in Int,
         q[i].t + d \in Nat
  PROVE  /\ Shift(q, i, d) \in Seq(Nodes)
         /\ Len(Shift(q, i, d)) = Len(q)
         /\ \A j \in 1..Len(q) :
              /\ Shift(q, i, d)[j].id = q[j].id
              /\ Shift(q, i, d)[j].t = IF j = i THEN q[j].t + d ELSE q[j].t
<1>1. /\ Len(q) \in Nat /\ DOMAIN q = 1..Len(q)
      /\ \A k \in 1..Len(q) : q[k] \in Nodes /\ q[k].t \in Nat /\ q[k].id \in Node
  BY QueueTypes
<1> DEFINE v == q[i].t + d
           x == [q[i] EXCEPT !.t = v]
<1>2. Shift(q, i, d) = [q EXCEPT ![i] = x]
  BY <1>1 DEF Shift
<1>3. q[i] \in [id : Node, t : Nat] /\ v \in Nat
  BY <1>1 DEF Nodes
<1> HIDE DEF v
<1>4. x \in [id : Node, t : Nat] /\ x.id = q[i].id /\ x.t = v
  BY <1>3
<1>5. x \in Nodes
  BY <1>4 DEF Nodes
<1> HIDE DEF x
<1>6. /\ [q EXCEPT ![i] = x] \in Seq(Nodes)
      /\ Len([q EXCEPT ![i] = x]) = Len(q)
      /\ \A j \in 1..Len(q) : [q EXCEPT ![i] = x][j] = IF j = i THEN x ELSE q[j]
  BY <1>5, ExceptSeq
<1> DEFINE new == [q EXCEPT ![i] = x]
<1> HIDE DEF new
<1>7. /\ new \in Seq(Nodes) /\ Len(new) = Len(q)
      /\ \A j \in 1..Len(q) : new[j] = IF j = i THEN x ELSE q[j]
  BY <1>6 DEF new
<1>8. \A j \in 1..Len(q) : /\ new[j].id = q[j].id
                           /\ new[j].t = IF j = i THEN q[j].t + d ELSE q[j].t
  BY <1>4, <1>7 DEF v
<1> QED
  BY <1>2, <1>7, <1>8 DEF new

\* Taking out the i-th node, and putting x before the i-th.
LEMMA RemoveAtFacts ==
  ASSUME NEW q \in Seq(Nodes), NEW i \in 1..Len(q)
  PROVE  /\ RemoveAt(q, i) \in Seq(Nodes)
         /\ Len(RemoveAt(q, i)) = Len(q) - 1
         /\ \A j \in 1..(Len(q) - 1) :
              RemoveAt(q, i)[j] = IF j < i THEN q[j] ELSE q[j + 1]
<1> DEFINE a == SubSeq(q, 1, i - 1)
           b == SubSeq(q, i + 1, Len(q))
           new == a \o b
<1>0. Len(q) \in Nat /\ i \in 1..Len(q)
  OBVIOUS
<1>1. a \in Seq(Nodes) /\ Len(a) = i - 1 /\ \A j \in 1..(i - 1) : a[j] = q[j]
  OBVIOUS
<1>2. /\ b \in Seq(Nodes) /\ Len(b) = Len(q) - i
      /\ \A j \in 1..(Len(q) - i) : b[j] = q[i + j]
  OBVIOUS
<1> HIDE DEF a, b
<1>3. /\ new \in Seq(Nodes) /\ Len(new) = Len(a) + Len(b)
      /\ \A j \in 1..(Len(a) + Len(b)) :
           new[j] = IF j <= Len(a) THEN a[j] ELSE b[j - Len(a)]
  BY <1>1, <1>2, ConcatProperties
<1>4. RemoveAt(q, i) = new
  BY DEF RemoveAt, a, b
<1> HIDE DEF new
<1>5. Len(new) = Len(q) - 1
  BY <1>0, <1>1, <1>2, <1>3
<1>6. ASSUME NEW j \in 1..(Len(q) - 1)
      PROVE  new[j] = IF j < i THEN q[j] ELSE q[j + 1]
  <2>1. j \in 1..(Len(a) + Len(b)) /\ Len(a) = i - 1
    BY <1>0, <1>1, <1>2
  <2>2. CASE j < i
    BY <1>0, <1>1, <1>3, <2>1, <2>2
  <2>3. CASE ~(j < i)
    <3>1. j - (i - 1) \in 1..(Len(q) - i) /\ i + (j - (i - 1)) = j + 1
      BY <1>0, <2>3
    <3>2. new[j] = b[j - (i - 1)]
      BY <1>0, <1>3, <2>1, <2>3
    <3>3. b[j - (i - 1)] = q[i + (j - (i - 1))]
      BY <1>2, <3>1
    <3> QED
      BY <2>3, <3>1, <3>2, <3>3
  <2> QED
    BY <2>2, <2>3
<1> QED
  BY <1>3, <1>4, <1>5, <1>6

LEMMA InsertAtFacts ==
  ASSUME NEW q \in Seq(Nodes), NEW i \in 1..(Len(q) + 1), NEW x \in Nodes
  PROVE  /\ InsertAt(q, i, x) \in Seq(Nodes)
         /\ Len(InsertAt(q, i, x)) = Len(q) + 1
         /\ \A j \in 1..(Len(q) + 1) :
              InsertAt(q, i, x)[j]
                = IF j < i THEN q[j] ELSE IF j = i THEN x ELSE q[j - 1]
<1> DEFINE a == SubSeq(q, 1, i - 1)
           b == SubSeq(q, i, Len(q))
           ax == a \o <<x>>
           new == ax \o b
<1>0. Len(q) \in Nat /\ i \in 1..(Len(q) + 1)
  OBVIOUS
<1>1. a \in Seq(Nodes) /\ Len(a) = i - 1 /\ \A j \in 1..(i - 1) : a[j] = q[j]
  OBVIOUS
<1>2. /\ b \in Seq(Nodes) /\ Len(b) = Len(q) - i + 1
      /\ \A j \in 1..(Len(q) - i + 1) : b[j] = q[i + j - 1]
  OBVIOUS
<1>3. <<x>> \in Seq(Nodes) /\ Len(<<x>>) = 1 /\ <<x>>[1] = x
  OBVIOUS
<1>4. InsertAt(q, i, x) = new
  BY DEF InsertAt
<1> HIDE DEF a, b
<1>5. /\ ax \in Seq(Nodes) /\ Len(ax) = i
      /\ \A j \in 1..i : ax[j] = IF j < i THEN q[j] ELSE x
  BY <1>1, <1>3
<1> HIDE DEF ax
<1>6. /\ new \in Seq(Nodes) /\ Len(new) = Len(ax) + Len(b)
      /\ \A j \in 1..(Len(ax) + Len(b)) :
           new[j] = IF j <= Len(ax) THEN ax[j] ELSE b[j - Len(ax)]
  BY <1>2, <1>5, ConcatProperties
<1> HIDE DEF new
<1>7. Len(new) = Len(q) + 1
  BY <1>0, <1>2, <1>5, <1>6
<1>8. ASSUME NEW j \in 1..(Len(q) + 1)
      PROVE  new[j] = IF j < i THEN q[j] ELSE IF j = i THEN x ELSE q[j - 1]
  <2>1. j \in 1..(Len(ax) + Len(b)) /\ Len(ax) = i
    BY <1>0, <1>2, <1>5
  <2>2. CASE j <= i
    <3>1. new[j] = ax[j] /\ j \in 1..i
      BY <1>0, <1>6, <2>1, <2>2
    <3> QED
      BY <1>0, <1>5, <2>2, <3>1
  <2>3. CASE ~(j <= i)
    <3>1. j - i \in 1..(Len(q) - i + 1) /\ i + (j - i) - 1 = j - 1
      BY <1>0, <2>3
    <3>2. new[j] = b[j - i]
      BY <1>0, <1>6, <2>1, <2>3
    <3>3. b[j - i] = q[i + (j - i) - 1]
      BY <1>2, <3>1
    <3> QED
      BY <1>0, <2>3, <3>1, <3>2, <3>3
  <2> QED
    BY <2>2, <2>3
<1> QED
  BY <1>4, <1>6, <1>7, <1>8

\* A part of 1..n that holds with a number all smaller ones is an interval.
LEMMA Interval ==
  ASSUME NEW n \in Nat, NEW S \in SUBSET (1..n),
         \A i \in S : \A j \in 1..n : j <= i => j \in S
  PROVE  Cardinality(S) \in 0..n /\ S = 1..Cardinality(S)
<1> DEFINE C == {j \in 1..(n + 1) : j \notin S}
<1>1. n + 1 \in C /\ C \in SUBSET Nat
  OBVIOUS
<1>2. PICK m \in C : \A y \in C : m <= y
  <2>1. C # {}
    BY <1>1
  <2> HIDE DEF C
  <2> QED
    BY <1>1, <2>1, LeastNat
<1>3. m \in 1..(n + 1) /\ m \notin S
  BY <1>2
<1>4. \A j \in 1..(m - 1) : j \in S
  <2> SUFFICES ASSUME NEW j \in 1..(m - 1) PROVE j \in S
    OBVIOUS
  <2>1. j \in 1..(n + 1) /\ ~(m <= j)
    BY <1>3
  <2> QED
    BY <1>2, <2>1
<1>5. \A i \in S : i \in 1..(m - 1)
  <2> SUFFICES ASSUME NEW i \in S PROVE i \in 1..(m - 1)
    OBVIOUS
  <2>1. i \in 1..n
    OBVIOUS
  <2>2. SUFFICES ASSUME m <= i PROVE FALSE
    BY <1>3, <2>1
  <2>3. m \in 1..n
    BY <1>3, <2>1, <2>2
  <2> QED
    BY <1>3, <2>2, <2>3
<1>6. S = 1..(m - 1)
  BY <1>4, <1>5
<1>7. Cardinality(1..(m - 1)) = m - 1
  <2>1. m - 1 \in Int /\ 1 \in Int /\ (1 > m - 1 => m - 1 = 0)
    BY <1>3
  <2>2. Cardinality(1..(m - 1)) = IF 1 > m - 1 THEN 0 ELSE m - 1 - 1 + 1
    BY <2>1, FS_Interval
  <2> QED
    BY <2>1, <2>2
<1> QED
  BY <1>3, <1>6, <1>7

\* Node j of the queue new is node i of the queue q, with the same deadline.
Same(new, j, q, i) == new[j].id = q[i].id /\ Since(new, j) = Since(q, i)

\* new is q with node id added behind k others, due at t; all deadlines stay.
IsInserted(new, q, k, id, t) ==
  /\ new \in Seq(Nodes) /\ Len(new) = Len(q) + 1
  /\ \A j \in 1..k : Same(new, j, q, j)
  /\ new[k + 1].id = id /\ Since(new, k + 1) = t
  /\ \A j \in (k + 2)..(Len(q) + 1) : Same(new, j, q, j - 1)

\* coap_insert_node() leaves the deadlines of the others alone, whatever the
\* order of the deadlines is, and no relative time goes below zero.
LEMMA InsertFacts ==
  ASSUME NEW q \in Seq(Nodes), NEW id \in Node, NEW t \in Nat
  PROVE  \E k \in 0..Len(q) : IsInserted(Insert(q, id, t), q, k, id, t)
<1> DEFINE n == Len(q)
           S == {i \in DOMAIN q : Since(q, i) <= t}
           k == Cardinality(S)
           rel == t - Since(q, k)
           mid == Shift(q, k + 1, -rel)
           x == [id |-> id, t |-> rel]
           new == InsertAt(mid, k + 1, x)
           s == [j \in 0..(n + 1) |-> IF j <= k THEN Since(q, j)
                                      ELSE IF j = k + 1 THEN t
                                      ELSE Since(q, j - 1)]
<1>1. /\ n \in Nat /\ DOMAIN q = 1..n
      /\ \A j \in 1..n : q[j] \in Nodes /\ q[j].t \in Nat /\ q[j].id \in Node
  BY QueueTypes
<1>2. /\ Since(q, 0) = 0
      /\ \A j \in 0..n : Since(q, j) \in Nat
      /\ \A j \in 1..n : Since(q, j) = Since(q, j - 1) + q[j].t
  BY SinceSteps
<1>3. \A i, j \in 0..n : i <= j => Since(q, i) <= Since(q, j)
  BY SinceGrows
<1>4. Insert(q, id, t) = new
  BY DEF Insert
<1> HIDE DEF n
<1>5. k \in 0..n /\ S = 1..k
  <2>1. S \in SUBSET (1..n)
    BY <1>1
  <2>2. \A i \in S : \A j \in 1..n : j <= i => j \in S
    <3> SUFFICES ASSUME NEW i \in S, NEW j \in 1..n, j <= i PROVE j \in S
      OBVIOUS
    <3>1. i \in 0..n /\ j \in 0..n /\ Since(q, i) <= t
      BY <1>1
    <3>2. Since(q, j) <= Since(q, i) /\ Since(q, j) \in Nat /\ Since(q, i) \in Nat
      BY <1>2, <1>3, <3>1
    <3>3. Since(q, j) <= t
      BY <3>1, <3>2
    <3> QED
      BY <1>1, <3>3
  <2> HIDE DEF S
  <2> QED
    BY <1>1, <2>1, <2>2, Interval
<1>6. Since(q, k) <= t
  <2>1. CASE k = 0
    BY <1>2, <2>1
  <2>2. CASE k # 0
    <3>1. k \in 1..k
      BY <1>5, <2>2
    <3> QED
      BY <1>5, <3>1
  <2> QED
    BY <2>1, <2>2
<1>7. k + 1 \in 1..n => Since(q, k + 1) > t
  <2> SUFFICES ASSUME k + 1 \in 1..n PROVE Since(q, k + 1) > t
    OBVIOUS
  <2>1. k + 1 \notin S
    <3>1. k + 1 \notin 1..k
      BY <1>5
    <3> HIDE DEF S, k
    <3> QED
      BY <1>5, <3>1
  <2>2. Since(q, k + 1) \in Nat /\ ~(Since(q, k + 1) <= t)
    BY <1>1, <1>2, <2>1
  <2> QED
    BY <2>2
<1> HIDE DEF S, k
<1>8. rel \in Nat /\ Since(q, k) \in Nat /\ -rel \in Int
  BY <1>2, <1>5, <1>6
<1>9. k + 1 \in 1..n => q[k + 1].t + (-rel) \in Nat
  <2> SUFFICES ASSUME k + 1 \in 1..n PROVE q[k + 1].t + (-rel) \in Nat
    OBVIOUS
  <2>1. /\ Since(q, k + 1) \in Nat /\ q[k + 1].t \in Nat
        /\ Since(q, k + 1) = Since(q, k) + q[k + 1].t
    <3> DEFINE m == k + 1
    <3>1. m - 1 = k /\ m \in 0..n /\ m \in 1..n
      BY <1>1, <1>5
    <3> HIDE DEF m
    <3>2. Since(q, m) \in Nat /\ q[m].t \in Nat /\ Since(q, m) = Since(q, m - 1) + q[m].t
      BY <1>1, <1>2, <3>1
    <3> QED
      BY <3>1, <3>2 DEF m
  <2> QED
    BY <1>7, <1>8, <2>1, SMTT(30)
<1> HIDE DEF rel
<1>10. /\ mid \in Seq(Nodes) /\ Len(mid) = n
       /\ \A j \in 1..n : /\ mid[j].id = q[j].id
                          /\ mid[j].t = IF j = k + 1 THEN q[j].t - rel
                                        ELSE q[j].t
  <2>1. CASE k + 1 \in 1..n
    <3> DEFINE d == -rel
    <3>1. d \in Int /\ q[k + 1].t + d \in Nat
      BY <1>8, <1>9, <2>1
    <3>2. \A j \in 1..n : q[j].t + d = q[j].t - rel
      BY <1>1, <1>8
    <3> HIDE DEF d
    <3> DEFINE z == Shift(q, k + 1, d)
    <3>3. /\ z \in Seq(Nodes) /\ Len(z) = n
          /\ \A j \in 1..n : /\ z[j].id = q[j].id
                             /\ z[j].t = IF j = k + 1 THEN q[j].t + d ELSE q[j].t
      BY <2>1, <3>1, ShiftFacts DEF n
    <3>4. z = mid
      BY DEF d
    <3> HIDE DEF z, mid
    <3> QED
      BY <3>2, <3>3, <3>4
  <2>2. CASE k + 1 \notin 1..n
    <3>1. mid = q
      BY <1>1, <2>2 DEF Shift
    <3>2. \A j \in 1..n : j # k + 1
      BY <2>2
    <3> HIDE DEF mid
    <3> QED
      BY <1>1, <3>1, <3>2 DEF n
  <2> QED
    BY <2>1, <2>2
<1>11. x \in Nodes /\ x.id = id /\ x.t = rel
  BY <1>8 DEF Nodes
<1> HIDE DEF mid, x
<1>12. /\ new \in Seq(Nodes) /\ Len(new) = n + 1
       /\ \A j \in 1..(n + 1) :
            new[j] = IF j < k + 1 THEN mid[j] ELSE IF j = k + 1 THEN x ELSE mid[j - 1]
  <2>1. k + 1 \in 1..(n + 1)
    BY <1>1, <1>5
  <2> QED
    BY <1>10, <1>11, <2>1, InsertAtFacts, ZenonT(60)
<1> HIDE DEF new
<1>13. ASSUME NEW j \in 1..(n + 1)
       PROVE  /\ j <= k => new[j].id = q[j].id /\ new[j].t = q[j].t
              /\ j = k + 1 => new[j].id = id /\ new[j].t = rel
              /\ j = k + 2 => new[j].id = q[j - 1].id /\ new[j].t = q[j - 1].t - rel
              /\ j > k + 2 => new[j].id = q[j - 1].id /\ new[j].t = q[j - 1].t
  <2>1. CASE j <= k
    BY <1>1, <1>5, <1>10, <1>12, <2>1
  <2>2. CASE j = k + 1
    BY <1>5, <1>11, <1>12, <2>2
  <2>3. CASE j > k + 1
    <3>1. j - 1 \in 1..n /\ new[j] = mid[j - 1]
      BY <1>1, <1>5, <1>12, <2>3
    <3>2. j - 1 = k + 1 <=> j = k + 2
      BY <1>5
    <3> QED
      BY <1>5, <1>10, <2>3, <3>1, <3>2
  <2> QED
    BY <1>5, <2>1, <2>2, <2>3
<1>14. s \in [0..(n + 1) -> Nat]
  <2> SUFFICES ASSUME NEW j \in 0..(n + 1)
               PROVE  (IF j <= k THEN Since(q, j) ELSE IF j = k + 1 THEN t
                       ELSE Since(q, j - 1)) \in Nat
    OBVIOUS
  <2>1. CASE j <= k
    BY <1>1, <1>2, <1>5, <2>1
  <2>2. CASE j > k + 1
    <3>1. j - 1 \in 0..n
      BY <1>1, <1>5, <2>2
    <3> QED
      BY <1>2, <1>5, <2>2, <3>1
  <2> QED
    BY <1>5, <2>1, <2>2
<1>15. \A j \in 0..(n + 1) : s[j] = IF j <= k THEN Since(q, j)
                                   ELSE IF j = k + 1 THEN t ELSE Since(q, j - 1)
  OBVIOUS
<1> HIDE DEF s
<1>16. ASSUME NEW j \in 1..(n + 1) PROVE s[j] = s[j - 1] + new[j].t
  <2>1. j \in 0..(n + 1) /\ j - 1 \in 0..(n + 1)
    BY <1>1
  <2>2. CASE j <= k
    <3>1. s[j] = Since(q, j) /\ s[j - 1] = Since(q, j - 1) /\ j \in 1..n
      BY <1>1, <1>5, <1>15, <2>1, <2>2
    <3> QED
      BY <1>2, <1>13, <2>2, <3>1
  <2>3. CASE j = k + 1
    <3>1. s[j] = t /\ s[j - 1] = Since(q, k) /\ new[j].t = rel
      BY <1>5, <1>13, <1>15, <2>1, <2>3
    <3> QED
      BY <1>8, <3>1 DEF rel
  <2>4. CASE j = k + 2
    <3>1. s[j] = Since(q, k + 1) /\ s[j - 1] = t /\ new[j].t = q[k + 1].t - rel
      <4>1. j - 1 = k + 1 /\ ~(j <= k) /\ j # k + 1 /\ ~(j - 1 <= k)
        BY <1>5, <2>4
      <4> QED
        BY <1>13, <1>15, <2>1, <2>4, <4>1
    <3>3. Since(q, k + 1) = Since(q, k) + q[k + 1].t /\ q[k + 1].t \in Nat
      <4> DEFINE m == k + 1
      <4>1. m - 1 = k /\ m \in 1..n
        BY <1>1, <1>5, <2>4
      <4> HIDE DEF m
      <4>2. q[m].t \in Nat /\ Since(q, m) = Since(q, m - 1) + q[m].t
        BY <1>1, <1>2, <4>1
      <4> QED
        BY <4>1, <4>2 DEF m
    <3> QED
      BY <1>8, <3>1, <3>3 DEF rel
  <2>5. CASE j > k + 2
    <3>1. /\ j - 1 \in 1..n /\ ~(j <= k) /\ j # k + 1
          /\ ~(j - 1 <= k) /\ j - 1 # k + 1
      BY <1>1, <1>5, <2>5
    <3>2. s[j] = Since(q, j - 1) /\ s[j - 1] = Since(q, j - 1 - 1)
      BY <1>15, <2>1, <3>1
    <3> QED
      BY <1>2, <1>13, <2>5, <3>1, <3>2
  <2> QED
    BY <1>5, <2>2, <2>3, <2>4, <2>5
<1>17. IsSum(s, new)
  <2>1. s[0] = 0
    BY <1>1, <1>2, <1>5, <1>15
  <2> QED
    BY <1>12, <1>14, <1>16, <2>1 DEF IsSum
<1>18. \A j \in 0..(n + 1) : Since(new, j) = s[j]
  BY <1>12, <1>17, SinceIsSum
<1>19. ASSUME NEW j \in 1..k PROVE Same(new, j, q, j)
  <2>1. j \in 1..(n + 1) /\ j \in 0..(n + 1) /\ j <= k
    BY <1>1, <1>5
  <2> QED
    BY <1>13, <1>15, <1>18, <2>1 DEF Same
<1>20. new[k + 1].id = id /\ Since(new, k + 1) = t
  <2>1. k + 1 \in 1..(n + 1) /\ k + 1 \in 0..(n + 1) /\ ~(k + 1 <= k)
    BY <1>1, <1>5
  <2> QED
    BY <1>13, <1>15, <1>18, <2>1
<1>21. ASSUME NEW j \in (k + 2)..(n + 1) PROVE Same(new, j, q, j - 1)
  <2>1. /\ j \in 1..(n + 1) /\ j \in 0..(n + 1) /\ ~(j <= k) /\ j # k + 1
        /\ (j = k + 2 \/ j > k + 2)
    BY <1>1, <1>5
  <2>2. new[j].id = q[j - 1].id
    BY <1>13, <2>1
  <2> QED
    BY <1>15, <1>18, <2>1, <2>2 DEF Same
<1>22. IsInserted(new, q, k, id, t)
  BY <1>12, <1>19, <1>20, <1>21 DEF IsInserted, n
<1> QED
  BY <1>4, <1>5, <1>22 DEF n

\* new is q without its i-th node; all other deadlines stay.
IsWithout(new, q, i) ==
  /\ new \in Seq(Nodes) /\ Len(new) = Len(q) - 1
  /\ \A j \in 1..(Len(q) - 1) : Same(new, j, q, IF j < i THEN j ELSE j + 1)

\* coap_pop_next() and coap_remove_from_queue() leave the deadlines of the
\* others alone.
LEMMA WithoutFacts ==
  ASSUME NEW q \in Seq(Nodes), NEW i \in 1..Len(q)
  PROVE  IsWithout(Without(q, i), q, i)
<1> DEFINE n == Len(q)
           d == q[i].t
           mid == Shift(q, i + 1, d)
           new == RemoveAt(mid, i)
           s == [j \in 0..(n - 1) |-> IF j < i THEN Since(q, j) ELSE Since(q, j + 1)]
<1>1. /\ n \in Nat /\ DOMAIN q = 1..n /\ i \in 1..n
      /\ \A j \in 1..n : q[j] \in Nodes /\ q[j].t \in Nat /\ q[j].id \in Node
  BY QueueTypes
<1>2. /\ Since(q, 0) = 0
      /\ \A j \in 0..n : Since(q, j) \in Nat
      /\ \A j \in 1..n : Since(q, j) = Since(q, j - 1) + q[j].t
  BY SinceSteps
<1>3. Without(q, i) = new
  BY DEF Without
<1> HIDE DEF n
<1>4. d \in Nat
  BY <1>1
<1>5. /\ mid \in Seq(Nodes) /\ Len(mid) = n
      /\ \A j \in 1..n : /\ mid[j].id = q[j].id
                         /\ mid[j].t = IF j = i + 1 THEN q[j].t + d ELSE q[j].t
  <2> HIDE DEF d
  <2>1. CASE i + 1 \in 1..n
    <3>1. d \in Int /\ q[i + 1].t + d \in Nat
      BY <1>1, <1>4, <2>1
    <3> QED
      BY <2>1, <3>1, ShiftFacts DEF n
  <2>2. CASE i + 1 \notin 1..n
    <3>1. mid = q
      BY <1>1, <2>2 DEF Shift
    <3>2. \A j \in 1..n : j # i + 1
      BY <2>2
    <3> HIDE DEF mid
    <3> QED
      BY <1>1, <3>1, <3>2 DEF n
  <2> QED
    BY <2>1, <2>2
<1> HIDE DEF mid
<1>6. /\ new \in Seq(Nodes) /\ Len(new) = n - 1
      /\ \A j \in 1..(n - 1) : new[j] = IF j < i THEN mid[j] ELSE mid[j + 1]
  BY <1>1, <1>5, RemoveAtFacts
<1> HIDE DEF new
<1>7. ASSUME NEW j \in 1..(n - 1)
      PROVE  /\ j < i => new[j].id = q[j].id /\ new[j].t = q[j].t
             /\ j = i => new[j].id = q[j + 1].id /\ new[j].t = q[j + 1].t + d
             /\ j > i => new[j].id = q[j + 1].id /\ new[j].t = q[j + 1].t
  <2>1. j \in 1..n /\ j + 1 \in 1..n /\ (j + 1 = i + 1 <=> j = i)
    BY <1>1
  <2>2. CASE j < i
    BY <1>1, <1>5, <1>6, <2>1, <2>2, SMTT(30)
  <2>3. CASE ~(j < i)
    BY <1>1, <1>5, <1>6, <2>1, <2>3, SMTT(30)
  <2> QED
    BY <1>1, <2>2, <2>3
<1> HIDE DEF d
<1>8. s \in [0..(n - 1) -> Nat]
  <2> SUFFICES ASSUME NEW j \in 0..(n - 1)
               PROVE  (IF j < i THEN Since(q, j) ELSE Since(q, j + 1)) \in Nat
    OBVIOUS
  <2>1. j \in 0..n /\ j + 1 \in 0..n
    BY <1>1
  <2> QED
    BY <1>2, <2>1
<1>9. \A j \in 0..(n - 1) : s[j] = IF j < i THEN Since(q, j) ELSE Since(q, j + 1)
  OBVIOUS
<1> HIDE DEF s
<1>10. ASSUME NEW j \in 1..(n - 1) PROVE s[j] = s[j - 1] + new[j].t
  <2>1. /\ j \in 0..(n - 1) /\ j - 1 \in 0..(n - 1) /\ j \in 1..n /\ j + 1 \in 1..n
        /\ j - 1 + 1 = j /\ j + 1 - 1 = j
    BY <1>1
  <2>2. CASE j < i
    <3>1. s[j] = Since(q, j) /\ s[j - 1] = Since(q, j - 1)
      BY <1>1, <1>9, <2>1, <2>2
    <3> QED
      BY <1>2, <1>7, <2>1, <2>2, <3>1
  <2>3. CASE j = i
    <3>1. s[j] = Since(q, j + 1) /\ s[j - 1] = Since(q, j - 1)
      BY <1>1, <1>9, <2>1, <2>3
    <3>2. /\ Since(q, j + 1) = Since(q, j) + q[j + 1].t
          /\ Since(q, j) = Since(q, j - 1) + q[j].t
          /\ Since(q, j - 1) \in Nat /\ q[j].t \in Nat /\ q[j + 1].t \in Nat
      <4> DEFINE m == j + 1
      <4>1. j - 1 \in 0..n /\ m - 1 = j /\ m \in 1..n
        BY <1>1, <2>1
      <4> HIDE DEF m
      <4>2. /\ q[m].t \in Nat /\ Since(q, m) = Since(q, m - 1) + q[m].t
            /\ q[j].t \in Nat /\ Since(q, j) = Since(q, j - 1) + q[j].t
            /\ Since(q, j - 1) \in Nat
        BY <1>1, <1>2, <2>1, <4>1
      <4> QED
        BY <4>1, <4>2 DEF m
    <3>3. new[j].t = q[j + 1].t + q[j].t
      BY <1>7, <2>3 DEF d
    <3> QED
      BY <3>1, <3>2, <3>3
  <2>4. CASE j > i
    <3>1. s[j] = Since(q, j + 1) /\ s[j - 1] = Since(q, j)
      <4>1. ~(j < i) /\ ~(j - 1 < i)
        BY <1>1, <2>4
      <4> QED
        BY <1>9, <2>1, <4>1
    <3>2. Since(q, j + 1) = Since(q, j) + q[j + 1].t
      BY <1>2, <2>1
    <3> QED
      BY <1>7, <2>4, <3>1, <3>2
  <2> QED
    BY <1>1, <2>2, <2>3, <2>4
<1>11. IsSum(s, new)
  <2>1. s[0] = 0
    BY <1>1, <1>2, <1>9
  <2> QED
    BY <1>6, <1>8, <1>10, <2>1 DEF IsSum
<1>12. \A j \in 0..(n - 1) : Since(new, j) = s[j]
  BY <1>6, <1>11, SinceIsSum
<1>13. ASSUME NEW j \in 1..(n - 1)
       PROVE  Same(new, j, q, IF j < i THEN j ELSE j + 1)
  <2>1. j \in 0..(n - 1)
    BY <1>1
  <2>2. CASE j < i
    BY <1>7, <1>9, <1>12, <2>1, <2>2 DEF Same
  <2>3. CASE ~(j < i)
    <3>1. j = i \/ j > i
      BY <1>1, <2>3
    <3> QED
      BY <1>7, <1>9, <1>12, <2>1, <2>3, <3>1 DEF Same
  <2> QED
    BY <2>2, <2>3
<1> QED
  BY <1>3, <1>6, <1>13 DEF IsWithout, n

\* A node at the end of the list.
LEMMA AppendFacts ==
  ASSUME NEW q \in Seq(Nodes), NEW x \in Nodes
  PROVE  /\ Append(q, x) \in Seq(Nodes)
         /\ Len(Append(q, x)) = Len(q) + 1
         /\ \A j \in 1..Len(q) : Append(q, x)[j] = q[j]
         /\ Append(q, x)[Len(q) + 1] = x
         /\ \A j \in 0..Len(q) : Since(Append(q, x), j) = Since(q, j)
         /\ Since(Append(q, x), Len(q) + 1) = Since(q, Len(q)) + x.t
<1> DEFINE n == Len(q)
           new == Append(q, x)
           last == Since(q, n) + x.t
           s == [j \in 0..(n + 1) |-> IF j = n + 1 THEN last ELSE Since(q, j)]
<1>1. /\ new \in Seq(Nodes) /\ Len(new) = n + 1
      /\ \A j \in 1..n : new[j] = q[j]
      /\ new[n + 1] = x
  BY AppendProperties
<1>2. n \in Nat /\ x.t \in Nat
  BY QueueTypes DEF Nodes
<1>3. /\ Since(q, 0) = 0
      /\ \A j \in 0..n : Since(q, j) \in Nat
      /\ \A j \in 1..n : Since(q, j) = Since(q, j - 1) + q[j].t
  BY SinceSteps
<1> HIDE DEF n, new
<1>4. last \in Nat
  BY <1>2, <1>3
<1>5. s \in [0..(n + 1) -> Nat]
  <2> HIDE DEF last
  <2> SUFFICES ASSUME NEW j \in 0..(n + 1)
               PROVE  (IF j = n + 1 THEN last ELSE Since(q, j)) \in Nat
    OBVIOUS
  <2>1. j # n + 1 => j \in 0..n
    BY <1>2
  <2> QED
    BY <1>3, <1>4, <2>1
<1>6. \A j \in 0..(n + 1) : s[j] = IF j = n + 1 THEN last ELSE Since(q, j)
  OBVIOUS
<1> HIDE DEF s
<1>7. ASSUME NEW j \in 1..(n + 1) PROVE s[j] = s[j - 1] + new[j].t
  <2>1. j \in 0..(n + 1) /\ j - 1 \in 0..(n + 1) /\ j - 1 # n + 1
    BY <1>2
  <2>2. s[j - 1] = Since(q, j - 1)
    BY <1>6, <2>1
  <2>3. CASE j = n + 1
    <3>1. j - 1 = n
      BY <1>2, <2>3
    <3> QED
      BY <1>1, <1>6, <2>1, <2>2, <2>3, <3>1
  <2>4. CASE j # n + 1
    <3>1. j \in 1..n
      BY <1>2, <2>4
    <3> QED
      BY <1>1, <1>3, <1>6, <2>1, <2>2, <2>4, <3>1
  <2> QED
    BY <2>3, <2>4
<1>8. IsSum(s, new)
  <2>1. s[0] = 0
    BY <1>2, <1>3, <1>6
  <2> QED
    BY <1>1, <1>5, <1>7, <2>1 DEF IsSum
<1>9. \A j \in 0..(n + 1) : Since(new, j) = s[j]
  BY <1>1, <1>8, SinceIsSum
<1>10. \A j \in 0..n : Since(new, j) = Since(q, j)
  BY <1>2, <1>6, <1>9
<1>11. Since(new, n + 1) = last
  BY <1>2, <1>6, <1>9
<1> QED
  BY <1>1, <1>10, <1>11 DEF n, new

\* Of the first m nodes of q, new holds those that are not of group g, in
\* their order: e says which.  Their deadlines have not moved if no node
\* before them is gone, and otherwise come earlier at most.
Left(new, e, q, m, g) ==
  /\ new \in Seq(Nodes)
  /\ e \in [1..Len(new) -> 1..m]
  /\ \A j \in 1..Len(new) :
       /\ new[j] = q[e[j]]
       /\ Since(new, j) <= Since(q, e[j])
       /\ \/ Since(new, j) = Since(q, e[j])
          \/ \E h \in 1..(e[j] - 1) : GroupOf[q[h].id] = g
  /\ \A i, j \in 1..Len(new) : i < j => e[i] < e[j]
  /\ Since(new, Len(new)) <= Since(q, m)
  /\ \/ Since(new, Len(new)) = Since(q, m)
     \/ \E h \in 1..m : GroupOf[q[h].id] = g

\* One node more, which is unlinked.
LEMMA LeftDrops ==
  ASSUME NEW q \in Seq(Nodes), NEW m \in 1..Len(q), NEW g,
         GroupOf[q[m].id] = g,
         NEW new, NEW e, Left(new, e, q, m - 1, g)
  PROVE  Left(new, e, q, m, g)
<1>1. /\ Len(q) \in Nat
      /\ \A k \in 1..Len(q) : q[k].t \in Nat
  BY QueueTypes
<1>2. /\ \A k \in 0..Len(q) : Since(q, k) \in Nat
      /\ \A k \in 1..Len(q) : Since(q, k) = Since(q, k - 1) + q[k].t
  BY SinceSteps
<1>3. /\ new \in Seq(Nodes) /\ Len(new) \in Nat
      /\ Since(new, Len(new)) \in Nat
  <2>1. new \in Seq(Nodes)
    BY DEF Left
  <2>2. Len(new) \in Nat
    BY <2>1, QueueTypes
  <2> QED
    BY <2>1, <2>2, SinceSteps
<1>4. /\ m - 1 \in 0..Len(q) /\ m \in 0..Len(q) /\ m \in 1..m
      /\ Since(q, m - 1) <= Since(q, m)
  <2>1. m - 1 \in 0..Len(q) /\ m \in 0..Len(q) /\ m \in 1..m
    BY <1>1
  <2> QED
    BY <1>1, <1>2, <2>1, SMTT(60)
<1>5. e \in [1..Len(new) -> 1..m]
  <2>1. e \in [1..Len(new) -> 1..(m - 1)]
    BY DEF Left
  <2>2. \A j \in 1..(m - 1) : j \in 1..m
    BY <1>1
  <2> QED
    BY <2>1, <2>2
<1>6. Since(new, Len(new)) <= Since(q, m)
  <2>1. Since(new, Len(new)) <= Since(q, m - 1)
    BY DEF Left
  <2>2. Since(q, m - 1) \in Nat /\ Since(q, m) \in Nat
    BY <1>2, <1>4
  <2> QED
    BY <1>3, <1>4, <2>1, <2>2
<1>7. \E h \in 1..m : GroupOf[q[h].id] = g
  BY <1>4
<1> QED
  BY <1>5, <1>6, <1>7 DEF Left

\* One node more, which stays.
LEMMA LeftKeeps ==
  ASSUME NEW q \in Seq(Nodes), NEW m \in 1..Len(q), NEW g,
         NEW old, NEW e, Left(old, e, q, m - 1, g)
  PROVE  \E f : Left(Append(old, q[m]), f, q, m, g)
<1> DEFINE n == Len(old)
           x == q[m]
           new == Append(old, x)
           f == [j \in 1..(n + 1) |-> IF j = n + 1 THEN m ELSE e[j]]
<1>1. /\ Len(q) \in Nat
      /\ \A k \in 1..Len(q) : q[k] \in Nodes /\ q[k].t \in Nat
  BY QueueTypes
<1>2. /\ \A k \in 0..Len(q) : Since(q, k) \in Nat
      /\ \A k \in 1..Len(q) : Since(q, k) = Since(q, k - 1) + q[k].t
  BY SinceSteps
<1>3. /\ old \in Seq(Nodes)
      /\ e \in [1..n -> 1..(m - 1)]
      /\ \A j \in 1..n :
           /\ old[j] = q[e[j]]
           /\ Since(old, j) <= Since(q, e[j])
           /\ \/ Since(old, j) = Since(q, e[j])
              \/ \E h \in 1..(e[j] - 1) : GroupOf[q[h].id] = g
      /\ \A i, j \in 1..n : i < j => e[i] < e[j]
      /\ Since(old, n) <= Since(q, m - 1)
      /\ \/ Since(old, n) = Since(q, m - 1)
         \/ \E h \in 1..(m - 1) : GroupOf[q[h].id] = g
  BY DEF Left
<1>4. x \in Nodes /\ x.t \in Nat
  BY <1>1
<1>5. n \in Nat
  BY <1>3, QueueTypes
<1>6. /\ new \in Seq(Nodes)
      /\ Len(new) = n + 1
      /\ \A j \in 1..n : new[j] = old[j]
      /\ new[n + 1] = x
      /\ \A j \in 0..n : Since(new, j) = Since(old, j)
      /\ Since(new, n + 1) = Since(old, n) + x.t
  <2> HIDE DEF x
  <2> QED
    BY <1>3, <1>4, AppendFacts
<1>7. Since(old, n) \in Nat
  <2>1. n \in 0..n
    BY <1>5
  <2> QED
    BY <1>3, <2>1, SinceSteps
<1> HIDE DEF n, new
<1>8. /\ m - 1 \in 0..Len(q) /\ m \in 0..Len(q) /\ m \in 1..m
      /\ \A j \in 1..(m - 1) : j \in 1..m /\ j < m
  BY <1>1
<1>9. f \in [1..(n + 1) -> 1..m]
  <2> SUFFICES ASSUME NEW j \in 1..(n + 1)
               PROVE  (IF j = n + 1 THEN m ELSE e[j]) \in 1..m
    OBVIOUS
  <2>1. j # n + 1 => j \in 1..n
    BY <1>5
  <2> QED
    BY <1>3, <1>8, <2>1
<1>10. /\ \A j \in 1..n : f[j] = e[j] /\ e[j] \in 1..(m - 1)
       /\ f[n + 1] = m
  <2>1. \A j \in 1..n : j \in 1..(n + 1) /\ j # n + 1
    BY <1>5
  <2>2. n + 1 \in 1..(n + 1)
    BY <1>5
  <2> QED
    BY <1>3, <2>1, <2>2
<1> HIDE DEF f
<1>11. /\ Since(q, m) = Since(q, m - 1) + x.t
       /\ Since(q, m - 1) \in Nat /\ Since(q, m) \in Nat
  BY <1>2, <1>8
<1>12. Since(new, n + 1) <= Since(q, m)
  BY <1>3, <1>4, <1>6, <1>7, <1>11
<1>13. \/ Since(new, n + 1) = Since(q, m)
       \/ \E h \in 1..(m - 1) : GroupOf[q[h].id] = g
  BY <1>3, <1>6, <1>11
<1>14. ASSUME NEW j \in 1..(n + 1)
       PROVE  /\ new[j] = q[f[j]]
              /\ Since(new, j) <= Since(q, f[j])
              /\ \/ Since(new, j) = Since(q, f[j])
                 \/ \E h \in 1..(f[j] - 1) : GroupOf[q[h].id] = g
  <2>1. CASE j = n + 1
    BY <1>6, <1>10, <1>12, <1>13, <2>1
  <2>2. CASE j # n + 1
    <3>1. j \in 1..n /\ j \in 0..n
      BY <1>5, <2>2
    <3> QED
      BY <1>3, <1>6, <1>10, <3>1
  <2> QED
    BY <2>1, <2>2
<1>15. ASSUME NEW i \in 1..(n + 1), NEW j \in 1..(n + 1), i < j
       PROVE  f[i] < f[j]
  <2>1. i \in 1..n
    BY <1>5, <1>15
  <2>2. CASE j = n + 1
    BY <1>8, <1>10, <2>1, <2>2
  <2>3. CASE j # n + 1
    <3>1. j \in 1..n
      BY <1>5, <2>3
    <3> QED
      BY <1>3, <1>10, <1>15, <2>1, <3>1
  <2> QED
    BY <2>2, <2>3
<1>16. \/ Since(new, n + 1) = Since(q, m)
       \/ \E h \in 1..m : GroupOf[q[h].id] = g
  BY <1>8, <1>13
<1>17. Left(new, f, q, m, g)
  BY <1>6, <1>9, <1>12, <1>14, <1>15, <1>16 DEF Left
<1> QED
  BY <1>17 DEF new

\* What coap_cancel_session_messages() and coap_cancel_all_messages() leave.
LEMMA UnlinkFacts ==
  ASSUME NEW q \in Seq(Nodes), NEW g
  PROVE  \E e : Left(Unlink(q, g), e, q, Len(q), g)
<1> DEFINE n == Len(q)
           Rule(k, old) == IF GroupOf[q[k].id] = g THEN old ELSE Append(old, q[k])
           r == [x \in (1..n) \X Seq(Nodes) |-> Rule(x[1], x[2])]
           Kept(f) == f = [k \in 0..n |-> IF k = 0 THEN << >> ELSE Rule(k, f[k - 1])]
           c == CHOOSE f : Kept(f)
<1>1. /\ n \in Nat
      /\ \A k \in 1..n : q[k] \in Nodes
  BY QueueTypes
<1>2. \A k \in 1..n, old \in Seq(Nodes) : Rule(k, old) \in Seq(Nodes)
  BY <1>1, AppendProperties
<1>3. Unlink(q, g) = c[n]
  BY DEF Unlink
<1>4. \E f : Kept(f)
  <2>1. r \in [(1..n) \X Seq(Nodes) -> Seq(Nodes)]
    <3> HIDE DEF Rule, n
    <3> QED
      BY <1>2
  <2>2. \A k \in 1..n, old \in Seq(Nodes) : r[<<k, old>>] = Rule(k, old)
    <3> HIDE DEF Rule, n
    <3> QED
      OBVIOUS
  <2>3. << >> \in Seq(Nodes)
    OBVIOUS
  <2> HIDE DEF r, n, Rule
  <2>4. PICK f : Follows(f, Seq(Nodes), n, << >>, r)
    BY <1>1, <2>1, <2>3, FollowsExists
  <2>5. /\ f \in [0..n -> Seq(Nodes)] /\ f[0] = << >>
        /\ \A k \in 1..n : f[k] = r[<<k, f[k - 1]>>]
    BY <2>4 DEF Follows
  <2>6. ASSUME NEW k \in 1..n PROVE f[k] = Rule(k, f[k - 1])
    <3>1. k - 1 \in 0..n
      BY <1>1
    <3>2. f[k - 1] \in Seq(Nodes)
      BY <2>5, <3>1
    <3> QED
      BY <2>2, <2>5, <3>2
  <2> DEFINE h == [k \in 0..n |-> IF k = 0 THEN << >> ELSE Rule(k, f[k - 1])]
  <2>7. \A k \in 0..n : f[k] = h[k]
    <3> SUFFICES ASSUME NEW k \in 0..n PROVE f[k] = h[k]
      OBVIOUS
    <3>1. k # 0 => k \in 1..n
      BY <1>1
    <3> QED
      BY <2>5, <2>6, <3>1
  <2>8. f = [k \in 0..n |-> f[k]] /\ h = [k \in 0..n |-> h[k]]
    BY <2>5
  <2>9. f = h
    BY <2>7, <2>8
  <2> QED
    BY <2>9
<1>5. Kept(c)
  <2> HIDE DEF Kept
  <2> QED
    BY <1>4
<1> HIDE DEF c
<1>6. c[0] = << >> /\ \A k \in 1..n : c[k] = Rule(k, c[k - 1])
  <2> HIDE DEF Rule, n
  <2>1. 0 \in 0..n /\ \A k \in 1..n : k \in 0..n /\ k # 0
    BY <1>1
  <2> QED
    BY <1>5, <2>1
<1> DEFINE G == {k \in 0..n : \E e : Left(c[k], e, q, k, g)}
<1>7. 0 \in G
  <2> DEFINE z == << >>
             e == [j \in 1..0 |-> 0]
  <2>1. z \in Seq(Nodes) /\ Len(z) = 0 /\ \A j : j \notin 1..0
    OBVIOUS
  <2>2. Since(z, 0) = 0 /\ Since(q, 0) = 0
    BY <2>1, SinceSteps
  <2>3. e \in [1..0 -> 1..0]
    BY <2>1
  <2> HIDE DEF z, e
  <2>4. Left(z, e, q, 0, g)
    BY <2>1, <2>2, <2>3 DEF Left
  <2> QED
    BY <1>1, <1>6, <2>4 DEF z
<1>8. ASSUME NEW k \in 1..n, k - 1 \in G PROVE k \in G
  <2>1. PICK e : Left(c[k - 1], e, q, k - 1, g)
    BY <1>8
  <2>2. k \in 0..n /\ k \in 1..Len(q)
    BY <1>1
  <2>3. CASE GroupOf[q[k].id] = g
    <3>1. c[k] = c[k - 1]
      BY <1>6, <2>3
    <3>2. Left(c[k - 1], e, q, k, g)
      BY <2>1, <2>2, <2>3, LeftDrops
    <3> QED
      BY <2>2, <3>1, <3>2
  <2>4. CASE GroupOf[q[k].id] # g
    <3>1. c[k] = Append(c[k - 1], q[k])
      BY <1>6, <2>4
    <3>2. \E f : Left(Append(c[k - 1], q[k]), f, q, k, g)
      BY <2>1, <2>2, LeftKeeps
    <3> QED
      BY <2>2, <3>1, <3>2
  <2> QED
    BY <2>3, <2>4
<1> HIDE DEF G, Rule
<1>9. \A k \in 0..n : k \in G
  BY <1>1, <1>7, <1>8, UpTo
<1>10. n \in G
  BY <1>1, <1>9
<1> QED
  BY <1>3, <1>10 DEF G

-----------------------------------------------------------------------------
(* The inductive invariant.                                                *)

\* No node is linked twice.
Distinct(q) == \A i, j \in 1..Len(q) : q[i].id = q[j].id => i = j

\* With base time b, the nodes of q are due as d says, those of h earlier at
\* most.
Exact(q, b, d, h) ==
  \A i \in 1..Len(q) :
    \/ b + Since(q, i) = d[q[i].id]
    \/ q[i].id \in h /\ b + Since(q, i) < d[q[i].id]

\* Besides the deadlines: the base time is not in the future, so that the time
\* a node is inserted with is not negative, and a node in the queue has had
\* its timeout drawn, so that coap_wait_ack() does not queue it again.
QInv ==
  /\ now \in Nat
  /\ sendqueue \in Seq(Nodes)
  /\ sendqueue_basetime \in Nat /\ sendqueue_basetime <= now
  /\ timeout \in [Node -> Nat]
  /\ retransmit_cnt \in [Node -> 0..MaxRetransmit]
  /\ before \in Nat
  /\ due \in [Node -> Nat]
  /\ Distinct(sendqueue)
  /\ \A i \in 1..Len(sendqueue) : timeout[sendqueue[i].id] # 0
  /\ Exact(sendqueue, sendqueue_basetime, due, hastened)

\* The invariant is what the properties are about.
LEMMA QInvExact ==
  ASSUME QInv
  PROVE  TimersExact
<1>1. /\ Len(sendqueue) \in Nat /\ DOMAIN sendqueue = 1..Len(sendqueue)
      /\ \A i \in 1..Len(sendqueue) : sendqueue[i].t \in Nat
  BY QueueTypes DEF QInv
<1>2. QueueOK
  BY <1>1 DEF QInv, QueueOK, Distinct
<1>3. DeadlinesExact
  BY <1>1 DEF QInv, DeadlinesExact, Exact
<1> QED
  BY <1>2, <1>3 DEF TimersExact

\* A power of two is a natural number: it counts the subsets of an interval.
LEMMA PowerOfTwo ==
  ASSUME NEW n \in Nat
  PROVE  2^n \in Nat
<1>1. IsFiniteSet(1..n) /\ Cardinality(1..n) = n
  <2>1. 1 \in Int /\ n \in Int /\ (1 > n => n = 0) /\ n - 1 + 1 = n
    OBVIOUS
  <2>2. /\ IsFiniteSet(1..n)
        /\ Cardinality(1..n) = IF 1 > n THEN 0 ELSE n - 1 + 1
    BY <2>1, FS_Interval
  <2> QED
    BY <2>1, <2>2
<1>2. /\ IsFiniteSet(SUBSET (1..n))
      /\ Cardinality(SUBSET (1..n)) = 2^Cardinality(1..n)
  BY <1>1, FS_SUBSET
<1>3. Cardinality(SUBSET (1..n)) \in Nat
  BY <1>2, FS_CardinalityType
<1> QED
  BY <1>1, <1>2, <1>3, Zenon

\* coap_wait_ack() and coap_retransmit() queue a node that is not in the
\* queue: it is due when they say, and the others as before.
LEMMA EnqueueStep ==
  ASSUME QInv, NEW q, q \in Seq(Nodes), Distinct(q),
         Exact(q, sendqueue_basetime, due, hastened),
         NEW id \in Node, NEW wait \in Nat,
         \A i \in 1..Len(q) : q[i].id # id,
         Enqueue(q, id, wait)
  PROVE  /\ sendqueue' \in Seq(Nodes)
         /\ sendqueue_basetime' \in Nat /\ sendqueue_basetime' <= now
         /\ due' \in [Node -> Nat]
         /\ Distinct(sendqueue')
         /\ Exact(sendqueue', sendqueue_basetime', due', hastened')
         /\ \A j \in 1..Len(sendqueue') :
              sendqueue'[j].id = id \/ \E i \in 1..Len(q) : sendqueue'[j].id = q[i].id
<1> DEFINE n == Len(q)
           new == sendqueue'
           base == sendqueue_basetime'
           t == wait + now - base
           d == due'
           h == hastened'
<1>1. /\ now \in Nat /\ sendqueue_basetime \in Nat /\ sendqueue_basetime <= now
      /\ due \in [Node -> Nat]
  BY DEF QInv
<1>2. /\ n \in Nat /\ \A j \in 1..n : q[j].id \in Node
  BY QueueTypes
<1>3. base \in Nat /\ base <= now /\ (q # << >> => base = sendqueue_basetime)
  BY <1>1 DEF Enqueue
<1>4. t \in Nat /\ base + t = now + wait
  <2> HIDE DEF base
  <2> QED
    BY <1>1, <1>3
<1>5. /\ d \in [Node -> Nat] /\ d[id] = now + wait
      /\ \A x \in Node : x # id => d[x] = due[x]
  <2>1. due' = [due EXCEPT ![id] = now + wait] /\ now + wait \in Nat
    BY <1>1 DEF Enqueue
  <2> QED
    BY <1>1, <2>1
<1>6. \A x \in Node : x # id => (x \in h <=> x \in hastened)
  BY DEF Enqueue
<1>7. new = Insert(q, id, t)
  BY DEF Enqueue
<1> HIDE DEF base, t, d, h
<1>8. PICK k \in 0..n : IsInserted(new, q, k, id, t)
  BY <1>4, <1>7, InsertFacts
<1> HIDE DEF new
<1>9. /\ new \in Seq(Nodes) /\ Len(new) = n + 1
      /\ \A j \in 1..k : new[j].id = q[j].id /\ Since(new, j) = Since(q, j)
      /\ new[k + 1].id = id /\ Since(new, k + 1) = t
      /\ \A j \in (k + 2)..(n + 1) :
           new[j].id = q[j - 1].id /\ Since(new, j) = Since(q, j - 1)
  BY <1>8 DEF IsInserted, Same
<1> DEFINE At(j) == IF j <= k THEN j ELSE j - 1
<1>10. ASSUME NEW j \in 1..(n + 1), j # k + 1
       PROVE  At(j) \in 1..n /\ new[j].id = q[At(j)].id /\ Since(new, j) = Since(q, At(j))
  <2>1. CASE j <= k
    BY <1>2, <1>9, <2>1
  <2>2. CASE ~(j <= k)
    <3>1. j \in (k + 2)..(n + 1) /\ j - 1 \in 1..n
      BY <1>2, <1>10, <2>2
    <3> QED
      BY <1>9, <2>2, <3>1
  <2> QED
    BY <2>1, <2>2
<1>11. \A i, j \in 1..(n + 1) : i # k + 1 /\ j # k + 1 /\ At(i) = At(j) => i = j
  BY <1>2
<1> HIDE DEF At
<1>12. Distinct(new)
  <2> SUFFICES ASSUME NEW i \in 1..(n + 1), NEW j \in 1..(n + 1), new[i].id = new[j].id
               PROVE  i = j
    BY <1>9 DEF Distinct
  <2>1. CASE i = k + 1 /\ j = k + 1
    BY <2>1
  <2>2. CASE i = k + 1 /\ j # k + 1
    BY <1>9, <1>10, <2>2
  <2>3. CASE i # k + 1 /\ j = k + 1
    BY <1>9, <1>10, <2>3
  <2>4. CASE i # k + 1 /\ j # k + 1
    BY <1>10, <1>11, <2>4 DEF Distinct
  <2> QED
    BY <2>1, <2>2, <2>3, <2>4
<1>13. Exact(new, base, d, h)
  <2> SUFFICES ASSUME NEW j \in 1..(n + 1)
               PROVE  \/ base + Since(new, j) = d[new[j].id]
                      \/ new[j].id \in h /\ base + Since(new, j) < d[new[j].id]
    BY <1>9 DEF Exact
  <2>1. CASE j = k + 1
    BY <1>4, <1>5, <1>9, <2>1
  <2>2. CASE j # k + 1
    <3>1. At(j) \in 1..n /\ new[j].id = q[At(j)].id /\ Since(new, j) = Since(q, At(j))
      BY <1>10, <2>2
    <3>2. q # << >>
      BY <3>1
    <3>3. q[At(j)].id \in Node /\ q[At(j)].id # id
      BY <1>2, <3>1
    <3>4. d[new[j].id] = due[q[At(j)].id] /\ (new[j].id \in h <=> q[At(j)].id \in hastened)
      BY <1>5, <1>6, <3>1, <3>3
    <3> QED
      BY <1>3, <3>1, <3>2, <3>4 DEF Exact
  <2> QED
    BY <2>1, <2>2
<1>14. ASSUME NEW j \in 1..(n + 1)
       PROVE  new[j].id = id \/ \E i \in 1..n : new[j].id = q[i].id
  BY <1>9, <1>10
<1> QED
  BY <1>3, <1>5, <1>9, <1>12, <1>13, <1>14 DEF new, base, d, h

\* A queue without one of its nodes.
LEMMA WithoutStep ==
  ASSUME NEW q \in Seq(Nodes), NEW i \in 1..Len(q), Distinct(q),
         NEW b, NEW d, NEW h, Exact(q, b, d, h)
  PROVE  /\ Without(q, i) \in Seq(Nodes)
         /\ Distinct(Without(q, i))
         /\ Exact(Without(q, i), b, d, h)
         /\ \A j \in 1..Len(Without(q, i)) :
              /\ Without(q, i)[j].id # q[i].id
              /\ \E k \in 1..Len(q) : Without(q, i)[j].id = q[k].id
<1> DEFINE n == Len(q)
           new == Without(q, i)
           At(j) == IF j < i THEN j ELSE j + 1
<1>1. n \in Nat
  BY QueueTypes
<1>2. IsWithout(new, q, i)
  BY WithoutFacts
<1> HIDE DEF new
<1>3. /\ new \in Seq(Nodes) /\ Len(new) = n - 1
      /\ \A j \in 1..(n - 1) : new[j].id = q[At(j)].id /\ Since(new, j) = Since(q, At(j))
  BY <1>2 DEF IsWithout, Same
<1>4. /\ \A j \in 1..(n - 1) : At(j) \in 1..n /\ At(j) # i
      /\ \A j, k \in 1..(n - 1) : At(j) = At(k) => j = k
  BY <1>1
<1> HIDE DEF At
<1>5. Distinct(new)
  BY <1>3, <1>4, SMTT(60) DEF Distinct
<1>6. Exact(new, b, d, h)
  BY <1>3, <1>4 DEF Exact
<1>7. \A j \in 1..(n - 1) : new[j].id # q[i].id /\ \E k \in 1..n : new[j].id = q[k].id
  BY <1>3, <1>4 DEF Distinct
<1> QED
  BY <1>3, <1>5, <1>6, <1>7 DEF new

LEMMA QInit_QInv ==
  ASSUME QInit
  PROVE  QInv
<1>1. /\ now \in Nat /\ sendqueue_basetime \in Nat /\ before \in Nat
      /\ sendqueue_basetime <= now
  BY DEF QInit
<1>2. sendqueue \in Seq(Nodes) /\ Len(sendqueue) = 0
  BY DEF QInit
<1>3. timeout \in [Node -> Nat] /\ due \in [Node -> Nat]
  BY DEF QInit
<1>4. retransmit_cnt \in [Node -> 0..MaxRetransmit]
  <2>1. 0 \in 0..MaxRetransmit
    BY QueueAssumption
  <2> QED
    BY <2>1, Zenon DEF QInit
<1>5. \A i : i \notin 1..Len(sendqueue)
  BY <1>2
<1> QED
  BY <1>1, <1>2, <1>3, <1>4, <1>5 DEF QInv, Distinct, Exact

LEMMA WaitAckInv ==
  ASSUME QInv, NEW id \in Node, WaitAck(id)
  PROVE  QInv'
<1>1. /\ now' = now /\ retransmit_cnt' = retransmit_cnt /\ before' = before
      /\ timeout[id] = 0
  BY DEF WaitAck
<1>2. PICK to \in Timeouts : /\ timeout' = [timeout EXCEPT ![id] = to]
                             /\ Enqueue(sendqueue, id, to)
  BY DEF WaitAck
<1>3. to \in Nat /\ to # 0
  BY QueueAssumption
<1>4. \A i \in 1..Len(sendqueue) : sendqueue[i].id # id /\ sendqueue[i].id \in Node
  BY <1>1, QueueTypes DEF QInv
<1>5. /\ sendqueue' \in Seq(Nodes)
      /\ sendqueue_basetime' \in Nat /\ sendqueue_basetime' <= now
      /\ due' \in [Node -> Nat]
      /\ Distinct(sendqueue')
      /\ Exact(sendqueue', sendqueue_basetime', due', hastened')
      /\ \A j \in 1..Len(sendqueue') :
           sendqueue'[j].id = id \/ \E i \in 1..Len(sendqueue) : sendqueue'[j].id = sendqueue[i].id
  <2>1. /\ sendqueue \in Seq(Nodes) /\ Distinct(sendqueue)
        /\ Exact(sendqueue, sendqueue_basetime, due, hastened)
    BY DEF QInv
  <2> QED
    BY <1>2, <1>3, <1>4, <2>1, EnqueueStep
<1>6. /\ timeout' \in [Node -> Nat] /\ timeout'[id] = to
      /\ \A x \in Node : x # id => timeout'[x] = timeout[x]
  BY <1>2, <1>3 DEF QInv
<1>7. \A j \in 1..Len(sendqueue') : timeout'[sendqueue'[j].id] # 0
  BY <1>3, <1>4, <1>5, <1>6, ZenonT(60) DEF QInv
<1> QED
  BY <1>1, <1>5, <1>6, <1>7 DEF QInv

LEMMA RemoveFromQueueInv ==
  ASSUME QInv, NEW id \in Node, RemoveFromQueue(id)
  PROVE  QInv'
<1>1. PICK i \in DOMAIN sendqueue : sendqueue' = Without(sendqueue, i)
  BY DEF RemoveFromQueue
<1>2. i \in 1..Len(sendqueue)
  BY QueueTypes DEF QInv
<1>3. /\ sendqueue' \in Seq(Nodes)
      /\ Distinct(sendqueue')
      /\ Exact(sendqueue', sendqueue_basetime, due, hastened)
      /\ \A j \in 1..Len(sendqueue') :
           \E k \in 1..Len(sendqueue) : sendqueue'[j].id = sendqueue[k].id
  <2> DEFINE new == Without(sendqueue, i)
  <2>1. /\ sendqueue \in Seq(Nodes) /\ Distinct(sendqueue)
        /\ Exact(sendqueue, sendqueue_basetime, due, hastened)
    BY DEF QInv
  <2>2. /\ new \in Seq(Nodes)
        /\ Distinct(new)
        /\ Exact(new, sendqueue_basetime, due, hastened)
        /\ \A j \in 1..Len(new) :
             \E k \in 1..Len(sendqueue) : new[j].id = sendqueue[k].id
    BY <1>2, <2>1, WithoutStep, Zenon
  <2> HIDE DEF new
  <2> QED
    BY <1>1, <2>2 DEF new
<1> QED
  BY <1>3 DEF QInv, RemoveFromQueue

LEMMA CancelInv ==
  ASSUME QInv, NEW g \in Group, Cancel(g)
  PROVE  QInv'
<1> DEFINE q == sendqueue
           new == sendqueue'
           n == Len(sendqueue)
           b == sendqueue_basetime
<1>1. /\ n \in Nat /\ DOMAIN q = 1..n
      /\ \A k \in 1..n : q[k].id \in Node
  BY QueueTypes DEF QInv
<1>2. \A k \in 0..n : Since(q, k) \in Nat
  BY SinceSteps DEF QInv
<1>3. /\ b \in Nat /\ due \in [Node -> Nat]
      /\ UNCHANGED <<now, sendqueue_basetime, timeout, retransmit_cnt, before, due>>
  BY DEF QInv, Cancel
<1>4. PICK e : Left(new, e, q, n, g)
  BY UnlinkFacts DEF Cancel, QInv
<1> HIDE DEF new, n
<1>5. /\ new \in Seq(Nodes)
      /\ e \in [1..Len(new) -> 1..n]
      /\ \A j \in 1..Len(new) :
           /\ new[j] = q[e[j]]
           /\ Since(new, j) <= Since(q, e[j])
           /\ \/ Since(new, j) = Since(q, e[j])
              \/ \E h \in 1..(e[j] - 1) : GroupOf[q[h].id] = g
      /\ \A i, j \in 1..Len(new) : i < j => e[i] < e[j]
  BY <1>4 DEF Left
<1>6. /\ Len(new) \in Nat
      /\ \A j \in 1..Len(new) : j \in 0..Len(new)
  BY <1>5, QueueTypes
<1>7. \A j \in 1..Len(new) : Since(new, j) \in Nat
  BY <1>5, <1>6, SinceSteps
<1>8. Distinct(new)
  <2> SUFFICES ASSUME NEW i \in 1..Len(new), NEW j \in 1..Len(new),
                      new[i].id = new[j].id, i # j
               PROVE  FALSE
    BY DEF Distinct
  <2>1. e[i] \in 1..n /\ e[j] \in 1..n /\ q[e[i]].id = q[e[j]].id
    BY <1>5
  <2>2. e[i] = e[j]
    BY <2>1 DEF QInv, Distinct, n
  <2>3. i < j \/ j < i
    BY <1>6
  <2>4. e[i] < e[j] \/ e[j] < e[i]
    BY <1>5, <2>3
  <2> QED
    BY <2>1, <2>2, <2>4
<1>9. \A x : x \in hastened => x \in hastened'
  BY DEF Cancel
<1>10. ASSUME NEW k \in 1..n, \E h \in 1..(k - 1) : GroupOf[q[h].id] = g
       PROVE  q[k].id \in hastened'
  BY <1>1, <1>10 DEF Cancel
<1>11. ASSUME NEW j \in 1..Len(new)
       PROVE  \/ b + Since(new, j) = due[new[j].id]
              \/ new[j].id \in hastened' /\ b + Since(new, j) < due[new[j].id]
  <2> DEFINE k == e[j]
             x == q[e[j]].id
  <2>1. k \in 1..n /\ new[j] = q[k] /\ x \in Node
    BY <1>1, <1>5
  <2>2. \/ b + Since(q, k) = due[x]
        \/ x \in hastened /\ b + Since(q, k) < due[x]
    BY <2>1 DEF QInv, Exact, n
  <2>3. Since(q, k) \in Nat /\ Since(new, j) \in Nat /\ due[x] \in Nat
    BY <1>1, <1>2, <1>3, <1>7, <2>1
  <2>4. Since(new, j) <= Since(q, k)
    BY <1>5
  <2>5. CASE Since(new, j) = Since(q, k)
    BY <1>9, <2>1, <2>2, <2>5
  <2>6. CASE Since(new, j) # Since(q, k)
    <3>1. \E h \in 1..(k - 1) : GroupOf[q[h].id] = g
      BY <1>5, <2>6
    <3>2. x \in hastened'
      BY <1>10, <2>1, <3>1
    <3>3. b + Since(new, j) < due[x]
      BY <1>3, <2>2, <2>3, <2>4, <2>6
    <3> QED
      BY <2>1, <3>2, <3>3
  <2> QED
    BY <2>5, <2>6
<1>12. Exact(new, b, due, hastened')
  BY <1>11 DEF Exact
<1>13. ASSUME NEW j \in 1..Len(new) PROVE timeout[new[j].id] # 0
  <2>1. e[j] \in 1..n /\ new[j] = q[e[j]]
    BY <1>5
  <2>2. \A k \in 1..n : timeout[q[k].id] # 0
    BY DEF QInv, n
  <2> QED
    BY <2>1, <2>2
<1> QED
  BY <1>3, <1>5, <1>8, <1>12, <1>13 DEF QInv, new

LEMMA RetransmitInv ==
  ASSUME QInv, Retransmit
  PROVE  QInv'
<1> DEFINE q == sendqueue
           id == sendqueue[1].id
           rest == Without(sendqueue, 1)
           cnt == retransmit_cnt[id] + 1
           wait == timeout[id] * 2^cnt
<1>1. /\ UNCHANGED <<now, timeout, before>>
      /\ q # << >>
  BY DEF Retransmit, HeadExpired
<1>2. 1 \in 1..Len(q) /\ q \in Seq(Nodes)
  BY <1>1 DEF QInv
<1>3. /\ id \in Node
      /\ timeout[id] # 0
  BY <1>2, QueueTypes DEF QInv
<1>4. /\ rest \in Seq(Nodes)
      /\ Distinct(rest)
      /\ Exact(rest, sendqueue_basetime, due, hastened)
      /\ \A j \in 1..Len(rest) :
           /\ rest[j].id # id
           /\ \E k \in 1..Len(q) : rest[j].id = q[k].id
  BY <1>2, WithoutStep DEF QInv
<1>5. CASE retransmit_cnt[id] < MaxRetransmit
  <2>1. /\ retransmit_cnt' = [retransmit_cnt EXCEPT ![id] = cnt]
        /\ Enqueue(rest, id, wait)
    BY <1>5 DEF Retransmit
  <2>2. cnt \in 0..MaxRetransmit /\ cnt \in Nat
    BY <1>3, <1>5, QueueAssumption DEF QInv
  <2>3. retransmit_cnt' \in [Node -> 0..MaxRetransmit]
    BY <1>3, <2>1, <2>2 DEF QInv
  <2>4. wait \in Nat
    <3> DEFINE p == 2^cnt
    <3>1. p \in Nat
      BY <2>2, PowerOfTwo
    <3>2. timeout[id] \in Nat
      BY <1>3 DEF QInv
    <3> HIDE DEF p
    <3>3. timeout[id] * p \in Nat
      BY <3>1, <3>2
    <3> QED
      BY <3>3 DEF p
  <2> HIDE DEF rest, id, wait
  <2>5. /\ sendqueue' \in Seq(Nodes)
        /\ sendqueue_basetime' \in Nat /\ sendqueue_basetime' <= now
        /\ due' \in [Node -> Nat]
        /\ Distinct(sendqueue')
        /\ Exact(sendqueue', sendqueue_basetime', due', hastened')
        /\ \A j \in 1..Len(sendqueue') :
             sendqueue'[j].id = id \/ \E i \in 1..Len(rest) : sendqueue'[j].id = rest[i].id
    BY <1>3, <1>4, <2>1, <2>4, EnqueueStep
  <2>6. ASSUME NEW j \in 1..Len(sendqueue') PROVE timeout[sendqueue'[j].id] # 0
    <3>1. CASE sendqueue'[j].id = id
      BY <1>3, <3>1
    <3>2. CASE sendqueue'[j].id # id
      <4>1. PICK i \in 1..Len(rest) : sendqueue'[j].id = rest[i].id
        BY <2>5, <3>2
      <4>2. PICK k \in 1..Len(q) : rest[i].id = q[k].id
        BY <1>4
      <4>3. timeout[q[k].id] # 0
        BY DEF QInv
      <4> QED
        BY <4>1, <4>2, <4>3
    <3> QED
      BY <3>1, <3>2
  <2> QED
    BY <1>1, <2>3, <2>5, <2>6 DEF QInv
<1>6. CASE ~(retransmit_cnt[id] < MaxRetransmit)
  <2>1. /\ sendqueue' = rest
        /\ UNCHANGED <<retransmit_cnt, sendqueue_basetime, due, hastened>>
    BY <1>6 DEF Retransmit
  <2> HIDE DEF rest, id
  <2> QED
    BY <1>1, <1>4, <2>1 DEF QInv
<1> QED
  BY <1>5, <1>6

\* Every step keeps the invariant.
LEMMA QNextInv ==
  ASSUME QInv, [QNext]_qvars
  PROVE  QInv'
<1>1. ASSUME NEW id \in Node, WaitAck(id) PROVE QInv'
  BY <1>1, WaitAckInv
<1>2. ASSUME NEW id \in Node, RemoveFromQueue(id) PROVE QInv'
  BY <1>2, RemoveFromQueueInv
<1>3. ASSUME NEW g \in Group, Cancel(g) PROVE QInv'
  BY <1>3, CancelInv
<1>4. CASE Prepare
  BY <1>4 DEF Prepare, QInv
<1>5. CASE Retransmit
  BY <1>5, RetransmitInv
<1>6. CASE Rearm
  BY <1>6 DEF Rearm, QInv
<1>7. CASE Tick
  BY <1>7 DEF Tick, QInv
<1>8. CASE UNCHANGED qvars
  BY <1>8 DEF qvars, QInv
<1> QED
  BY <1>1, <1>2, <1>3, <1>4, <1>5, <1>6, <1>7, <1>8 DEF QNext

\* The relative times of coap_insert_node(), coap_pop_next(),
\* coap_remove_from_queue() and the cancel functions give every message in the
\* send queue its own deadline, for any number of messages, any timeouts and
\* any clock; only a message behind a cancelled one is early, and none is late.
THEOREM TimersAlwaysExact == QSpec => []TimersExact
<1>1. QInit => QInv
  BY QInit_QInv
<1>2. QInv /\ [QNext]_qvars => QInv'
  BY QNextInv
<1>3. QInv => TimersExact
  BY QInvExact
<1> QED
  BY <1>1, <1>2, <1>3, PTL DEF QSpec

\* When the retransmission loop of coap_io_prepare_io() ends, no message is
\* left that was due when it began: the head is the earliest, and a message
\* that was cancelled before another does not make that one late.
THEOREM NothingEverLeftDue == QSpec => NothingLeftDue
<1> DEFINE LeftOver == pc = "prepare" /\ pc' # "prepare" =>
                      \A i \in DOMAIN sendqueue : due[sendqueue[i].id] > before
<1>1. QInit => QInv
  BY QInit_QInv
<1>2. QInv /\ [QNext]_qvars => QInv'
  BY QNextInv
<1>3. ASSUME QInv, QNext, pc = "prepare", pc' # "prepare"
      PROVE  ~HeadExpired
  <2>1. ASSUME NEW id \in Node, WaitAck(id) PROVE FALSE
    BY <1>3, <2>1 DEF WaitAck
  <2>2. ASSUME NEW id \in Node, RemoveFromQueue(id) PROVE FALSE
    BY <1>3, <2>2 DEF RemoveFromQueue
  <2>3. ASSUME NEW g \in Group, Cancel(g) PROVE FALSE
    BY <1>3, <2>3 DEF Cancel
  <2>4. CASE Prepare
    BY <1>3, <2>4 DEF Prepare
  <2>5. CASE Retransmit
    BY <1>3, <2>5 DEF Retransmit
  <2>6. CASE Rearm
    BY <2>6 DEF Rearm
  <2>7. CASE Tick
    BY <1>3, <2>7 DEF Tick
  <2> QED
    BY <1>3, <2>1, <2>2, <2>3, <2>4, <2>5, <2>6, <2>7 DEF QNext
<1>4. ASSUME QInv, ~HeadExpired, NEW i \in DOMAIN sendqueue
      PROVE  due[sendqueue[i].id] > before
  <2> DEFINE n == Len(sendqueue)
             b == sendqueue_basetime
             x == sendqueue[i].id
  <2>1. /\ n \in Nat /\ i \in 1..n
        /\ x \in Node /\ sendqueue[1].t \in Nat
    <3>1. /\ n \in Nat /\ i \in 1..n
      BY <1>4, QueueTypes DEF QInv
    <3>2. 1 \in 1..n
      BY <3>1
    <3> QED
      BY <1>4, <3>1, <3>2, QueueTypes DEF QInv
  <2>2. /\ b \in Nat /\ before \in Nat /\ due[x] \in Nat
    BY <1>4, <2>1 DEF QInv
  <2>3. before < b + sendqueue[1].t
    <3>1. sendqueue # << >>
      BY <2>1
    <3> QED
      BY <1>4, <2>1, <2>2, <3>1 DEF HeadExpired
  <2>4. /\ Since(sendqueue, i) \in Nat /\ Since(sendqueue, 1) = sendqueue[1].t
        /\ Since(sendqueue, 1) <= Since(sendqueue, i)
    <3>0. sendqueue \in Seq(Nodes)
      BY <1>4 DEF QInv
    <3>1. /\ Since(sendqueue, 0) = 0
          /\ \A k \in 0..n : Since(sendqueue, k) \in Nat
          /\ \A k \in 1..n : Since(sendqueue, k) = Since(sendqueue, k - 1) + sendqueue[k].t
      BY <3>0, SinceSteps
    <3>2. 1 \in 1..n /\ i \in 0..n /\ 1 \in 0..n /\ 1 <= i /\ 1 - 1 = 0
      BY <2>1
    <3>3. Since(sendqueue, 1) <= Since(sendqueue, i)
      BY <3>0, <3>2, SinceGrows
    <3>4. Since(sendqueue, 1) = Since(sendqueue, 1 - 1) + sendqueue[1].t
      BY <3>1, <3>2
    <3> QED
      BY <2>1, <3>1, <3>2, <3>3, <3>4
  <2>5. b + Since(sendqueue, i) <= due[x]
    <3>1. b + Since(sendqueue, i) = due[x] \/ b + Since(sendqueue, i) < due[x]
      BY <1>4, <2>1 DEF QInv, Exact
    <3> QED
      BY <2>2, <2>4, <3>1
  <2> QED
    BY <2>1, <2>2, <2>3, <2>4, <2>5
<1>5. QInv /\ [QNext]_qvars => [LeftOver]_qvars
  BY <1>3, <1>4
<1> QED
  BY <1>1, <1>2, <1>5, PTL DEF QSpec, NothingLeftDue

\* While the application waits, coap_io_prepare_epoll() has armed the timer
\* descriptor for the head of the send queue, however much the clock advanced
\* while coap_io_process() ran, for every deadline that is still to come: if every
\* confirmable message is sent from inside coap_io_process(). Of a deadline that
\* passed between two readings of the clock (coap_io.c:1027) it says nothing.
THEOREM WakeupAlwaysArmed ==
  ASSUME "outside" \notin Races
  PROVE  QSpec => []WakeupArmed
<1>1. QInit => QInv /\ WakeupArmed
  BY QInit_QInv DEF QInit, WakeupArmed
<1>2. ASSUME QInv, WakeupArmed, [QNext]_qvars
      PROVE  WakeupArmed'
  <2>0. /\ now \in Nat /\ sendqueue_basetime \in Nat /\ before \in Nat
        /\ sendqueue # << >> => sendqueue[1].t \in Nat
    <3>1. sendqueue # << >> => 1 \in 1..Len(sendqueue)
      BY <1>2 DEF QInv
    <3> QED
      BY <1>2, <3>1, QueueTypes DEF QInv
  <2>1. ASSUME NEW id \in Node, WaitAck(id) PROVE pc' # "wait"
    BY <2>1 DEF WaitAck
  <2>2. ASSUME NEW id \in Node, RemoveFromQueue(id) PROVE pc' # "wait"
    BY <2>2 DEF RemoveFromQueue
  <2>3. ASSUME NEW g \in Group, Cancel(g) PROVE pc' # "wait"
    BY <2>3 DEF Cancel
  <2>4. CASE Prepare
    BY <2>4 DEF Prepare, WakeupArmed
  <2>5. CASE Retransmit
    BY <2>5 DEF Retransmit, WakeupArmed
  <2>6. CASE Rearm
    <3> DEFINE at == sendqueue_basetime + sendqueue[1].t
    <3> SUFFICES ASSUME sendqueue # << >>, now < at
                 PROVE  eptimer' # 0 /\ eptimer' <= at
      BY <2>6 DEF Rearm, WakeupArmed
    <3>1. before < at
      BY <2>0, <2>6 DEF Rearm, HeadExpired
    <3> DEFINE wait == sendqueue[1].t - (before - sendqueue_basetime)
    <3>2. wait # 0 /\ before + wait = at /\ at \in Nat
      BY <2>0, <3>1
    <3>3. /\ next_timeout' = IF wait = 0 THEN 0 ELSE before + wait
          /\ eptimer' = IF next_timeout' > now THEN next_timeout' ELSE 0
      BY <2>6 DEF Rearm
    <3> HIDE DEF wait, at
    <3>4. eptimer' = at
      BY <2>0, <3>2, <3>3
    <3> QED
      BY <2>0, <3>2, <3>4
  <2>7. CASE Tick
    BY <1>2, <2>0, <2>7 DEF Tick, WakeupArmed
  <2>8. CASE UNCHANGED qvars
    BY <1>2, <2>8 DEF qvars, WakeupArmed
  <2> QED
    BY <1>2, <2>1, <2>2, <2>3, <2>4, <2>5, <2>6, <2>7, <2>8
       DEF QNext, WakeupArmed
<1>3. QInv /\ [QNext]_qvars => QInv'
  BY QNextInv
<1> QED
  BY <1>1, <1>2, <1>3, PTL DEF QSpec
=============================================================================
