-------------------------- MODULE InductionFacts --------------------------
(***************************************************************************)
(* Facts the proofs share: induction over natural numbers stated about     *)
(* sets, functions defined by recursion, and what the operations on        *)
(* sequences that the models use do to a sequence.                         *)
(***************************************************************************)
EXTENDS Integers, Sequences, SequencesExt, SequenceTheorems, FiniteSetTheorems,
        WellFoundedInduction, TLAPS

-----------------------------------------------------------------------------
(* Induction over natural numbers, as a fact about sets, and functions     *)
(* defined by recursion.                                                   *)

\* The order of the natural numbers, as a relation.
LessThan == {ss \in Nat \X Nat : ss[1] < ss[2]}

\* A set of natural numbers that is not empty has a least element.
LEMMA LeastNat ==
  ASSUME NEW S \in SUBSET Nat, S # {}
  PROVE  \E x \in S : \A y \in S : x <= y
<1>1. IsWellFoundedOn(LessThan, Nat)
  BY NatLessThanWellFounded, Zenon DEF OpToRel, LessThan
<1>2. \E x \in S : \A y \in S : ~(<<y, x>> \in LessThan)
  BY <1>1, WFMin
<1>3. \A x, y \in Nat : ~(<<y, x>> \in LessThan) => x <= y
  BY DEF LessThan
<1> QED
  BY <1>2, <1>3

\* A set that holds 0, and with every number below n the next one, holds all
\* numbers up to n.
LEMMA UpTo ==
  ASSUME NEW n \in Nat, NEW G, 0 \in G,
         \A k \in 1..n : k - 1 \in G => k \in G
  PROVE  \A k \in 0..n : k \in G
<1> DEFINE bad == {k \in 0..n : k \notin G}
<1>1. SUFFICES ASSUME bad # {} PROVE FALSE
  OBVIOUS
<1>2. bad \in SUBSET Nat
  OBVIOUS
<1>3. PICK m \in bad : \A y \in bad : m <= y
  BY <1>1, <1>2, LeastNat
<1>4. m \in 1..n /\ m \notin G
  BY <1>3
<1>5. m - 1 \in 0..n /\ m - 1 \notin bad
  BY <1>3, <1>4
<1> QED
  BY <1>4, <1>5

\* f follows the rule g from the value b at 0 up to n.
Follows(f, V, n, b, g) ==
  /\ f \in [0..n -> V]
  /\ f[0] = b
  /\ \A k \in 1..n : f[k] = g[<<k, f[k - 1]>>]

\* A rule can be followed.
LEMMA FollowsExists ==
  ASSUME NEW V, NEW b \in V, NEW n \in Nat, NEW g \in [(1..n) \X V -> V]
  PROVE  \E f : Follows(f, V, n, b, g)
<1> DEFINE G == {m \in 0..n : \E f : Follows(f, V, m, b, g)}
<1>1. 0 \in G
  <2> DEFINE f == [i \in 0..0 |-> b]
  <2>1. Follows(f, V, 0, b, g)
    BY DEF Follows
  <2> QED
    BY <2>1
<1>2. ASSUME NEW k \in 1..n, k - 1 \in G PROVE k \in G
  <2>1. PICK f : Follows(f, V, k - 1, b, g)
    BY <1>2
  <2>2. /\ f \in [0..(k - 1) -> V] /\ f[0] = b
        /\ \A i \in 1..(k - 1) : f[i] = g[<<i, f[i - 1]>>]
    BY <2>1 DEF Follows
  <2>3. f[k - 1] \in V
    BY <2>2
  <2> DEFINE v == g[<<k, f[k - 1]>>]
             h == [i \in 0..k |-> IF i = k THEN v ELSE f[i]]
  <2>4. v \in V
    BY <2>3
  <2> HIDE DEF v
  <2>5. h \in [0..k -> V]
    BY <2>2, <2>4
  <2>6. h[0] = b /\ h[k - 1] = f[k - 1] /\ h[k] = v
    BY <2>2
  <2>7. \A i \in 1..(k - 1) : h[i] = f[i] /\ h[i - 1] = f[i - 1]
    OBVIOUS
  <2> HIDE DEF h
  <2>8. \A i \in 1..k : h[i] = g[<<i, h[i - 1]>>]
    <3> SUFFICES ASSUME NEW i \in 1..k PROVE h[i] = g[<<i, h[i - 1]>>]
      OBVIOUS
    <3>1. CASE i = k
      BY <2>6, <3>1 DEF v
    <3>2. CASE i # k
      <4>1. i \in 1..(k - 1)
        BY <3>2
      <4> QED
        BY <2>2, <2>7, <4>1
    <3> QED
      BY <3>1, <3>2
  <2>9. Follows(h, V, k, b, g)
    BY <2>5, <2>6, <2>8 DEF Follows
  <2> QED
    BY <2>9
<1> HIDE DEF G
<1>3. \A k \in 0..n : k \in G
  BY <1>1, <1>2, UpTo
<1> QED
  BY <1>3 DEF G

-----------------------------------------------------------------------------
(* Sequences.                                                              *)

\* What SMT needs to know of a sequence.
LEMMA SeqFacts ==
  ASSUME NEW S, NEW q \in Seq(S)
  PROVE  /\ Len(q) \in Nat /\ DOMAIN q = 1..Len(q)
         /\ \A i \in 1..Len(q) : q[i] \in S
OBVIOUS

\* The i-th element is taken out.
LEMMA RemoveAtSeq ==
  ASSUME NEW S, NEW q \in Seq(S), NEW i \in 1..Len(q)
  PROVE  /\ RemoveAt(q, i) \in Seq(S)
         /\ Len(RemoveAt(q, i)) = Len(q) - 1
         /\ \A j \in 1..(Len(q) - 1) :
              RemoveAt(q, i)[j] = IF j < i THEN q[j] ELSE q[j + 1]
<1> DEFINE a == SubSeq(q, 1, i - 1)
           b == SubSeq(q, i + 1, Len(q))
           new == a \o b
<1>0. Len(q) \in Nat /\ i \in 1..Len(q)
  OBVIOUS
<1>1. a \in Seq(S) /\ Len(a) = i - 1 /\ \A j \in 1..(i - 1) : a[j] = q[j]
  OBVIOUS
<1>2. /\ b \in Seq(S) /\ Len(b) = Len(q) - i
      /\ \A j \in 1..(Len(q) - i) : b[j] = q[i + j]
  OBVIOUS
<1> HIDE DEF a, b
<1>3. /\ new \in Seq(S) /\ Len(new) = Len(a) + Len(b)
      /\ \A j \in 1..(Len(a) + Len(b)) :
           new[j] = IF j <= Len(a) THEN a[j] ELSE b[j - Len(a)]
  BY <1>1, <1>2, ConcatProperties
<1>4. RemoveAt(q, i) = new
  BY DEF RemoveAt, a, b
<1> HIDE DEF new
<1>5. Len(new) = Len(q) - 1
  BY <1>0, <1>1, <1>2, <1>3
<1>6. ASSUME NEW j \in 1..(Len(q) - 1)
      PROVE  new[j] = IF j < i THEN q[j] ELSE q[j + 1]
  <2>1. j \in 1..(Len(a) + Len(b)) /\ Len(a) = i - 1
    BY <1>0, <1>1, <1>2
  <2>2. CASE j < i
    BY <1>0, <1>1, <1>3, <2>1, <2>2
  <2>3. CASE ~(j < i)
    <3>1. j - (i - 1) \in 1..(Len(q) - i) /\ i + (j - (i - 1)) = j + 1
      BY <1>0, <2>3
    <3>2. new[j] = b[j - (i - 1)]
      BY <1>0, <1>3, <2>1, <2>3
    <3>3. b[j - (i - 1)] = q[i + (j - (i - 1))]
      BY <1>2, <3>1
    <3> QED
      BY <2>3, <3>1, <3>2, <3>3
  <2> QED
    BY <2>2, <2>3
<1> QED
  BY <1>3, <1>4, <1>5, <1>6

\* An element is put in front.
LEMMA ConsSeq ==
  ASSUME NEW S, NEW q \in Seq(S), NEW x \in S
  PROVE  /\ <<x>> \o q \in Seq(S)
         /\ Len(<<x>> \o q) = Len(q) + 1
         /\ (<<x>> \o q)[1] = x
         /\ \A j \in 1..Len(q) : (<<x>> \o q)[j + 1] = q[j]
<1> DEFINE a == <<x>>
<1>1. a \in Seq(S) /\ Len(a) = 1 /\ a[1] = x
  OBVIOUS
<1> HIDE DEF a
<1>2. /\ a \o q \in Seq(S) /\ Len(a \o q) = Len(a) + Len(q)
      /\ \A j \in 1..(Len(a) + Len(q)) :
           (a \o q)[j] = IF j <= Len(a) THEN a[j] ELSE q[j - Len(a)]
  BY <1>1, ConcatProperties
<1>3. Len(q) \in Nat
  OBVIOUS
<1>4. ASSUME NEW j \in 1..Len(q) PROVE (a \o q)[j + 1] = q[j]
  <2>1. j + 1 \in 1..(Len(a) + Len(q)) /\ ~(j + 1 <= Len(a)) /\ (j + 1) - Len(a) = j
    BY <1>1, <1>3
  <2> QED
    BY <1>2, <2>1
<1>5. 1 \in 1..(Len(a) + Len(q)) /\ 1 <= Len(a)
  BY <1>1, <1>3
<1>6. (a \o q)[1] = x
  BY <1>1, <1>2, <1>5
<1>7. Len(a \o q) = Len(q) + 1
  BY <1>1, <1>2, <1>3
<1> QED
  BY <1>2, <1>4, <1>6, <1>7 DEF a
=============================================================================
