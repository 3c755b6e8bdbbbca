-------------------------- MODULE RecBlocksProofs --------------------------
(* That the ranges of update_received_blocks() hold exactly the blocks that  *)
(* arrived, for every limit of the array and every largest block number.     *)
EXTENDS RecBlocks, InductionFacts

Ranges == [begin : Nat, end : Nat]

\* A block lies in one of the ranges.
Covered(rs, n) == \E i \in 1 .. Len(rs) : rs[i].begin <= n /\ n <= rs[i].end

\* The ranges are ordered, with a gap between any two and not only between
\* neighbours: a range that is put in, taken out or widened changes who the
\* neighbours are.
Apart(rs) ==
  /\ rs \in Seq(Ranges)
  /\ \A i \in 1 .. Len(rs) : rs[i].begin <= rs[i].end
  /\ \A i, j \in 1 .. Len(rs) : i < j => rs[i].end + 1 < rs[j].begin

RecInv ==
  /\ Apart(rec_blocks) /\ Len(rec_blocks) <= RangeLimit
  /\ got \subseteq Nat
  /\ \A n \in Nat : n \in got <=> Covered(rec_blocks, n)

-----------------------------------------------------------------------------

\* What Min is for a set of natural numbers.
LEMMA MinNat ==
  ASSUME NEW S \in SUBSET Nat, S # {}
  PROVE  Min(S) \in S /\ \A y \in S : Min(S) <= y
<1>1. \E x \in S : \A y \in S : x <= y
  BY LeastNat
<1>2. Min(S) = CHOOSE x \in S : \A y \in S : x <= y
  BY DEF Min
<1> QED
  BY <1>1, <1>2

\* The ends of a range are natural numbers.
LEMMA RangeEnds ==
  ASSUME NEW rs \in Seq(Ranges), NEW i \in 1 .. Len(rs)
  PROVE  rs[i].begin \in Nat /\ rs[i].end \in Nat
<1>1. rs[i] \in Ranges
  OBVIOUS
<1> QED
  BY <1>1 DEF Ranges

\* Where update_received_blocks() leaves its loop: n lies behind every range
\* before that place and not behind the one there.
LEMMA UpdateAtFacts ==
  ASSUME NEW rs \in Seq(Ranges), NEW n \in Nat
  PROVE  /\ UpdateAt(rs, n) \in 1 .. Len(rs) + 1
         /\ \A j \in 1 .. UpdateAt(rs, n) - 1 : rs[j].end + 1 < n
         /\ UpdateAt(rs, n) <= Len(rs) => n <= rs[UpdateAt(rs, n)].end + 1
<1> DEFINE stop == {i \in DOMAIN rs : n <= rs[i].end + 1}
<1>1. DOMAIN rs = 1 .. Len(rs) /\ Len(rs) \in Nat
  OBVIOUS
<1>2. \A i \in 1 .. Len(rs) : rs[i].end \in Nat
  BY RangeEnds
<1> HIDE DEF stop
<1>3. CASE stop = {}
  <2>1. UpdateAt(rs, n) = Len(rs) + 1
    BY <1>3 DEF UpdateAt, stop
  <2>2. \A j \in 1 .. Len(rs) : ~(n <= rs[j].end + 1)
    BY <1>1, <1>3 DEF stop
  <2> QED
    BY <1>1, <1>2, <2>1, <2>2
<1>4. CASE stop # {}
  <2>1. stop \in SUBSET Nat
    BY <1>1 DEF stop
  <2> DEFINE m == Min(stop)
  <2>2. m \in stop /\ \A y \in stop : m <= y
    BY <1>4, <2>1, MinNat
  <2>3. UpdateAt(rs, n) = m
    BY <1>4 DEF UpdateAt, stop
  <2> HIDE DEF m
  <2>4. m \in 1 .. Len(rs) /\ n <= rs[m].end + 1
    BY <1>1, <2>2 DEF stop
  <2>5. \A j \in 1 .. m - 1 : j \in 1 .. Len(rs) /\ j \notin stop
    BY <1>1, <2>2, <2>4
  <2>6. \A j \in 1 .. m - 1 : rs[j].end + 1 < n
    BY <1>1, <1>2, <2>5 DEF stop
  <2> QED
    BY <1>1, <2>3, <2>4, <2>6
<1> QED
  BY <1>3, <1>4

\* new is rs with x put in at place i.
IsPutIn(rs, i, x, new) ==
  /\ new \in Seq(Ranges) /\ Len(new) = Len(rs) + 1
  /\ \A j \in 1 .. Len(rs) + 1 :
       new[j] = IF j < i THEN rs[j] ELSE IF j = i THEN x ELSE rs[j - 1]

\* How a range is put in at place i.
LEMMA PutIn ==
  ASSUME NEW rs \in Seq(Ranges), NEW i \in 1 .. Len(rs), NEW x \in Ranges
  PROVE  IsPutIn(rs, i, x, SubSeq(rs, 1, i - 1) \o <<x>> \o SubSeq(rs, i, Len(rs)))
<1> DEFINE a == SubSeq(rs, 1, i - 1)
           b == SubSeq(rs, i, Len(rs))
           ax == a \o <<x>>
           new == ax \o b
<1>1. a \in Seq(Ranges) /\ Len(a) = i - 1 /\ \A j \in 1 .. i - 1 : a[j] = rs[j]
  OBVIOUS
<1>2. /\ b \in Seq(Ranges) /\ Len(b) = Len(rs) - i + 1
      /\ \A j \in 1 .. Len(rs) - i + 1 : b[j] = rs[i + j - 1]
  OBVIOUS
<1>3. /\ <<x>> \in Seq(Ranges) /\ Len(<<x>>) = 1 /\ <<x>>[1] = x
  OBVIOUS
<1> HIDE DEF a, b
<1>4. /\ ax \in Seq(Ranges) /\ Len(ax) = i
      /\ \A j \in 1 .. i : ax[j] = IF j < i THEN rs[j] ELSE x
  BY <1>1, <1>3
<1> HIDE DEF ax
<1> HIDE DEF new
<1>5. /\ new \in Seq(Ranges) /\ Len(new) = Len(ax) + Len(b)
      /\ \A j \in 1 .. Len(ax) + Len(b) : new[j] = IF j <= Len(ax) THEN ax[j] ELSE b[j - Len(ax)]
  <2>1. ax \in Seq(Ranges) /\ b \in Seq(Ranges)
    BY <1>2, <1>4
  <2> QED
    BY <2>1, ConcatProperties, Zenon DEF new
<1>6. \A j \in 1 .. Len(rs) + 1 : j > i => new[j] = rs[j - 1]
  <2> SUFFICES ASSUME NEW j \in 1 .. Len(rs) + 1, j > i PROVE new[j] = rs[j - 1]
    OBVIOUS
  <2>0. Len(ax) = i /\ Len(b) = Len(rs) - i + 1 /\ Len(rs) \in Nat
    BY <1>2, <1>4
  <2>1. new[j] = b[j - i] /\ j - i \in 1 .. Len(rs) - i + 1
    BY <1>5, <2>0
  <2>2. b[j - i] = rs[i + (j - i) - 1]
    BY <1>2, <2>1
  <2>3. i + (j - i) - 1 = j - 1
    OBVIOUS
  <2> QED
    BY <2>1, <2>2, <2>3
<1>7. Len(new) = Len(rs) + 1
  BY <1>2, <1>4, <1>5
<1>8. \A j \in 1 .. Len(rs) + 1 : j <= i => new[j] = ax[j]
  BY <1>2, <1>4, <1>5
<1>9. \A j \in 1 .. Len(rs) + 1 :
         new[j] = IF j < i THEN rs[j] ELSE IF j = i THEN x ELSE rs[j - 1]
  BY <1>4, <1>6, <1>8
<1> QED
  BY <1>5, <1>7, <1>9 DEF IsPutIn, new, ax, a, b

\* new is rs with x in the place of the ranges at i and i + 1.
IsMerged(rs, i, x, new) ==
  /\ new \in Seq(Ranges) /\ Len(new) = Len(rs) - 1
  /\ \A j \in 1 .. Len(rs) - 1 :
       new[j] = IF j < i THEN rs[j] ELSE IF j = i THEN x ELSE rs[j + 1]

\* How the ranges at i and i + 1 are made one.
LEMMA Merged ==
  ASSUME NEW rs \in Seq(Ranges), NEW i \in 1 .. Len(rs) - 1, NEW x \in Ranges
  PROVE  IsMerged(rs, i, x, SubSeq(rs, 1, i - 1) \o <<x>> \o SubSeq(rs, i + 2, Len(rs)))
<1> DEFINE a == SubSeq(rs, 1, i - 1)
           b == SubSeq(rs, i + 2, Len(rs))
           ax == a \o <<x>>
           new == ax \o b
<1>0. i \in Nat /\ Len(rs) \in Nat /\ 1 <= i /\ i + 1 <= Len(rs)
  OBVIOUS
<1>1. a \in Seq(Ranges) /\ Len(a) = i - 1 /\ \A j \in 1 .. i - 1 : a[j] = rs[j]
  OBVIOUS
<1>2. /\ b \in Seq(Ranges) /\ Len(b) = Len(rs) - i - 1
      /\ \A j \in 1 .. Len(rs) - i - 1 : b[j] = rs[i + j + 1]
  OBVIOUS
<1>3. /\ <<x>> \in Seq(Ranges) /\ Len(<<x>>) = 1 /\ <<x>>[1] = x
  OBVIOUS
<1> HIDE DEF a, b
<1>4. /\ ax \in Seq(Ranges) /\ Len(ax) = i
      /\ \A j \in 1 .. i : ax[j] = IF j < i THEN rs[j] ELSE x
  BY <1>1, <1>3
<1> HIDE DEF ax
<1> HIDE DEF new
<1>5. Len(ax) = i /\ Len(b) = Len(rs) - i - 1 /\ Len(ax) + Len(b) = Len(rs) - 1
  BY <1>0, <1>2, <1>4
<1>6. /\ new \in Seq(Ranges) /\ Len(new) = Len(ax) + Len(b)
      /\ \A j \in 1 .. Len(ax) + Len(b) : new[j] = IF j <= Len(ax) THEN ax[j] ELSE b[j - Len(ax)]
  <2>1. ax \in Seq(Ranges) /\ b \in Seq(Ranges)
    BY <1>2, <1>4
  <2> QED
    BY <2>1, ConcatProperties, Zenon DEF new
<1>7. \A j \in 1 .. Len(rs) - 1 : j > i => new[j] = rs[j + 1]
  <2> SUFFICES ASSUME NEW j \in 1 .. Len(rs) - 1, j > i PROVE new[j] = rs[j + 1]
    OBVIOUS
  <2>0. j \in Nat /\ ~(j <= i) /\ j - i \in 1 .. Len(rs) - i - 1
    BY <1>0
  <2>1. new[j] = b[j - i]
    BY <1>6, <1>5, <2>0
  <2>2. b[j - i] = rs[i + (j - i) + 1]
    BY <1>2, <2>0
  <2>3. i + (j - i) + 1 = j + 1
    OBVIOUS
  <2> QED
    BY <2>1, <2>2, <2>3
<1>8. Len(new) = Len(rs) - 1
  BY <1>6, <1>5
<1>9. \A j \in 1 .. Len(rs) - 1 : j <= i => new[j] = ax[j]
  BY <1>6, <1>5
<1>10. \A j \in 1 .. Len(rs) - 1 :
         new[j] = IF j < i THEN rs[j] ELSE IF j = i THEN x ELSE rs[j + 1]
  <2> SUFFICES ASSUME NEW j \in 1 .. Len(rs) - 1
               PROVE  new[j] = IF j < i THEN rs[j] ELSE IF j = i THEN x ELSE rs[j + 1]
    OBVIOUS
  <2>1. CASE j <= i
    <3>1. j \in 1 .. i /\ new[j] = ax[j]
      BY <1>0, <1>9, <2>1
    <3> QED
      BY <1>0, <1>4, <2>1, <3>1
  <2>2. CASE j > i
    BY <1>0, <1>7, <2>2
  <2> QED
    BY <1>0, <2>1, <2>2
<1> QED
  BY <1>6, <1>8, <1>10 DEF IsMerged, new, ax, a, b

-----------------------------------------------------------------------------

\* The range of a single block.
LEMMA Range1Type ==
  ASSUME NEW n \in Nat
  PROVE  Range1(n) \in Ranges /\ Range1(n).begin = n /\ Range1(n).end = n
  BY DEF Range1, Ranges

\* What UpdateReceived returns is apart and holds the blocks of rs and n.
Adds(rs, n, new) ==
  /\ Apart(new)
  /\ \A k \in Nat : Covered(new, k) <=> Covered(rs, k) \/ k = n

\* A block behind every range.
LEMMA AddLast ==
  ASSUME NEW rs, Apart(rs), NEW n \in Nat,
         \A j \in 1 .. Len(rs) : rs[j].end + 1 < n
  PROVE  Adds(rs, n, Append(rs, Range1(n)))
<1> DEFINE new == Append(rs, Range1(n))
           x == Range1(n)
<1>0. rs \in Seq(Ranges) /\ Len(rs) \in Nat
  BY DEF Apart
<1>1. x \in Ranges /\ x.begin = n /\ x.end = n
  BY Range1Type
<1>2. /\ new \in Seq(Ranges) /\ Len(new) = Len(rs) + 1
      /\ \A j \in 1 .. Len(rs) + 1 : new[j] = IF j <= Len(rs) THEN rs[j] ELSE x
  BY <1>0, <1>1
<1> HIDE DEF new, x
<1>3. \A j \in 1 .. Len(rs) : rs[j].begin \in Nat /\ rs[j].end \in Nat
  BY <1>0, RangeEnds
<1>4. \A j \in 1 .. Len(new) : new[j].begin <= new[j].end
  BY <1>0, <1>1, <1>2, <1>3, SMTT(60) DEF Apart
<1>5. ASSUME NEW i \in 1 .. Len(new), NEW j \in 1 .. Len(new), i < j
      PROVE  new[i].end + 1 < new[j].begin
  <2>1. i \in 1 .. Len(rs) /\ new[i] = rs[i]
    BY <1>0, <1>2, <1>5
  <2>2. CASE j \in 1 .. Len(rs)
    <3>1. new[j] = rs[j]
      BY <1>0, <1>2, <2>2
    <3> QED
      BY <2>1, <2>2, <3>1, <1>5 DEF Apart
  <2>3. CASE j = Len(rs) + 1
    <3>1. new[j] = x
      BY <1>0, <1>2, <2>3
    <3> QED
      BY <2>1, <3>1, <1>1
  <2> QED
    BY <1>0, <1>2, <2>2, <2>3
<1>6. ASSUME NEW k \in Nat PROVE Covered(new, k) <=> Covered(rs, k) \/ k = n
  <2>1. ASSUME Covered(new, k) PROVE Covered(rs, k) \/ k = n
    BY <1>0, <1>1, <1>2, <2>1 DEF Covered
  <2>2. ASSUME Covered(rs, k) PROVE Covered(new, k)
    <3>1. PICK j \in 1 .. Len(rs) : rs[j].begin <= k /\ k <= rs[j].end
      BY <2>2 DEF Covered
    <3>2. j \in 1 .. Len(new) /\ new[j] = rs[j]
      BY <1>0, <1>2
    <3> QED
      BY <3>1, <3>2 DEF Covered
  <2>3. ASSUME k = n PROVE Covered(new, k)
    <3>1. Len(new) \in 1 .. Len(new) /\ new[Len(new)] = x
      BY <1>0, <1>2
    <3> QED
      BY <1>1, <2>3, <3>1 DEF Covered
  <2> QED
    BY <2>1, <2>2, <2>3
<1>7. Apart(new)
  BY <1>2, <1>4, <1>5 DEF Apart
<1> QED
  BY <1>6, <1>7 DEF Adds, new

\* A block in a gap that touches neither neighbour gets a range of its own.
LEMMA AddBetween ==
  ASSUME NEW rs, Apart(rs), NEW n \in Nat, NEW i \in 1 .. Len(rs),
         \A j \in 1 .. i - 1 : rs[j].end + 1 < n,
         n + 1 < rs[i].begin,
         NEW new, IsPutIn(rs, i, Range1(n), new)
  PROVE  Adds(rs, n, new) /\ Len(new) = Len(rs) + 1
<1> DEFINE x == Range1(n)
<1>0. rs \in Seq(Ranges) /\ Len(rs) \in Nat
  BY DEF Apart
<1>1. x \in Ranges /\ x.begin = n /\ x.end = n
  BY Range1Type
<1> HIDE DEF x
<1>2. /\ new \in Seq(Ranges) /\ Len(new) = Len(rs) + 1
      /\ \A j \in 1 .. Len(new) :
           new[j] = IF j < i THEN rs[j] ELSE IF j = i THEN x ELSE rs[j - 1]
  BY DEF x, IsPutIn
<1>3. \A j \in 1 .. Len(rs) : rs[j].begin \in Nat /\ rs[j].end \in Nat
  BY <1>0, RangeEnds
<1>4. ASSUME NEW j \in i .. Len(rs) PROVE n + 1 < rs[j].begin
  <2>1. i \in 1 .. Len(rs) /\ j \in 1 .. Len(rs) /\ (i = j \/ i < j)
    BY <1>0
  <2>2. i < j => rs[i].end + 1 < rs[j].begin
    BY <2>1 DEF Apart
  <2>3. rs[i].begin <= rs[i].end
    BY DEF Apart
  <2> QED
    BY <1>3, <2>1, <2>2, <2>3
<1>5. \A j \in 1 .. Len(new) : \/ j < i /\ j \in 1 .. Len(rs) /\ new[j] = rs[j]
                               \/ j = i /\ new[j] = x
                               \/ i < j /\ j - 1 \in i .. Len(rs) /\ new[j] = rs[j - 1]
  BY <1>0, <1>2
<1>6. ASSUME NEW j \in 1 .. Len(new) PROVE new[j].begin <= new[j].end
  <2>1. new[j] = x \/ \E l \in 1 .. Len(rs) : new[j] = rs[l]
    BY <1>0, <1>5
  <2> QED
    BY <1>1, <2>1 DEF Apart
<1>7. ASSUME NEW a \in 1 .. Len(new), NEW b \in 1 .. Len(new), a < b
      PROVE  new[a].end + 1 < new[b].begin
  <2>1. CASE a < i /\ b < i
    <3>1. new[a] = rs[a] /\ new[b] = rs[b] /\ a \in 1 .. Len(rs) /\ b \in 1 .. Len(rs)
      BY <1>5, <2>1
    <3> QED
      BY <3>1, <1>7 DEF Apart
  <2>2. CASE a < i /\ b = i
    <3>1. new[a] = rs[a] /\ new[b] = x /\ a \in 1 .. i - 1
      BY <1>5, <2>2
    <3> QED
      BY <3>1, <1>1
  <2>3. CASE a < i /\ i < b
    <3>1. /\ new[a] = rs[a] /\ new[b] = rs[b - 1] /\ a < b - 1
          /\ a \in 1 .. Len(rs) /\ b - 1 \in 1 .. Len(rs)
      BY <1>0, <1>5, <2>3
    <3> QED
      BY <3>1 DEF Apart
  <2>4. CASE a = i /\ i < b
    <3>1. new[a] = x /\ new[b] = rs[b - 1] /\ b - 1 \in i .. Len(rs)
      BY <1>5, <2>4
    <3> QED
      BY <3>1, <1>1, <1>4
  <2>5. CASE i < a /\ i < b
    <3>1. /\ new[a] = rs[a - 1] /\ new[b] = rs[b - 1] /\ a - 1 < b - 1
          /\ a - 1 \in 1 .. Len(rs) /\ b - 1 \in 1 .. Len(rs)
      BY <1>0, <1>5, <1>7, <2>5
    <3> QED
      BY <3>1 DEF Apart
  <2> QED
    BY <1>7, <2>1, <2>2, <2>3, <2>4, <2>5
<1>8. ASSUME NEW k \in Nat PROVE Covered(new, k) <=> Covered(rs, k) \/ k = n
  <2>1. ASSUME Covered(new, k) PROVE Covered(rs, k) \/ k = n
    <3>1. PICK j \in 1 .. Len(new) : new[j].begin <= k /\ k <= new[j].end
      BY <2>1 DEF Covered
    <3>2. CASE new[j] = x
      BY <1>1, <3>1, <3>2
    <3>3. CASE \E l \in 1 .. Len(rs) : new[j] = rs[l]
      BY <3>1, <3>3 DEF Covered
    <3> QED
      BY <1>0, <1>5, <3>2, <3>3
  <2>2. ASSUME Covered(rs, k) PROVE Covered(new, k)
    <3>1. PICK j \in 1 .. Len(rs) : rs[j].begin <= k /\ k <= rs[j].end
      BY <2>2 DEF Covered
    <3>2. CASE j < i
      <4>1. j \in 1 .. Len(new) /\ new[j] = rs[j]
        BY <1>0, <1>2, <3>2
      <4> QED
        BY <3>1, <4>1 DEF Covered
    <3>3. CASE i <= j
      <4>1. j + 1 \in 1 .. Len(new) /\ ~(j + 1 < i) /\ j + 1 # i /\ (j + 1) - 1 = j
        BY <1>0, <1>2, <3>3
      <4>2. new[j + 1] = rs[j]
        BY <1>2, <4>1
      <4> QED
        BY <3>1, <4>1, <4>2 DEF Covered
    <3> QED
      BY <3>2, <3>3
  <2>3. ASSUME k = n PROVE Covered(new, k)
    <3>1. i \in 1 .. Len(new) /\ new[i] = x
      BY <1>0, <1>2
    <3> QED
      BY <1>1, <2>3, <3>1 DEF Covered
  <2> QED
    BY <2>1, <2>2, <2>3
<1>9. Apart(new)
  BY <1>2, <1>6, <1>7 DEF Apart
<1> QED
  BY <1>2, <1>8, <1>9 DEF Adds

\* One range changed in place, and no other block covered than n.
LEMMA AddInPlace ==
  ASSUME NEW rs, Apart(rs), NEW n \in Nat, NEW i \in 1 .. Len(rs), NEW x \in Ranges,
         x.begin <= x.end,
         \A k \in Nat : x.begin <= k /\ k <= x.end <=>
                         (rs[i].begin <= k /\ k <= rs[i].end) \/ k = n,
         \A j \in 1 .. i - 1 : rs[j].end + 1 < x.begin,
         \A j \in i + 1 .. Len(rs) : x.end + 1 < rs[j].begin
  PROVE  Adds(rs, n, [rs EXCEPT ![i] = x])
<1> DEFINE new == [rs EXCEPT ![i] = x]
<1>0. rs \in Seq(Ranges) /\ Len(rs) \in Nat
  BY DEF Apart
<1>1. /\ new \in Seq(Ranges) /\ Len(new) = Len(rs)
      /\ \A j \in 1 .. Len(rs) : new[j] = IF j = i THEN x ELSE rs[j]
  BY <1>0
<1> HIDE DEF new
<1>2. \A j \in 1 .. Len(rs) : new[j].begin <= new[j].end
  BY <1>1 DEF Apart
<1>3. ASSUME NEW a \in 1 .. Len(rs), NEW b \in 1 .. Len(rs), a < b
      PROVE  new[a].end + 1 < new[b].begin
  <2>1. CASE a # i /\ b # i
    <3>1. new[a] = rs[a] /\ new[b] = rs[b]
      BY <1>1, <2>1
    <3> QED
      BY <1>3, <3>1 DEF Apart
  <2>2. CASE b = i
    <3>1. new[a] = rs[a] /\ new[b] = x /\ a \in 1 .. i - 1
      BY <1>0, <1>1, <1>3, <2>2
    <3> QED
      BY <3>1
  <2>3. CASE a = i
    <3>1. new[a] = x /\ new[b] = rs[b] /\ b \in i + 1 .. Len(rs)
      BY <1>0, <1>1, <1>3, <2>3
    <3> QED
      BY <3>1
  <2> QED
    BY <2>1, <2>2, <2>3
<1>4. ASSUME NEW k \in Nat PROVE Covered(new, k) <=> Covered(rs, k) \/ k = n
  <2>1. ASSUME Covered(new, k) PROVE Covered(rs, k) \/ k = n
    <3>1. PICK j \in 1 .. Len(rs) : new[j].begin <= k /\ k <= new[j].end
      BY <1>1, <2>1 DEF Covered
    <3>2. (rs[j].begin <= k /\ k <= rs[j].end) \/ k = n
      BY <1>1, <3>1
    <3> QED
      BY <3>2 DEF Covered
  <2>2. ASSUME Covered(rs, k) PROVE Covered(new, k)
    <3>1. PICK j \in 1 .. Len(rs) : rs[j].begin <= k /\ k <= rs[j].end
      BY <2>2 DEF Covered
    <3>2. new[j].begin <= k /\ k <= new[j].end
      BY <1>1, <3>1
    <3> QED
      BY <1>1, <3>2 DEF Covered
  <2>3. ASSUME k = n PROVE Covered(new, k)
    <3>1. new[i].begin <= k /\ k <= new[i].end
      BY <1>1, <2>3
    <3> QED
      BY <1>1, <3>1 DEF Covered
  <2> QED
    BY <2>1, <2>2, <2>3
<1>5. Apart(new)
  BY <1>1, <1>2, <1>3 DEF Apart
<1> QED
  BY <1>4, <1>5 DEF Adds, new

\* Two ranges and the one number between them.
LEMMA GapClosed ==
  ASSUME NEW a \in Nat, NEW b \in Nat, NEW c \in Nat, NEW d \in Nat,
         NEW n \in Nat, NEW k \in Nat, a <= b, c <= d, n = b + 1, c = n + 1
  PROVE  /\ a <= d
         /\ a <= k /\ k <= d <=> \/ a <= k /\ k <= b
                                 \/ c <= k /\ k <= d
                                 \/ k = n
OBVIOUS

\* A block that closes the gap between two ranges makes them one.
LEMMA AddMerging ==
  ASSUME NEW rs, Apart(rs), NEW n \in Nat, NEW i \in 1 .. Len(rs) - 1,
         n = rs[i].end + 1, rs[i + 1].begin = n + 1,
         NEW x \in Ranges, x.begin = rs[i].begin, x.end = rs[i + 1].end,
         NEW new, IsMerged(rs, i, x, new)
  PROVE  Adds(rs, n, new) /\ Len(new) = Len(rs) - 1
<1>0. rs \in Seq(Ranges) /\ Len(rs) \in Nat /\ i \in 1 .. Len(rs) /\ i + 1 \in 1 .. Len(rs)
  BY DEF Apart
<1>1. /\ new \in Seq(Ranges) /\ Len(new) = Len(rs) - 1
      /\ \A j \in 1 .. Len(rs) - 1 :
           new[j] = IF j < i THEN rs[j] ELSE IF j = i THEN x ELSE rs[j + 1]
  BY DEF IsMerged
<1>2. \A j \in 1 .. Len(rs) : /\ rs[j].begin \in Nat /\ rs[j].end \in Nat
                              /\ rs[j].begin <= rs[j].end
  BY <1>0, RangeEnds DEF Apart
<1>3. \A a, b \in 1 .. Len(rs) : a < b => rs[a].end + 1 < rs[b].begin
  BY DEF Apart
<1>4. \A j \in 1 .. Len(rs) - 1 :
        \/ j < i /\ j \in 1 .. Len(rs) /\ new[j] = rs[j]
        \/ j = i /\ new[j] = x
        \/ i < j /\ j + 1 \in i + 2 .. Len(rs) /\ new[j] = rs[j + 1]
  BY <1>0, <1>1
<1>4a. ASSUME NEW j \in 1 .. Len(rs) - 1
       PROVE  new[j] = x \/ \E l \in 1 .. Len(rs) : new[j] = rs[l]
  <2>1. CASE j < i /\ j \in 1 .. Len(rs) /\ new[j] = rs[j]
    BY <2>1
  <2>2. CASE i < j /\ j + 1 \in i + 2 .. Len(rs) /\ new[j] = rs[j + 1]
    <3>1. j + 1 \in 1 .. Len(rs)
      BY <1>0, <2>2
    <3> QED
      BY <2>2, <3>1
  <2> QED
    BY <1>4, <2>1, <2>2
<1>5. ASSUME NEW j \in 1 .. Len(rs) - 1 PROVE new[j].begin <= new[j].end
  <2>1. x.begin <= x.end
    <3>1. /\ rs[i].begin <= rs[i].end /\ rs[i + 1].begin <= rs[i + 1].end
          /\ rs[i].begin \in Nat /\ rs[i].end \in Nat
          /\ rs[i + 1].begin \in Nat /\ rs[i + 1].end \in Nat
      BY <1>0, <1>2
    <3>2. n = rs[i].end + 1 /\ rs[i + 1].begin = n + 1
      OBVIOUS
    <3> DEFINE a == rs[i].begin
               b == rs[i].end
               c == rs[i + 1].begin
               d == rs[i + 1].end
    <3>3. a <= d
      <4>1. /\ a \in Nat /\ b \in Nat /\ c \in Nat /\ d \in Nat
            /\ a <= b /\ c <= d /\ n = b + 1 /\ c = n + 1
        BY <3>1, <3>2
      <4> HIDE DEF a, b, c, d
      <4> QED
        BY <4>1, GapClosed
    <3> QED
      BY <3>3
  <2>2. new[j] = x \/ \E l \in 1 .. Len(rs) : new[j] = rs[l]
    BY <1>4a
  <2> QED
    BY <1>2, <2>1, <2>2
<1>6. ASSUME NEW a \in 1 .. Len(rs) - 1, NEW b \in 1 .. Len(rs) - 1, a < b
      PROVE  new[a].end + 1 < new[b].begin
  <2>1. CASE a < i /\ b < i
    <3>1. new[a] = rs[a] /\ new[b] = rs[b] /\ a \in 1 .. Len(rs) /\ b \in 1 .. Len(rs)
      BY <1>0, <1>4, <2>1
    <3> QED
      BY <1>3, <1>6, <3>1
  <2>2. CASE a < i /\ b = i
    <3>1. new[a] = rs[a] /\ new[b] = x /\ a \in 1 .. Len(rs)
      BY <1>0, <1>4, <2>2
    <3> QED
      BY <1>0, <1>3, <2>2, <3>1
  <2>3. CASE a < i /\ i < b
    <3>1. /\ new[a] = rs[a] /\ new[b] = rs[b + 1] /\ a < b + 1
          /\ a \in 1 .. Len(rs) /\ b + 1 \in 1 .. Len(rs)
      BY <1>0, <1>4, <2>3
    <3> QED
      BY <1>3, <3>1
  <2>4. CASE a = i /\ i < b
    <3>1. new[a] = x /\ new[b] = rs[b + 1] /\ b + 1 \in 1 .. Len(rs) /\ i + 1 < b + 1
      BY <1>0, <1>4, <2>4
    <3> QED
      BY <1>0, <1>3, <3>1
  <2>5. CASE i < a /\ i < b
    <3>1. /\ new[a] = rs[a + 1] /\ new[b] = rs[b + 1] /\ a + 1 < b + 1
          /\ a + 1 \in 1 .. Len(rs) /\ b + 1 \in 1 .. Len(rs)
      BY <1>0, <1>4, <1>6, <2>5
    <3> QED
      BY <1>3, <3>1
  <2> QED
    BY <1>0, <1>6, <2>1, <2>2, <2>3, <2>4, <2>5
<1>7. ASSUME NEW k \in Nat PROVE Covered(new, k) <=> Covered(rs, k) \/ k = n
  <2>0. x.begin <= k /\ k <= x.end <=>
          \/ rs[i].begin <= k /\ k <= rs[i].end
          \/ rs[i + 1].begin <= k /\ k <= rs[i + 1].end
          \/ k = n
    <3>1. /\ rs[i].begin <= rs[i].end /\ rs[i + 1].begin <= rs[i + 1].end
          /\ rs[i].begin \in Nat /\ rs[i].end \in Nat
          /\ rs[i + 1].begin \in Nat /\ rs[i + 1].end \in Nat
      BY <1>0, <1>2
    <3>2. n = rs[i].end + 1 /\ rs[i + 1].begin = n + 1
      OBVIOUS
    <3> DEFINE a == rs[i].begin
               b == rs[i].end
               c == rs[i + 1].begin
               d == rs[i + 1].end
               e == x.begin
               f == x.end
    <3>3. e <= k /\ k <= f <=> \/ a <= k /\ k <= b
                               \/ c <= k /\ k <= d
                               \/ k = n
      <4>1. /\ a \in Nat /\ b \in Nat /\ c \in Nat /\ d \in Nat
            /\ a <= b /\ c <= d /\ n = b + 1 /\ c = n + 1
        BY <3>1, <3>2
      <4>2. e = a /\ f = d
        OBVIOUS
      <4> HIDE DEF a, b, c, d, e, f
      <4> QED
        BY <4>1, <4>2, GapClosed
    <3> QED
      BY <3>3, Zenon
  <2>1. ASSUME Covered(new, k) PROVE Covered(rs, k) \/ k = n
    <3>1. PICK j \in 1 .. Len(rs) - 1 : new[j].begin <= k /\ k <= new[j].end
      BY <1>1, <2>1 DEF Covered
    <3>2. CASE new[j] = x
      BY <1>0, <2>0, <3>1, <3>2 DEF Covered
    <3>3. CASE \E l \in 1 .. Len(rs) : new[j] = rs[l]
      BY <3>1, <3>3 DEF Covered
    <3>4. new[j] = x \/ \E l \in 1 .. Len(rs) : new[j] = rs[l]
      BY <1>4a
    <3> QED
      BY <3>2, <3>3, <3>4
  <2>2. ASSUME x.begin <= k /\ k <= x.end PROVE Covered(new, k)
    <3>1. i \in 1 .. Len(new) /\ new[i] = x
      BY <1>0, <1>1, SMTT(60)
    <3> QED
      BY <2>2, <3>1 DEF Covered
  <2>3. ASSUME Covered(rs, k) PROVE Covered(new, k)
    <3>1. PICK j \in 1 .. Len(rs) : rs[j].begin <= k /\ k <= rs[j].end
      BY <2>3 DEF Covered
    <3>2. CASE j < i
      <4>1. j \in 1 .. Len(new) /\ new[j] = rs[j]
        BY <1>0, <1>1, <3>2
      <4> QED
        BY <3>1, <4>1 DEF Covered
    <3>3. CASE j = i \/ j = i + 1
      BY <2>0, <2>2, <3>1, <3>3
    <3>4. CASE i + 1 < j
      <4>1. j - 1 \in 1 .. Len(rs) - 1 /\ ~(j - 1 < i) /\ j - 1 # i /\ (j - 1) + 1 = j
        BY <1>0, <3>4
      <4>2. new[j - 1] = rs[j] /\ j - 1 \in 1 .. Len(new)
        BY <1>1, <4>1
      <4> QED
        BY <3>1, <4>2 DEF Covered
    <3> QED
      BY <1>0, <3>2, <3>3, <3>4
  <2>4. k = n => x.begin <= k /\ k <= x.end
    BY <2>0
  <2> QED
    BY <2>1, <2>2, <2>3, <2>4
<1>8. Apart(new)
  BY <1>1, <1>5, <1>6 DEF Apart
<1> QED
  BY <1>1, <1>7, <1>8 DEF Adds

\* update_received_blocks(), when it is not refused, adds the block and keeps the
\* array within its limit.
LEMMA UpdateReceivedAdds ==
  ASSUME NEW rs, Apart(rs), Len(rs) <= RangeLimit, NEW n \in Nat, ~UpdateRefused(rs, n)
  PROVE  Adds(rs, n, UpdateReceived(rs, n)) /\ Len(UpdateReceived(rs, n)) <= RangeLimit
<1> DEFINE i == UpdateAt(rs, n)
           new == UpdateReceived(rs, n)
<1>0. rs \in Seq(Ranges) /\ Len(rs) \in Nat /\ RangeLimit \in Nat
  BY RangeAssumption DEF Apart
<1>1. /\ i \in 1 .. Len(rs) + 1
      /\ \A j \in 1 .. i - 1 : rs[j].end + 1 < n
      /\ i <= Len(rs) => n <= rs[i].end + 1
  BY <1>0, UpdateAtFacts
<1>2. Len(rs) = RangeLimit => i <= Len(rs) /\ ~(n + 1 < rs[i].begin)
  BY <1>0, <1>1 DEF UpdateRefused
<1> HIDE DEF i, new
<1> SUFFICES Adds(rs, n, new) /\ Len(new) <= RangeLimit
  BY DEF new
<1>3. \A j \in 1 .. Len(rs) : /\ rs[j] \in Ranges
                              /\ rs[j].begin \in Nat /\ rs[j].end \in Nat
                              /\ rs[j].begin <= rs[j].end
  BY <1>0, RangeEnds DEF Apart
<1>4. \A a, b \in 1 .. Len(rs) : a < b => rs[a].end + 1 < rs[b].begin
  BY DEF Apart
<1>5. CASE i > Len(rs)
  <2>1. new = Append(rs, Range1(n))
    BY <1>5 DEF UpdateReceived, new, i
  <2>2. i - 1 = Len(rs)
    BY <1>0, <1>1, <1>5
  <2>3. Adds(rs, n, new)
    BY <1>1, <2>1, <2>2, AddLast
  <2>4. Len(Append(rs, Range1(n))) = Len(rs) + 1
    BY <1>0, Range1Type
  <2> QED
    BY <1>0, <1>1, <1>2, <1>5, <2>1, <2>3, <2>4
<1>6. CASE i <= Len(rs)
  <2>0. i \in 1 .. Len(rs)
    BY <1>0, <1>1, <1>6
  <2>1. CASE n + 1 = rs[i].begin
    <3> DEFINE x == [rs[i] EXCEPT !.begin = n]
    <3>1. new = [rs EXCEPT ![i] = x]
      BY <1>0, <1>6, <2>0, <2>1 DEF UpdateReceived, new, i
    <3>2. x \in Ranges /\ x.begin = n /\ x.end = rs[i].end
      BY <1>3, <2>0 DEF Ranges
    <3> HIDE DEF x
    <3>3. x.begin <= x.end
      BY <1>3, <2>0, <2>1, <3>2
    <3>4. \A k \in Nat : x.begin <= k /\ k <= x.end <=>
                          (rs[i].begin <= k /\ k <= rs[i].end) \/ k = n
      BY <1>3, <2>0, <2>1, <3>2
    <3>5. \A j \in i + 1 .. Len(rs) : x.end + 1 < rs[j].begin
      BY <1>0, <1>4, <2>0, <3>2
    <3>6. Adds(rs, n, new)
      BY <1>1, <2>0, <3>1, <3>2, <3>3, <3>4, <3>5, AddInPlace
    <3>7. Len(new) = Len(rs)
      BY <1>0, <3>1, <3>2
    <3> QED
      BY <3>6, <3>7
  <2>2. CASE n + 1 < rs[i].begin
    <3>0. ~(i > Len(rs)) /\ ~(n + 1 = rs[i].begin) /\ n < rs[i].begin
      BY <1>0, <1>3, <1>6, <2>0, <2>2
    <3>1. new = SubSeq(rs, 1, i - 1) \o <<Range1(n)>> \o SubSeq(rs, i, Len(rs))
      BY <3>0, Zenon DEF UpdateReceived, new, i
    <3>2. IsPutIn(rs, i, Range1(n), new)
      BY <1>0, <2>0, <3>1, PutIn, Range1Type
    <3>3. Adds(rs, n, new) /\ Len(new) = Len(rs) + 1
      BY <1>1, <2>0, <2>2, <3>2, AddBetween
    <3> QED
      BY <1>0, <1>2, <2>2, <3>3
  <2>3. CASE rs[i].begin <= n /\ n <= rs[i].end
    <3>1. new = rs
      BY <1>3, <1>6, <2>0, <2>3 DEF UpdateReceived, new, i
    <3>2. Covered(rs, n)
      BY <2>0, <2>3 DEF Covered
    <3> QED
      BY <3>1, <3>2 DEF Adds
  <2>4. CASE n = rs[i].end + 1
    <3>0. /\ ~(i > Len(rs)) /\ ~(n + 1 = rs[i].begin) /\ ~(n < rs[i].begin)
          /\ ~(n <= rs[i].end)
      BY <1>0, <1>3, <1>6, <2>0, <2>4, SMTT(30)
    <3>1. CASE i < Len(rs) /\ rs[i + 1].begin = n + 1
      <4> DEFINE x == [begin |-> rs[i].begin, end |-> rs[i + 1].end]
      <4>1. new = SubSeq(rs, 1, i - 1) \o <<x>> \o SubSeq(rs, i + 2, Len(rs))
        BY <2>4, <3>0, <3>1, Zenon DEF UpdateReceived, new, i
      <4>2. i \in 1 .. Len(rs) - 1 /\ i + 1 \in 1 .. Len(rs)
        BY <1>0, <2>0, <3>1
      <4>3. x \in Ranges /\ x.begin = rs[i].begin /\ x.end = rs[i + 1].end
        BY <1>3, <2>0, <4>2 DEF Ranges
      <4> HIDE DEF x
      <4>4. IsMerged(rs, i, x, new)
        BY <1>0, <4>1, <4>2, <4>3, Merged
      <4>5. Adds(rs, n, new) /\ Len(new) = Len(rs) - 1
        BY <2>4, <3>1, <4>2, <4>3, <4>4, AddMerging
      <4> QED
        BY <1>0, <4>5
    <3>2. CASE ~(i < Len(rs) /\ rs[i + 1].begin = n + 1)
      <4> DEFINE x == [rs[i] EXCEPT !.end = n]
      <4>1. new = [rs EXCEPT ![i] = x]
        BY <1>0, <1>6, <2>0, <3>0, <3>2 DEF UpdateReceived, new, i
      <4>2. x \in Ranges /\ x.begin = rs[i].begin /\ x.end = n
        BY <1>3, <2>0 DEF Ranges
      <4> HIDE DEF x
      <4>3. x.begin <= x.end
        BY <1>3, <2>0, <2>4, <4>2
      <4>4. \A k \in Nat : x.begin <= k /\ k <= x.end <=>
                            (rs[i].begin <= k /\ k <= rs[i].end) \/ k = n
        BY <1>3, <2>0, <2>4, <4>2
      <4>5. \A j \in 1 .. i - 1 : rs[j].end + 1 < x.begin
        BY <1>0, <1>4, <2>0, <4>2
      <4>6. ASSUME NEW j \in i + 1 .. Len(rs) PROVE x.end + 1 < rs[j].begin
        <5>1. /\ j \in 1 .. Len(rs) /\ i + 1 \in 1 .. Len(rs) /\ i < i + 1 /\ i < Len(rs)
              /\ j = i + 1 \/ i + 1 < j
          BY <1>0, <2>0
        <5>2. n < rs[i + 1].begin /\ rs[i + 1].begin # n + 1
          BY <1>4, <2>0, <2>4, <3>2, <5>1
        <5>3. n + 1 < rs[i + 1].begin
          BY <1>3, <5>1, <5>2
        <5>4. i + 1 < j => rs[i + 1].end + 1 < rs[j].begin
          BY <1>4, <5>1
        <5> QED
          BY <1>3, <4>2, <5>1, <5>3, <5>4
      <4>7. Adds(rs, n, new)
        BY <2>0, <4>1, <4>2, <4>3, <4>4, <4>5, <4>6, AddInPlace
      <4>8. Len(new) = Len(rs)
        BY <1>0, <4>1, <4>2
      <4> QED
        BY <4>7, <4>8
    <3> QED
      BY <3>1, <3>2
  <2> QED
    BY <1>1, <1>3, <1>6, <2>0, <2>1, <2>2, <2>3, <2>4
<1> QED
  BY <1>0, <1>1, <1>5, <1>6

-----------------------------------------------------------------------------

\* A body that was just started has no blocks.
LEMMA StartedEmpty ==
  ASSUME NEW rs, rs = <<>>
  PROVE  Apart(rs) /\ Len(rs) <= RangeLimit /\ \A n \in Nat : ~Covered(rs, n)
<1>1. rs \in Seq(Ranges) /\ Len(rs) = 0
  OBVIOUS
<1> QED
  BY <1>1, RangeAssumption DEF Apart, Covered

\* A block that arrives, received already or not, added or refused, keeps the
\* ranges exact.
LEMMA RecStep == RecInv /\ [RecNext]_recvars => RecInv'
<1> SUFFICES ASSUME RecInv, [RecNext]_recvars PROVE RecInv'
  OBVIOUS
<1>1. ASSUME NEW n \in 0 .. MaxBlock, ReceiveBlock(n) PROVE RecInv'
  <2>0. n \in Nat
    BY MaxBlockAssumption
  <2>1. CASE UpdateRefused(rec_blocks, n)
    <3>1. rec_blocks' = <<>> /\ got' = {}
      BY <1>1, <2>1 DEF ReceiveBlock
    <3> QED
      BY <3>1, StartedEmpty DEF RecInv
  <2>2. CASE ~UpdateRefused(rec_blocks, n)
    <3>1. rec_blocks' = UpdateReceived(rec_blocks, n) /\ got' = got \cup {n}
      BY <1>1, <2>2 DEF ReceiveBlock
    <3>2. Adds(rec_blocks, n, rec_blocks') /\ Len(rec_blocks') <= RangeLimit
      BY <2>0, <2>2, <3>1, UpdateReceivedAdds DEF RecInv
    <3> QED
      BY <2>0, <3>1, <3>2 DEF RecInv, Adds
  <2> QED
    BY <2>1, <2>2
<1>2. CASE UNCHANGED recvars
  BY <1>2 DEF recvars, RecInv
<1> QED
  BY <1>1, <1>2 DEF RecNext

\* What RecInv says, in the words of RangesExact.
LEMMA RecInvExact == RecInv => RangesExact
<1> SUFFICES ASSUME RecInv PROVE RangesExact
  OBVIOUS
<1> DEFINE rs == rec_blocks
<1>0. rs \in Seq(Ranges) /\ Len(rs) \in Nat /\ DOMAIN rs = 1 .. Len(rs)
  BY DEF RecInv, Apart
<1>1. \A i \in 1 .. Len(rs) : rs[i].begin \in Nat /\ rs[i].end \in Nat
  BY <1>0, RangeEnds
<1>2. ASSUME NEW i \in 1 .. Len(rs) - 1 PROVE rs[i].end + 1 < rs[i + 1].begin
  <2>1. i \in 1 .. Len(rs) /\ i + 1 \in 1 .. Len(rs) /\ i < i + 1
    BY <1>0
  <2> QED
    BY <2>1 DEF RecInv, Apart
<1> DEFINE all == UNION {r.begin .. r.end : r \in {rs[i] : i \in DOMAIN rs}}
<1>3. ASSUME NEW n PROVE n \in all <=> \E i \in 1 .. Len(rs) : n \in rs[i].begin .. rs[i].end
  BY <1>0
<1> HIDE DEF all
<1>4. ASSUME NEW n PROVE n \in all <=> n \in got
  <2>1. ASSUME n \in all PROVE n \in Nat /\ Covered(rs, n)
    BY <1>1, <1>3, <2>1 DEF Covered
  <2>2. ASSUME n \in Nat, Covered(rs, n) PROVE n \in all
    <3>1. PICK i \in 1 .. Len(rs) : rs[i].begin <= n /\ n <= rs[i].end
      BY <2>2 DEF Covered
    <3>2. n \in rs[i].begin .. rs[i].end
      BY <1>1, <2>2, <3>1
    <3> QED
      BY <1>3, <3>2
  <2> QED
    BY <2>1, <2>2 DEF RecInv
<1>5. got = all
  BY <1>4
<1> QED
  BY <1>2, <1>5 DEF RecInv, RangesExact, all

\* Whatever order the blocks of a body come in, however often each comes, the
\* ranges that update_received_blocks() keeps hold exactly the blocks received,
\* are ordered with a gap between any two, and are within the array.
THEOREM RangesAlwaysExact == RecSpec => []RangesExact
<1>1. RecInit => RecInv
  BY StartedEmpty DEF RecInit, RecInv
<1>2. RecInv /\ [RecNext]_recvars => RecInv'
  BY RecStep
<1> QED
  BY <1>1, <1>2, RecInvExact, PTL DEF RecSpec

\* check_all_blocks_in() is true of a transfer that has ranges only when every
\* block of the body has arrived.
AllInMeansAll ==
  \A total \in Nat :
    rec_blocks # <<>> /\ CheckAllBlocksIn(rec_blocks, total) => 0 .. total - 1 \subseteq got

\* A body is given to the application (check_all_blocks_in()) only when none of
\* its blocks is missing.
THEOREM BodyComplete == RecSpec => []AllInMeansAll
<1>1. RecInit => RecInv
  BY StartedEmpty DEF RecInit, RecInv
<1>2. RecInv /\ [RecNext]_recvars => RecInv'
  BY RecStep
<1>3. RecInv => AllInMeansAll
  <2> SUFFICES ASSUME RecInv, NEW total \in Nat, rec_blocks # <<>>,
                      CheckAllBlocksIn(rec_blocks, total)
               PROVE  0 .. total - 1 \subseteq got
    BY DEF AllInMeansAll
  <2> DEFINE rs == rec_blocks
             before(i) == {0} \cup {rs[j].end : j \in 1 .. i - 1}
  <2>0. rs \in Seq(Ranges) /\ Len(rs) \in Nat /\ DOMAIN rs = 1 .. Len(rs) /\ 1 <= Len(rs)
    BY DEF RecInv, Apart
  <2>1. \A i \in 1 .. Len(rs) : rs[i].begin \in Nat /\ rs[i].end \in Nat /\ rs[i].begin <= rs[i].end
    BY <2>0, RangeEnds DEF RecInv, Apart
  <2>2. /\ \A i \in 1 .. Len(rs) : Max(before(i)) >= rs[i].begin
        /\ Max(before(Len(rs) + 1)) + 1 >= total
    BY <2>0 DEF CheckAllBlocksIn
  <2>3. rs[1].begin = 0
    <3>1. before(1) = {0}
      OBVIOUS
    <3>2. Max({0}) = 0
      BY DEF Max
    <3> QED
      BY <2>0, <2>1, <2>2, <3>1, <3>2
  <2>4. \A e \in Nat : Max({0} \cup {e}) = e
    <3> SUFFICES ASSUME NEW e \in Nat PROVE Max({0} \cup {e}) = e
      OBVIOUS
    <3>1. \A x \in {0} \cup {e} : (\A y \in {0} \cup {e} : x >= y) <=> x = e
      OBVIOUS
    <3> QED
      BY <3>1 DEF Max
  <2>5. before(2) = {0} \cup {rs[1].end}
    OBVIOUS
  <2>6. Len(rs) = 1
    <3> SUFFICES ASSUME 2 <= Len(rs) PROVE FALSE
      BY <2>0
    <3>1. 1 \in 1 .. Len(rs) /\ 2 \in 1 .. Len(rs) /\ 1 < 2
      BY <2>0
    <3>2. rs[1].end + 1 < rs[2].begin
      BY <3>1 DEF RecInv, Apart
    <3>3. rs[1].end >= rs[2].begin
      BY <2>1, <2>2, <2>4, <2>5, <3>1, ZenonT(60)
    <3> QED
      BY <2>1, <3>1, <3>2, <3>3
  <2>7. rs[1].end + 1 >= total
    <3>1. rs[1].end \in Nat /\ Len(rs) + 1 = 2
      BY <2>1, <2>6
    <3> QED
      BY <2>2, <2>4, <2>5, <3>1
  <2>8. ASSUME NEW n \in 0 .. total - 1 PROVE n \in got
    <3>1. n \in Nat /\ rs[1].begin <= n /\ n <= rs[1].end
      BY <2>1, <2>3, <2>6, <2>7
    <3>2. Covered(rs, n)
      BY <2>6, <3>1 DEF Covered
    <3> QED
      BY <3>1, <3>2 DEF RecInv
  <2> QED
    BY <2>8
<1> QED
  BY <1>1, <1>2, <1>3, PTL DEF RecSpec

=============================================================================
