----------------------------- MODULE RecRanges -----------------------------
(***************************************************************************)
(* coap_rblock_t of src/block.c: which blocks of a body have arrived, kept *)
(* as a short array of ranges.                                             *)
(***************************************************************************)
EXTENDS Integers, Sequences, FiniteSetsExt

CONSTANT RangeLimit  \* COAP_RBLOCK_CNT - 1, ranges the array may hold

ASSUME RangeAssumption == RangeLimit \in Nat \ {0}

Range1(n) == [begin |-> n, end |-> n]

\* check_if_received_block(): the loop stops at the first range that n does
\* not lie behind.
CheckIfReceived(rs, n) ==
  LET stop == {i \in DOMAIN rs : n < rs[i].begin \/ n <= rs[i].end}
  IN  stop # {} /\ n >= rs[Min(stop)].begin

\* The place where update_received_blocks() leaves its loop.
UpdateAt(rs, n) ==
  LET stop == {i \in DOMAIN rs : n <= rs[i].end + 1}
  IN  IF stop = {} THEN Len(rs) + 1 ELSE Min(stop)

\* Mutant: the range after the extended one is not merged with it.
UpdateReceivedNoMerge(rs, n) ==
  LET i == UpdateAt(rs, n) IN
  IF i > Len(rs) THEN Append(rs, Range1(n))
  ELSE IF n + 1 = rs[i].begin THEN [rs EXCEPT ![i].begin = n]
  ELSE IF n < rs[i].begin
       THEN SubSeq(rs, 1, i - 1) \o <<Range1(n)>> \o SubSeq(rs, i, Len(rs))
  ELSE IF n <= rs[i].end THEN rs
  ELSE [rs EXCEPT ![i].end = n]

\* update_received_blocks() when it succeeds: the ranges with block n added.
UpdateReceived(rs, n) ==
  LET i == UpdateAt(rs, n)
      merges == i < Len(rs) /\ n = rs[i].end + 1 /\ rs[i + 1].begin = n + 1
  IN
  IF i > Len(rs) THEN Append(rs, Range1(n))
  ELSE IF n + 1 = rs[i].begin THEN [rs EXCEPT ![i].begin = n]
  ELSE IF n < rs[i].begin
       THEN SubSeq(rs, 1, i - 1) \o <<Range1(n)>> \o SubSeq(rs, i, Len(rs))
  ELSE IF n <= rs[i].end THEN rs
  ELSE IF merges
       THEN SubSeq(rs, 1, i - 1)
            \o <<[begin |-> rs[i].begin, end |-> rs[i + 1].end]>>
            \o SubSeq(rs, i + 2, Len(rs))
  ELSE [rs EXCEPT ![i].end = n]

\* update_received_blocks() returns 0: a range would have to be added and
\* the array is full ("Too many losses").
UpdateRefused(rs, n) ==
  LET i == UpdateAt(rs, n) IN
  Len(rs) = RangeLimit /\ (i > Len(rs) \/ n + 1 < rs[i].begin)

\* check_all_blocks_in(): no range begins behind the end of the ones before
\* it, and the last of those ends is the last block.
CheckAllBlocksIn(rs, total) ==
  LET EndBefore(i) == Max({0} \cup {rs[j].end : j \in 1 .. i - 1})
  IN  /\ \A i \in DOMAIN rs : EndBefore(i) >= rs[i].begin
      /\ EndBefore(Len(rs) + 1) + 1 >= total
=============================================================================
