----------------------------- MODULE RecBlocks -----------------------------
(***************************************************************************)
(* The blocks of one body arriving in any order at the range array of a    *)
(* lg_srcv or lg_crcv, src/block.c.                                        *)
(***************************************************************************)
EXTENDS RecRanges

CONSTANT MaxBlock  \* bound: the largest block number

ASSUME MaxBlockAssumption == MaxBlock \in Nat

VARIABLES
  rec_blocks,  \* p->rec_blocks.range, its first .used entries
  got          \* history: the blocks accepted since the body was started

recvars == <<rec_blocks, got>>

RecInit == rec_blocks = <<>> /\ got = {}

\* A block of the body under way, in coap_handle_request_put_block() and
\* coap_handle_response_get_block(); a refusal frees the transfer.
ReceiveBlock(n) ==
  /\ ~CheckIfReceived(rec_blocks, n)
  /\ IF UpdateRefused(rec_blocks, n)
     THEN rec_blocks' = <<>> /\ got' = {}
     ELSE rec_blocks' = UpdateReceived(rec_blocks, n) /\ got' = got \cup {n}

RecNext == \E n \in 0 .. MaxBlock : ReceiveBlock(n)

RecSpec == RecInit /\ [][RecNext]_recvars

-----------------------------------------------------------------------------
(* Properties.                                                             *)

\* Whatever order the blocks come in (src/block.c:1144), the ranges hold
\* exactly the blocks received, are ordered and have a gap between any two,
\* so that their number is what the limit of the array is meant to bound.
RangesExact ==
  /\ Len(rec_blocks) <= RangeLimit
  /\ got = UNION {r.begin .. r.end : r \in {rec_blocks[i] :
                                            i \in DOMAIN rec_blocks}}
  /\ \A i \in 1 .. Len(rec_blocks) - 1 :
       rec_blocks[i].end + 1 < rec_blocks[i + 1].begin

=============================================================================
