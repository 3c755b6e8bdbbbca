------------------------------ MODULE LwPacket ------------------------------
(* Block-wise transfers of the LwM2M core: a request's payload that comes in *)
(* Block1 pieces, put together per server by coap_block1_handler, and a      *)
(* response's payload that lwm2m_handle_packet cuts into Block2 pieces.      *)
(*                                                                           *)
(* The network may delay and repeat what was sent. Sizes are in blocks for   *)
(* the request, in bytes for the response.                                   *)
EXTENDS Naturals, Sequences, FiniteSets, FiniteSetsExt, SequencesExt

CONSTANTS
  Bodies,              \* payloads the server sends, one after the other
  BodyBlocks,          \* blocks of each
  MAX_BLOCK1_SIZE,     \* what the device puts together at most
  PayloadSizes,        \* sizes of the response's payload
  BlockSizes,          \* sizes the server may ask for in Block2
  REST_MAX_CHUNK_SIZE  \* the size the device sends at most

\* coap_block1_handler does not check the first block: it fits.
ASSUME PacketAssumption ==
  /\ Bodies \subseteq Nat /\ BodyBlocks \in Nat \ {0} /\ MAX_BLOCK1_SIZE \in Nat \ {0, 1}
  /\ PayloadSizes \subseteq Nat /\ BlockSizes \subseteq Nat \ {0}
  /\ REST_MAX_CHUNK_SIZE \in Nat \ {0}

VARIABLES
  sent,        \* Block1 messages the server has sent, still to be seen by the device
  block1Data,  \* what the device has: the blocks and the last message id
  alone,       \* history: since its first block only its own body's blocks came
  handed,      \* history: payloads handed to handle_request, each with `alone'
  position,    \* the server's next block: body and number
  fetched      \* Block2: what the server has of the payload

lwpvars == <<sent, block1Data, alone, handed, position, fetched>>

-----------------------------------------------------------------------------
(* Block1.                                                                   *)

Block(body, num) == [body |-> body, num |-> num, more |-> num < BodyBlocks - 1,
                     mid |-> <<body, num>>]

\* The server sends the next block of a body, or begins the next body.
SendBlock ==
  \/ /\ position.num < BodyBlocks
     /\ sent' = sent \cup {Block(position.body, position.num)}
     /\ position' = [position EXCEPT !.num = @ + 1]
     /\ UNCHANGED <<block1Data, alone, handed, fetched>>
  \/ /\ position.body + 1 \in Bodies /\ position.num > 0
     /\ position' = [body |-> position.body + 1, num |-> 0]
     /\ UNCHANGED <<sent, block1Data, alone, handed, fetched>>

\* What coap_block1_handler has after a block, if it did not look where the
\* block belongs.
Block1Unchecked(m) ==
  IF m.num = 0 THEN [blocks |-> <<m>>, lastmid |-> m.mid, code |-> 0]
  ELSE IF block1Data.blocks = <<>> THEN [block1Data EXCEPT !.code = 408]
  ELSE IF block1Data.lastmid = m.mid THEN [block1Data EXCEPT !.code = 0]
  ELSE IF Len(block1Data.blocks) + 1 >= MAX_BLOCK1_SIZE THEN [block1Data EXCEPT !.code = 413]
  ELSE [blocks |-> Append(block1Data.blocks, m), lastmid |-> m.mid, code |-> 0]

\* coap_block1_handler: what it has after a block, and the error if there is
\* one. A first block begins anew; the last one seen may come again.
Block1(m) ==
  IF m.num = 0 THEN [blocks |-> <<m>>, lastmid |-> m.mid, code |-> 0]
  ELSE IF block1Data.blocks = <<>> THEN [block1Data EXCEPT !.code = 408]
  ELSE IF block1Data.lastmid = m.mid THEN [block1Data EXCEPT !.code = 0]
  ELSE IF Len(block1Data.blocks) # m.num THEN [block1Data EXCEPT !.code = 408]
  ELSE IF Len(block1Data.blocks) + 1 >= MAX_BLOCK1_SIZE THEN [block1Data EXCEPT !.code = 413]
  ELSE [blocks |-> Append(block1Data.blocks, m), lastmid |-> m.mid, code |-> 0]

\* A block comes, for the first time or again; the whole payload is handed on
\* when no more is to come, and kept: when its last block comes again it is
\* handed on again.
ReceiveBlock(m) ==
  LET d == Block1(m)
      own == m.num = 0 \/ (alone /\ block1Data.blocks # <<>> /\ m.body = block1Data.blocks[1].body)
  IN /\ block1Data' = d
     /\ alone' = own
     /\ handed' = IF d.code = 0 /\ ~m.more
                  THEN handed \cup {[blocks |-> d.blocks, alone |-> own]} ELSE handed
     /\ UNCHANGED <<sent, position, fetched>>

-----------------------------------------------------------------------------
(* Block2.                                                                   *)

LeastOf(a, b) == IF a < b THEN a ELSE b

\* The piece of a payload for a request of block num, the size being szx: from
\* where to where, and whether there is more. 4.02 when it begins past the end.
Slice(size, num, szx) ==
  LET chunk == LeastOf(szx, REST_MAX_CHUNK_SIZE)
      offset == num * szx
  IN IF offset >= size THEN [ok |-> FALSE, from |-> 0, to |-> 0, more |-> FALSE]
     ELSE [ok |-> TRUE, from |-> offset, to |-> offset + LeastOf(size - offset, chunk),
           more |-> size - offset > chunk]

\* The server asks for the next block until the device says it was the last.
\* It takes up the size the device answers with.
FetchBlock ==
  LET szx == LeastOf(fetched.szx, REST_MAX_CHUNK_SIZE)
      r == Slice(fetched.size, fetched.num, fetched.szx)
  IN /\ fetched.state = "fetching"
     /\ fetched' = [fetched EXCEPT
          !.szx = szx, !.num = @ + 1, !.upto = IF r.ok THEN r.to ELSE @,
          !.gap = @ \/ (r.ok /\ r.from # fetched.upto),
          !.state = IF ~r.ok THEN "refused" ELSE IF r.more THEN "fetching" ELSE "done"]
     /\ UNCHANGED <<sent, block1Data, alone, handed, position>>

-----------------------------------------------------------------------------

LwpInit ==
  /\ sent = {} /\ handed = {} /\ alone = FALSE
  /\ block1Data = [blocks |-> <<>>, lastmid |-> <<>>, code |-> 0]
  /\ position = [body |-> Min(Bodies), num |-> 0]
  /\ fetched \in { [size |-> p, szx |-> b, num |-> 0, upto |-> 0, gap |-> FALSE,
                    state |-> "fetching"] : p \in PayloadSizes, b \in BlockSizes }

LwpNext == SendBlock \/ (\E m \in sent : ReceiveBlock(m)) \/ FetchBlock

LwpSpec == LwpInit /\ [][LwpNext]_lwpvars

-----------------------------------------------------------------------------
(* Properties.                                                               *)

\* However the blocks are delayed and repeated, what coap_block1_handler hands on
\* has every block number once, in order, and is shorter than the limit. It is
\* one body if no block of another body has come since its first block; else
\* blocks of two bodies may be joined, for the handler compares lengths and
\* not bodies. That a payload is handed on only once is not said. And the pieces of
\* a response follow on one another, the last one ends where the payload does,
\* and only an empty payload is refused.
BlocksInOrder ==
  /\ \A h \in handed :
       /\ Len(h.blocks) = BodyBlocks /\ Len(h.blocks) < MAX_BLOCK1_SIZE
       /\ \A i \in DOMAIN h.blocks : h.blocks[i].num = i - 1
       /\ h.alone => \A i \in DOMAIN h.blocks : h.blocks[i].body = h.blocks[1].body
  /\ ~fetched.gap
  /\ fetched.state = "done" => fetched.upto = fetched.size
  /\ fetched.state = "refused" => fetched.size = 0
=============================================================================
