--------------------------- MODULE CoapBlockPut ----------------------------
(***************************************************************************)
(* Block1 of src/block.c: a client sends a large body block by block       *)
(* (lg_xmit), a server puts it together (lg_srcv) and hands it to the      *)
(* resource's handler.  One session; its uploads are numbered in the order *)
(* the application starts them.                                            *)
(*                                                                         *)
(* Sizes count units of 16 bytes, so a block of szx z is 2^z units.  A     *)
(* body is the sequence of its units, a unit the number of the upload it   *)
(* is of.  Datagrams arrive in any order, late or never, and up to         *)
(* MaxPutCopies of them arrive once more: requests are retransmitted, and  *)
(* neither side of the library filters duplicates by message id.           *)
(***************************************************************************)
EXTENDS RecRanges

CONSTANTS
  Uploads,       \* bound: number of uploads
  UploadLength,  \* units of each upload's body
  UploadSzx,     \* blk_size each upload starts with
  UploadFormat,  \* Content-Format of each upload
  UploadTarget,  \* the resource each upload is for
  MaxPutCopies,  \* bound: datagrams that arrive twice
  MayGiveUp,     \* bound: a request may exhaust its retransmissions
  NoTransfer     \* no lg_srcv

Upload == 1 .. Uploads
Target == {UploadTarget[u] : u \in Upload}

ASSUME UploadAssumption ==
  /\ Uploads \in Nat
  /\ UploadLength \in [Upload -> Nat \ {0}]
  /\ UploadSzx \in [Upload -> 0 .. 6]
  /\ DOMAIN UploadFormat = Upload /\ DOMAIN UploadTarget = Upload
  /\ MaxPutCopies \in Nat /\ MayGiveUp \in BOOLEAN

VARIABLES
  lg_xmit,        \* client: session->lg_xmit, the newest first
  told,           \* client: the code the application got for an upload
  put_requests,   \* blocks on their way to the server
  put_responses,  \* responses on their way to the client
  put_copies,     \* datagrams that arrived and will once more
  single,         \* server: block_mode has COAP_BLOCK_SINGLE_BODY
  lg_srcv,        \* server: the transfer under way for a resource
  bodies          \* history: bodies handled as a whole

putvars == <<lg_xmit, told, put_requests, put_responses, put_copies, single,
             lg_srcv, bodies>>

\* Datagram x arrives from net, for good or again later.
PutArrive(net, x, again) ==
  /\ x \in net
  /\ again => put_copies < MaxPutCopies
  /\ put_copies' = IF again THEN put_copies + 1 ELSE put_copies
PutLeft(net, x, again) == IF again THEN net ELSE net \ {x}

Chunk(z) == 2 ^ z

\* The body of upload u.
BodyOf(u) == [i \in 1 .. UploadLength[u] |-> u]

\* Units of a body of length len that block num of size z covers.
Covers(len, num, z) == {i \in 1 .. len : num * Chunk(z) < i
                                         /\ i <= (num + 1) * Chunk(z)}

\* An upload without an answer to its application.
Unanswered(u) == told[u] = "pending"

-----------------------------------------------------------------------------
(* The client.                                                             *)

\* coap_add_data_large_request() and coap_send_large(): the first block, and
\* an lg_xmit when there are more.
StartPut(u) ==
  LET z == UploadSzx[u] IN
  /\ told[u] = "none"
  /\ \A v \in 1 .. u - 1 : told[v] # "none" /\ ~Unanswered(v)
  /\ put_requests' = put_requests
       \cup {[u |-> u, num |-> 0, szx |-> z,
              m |-> Chunk(z) < UploadLength[u]]}
  /\ lg_xmit' = IF UploadLength[u] <= Chunk(z) THEN lg_xmit
                ELSE <<[u |-> u, szx |-> z, offset |-> 0, last |-> -1]>>
                     \o lg_xmit
  /\ told' = [told EXCEPT ![u] = "pending"]
  /\ UNCHANGED <<put_responses, put_copies, single, lg_srcv, bodies>>

\* The first lg_xmit after the size of the block in response r was applied
\* to it, with the number of the block that r completes.  A size that does
\* not divide what was sent is ignored.
Resized(x, r) ==
  LET next == x.offset + Chunk(x.szx) IN
  IF r.szx # x.szx /\ next % Chunk(r.szx) = 0
  THEN [szx |-> r.szx, num |-> next \div Chunk(r.szx) - 1]
  ELSE [szx |-> x.szx, num |-> r.num]

\* A response ends the transfer x: the application gets it with the token it
\* chose for x.
EndTransfer(x, code) ==
  /\ lg_xmit' = Tail(lg_xmit)
  /\ told' = IF Unanswered(x.u) THEN [told EXCEPT ![x.u] = code] ELSE told
  /\ UNCHANGED put_requests

\* Mutant: the block just acknowledged is sent again.
PutAfterSame(num) == num

\* The block to send after block num was acknowledged.
PutAfter(num) == num + 1

\* A Block1 option in a success: the next block of x, unless r repeats an
\* acknowledgement.
NextBlock(x, r) ==
  LET b == Resized(x, r)
      offset == (b.num + 1) * Chunk(b.szx)
      y == [x EXCEPT !.szx = b.szx,
                     !.offset = IF x.last = b.num THEN @ ELSE offset,
                     !.last = b.num]
  IN
  IF x.last = b.num
  THEN lg_xmit' = <<y>> \o Tail(lg_xmit) /\ UNCHANGED <<told, put_requests>>
  ELSE IF offset < UploadLength[x.u]
          /\ (b.num + 1) * Chunk(r.szx) < UploadLength[x.u]
  THEN /\ put_requests' = put_requests
            \cup {[u |-> x.u, num |-> PutAfter(b.num), szx |-> r.szx,
                   m |-> offset + Chunk(b.szx) < UploadLength[x.u]]}
       /\ lg_xmit' = <<y>> \o Tail(lg_xmit)
       /\ UNCHANGED told
  ELSE EndTransfer(x, r.code)

\* coap_handle_response_send_block() and handle_response(): the response
\* goes to the first lg_xmit, whatever its token is; without one the
\* application gets it, with the token of the block it answers.
PutResponse(r, again) ==
  /\ PutArrive(put_responses, r, again)
  /\ put_responses' = PutLeft(put_responses, r, again)
  /\ \/ /\ r.code = "empty" /\ UNCHANGED <<lg_xmit, told, put_requests>>
     \/ /\ lg_xmit # <<>> /\ r.block
        /\ NextBlock(Head(lg_xmit), r)
     \/ /\ lg_xmit # <<>> /\ ~r.block /\ r.code # "empty"
        /\ EndTransfer(Head(lg_xmit), r.code)
     \/ /\ lg_xmit = <<>> /\ r.code # "empty"
        /\ UNCHANGED <<lg_xmit, put_requests>>
        /\ told' = IF r.num = 0 /\ UploadLength[r.u] <= Chunk(r.szx)
                      /\ Unanswered(r.u)
                   THEN [told EXCEPT ![r.u] = r.code] ELSE told
  /\ UNCHANGED <<single, lg_srcv, bodies>>

\* coap_retransmit() gives a block up: the application is told, and the
\* lg_xmit stays.
GiveUpPut(u) ==
  /\ MayGiveUp /\ Unanswered(u)
  /\ told' = [told EXCEPT ![u] = "nack"]
  /\ UNCHANGED <<lg_xmit, put_requests, put_responses, put_copies, single,
                 lg_srcv, bodies>>

-----------------------------------------------------------------------------
(* The server.                                                             *)

Reply(q, code, block) ==
  put_responses' = put_responses
    \cup {[u |-> q.u, num |-> q.num, szx |-> q.szx, code |-> code,
           block |-> block]}

\* A new lg_srcv for the first block q.
NewSrcv(q) == [format |-> UploadFormat[q.u], total |-> UploadLength[q.u],
               ranges |-> <<>>, done |-> FALSE,
               body |-> [i \in 1 .. UploadLength[q.u] |-> 0]]

\* coap_block_build_body(): the units of block q at their place, in a buffer
\* that grows when the size announced was too small.
BuildBody(body, q) ==
  LET units == Covers(UploadLength[q.u], q.num, q.szx)
      len == Max({Len(body)} \cup units)
  IN  [i \in 1 .. len |-> IF i \in units THEN q.u
                          ELSE IF i <= Len(body) THEN body[i] ELSE 0]

BlocksOf(p, q) == (p.total + Chunk(q.szx) - 1) \div Chunk(q.szx)

\* Mutant: the Content-Format of a later block is not compared.
FormatMismatchNever(p, q) == FALSE

FormatMismatch(p, q) == UploadFormat[q.u] # p.format

\* The lg_srcv p with block q taken in.
WithBlock(p, q) ==
  IF CheckIfReceived(p.ranges, q.num) THEN p
  ELSE [p EXCEPT !.ranges = UpdateReceived(p.ranges, q.num),
                 !.body = BuildBody(p.body, q)]

FreeSrcv(p, q) == lg_srcv' = [lg_srcv EXCEPT ![UploadTarget[q.u]] = NoTransfer]
              /\ UNCHANGED bodies
Keep(p, q) == lg_srcv' = [lg_srcv EXCEPT ![UploadTarget[q.u]] = p]

\* coap_handle_request_put_block() with COAP_BLOCK_SINGLE_BODY: the handler
\* is called once all blocks are in, and again when one of them is repeated
\* after that; the lg_srcv stays until it expires.
TrackedSingle(p, q) ==
  LET p1 == WithBlock(p, q) IN
  IF ~CheckIfReceived(p.ranges, q.num) /\ UpdateRefused(p.ranges, q.num)
  THEN FreeSrcv(p, q) /\ Reply(q, "incomplete", FALSE)
  ELSE IF CheckAllBlocksIn(p1.ranges, BlocksOf(p1, q))
  THEN /\ Keep([p1 EXCEPT !.done = TRUE], q)
       /\ bodies' = bodies \cup {SubSeq(p1.body, 1, p1.total)}
       /\ Reply(q, "changed", FALSE)
  ELSE Keep(p1, q) /\ UNCHANGED bodies
       /\ Reply(q, IF q.m THEN "continue" ELSE "empty", q.m)

\* ... without it: the handler gets every block by itself.
TrackedEach(p, q) ==
  /\ UNCHANGED bodies
  /\ IF q.m THEN Keep(p, q) /\ Reply(q, "continue", TRUE)
     ELSE Keep([p EXCEPT !.done = TRUE], q) /\ Reply(q, "changed", FALSE)

\* coap_handle_request_put_block() for block q, and the response.  A block
\* other than the first of a transfer that is not tracked is handled by
\* itself, and so is a body of one block.
PutRequest(q, again) ==
  LET p == lg_srcv[UploadTarget[q.u]]
      known == p # NoTransfer
      p1 == IF known THEN p ELSE NewSrcv(q)
  IN
  /\ PutArrive(put_requests, q, again)
  /\ put_requests' = PutLeft(put_requests, q, again)
  /\ \/ /\ ~known /\ q.num # 0
        /\ Reply(q, "changed", FALSE) /\ UNCHANGED <<lg_srcv, bodies>>
     \/ /\ ~known /\ q.num = 0 /\ ~q.m
        /\ bodies' = bodies \cup {BodyOf(q.u)}
        /\ Reply(q, "changed", FALSE) /\ UNCHANGED lg_srcv
     \/ /\ known /\ FormatMismatch(p, q)
        /\ FreeSrcv(p, q) /\ Reply(q, "incomplete", FALSE)
     \/ /\ known \/ (q.num = 0 /\ q.m)
        /\ ~FormatMismatch(p1, q)
        /\ IF single THEN TrackedSingle(p1, q) ELSE TrackedEach(p1, q)
  /\ UNCHANGED <<lg_xmit, told, single>>

\* coap_block_check_lg_srcv_timeouts(): only a transfer whose last block was
\* seen has last_used set.  EXCHANGE_LIFETIME is longer than a datagram
\* lives, so none of it is left in the network.
ExpireSrcv(t) ==
  /\ lg_srcv[t] # NoTransfer /\ lg_srcv[t].done
  /\ \A u \in Upload : UploadTarget[u] = t => ~Unanswered(u)
  /\ lg_srcv' = [lg_srcv EXCEPT ![t] = NoTransfer]
  /\ put_requests' = {q \in put_requests : UploadTarget[q.u] # t}
  /\ put_responses' = {r \in put_responses : UploadTarget[r.u] # t}
  /\ UNCHANGED <<lg_xmit, told, put_copies, single, bodies>>

-----------------------------------------------------------------------------
PutInit ==
  /\ lg_xmit = <<>>
  /\ told = [u \in Upload |-> "none"]
  /\ put_requests = {} /\ put_responses = {} /\ put_copies = 0
  /\ single \in BOOLEAN
  /\ lg_srcv = [t \in Target |-> NoTransfer]
  /\ bodies = {}

PutNext ==
  \/ \E u \in Upload : StartPut(u) \/ GiveUpPut(u)
  \/ \E again \in BOOLEAN :
       \/ \E q \in put_requests : PutRequest(q, again)
       \/ \E r \in put_responses : PutResponse(r, again)
  \/ \E t \in Target : ExpireSrcv(t)

\* A confirmable request is sent again until its answer arrives, and the
\* network does not lose it for ever.
PutFair ==
  /\ WF_putvars(\E q \in put_requests : PutRequest(q, FALSE))
  /\ WF_putvars(\E r \in put_responses : PutResponse(r, FALSE))

-----------------------------------------------------------------------------
(* Properties.                                                             *)

\* What tells the server two uploads apart (src/block.c:1249): the resource
\* and the Content-Format.
Kind(u) == <<UploadTarget[u], UploadFormat[u]>>

\* "the entire body of data is presented to the receiving handler"
\* (man/coap_block.txt.in:86): a body the handler is given is the whole body
\* of one upload.  It does not hold when two uploads to a resource have one
\* format (src/block.c:1249).
BodyIntact == \A b \in bodies : \E u \in Upload : b = BodyOf(u)

\* What the code does keep, whatever blocks and acknowledgements are late,
\* repeated or left over from an upload that was given up: a body handed to
\* the handler has no gap, the length of an upload, and units only of uploads
\* that have its resource and its format.  If just one upload has them, that
\* is BodyIntact.
BodyOfOneKind ==
  \A b \in bodies : \E u \in Upload :
    /\ Len(b) = UploadLength[u]
    /\ \A i \in DOMAIN b : b[i] \in Upload /\ Kind(b[i]) = Kind(u)

\* No other upload of the resource and format of u has been started.
FirstOfKind(u) == \A v \in Upload \ {u} : Kind(v) = Kind(u) => told[v] = "none"

\* An upload comes to an end the application hears of (src/block.c:1432,
\* src/block.c:1207), if it is the first of its format to its resource.  A
\* later one may wait for ever: its last block is taken for one that has been
\* received, and an incomplete body is answered without a code
\* (src/block.c:1339).
UploadEnds ==
  \A u \in Upload : Unanswered(u) /\ FirstOfKind(u) ~> ~Unanswered(u)
=============================================================================
