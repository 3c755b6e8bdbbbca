--------------------------- MODULE CoapBlockGet ----------------------------
(***************************************************************************)
(* Block2 of src/block.c: a server keeps a large response (lg_xmit) and    *)
(* hands it out block by block, a client asks for the blocks one after     *)
(* another and puts the body together (lg_crcv).  One session, one         *)
(* observable resource without a query, whose content is a version number. *)
(*                                                                         *)
(* Sizes and bodies are as in CoapBlockPut.  The application gives request *)
(* g the token g; later tokens are numbers from coap_session_new_token().  *)
(* Datagrams arrive in any order, a lost one is sent again by the message  *)
(* layer, and up to MaxCopies of them arrive once more.                    *)
(***************************************************************************)
EXTENDS RecRanges

CONSTANTS
  Gets,        \* bound: number of GET requests, tokens 1 .. Gets
  GetSzx,      \* block size a request asks for; NoOption if it does not
  PduSzx,      \* block size that fits a response
  VerLength,   \* units of each version of the resource
  MaxToken,    \* bound: tokens in use
  MaxDrops,    \* bound: bodies after which the server may free the session
  MaxCopies,   \* bound: datagrams that arrive twice, if observing or not
  NoOption     \* an absent option, no lg_xmit

Get == 1 .. Gets
Versions == DOMAIN VerLength

ASSUME GetAssumption ==
  /\ Gets \in Nat
  /\ GetSzx \in [Get -> 0 .. 6 \cup {NoOption}] /\ PduSzx \in 0 .. 6
  /\ VerLength \in [Versions -> Nat \ {0}] /\ Versions = 1 .. Len(VerLength)
  /\ MaxToken \in Nat /\ MaxToken >= Gets
  /\ MaxDrops \in Nat /\ MaxCopies \in [BOOLEAN -> Nat] /\ NoOption \notin Nat

VARIABLES
  observing,      \* client: the requests carry Observe = 0
  asked,          \* client: requests the application has made
  lg_crcv,        \* client: session->lg_crcv, the newest first
  sendqueue_get,  \* client: tokens of requests not answered yet
  tx_token,       \* client: session->tx_token
  single_body,    \* client: block_mode has COAP_BLOCK_SINGLE_BODY
  get_requests,   \* requests on their way
  get_responses,  \* responses and notifications on their way
  copies,         \* datagrams that arrived and will once more
  xmit,           \* server: the lg_xmit of the resource in the session
  ver,            \* server: the content of the resource
  observer,       \* server: the session's subscription, its token and szx
  tell,           \* server: it has still to be told of a change
  ctx_etag,       \* server: context->etag
  wholes          \* history: <<g, b>>, the application got body b as a whole
                  \* for g; b is empty for a failure

clientvars == <<observing, asked, lg_crcv, sendqueue_get, tx_token,
                single_body, wholes>>
servervars == <<xmit, ver, observer, tell, ctx_etag>>
getvars == <<clientvars, servervars, get_requests, get_responses, copies>>

\* Datagram x arrives from net, for good or again later.
Arrive(net, x, again) ==
  /\ x \in net
  /\ again => copies < MaxCopies[observing]
  /\ copies' = IF again THEN copies + 1 ELSE copies
Left(net, x, again) == IF again THEN net ELSE net \ {x}

Size(z) == 2 ^ z
Body(v) == [i \in 1 .. VerLength[v] |-> v]
UnitsOf(v, num, z) == {i \in 1 .. VerLength[v] : num * Size(z) < i
                                                 /\ i <= (num + 1) * Size(z)}
More(v, num, z) == (num + 1) * Size(z) < VerLength[v]

-----------------------------------------------------------------------------
(* The server.                                                             *)

\* The answer to token tok: block num of version v, as named options.
Content(tok, v, num, z, m, e, size2, obs) ==
  [tok |-> tok, code |-> "content", ver |-> v, num |-> num, szx |-> z,
   m |-> m, etag |-> e, size2 |-> size2, obs |-> obs]
Failure(tok, code) ==
  [Content(tok, 1, 0, NoOption, FALSE, 0, FALSE, FALSE) EXCEPT !.code = code]

\* coap_add_data_large_response() from the resource's handler, for block num
\* of size want: a single block of the current version, or a new lg_xmit and
\* its first block, or a body that needs no blocks.
HandlerAnswer(tok, num, want, obs) ==
  LET z == IF want = NoOption \/ want > PduSzx THEN PduSzx ELSE want IN
  IF num # 0
  THEN /\ UNCHANGED <<xmit, ctx_etag>>
       /\ get_responses' = get_responses \cup
            {IF VerLength[ver] <= num * Size(z) THEN Failure(tok, "bad")
             ELSE Content(tok, ver, num, z, More(ver, num, z), 0, FALSE,
                          obs)}
  ELSE IF VerLength[ver] > Size(z)
  THEN /\ ctx_etag' = ctx_etag + 1
       /\ xmit' = [etag |-> ctx_etag + 1, ver |-> ver, szx |-> z,
                   offset |-> 0]
       /\ get_responses' = get_responses \cup
            {Content(tok, ver, 0, z, TRUE, ctx_etag + 1, TRUE, obs)}
  ELSE /\ xmit' = NoOption /\ UNCHANGED ctx_etag
       /\ get_responses' = get_responses \cup
            {Content(tok, ver, 0, IF want = NoOption THEN NoOption ELSE z,
                     FALSE, 0, FALSE, obs)}

\* The lg_xmit after a request for another block size.
XmitResized(q) ==
  LET next == xmit.offset + Size(xmit.szx) IN
  IF q.szx # NoOption /\ q.szx # xmit.szx /\ next % Size(q.szx) = 0
  THEN [xmit EXCEPT !.szx = q.szx] ELSE xmit

\* coap_handle_request_send_block(): a block of the body kept, the handler is
\* not called.
SendBlock(q) ==
  LET x == XmitResized(q)
      z == IF q.szx = NoOption THEN x.szx ELSE q.szx
  IN
  /\ xmit' = [x EXCEPT !.offset = q.num * Size(x.szx)]
  /\ get_responses' = get_responses \cup
       {IF VerLength[x.ver] <= q.num * Size(z) THEN Failure(q.tok, "internal")
        ELSE Content(q.tok, x.ver, q.num, z,
                     q.num * Size(x.szx) + Size(x.szx) < VerLength[x.ver],
                     x.etag, TRUE, q.obs = 0 /\ q.num = 0)}
  /\ UNCHANGED ctx_etag

\* handle_request() for GET: Observe first (a subscription of the session with
\* the same query and another token is replaced), then the block kept, else
\* the handler.
GetRequest(q, again) ==
  /\ Arrive(get_requests, q, again)
  /\ get_requests' = Left(get_requests, q, again)
  /\ observer' = IF q.obs = 0 THEN [tok |-> q.tok, szx |-> q.szx]
                 ELSE IF q.obs = 1 /\ observer # NoOption
                         /\ observer.tok = q.tok
                 THEN NoOption ELSE observer
  /\ tell' = (tell /\ observer' = observer)
  /\ IF xmit # NoOption THEN SendBlock(q)
     ELSE HandlerAnswer(q.tok, q.num, q.szx, q.obs = 0)
  /\ UNCHANGED <<clientvars, ver>>

\* The application changes the resource and calls
\* coap_resource_notify_observers().
Change ==
  /\ ver + 1 \in Versions
  /\ ver' = ver + 1 /\ tell' = (observer # NoOption)
  /\ UNCHANGED <<clientvars, get_requests, get_responses, copies, xmit,
                 observer, ctx_etag>>

\* coap_notify_observers(): the handler replaces the lg_xmit.
Notify ==
  /\ tell /\ tell' = FALSE
  /\ HandlerAnswer(observer.tok, 0, observer.szx, TRUE)
  /\ UNCHANGED <<clientvars, get_requests, copies, ver, observer>>

\* The server frees a session that nothing refers to.
DropSession ==
  /\ ctx_etag <= MaxDrops /\ observer = NoOption /\ xmit # NoOption
  /\ xmit' = NoOption
  /\ UNCHANGED <<clientvars, get_requests, get_responses, copies, ver,
                 observer, tell, ctx_etag>>

-----------------------------------------------------------------------------
(* The client.                                                             *)

Ask(tok, num, z, obs) ==
  /\ tok <= MaxToken
  /\ get_requests' = get_requests
       \cup {[tok |-> tok, num |-> num, szx |-> z, obs |-> obs]}
  /\ sendqueue_get' = sendqueue_get \cup {tok}

\* coap_block_new_lg_crcv() for a request with token tok of application
\* request g.
NewCrcv(g, tok) ==
  [g |-> g, token |-> tok, base |-> tok, initial |-> TRUE, etag |-> 0,
   ranges |-> <<>>, body |-> <<>>, observe |-> FALSE, used |-> FALSE]

\* coap_send_large(): only an observation sets up its lg_crcv at once.
StartGet(g) ==
  /\ g = asked + 1
  /\ asked' = g
  /\ Ask(g, 0, GetSzx[g], IF observing THEN 0 ELSE NoOption)
  /\ lg_crcv' = IF observing THEN <<NewCrcv(g, g)>> \o lg_crcv
                ELSE lg_crcv
  /\ UNCHANGED <<observing, tx_token, single_body, wholes, servervars,
                 get_responses, copies>>

\* coap_cancel_observe() for the application's token g.
CancelObserve(g) ==
  LET found == {i \in DOMAIN lg_crcv : lg_crcv[i].observe
                                       /\ lg_crcv[i].g = g}
  IN
  /\ found # {}
  /\ lg_crcv' = [lg_crcv EXCEPT ![Min(found)].observe = FALSE]
  /\ Ask(lg_crcv[Min(found)].base, 0, GetSzx[g], 1)
  /\ UNCHANGED <<observing, asked, tx_token, single_body, wholes,
                 servervars, get_responses, copies>>

\* Response r is off the send queue (coap_dispatch, handle_response).
Dequeue(r) == sendqueue_get \ {r.tok}

\* Blocks of the body as the client can tell from r.
TotalBlocks(r) ==
  IF r.size2 THEN (VerLength[r.ver] + Size(r.szx) - 1) \div Size(r.szx)
  ELSE r.num + (IF r.m THEN 2 ELSE 1)

\* The lg_crcv p at the first block of a body.
Started(p, r) == IF p.initial
                 THEN [p EXCEPT !.initial = FALSE, !.etag = r.etag,
                                !.ranges = <<>>]
                 ELSE p

\* p ready for the next body, under the token of the request.
Rearmed(p) == [p EXCEPT !.initial = TRUE, !.token = p.base, !.body = <<>>]

\* The last lines of the loop: an lg_crcv that is not needed any more.
Cached(p, r) == [p EXCEPT !.used = @ \/ (~r.m /\ ~p.observe)]

\* The entry at place i of list L becomes p.
Store(L, i, p) == lg_crcv' = [L EXCEPT ![i] = p]

\* The response as it is goes to the application.
Raw(L, i, p, r) ==
  /\ Store(L, i, p)
  /\ sendqueue_get' = Dequeue(r)
  /\ UNCHANGED <<tx_token, get_requests, wholes>>

\* A request for block num under a new token.
Request(L, i, p, r, num, obs) ==
  LET tok == tx_token + 1 IN
  /\ tok <= MaxToken
  /\ tx_token' = tok
  /\ get_requests' = get_requests
       \cup {[tok |-> tok, num |-> num, szx |-> r.szx, obs |-> obs]}
  /\ sendqueue_get' = Dequeue(r) \cup {tok}
  /\ Store(L, i, [p EXCEPT !.token = tok])

\* The units of block r at their place in the body put together so far.
Joined(body, r) ==
  LET units == UnitsOf(r.ver, r.num, r.szx)
      len == Max({Len(body), IF r.size2 THEN VerLength[r.ver] ELSE 0}
                 \cup units)
  IN  [i \in 1 .. len |-> IF i \in units THEN r.ver
                          ELSE IF i <= Len(body) THEN body[i] ELSE 0]

\* Mutant: a block of another body is taken for one of this body.
OtherBodyNever(p, r) == FALSE

\* The ETag of r is not the one the body was started with.
OtherBody(p, r) == r.etag # 0 /\ r.etag # p.etag

\* All blocks of the body are in.
BodyIn(p, r) == CheckAllBlocksIn(p.ranges, TotalBlocks(r))

\* The block to ask for after r.
After(r) == r.num + 1

\* A new block of p: the next one is asked for, or the body is complete.
TakeBlock(L, i, p, r) ==
  LET p1 == [p EXCEPT !.ranges = UpdateReceived(@, r.num),
                      !.body = IF single_body THEN Joined(@, r) ELSE @]
      last == r.num * Size(r.szx) + Cardinality(UnitsOf(r.ver, r.num, r.szx))
  IN
  IF ~BodyIn(p1, r)
  THEN /\ UNCHANGED wholes
       /\ IF r.m THEN Request(L, i, p1, r, After(r), NoOption)
          ELSE /\ Store(L, i, p1) /\ sendqueue_get' = Dequeue(r)
               /\ UNCHANGED <<tx_token, get_requests>>
  ELSE /\ Store(L, i, IF single_body THEN Cached(Rearmed(p1), r)
                   ELSE Rearmed(p1))
       /\ wholes' = IF single_body
                    THEN wholes \cup {<<p.g, SubSeq(p1.body, 1, last)>>}
                    ELSE wholes
       /\ sendqueue_get' = Dequeue(r)
       /\ UNCHANGED <<tx_token, get_requests>>

\* coap_handle_response_get_block() for a block of the lg_crcv at place i of
\* list L.
BlockOf(L, i, r) ==
  LET s == Started(L[i], r)
      p == IF r.num = 0 THEN [s EXCEPT !.observe = r.obs] ELSE s
      next == IF r.m THEN p ELSE [Rearmed(p) EXCEPT !.body = p.body]
  IN
  IF OtherBody(s, r)
  THEN /\ Request(L, i, [s EXCEPT !.initial = TRUE, !.body = <<>>], r, 0,
                  IF observing THEN 0 ELSE NoOption)
       /\ UNCHANGED <<single_body, wholes>>
  ELSE IF r.etag = 0 /\ s.etag # 0
  THEN single_body' = FALSE
       /\ Raw(L, i, Cached(IF r.m THEN s
                        ELSE [Rearmed(s) EXCEPT !.body = s.body], r), r)
  ELSE /\ UNCHANGED single_body
       /\ IF CheckIfReceived(p.ranges, r.num) THEN Raw(L, i, Cached(next, r), r)
          ELSE IF UpdateRefused(p.ranges, r.num)
          THEN Raw(L, i, [p EXCEPT !.used = TRUE], r)
          ELSE TakeBlock(L, i, p, r)

\* A response without a block, or a failure, for place i.
PlainOf(i, r) ==
  LET p == IF r.code = "content"
           THEN [lg_crcv[i] EXCEPT !.observe = r.obs] ELSE lg_crcv[i]
  IN
  /\ Store(lg_crcv, i, Cached(p, r)) /\ sendqueue_get' = Dequeue(r)
  /\ wholes' = wholes \cup {<<p.g, IF r.code = "content" THEN Body(r.ver)
                                   ELSE <<>> >>}
  /\ UNCHANGED <<single_body, tx_token, get_requests>>

\* The lg_crcvs with the token of r; the first of them takes it.
Holding(r) == {i \in DOMAIN lg_crcv : lg_crcv[i].token = r.tok}

\* No lg_crcv holds the token of r.  The first block of a body sets one up
\* if its request is still in the send queue; anything else goes to the
\* application as it is.
FirstOf(r) ==
  LET first == /\ r.tok \in sendqueue_get /\ r.code = "content"
               /\ r.szx # NoOption /\ r.num = 0
      whole == r.code = "content" /\ r.szx = NoOption
  IN
  IF first THEN BlockOf(<<NewCrcv(r.tok, r.tok)>> \o lg_crcv, 1, r)
  ELSE /\ sendqueue_get' = Dequeue(r)
       /\ wholes' = IF whole THEN wholes \cup {<<r.tok, Body(r.ver)>>}
                    ELSE IF r.code # "content"
                    THEN wholes \cup {<<r.tok, <<>> >>} ELSE wholes
       /\ UNCHANGED <<lg_crcv, tx_token, get_requests, single_body>>

\* handle_response().
GetResponse(r, again) ==
  /\ Arrive(get_responses, r, again)
  /\ get_responses' = Left(get_responses, r, again)
  /\ IF Holding(r) = {} THEN FirstOf(r)
     ELSE IF r.code = "content" /\ r.szx # NoOption
     THEN BlockOf(lg_crcv, Min(Holding(r)), r)
     ELSE PlainOf(Min(Holding(r)), r)
  /\ UNCHANGED <<observing, asked, servervars>>

\* coap_block_check_lg_crcv_timeouts(): EXCHANGE_LIFETIME after its last use
\* nothing of the exchange is left in the network.
ExpireCrcv(i) ==
  /\ i \in DOMAIN lg_crcv /\ lg_crcv[i].used /\ ~lg_crcv[i].observe
  /\ lg_crcv' = SubSeq(lg_crcv, 1, i - 1)
                \o SubSeq(lg_crcv, i + 1, Len(lg_crcv))
  /\ get_responses' = {r \in get_responses :
                         r.tok \notin {lg_crcv[i].base, lg_crcv[i].token}}
  /\ UNCHANGED <<observing, asked, sendqueue_get, tx_token, single_body,
                 wholes, servervars, get_requests, copies>>

-----------------------------------------------------------------------------
GetInit ==
  /\ observing \in BOOLEAN /\ asked = 0 /\ lg_crcv = <<>> /\ sendqueue_get = {} /\ tx_token = Gets
  /\ single_body = TRUE /\ get_requests = {} /\ wholes = {}
  /\ get_responses = {} /\ copies = 0 /\ xmit = NoOption /\ ver = 1
  /\ observer = NoOption /\ tell = FALSE /\ ctx_etag = 0

GetNext ==
  \/ Change \/ Notify \/ DropSession
  \/ \E g \in Get : StartGet(g) \/ CancelObserve(g)
  \/ \E again \in BOOLEAN :
       \/ \E q \in get_requests : GetRequest(q, again)
       \/ \E r \in get_responses : GetResponse(r, again)
  \/ \E i \in 1 .. Len(lg_crcv) : ExpireCrcv(i)

\* A request is sent again until it is answered, and a datagram that is sent
\* again arrives in the end.
GetFair == /\ WF_getvars(\E q \in get_requests : GetRequest(q, FALSE))
           /\ WF_getvars(\E r \in get_responses : GetResponse(r, FALSE))
           /\ WF_getvars(Notify)

-----------------------------------------------------------------------------
(* Properties.                                                             *)

\* A body the client's application gets as a whole is one version of the
\* resource, whole, even if the resource changed, a notification replaced
\* the server's copy or the session was dropped between two blocks
\* (src/block.c:1596; coap_block.txt.in: "the entire body of data").
GetIntact == \A w \in wholes : w[2] = <<>> \/ \E v \in Versions : w[2] = Body(v)

=============================================================================
