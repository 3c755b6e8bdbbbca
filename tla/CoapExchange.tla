---------------------------- MODULE CoapExchange ----------------------------
(* Request handling on a server (coap_dispatch, handle_request, no_response *)
(* of src/net.c) and asynchronous responses (src/async.c, coap_check_async). *)
(* A request is a record; its name stands for its token and message id,  *)
(* so a duplicate is another delivery of the same name. Handling it maps   *)
(* the server's state to the set of states the application's handler and an  *)
(* uninitialised variable allow.                                            *)
EXTENDS Integers, Sequences, FiniteSets, SequencesExt

CONSTANTS
  Message,        \* the messages a client may send, by name
  ServerConfigs,  \* which methods the resources have handlers for
  HandlerCodes,   \* codes a handler may leave in its response, 0 for none
  Delays,         \* delays an application asks for
  LeisureDelays,  \* delays drawn for a multicast request
  RstGap,         \* COAP_TICKS_PER_SECOND / 4
  MaxDeliveries,  \* bound on the messages the server receives
  MaxClock        \* bound on the clock

\* nores holds the classes the No-Response option suppresses, and 0 when the
\* option is there at all; hop is -1 without the Hop-Limit option.
RequestShape ==
  [type : {"CON", "NON"}, mcast : BOOLEAN, kind : {"request", "empty", "bad"},
   method : {"GET", "PUT", "DELETE"}, path : {"res", "wellknown", "other"},
   observe : {"none", "establish", "cancel"},
   block : {"none", "laterBlock2", "block1"}, nores : SUBSET {0, 2, 4, 5},
   proxy : {"none", "self", "away", "garbled"}, hop : Int, crit : BOOLEAN]

ASSUME MessageAssumption == \A r \in DOMAIN Message : Message[r] \in RequestShape

Requests == DOMAIN Message

ASSUME DelaysAssumption == Delays \subseteq Nat /\ LeisureDelays \subseteq Nat
                           /\ HandlerCodes \subseteq Nat

VARIABLES
  config,  \* the handlers registered with the context
  srv,     \* asyncs: context->async_state, newest first; observing: requests
           \* whose token is subscribed; tally: what happened to each request;
           \* mcast: multicast requests and the codes sent to them
  clock,   \* coap_ticks()
  lastRst, \* session->last_tx_rst
  received, \* number of messages received so far
  freed    \* coap_free_context() has run

exchvars == <<config, srv, clock, lastRst, received, freed>>

\* How often a request was delivered, acknowledged, dropped by the handler or by
\* an uninitialised dropResponse, or served while it waits; how many entries it
\* got and how many ended served, freed, unserved for a delay of 0 (zeroed) or
\* with a proxy or hop error (refused); and whether its last answer was an error.
NoTally == [delivered |-> 0, acked |-> 0, dropped |-> 0, early |-> 0,
            registered |-> 0, served |-> 0, freed |-> 0, zeroed |-> 0, refused |-> 0,
            told |-> FALSE]

ExchInit ==
  /\ config \in ServerConfigs
  /\ srv = [asyncs |-> <<>>, observing |-> {}, mcast |-> {},
            tally |-> [r \in Requests |-> NoTally]]
  /\ clock = 1
  /\ lastRst = -RstGap
  /\ received = 0
  /\ freed = FALSE

-----------------------------------------------------------------------------
(* Asynchronous state.                                                      *)

Entries(s, r) == {i \in 1..Len(s.asyncs) : s.asyncs[i].request = r}

Pending(s, r) == \E i \in Entries(s, r) :
                   s.asyncs[i].due = 0 \/ s.asyncs[i].due > clock

\* handle_request() only acknowledges a request whose entry waits.
HeldBack(s, r) == Pending(s, r)

Due(delay) == IF delay = 0 THEN 0 ELSE clock + delay

Register(s, r, pdu, delay) ==
  [s EXCEPT !.asyncs = <<[request |-> r, pdu |-> pdu, due |-> Due(delay)]>> \o @,
            !.tally[r].registered = @ + 1]

-----------------------------------------------------------------------------
(* Which response a request gets.                                           *)

Class(code) == code \div 100

\* Not configured, no handler for the method, or a URI that does not parse.
ProxyFails(p) == /\ p.proxy # "none"
                 /\ p.method \notin config.proxy \/ p.proxy = "garbled"

\* A request that names this host is served here, and its hops do not count.
Proxied(r) == Message[r].proxy = "away"

HopChecked(p) == p.proxy # "self" /\ p.hop # -1

HopCode(p) == CASE HopChecked(p) /\ p.hop = 1 -> 508
                [] HopChecked(p) /\ (p.hop < 1 \/ p.hop > 255) -> 400
                [] OTHER -> 0

FailCode(p) == IF ProxyFails(p) THEN 505 ELSE HopCode(p)

\* The option is updated in the PDU that the handler and its copies see.
Decremented(p) == IF HopChecked(p) THEN [p EXCEPT !.hop = @ - 1] ELSE p

Found(r) == ~Proxied(r) /\ Message[r].path = "res"

\* The path names no resource: 0 when another resource's handler takes it.
Fallback(r) == CASE Message[r].path = "wellknown" -> IF Message[r].method = "GET" THEN 205 ELSE 405
                 [] Message[r].path # "wellknown" /\ Proxied(r) -> 0
                 [] Message[r].path # "wellknown" /\ ~Proxied(r) ->
                      CASE Message[r].method \in config.unknown -> 0
                        [] Message[r].method \notin config.unknown ->
                             IF Message[r].method = "DELETE" THEN 202 ELSE 404

Verdict(r) == IF ~Found(r) THEN Fallback(r)
              ELSE IF Message[r].method \in config.res THEN 0 ELSE 405

-----------------------------------------------------------------------------
(* Suppression of responses, RFC 7967 and RFC 7252 8.1.                     *)

ResponseType(r) == IF Message[r].type = "CON" THEN "ACK" ELSE "NON"

\* As it would be if a suppressed answer took its acknowledgement with it.
RespondDrop(r, code) ==
  IF Class(code) > 0 /\ 0 \in Message[r].nores
  THEN IF Class(code) \notin Message[r].nores THEN "send" ELSE "drop"
  ELSE IF code = 0 /\ ResponseType(r) = "NON" THEN "drop"
  ELSE IF Message[r].mcast /\ Class(code) > 2 THEN "drop" ELSE "default"

Respond(r, code) ==
  IF Class(code) > 0 /\ 0 \in Message[r].nores
  THEN IF Class(code) \notin Message[r].nores THEN "send"
       ELSE IF ResponseType(r) = "ACK" THEN "trim" ELSE "drop"
  ELSE IF code = 0 /\ ResponseType(r) = "NON" THEN "drop"
  ELSE IF Message[r].mcast /\ Class(code) > 2 THEN "drop" ELSE "default"

\* An acknowledgement that is trimmed goes out empty.
SentCode(r, code) == IF Respond(r, code) = "trim" THEN 0 ELSE code

-----------------------------------------------------------------------------
(* What a response does to the books.                                       *)

Sent(s, r, code) ==
  [s EXCEPT !.tally[r].acked = @ + (IF Message[r].type = "CON" THEN 1 ELSE 0),
            !.tally[r].told = Class(code) > 2,
            !.mcast = IF Message[r].mcast THEN @ \cup {<<r, code>>} ELSE @]

\* dropResponse: a CON request stays without an acknowledgement.
Dropped(s, r) ==
  [s EXCEPT !.tally[r].dropped = @ + (IF Message[r].type = "CON" THEN 1 ELSE 0),
            !.tally[r].told = FALSE]

\* Nothing is sent: a suppressed response, or a CON to a group.
Silent(s, r) == [s EXCEPT !.tally[r].told = FALSE]

\* coap_send_ack(): acknowledges, and does nothing for a NON.
SendAck(s, r) ==
  [s EXCEPT !.tally[r].acked = @ + (IF Message[r].type = "CON" THEN 1 ELSE 0)]

\* A response the library builds passes no_response() ...
LibraryReply(s, r, code) ==
  IF Respond(r, code) = "drop" THEN Silent(s, r) ELSE Sent(s, r, SentCode(r, code))

\* ... but not after a jump to fail_response.
FailReply(s, r, code) == Sent(s, r, code)

Observable(r) == Found(r) /\ Message[r].method = "GET" /\ Message[r].observe # "none"

\* The subscription is made or cancelled before the handler runs ...
Subscribed(s, r) ==
  IF ~Observable(r) THEN s
  ELSE IF Message[r].observe = "establish" THEN [s EXCEPT !.observing = @ \cup {r}]
  ELSE [s EXCEPT !.observing = @ \ {r}]

\* ... and taken back when an error response is sent: one that No-Response
\* suppresses, its code being 0 or the response gone by then, takes nothing back.
TakeBack(s, r, code) ==
  IF Observable(r) /\ Class(code) > 2 THEN [s EXCEPT !.observing = @ \ {r}] ELSE s

\* From skip_handler on; drop is the value of dropResponse.
Finish(s, r, code, drop) ==
  IF Respond(r, code) = "drop" THEN Silent(s, r)
  ELSE IF drop THEN Dropped(s, r)
  ELSE Sent(TakeBack(s, r, SentCode(r, code)), r, SentCode(r, code))

\* A registration that starts at a later block is refused before it is made.
LaterBlock(r) == Observable(r) /\ Message[r].observe = "establish" /\ Message[r].block = "laterBlock2"

\* The jumps over the handler leave dropResponse uninitialised.
Skip(s, r) ==
  {Finish(s, r, 400, garbage) : garbage \in IF LaterBlock(r) THEN BOOLEAN ELSE {}}
  \cup {Finish(Subscribed(s, r), r, 231, garbage) :
          garbage \in IF Message[r].block = "block1" /\ ~LaterBlock(r) THEN BOOLEAN ELSE {}}

\* The application's handler answers, leaves the response alone, gives it the
\* type 4 so that it is dropped, or registers the request for later once.
CallHandler(s, r, pdu) ==
  IF LaterBlock(r) THEN {}
  ELSE LET t == Subscribed(s, r)
       IN {Finish(t, r, code, drop) : code \in HandlerCodes, drop \in BOOLEAN}
          \cup {Finish(Register(t, r, pdu, d), r, 0, FALSE) :
                  d \in IF Entries(s, r) = {} THEN Delays ELSE {}}

Serve(s, r, pdu) ==
  LET t == [s EXCEPT !.tally[r].early = @ + (IF Pending(s, r) THEN 1 ELSE 0)]
  IN IF Verdict(r) # 0 THEN {LibraryReply(t, r, Verdict(r))}
     ELSE Skip(t, r) \cup CallHandler(t, r, Decremented(pdu))

\* handle_request(): pdu is what arrived, or what is stored with an entry.
HandleRequest(s, r, pdu) ==
  IF Message[r].mcast /\ Message[r].type # "NON" THEN {Silent(s, r)}
  ELSE IF HeldBack(s, r) THEN {SendAck(s, r)}
  ELSE IF Message[r].mcast /\ Entries(s, r) = {}
  THEN {Register(s, r, pdu, d) : d \in LeisureDelays}
  ELSE IF FailCode(pdu) # 0 THEN {FailReply(s, r, FailCode(pdu))}
  ELSE Serve(s, r, pdu)

-----------------------------------------------------------------------------
(* Messages in, time, and the application's calls.                          *)

Delivered(r) == [srv EXCEPT !.tally[r].delivered = @ + 1]

CanDeliver == ~freed /\ received < MaxDeliveries

\* coap_option_check_critical() finds an option that nobody knows.
UnknownCritical(r) == Message[r].crit

\* An unknown critical option: 4.02 for a CON request, a reset otherwise.
RecvCritical(r) ==
  /\ CanDeliver /\ received' = received + 1 /\ UnknownCritical(r)
  /\ srv' = IF Message[r].type = "CON" THEN FailReply(Delivered(r), r, 402) ELSE Delivered(r)
  /\ UNCHANGED <<config, clock, lastRst, freed>>

RecvRequest(r) ==
  /\ CanDeliver /\ received' = received + 1 /\ ~UnknownCritical(r) /\ Message[r].kind = "request"
  /\ srv' \in HandleRequest(Delivered(r), r, Message[r])
  /\ UNCHANGED <<config, clock, lastRst, freed>>

\* An empty message is a ping and is reset, though not too often; any other
\* code is reset at once, and neither for multicast.
RecvOther(r) ==
  /\ CanDeliver /\ received' = received + 1 /\ ~UnknownCritical(r) /\ Message[r].kind # "request"
  /\ lastRst' = IF Message[r].kind = "empty" /\ ~Message[r].mcast /\ lastRst + RstGap < clock
                THEN clock ELSE lastRst
  /\ UNCHANGED <<config, srv, clock, freed>>

Tick == /\ clock < MaxClock
        /\ clock' = clock + 1
        /\ UNCHANGED <<config, srv, lastRst, received, freed>>

\* As it would be if an entry were due one tick too soon.
FiresEarly(e) == e.due <= clock + 1

\* One round of coap_check_async() for the entry e of state s.
Fires(e) == e.due <= clock

\* coap_free_async(): the entry of the request leaves the list. The reference to
\* the session that goes with it is not kept here.
Free(s, e) == [s EXCEPT !.asyncs = RemoveFirstMatch(@, LAMBDA x : x.request = e.request)]

\* What becomes of the entry: handle_request() takes a delay of 0 for one that
\* still waits and only acknowledges, as it would if the entry fired too soon; a
\* stored request may have no hops left at the second look, and otherwise it
\* reaches its resource.
Outcome(s, e) ==
  CASE HeldBack(s, e.request) /\ e.due = 0 -> [s EXCEPT !.tally[e.request].zeroed = @ + 1]
    [] HeldBack(s, e.request) /\ e.due # 0 -> s
    [] ~HeldBack(s, e.request) /\ FailCode(e.pdu) # 0 ->
         [s EXCEPT !.tally[e.request].refused = @ + 1]
    [] OTHER -> [s EXCEPT !.tally[e.request].served = @ + 1]

Fire(s, e) ==
  LET t == Outcome(s, e)
  IN {Free(u, e) : u \in HandleRequest(t, e.request, e.pdu)}

\* The entries that were in the list at the start are looked at one by one:
\* the states the server may be in after the first n of them.
CheckRounds(list) ==
  LET after[n \in 0..Len(list)] ==
        IF n = 0 THEN {srv}
        ELSE UNION {IF Fires(list[n]) THEN Fire(s, list[n]) ELSE {s} : s \in after[n - 1]}
  IN after[Len(list)]

CheckAsync ==
  /\ ~freed
  /\ \E i \in 1..Len(srv.asyncs) : Fires(srv.asyncs[i])
  /\ srv' \in CheckRounds(srv.asyncs)
  /\ UNCHANGED <<config, clock, lastRst, received, freed>>

\* The application triggers or withdraws what it registered, between two calls
\* of the library: a handler that freed the entry coap_check_async() is running
\* it for would have it freed twice.
SetDelay(i, d) ==
  /\ ~freed /\ ~Message[srv.asyncs[i].request].mcast
  /\ clock + d <= MaxClock
  /\ srv' = [srv EXCEPT !.asyncs[i].due = Due(d)]
  /\ UNCHANGED <<config, clock, lastRst, received, freed>>

FreeAsync(i) ==
  /\ ~freed /\ ~Message[srv.asyncs[i].request].mcast
  /\ srv' = [Free(srv, srv.asyncs[i]) EXCEPT
               !.tally[srv.asyncs[i].request].freed = @ + 1]
  /\ UNCHANGED <<config, clock, lastRst, received, freed>>

\* coap_free_context() deletes what still waits.
DeleteAll ==
  /\ ~freed
  /\ freed' = TRUE
  /\ srv' = [srv EXCEPT !.asyncs = <<>>,
       !.tally = [r \in Requests |->
         [srv.tally[r] EXCEPT !.freed = @ + Cardinality(Entries(srv, r))]]]
  /\ UNCHANGED <<config, clock, lastRst, received>>

ExchNext ==
  \/ \E r \in Requests : RecvCritical(r) \/ RecvRequest(r) \/ RecvOther(r)
  \/ Tick \/ CheckAsync \/ DeleteAll
  \/ \E i \in 1..Len(srv.asyncs) :
       FreeAsync(i) \/ \E d \in Delays : SetDelay(i, d)

ExchSpec == ExchInit /\ [][ExchNext]_exchvars

-----------------------------------------------------------------------------
(* Properties.                                                              *)

\* A request that coap_dispatch() must acknowledge whenever it handles it: a CON,
\* but not one to a group, which is ignored unless its options are refused first.
Owes(r) == Message[r].type = "CON" /\ (Message[r].crit \/ ~Message[r].mcast)

\* Every time handle_request() or coap_dispatch() works on a request that is owed
\* an acknowledgement, at once or from the asynchronous list, exactly one is
\* sent, whatever No-Response suppresses; the only ones missing are those the
\* handler drops (type 4) or an uninitialised dropResponse does. Nothing else is
\* acknowledged.
AckAccounted ==
  \A r \in Requests :
    LET t == srv.tally[r]
    IN t.acked + t.dropped =
         IF Owes(r) THEN t.delivered + t.registered - t.freed - Cardinality(Entries(srv, r)) ELSE 0

\* A request whose hops end at the second look: the decremented copy is stored.
LastHop(r) == ~Message[r].mcast /\ HopChecked(Message[r]) /\ Message[r].hop = 2

\* A client whose last answer was an error is not subscribed, unless the error
\* is the 5.08 a postponed registration gets at its second look (net.c:2613
\* jumps over net.c:2855). An error that is suppressed tells the client nothing,
\* and the subscription it refuses stays.
ToldNotObserving == \A r \in Requests : srv.tally[r].told => r \notin srv.observing \/ LastHop(r)

\* The errors a multicast request may meet all the same: one its No-Response
\* option asks for, and those that pass no_response() by: an unknown critical
\* option in a CON, and what the proxy and the Hop-Limit option come to.
McastError(r, code) ==
  \/ 0 \in Message[r].nores /\ Class(code) \notin Message[r].nores
  \/ code = 402 /\ Message[r].crit
  \/ code = 505 /\ ProxyFails(Message[r])
  \/ code \in {400, 508} /\ HopChecked(Message[r])

\* No other error goes to a multicast request.
McastErrorsAreFails == \A x \in srv.mcast : Class(x[2]) > 2 => McastError(x[1], x[2])

\* What clients are told fits what the server does: the acknowledgements that
\* are owed are sent exactly once, a client that is told its registration failed
\* is not subscribed, and a group does not answer with errors (handle_request,
\* no_response), each with the exceptions its definition names.
RepliesFit == AckAccounted /\ ToldNotObserving /\ McastErrorsAreFails

\* Every request that was registered waits, was freed by the application or
\* with the context, or was passed to its resource, and not before its delay
\* was over (async.h:42). Two kinds are lost instead: an entry whose delay is 0
\* when coap_check_async() comes by (net.c:3235), and one that was stored with
\* its last hop; a multicast request is refused as it would be at once.
DelayedIsServed ==
  \A r \in Requests :
    LET t == srv.tally[r]
    IN /\ t.registered = t.served + t.freed + t.zeroed + t.refused + Cardinality(Entries(srv, r))
       /\ t.early = 0
       /\ t.refused > 0 => LastHop(r) \/ (Message[r].mcast /\ FailCode(Message[r]) # 0)
=============================================================================
