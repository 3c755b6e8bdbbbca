------------------------------ MODULE MCServer ------------------------------
(* Request handling and the request cache, each on a small universe of       *)
(* requests and by itself. MCCodec adds the encodings.                       *)
EXTENDS CoapExchange, CoapCache

VARIABLE part  \* the one that runs

Plain == [type |-> "CON", mcast |-> FALSE, kind |-> "request", method |-> "GET",
          path |-> "res", observe |-> "none", block |-> "none", nores |-> {},
          proxy |-> "none", hop |-> -1, crit |-> FALSE]
Non == [Plain EXCEPT !.type = "NON"]
Mcast == [Non EXCEPT !.mcast = TRUE]

ManyMessages == <<
  Plain, Non, Mcast, [Mcast EXCEPT !.type = "CON"], [Mcast EXCEPT !.path = "other"],
  [Mcast EXCEPT !.proxy = "garbled"], [Mcast EXCEPT !.hop = 1],
  [Mcast EXCEPT !.path = "other", !.nores = {0, 5}],
  [Plain EXCEPT !.observe = "establish"],
  [Plain EXCEPT !.observe = "establish", !.nores = {0, 4}],
  [Plain EXCEPT !.observe = "cancel"], [Non EXCEPT !.observe = "establish"],
  [Plain EXCEPT !.observe = "establish", !.block = "laterBlock2"],
  [Plain EXCEPT !.block = "block1", !.method = "PUT"],
  [Plain EXCEPT !.crit = TRUE], [Non EXCEPT !.crit = TRUE],
  [Plain EXCEPT !.kind = "empty"], [Plain EXCEPT !.kind = "bad"],
  [Plain EXCEPT !.proxy = "garbled"], [Plain EXCEPT !.proxy = "away", !.hop = 3],
  [Plain EXCEPT !.proxy = "self", !.hop = 1],
  [Plain EXCEPT !.hop = 1], [Plain EXCEPT !.hop = 256],
  [Plain EXCEPT !.observe = "establish", !.hop = 2],
  [Plain EXCEPT !.path = "other", !.nores = {0, 4}],
  [Plain EXCEPT !.path = "other", !.method = "DELETE", !.nores = {0, 2}],
  [Plain EXCEPT !.path = "other", !.method = "PUT"],
  [Plain EXCEPT !.path = "wellknown", !.nores = {0, 4}],
  [Plain EXCEPT !.path = "wellknown", !.method = "PUT"]>>

SomeConfigs == {[res |-> {"GET", "PUT"}, unknown |-> {"PUT"}, proxy |-> {"GET"}],
                [res |-> {"GET"}, unknown |-> {}, proxy |-> {}]}

SameTransport == [s \in CacheSessions |-> "udp server"]
UriPathA == <<[num |-> 11, val |-> "a"]>>
AcceptA == <<[num |-> 17, val |-> "a"]>>
PathAndAccept == UriPathA \o AcceptA
SomeCacheRequests == {[opts |-> AcceptA, body |-> ""], [opts |-> PathAndAccept, body |-> ""],
                      [opts |-> AcceptA, body |-> "a"]}

\* A part that does not run stays in one of its initial states.
ServerInit == /\ ExchInit /\ CacheInit
              /\ part # "exchange" => config = CHOOSE c \in ServerConfigs : TRUE

ServerNext ==
  \/ part = "exchange" /\ ExchNext /\ UNCHANGED <<part, cachevars>>
  \/ part = "cache" /\ CacheNext /\ UNCHANGED <<part, exchvars>>
=============================================================================
