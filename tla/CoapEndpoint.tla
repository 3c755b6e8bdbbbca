---------------------------- MODULE CoapEndpoint ----------------------------
(* The sessions of a server's endpoint: made for an unknown peer or at an    *)
(* accept, referenced and released, evicted when there are too many, closed  *)
(* when idle. Ages stand for now - last_rx_tx, counted up to MaxAge.         *)
EXTENDS Naturals, FiniteSets, FiniteSetsExt

CONSTANTS
  Peers,             \* remote addresses
  Client,            \* the peer that does not give up
  EpProtos,          \* protocols of the endpoint: "UDP", "DTLS", "TCP"
  MaxIdle,           \* max_idle_sessions, 0 for no limit
  MaxHandshakes,     \* max_handshake_sessions
  PartialTimeout,    \* COAP_PARTIAL_SESSION_TIMEOUT_TICKS
  SessionTimeout,    \* session_timeout
  MaxAge, MaxRef,
  MaxOthers,         \* packets of the other peers
  AcceptMayFail      \* whether accept() may fail

VARIABLES
  proto,    \* of the endpoint
  table,    \* the session of a peer, in ep->sessions
  lost,     \* sessions that work and are in no table
  others    \* packets of the other peers so far

epvars == <<proto, table, lost, others>>

None == [type |-> "NONE", state |-> "NONE", age |-> 0, ref |-> 0, queued |-> FALSE]

\* coap_make_session: what is new about a session, with its type.
MakeSession(type, state) == [None EXCEPT !.type = type, !.state = state]

Sessions == {p \in Peers : table[p].type # "NONE"}

EpInit ==
  /\ proto \in EpProtos
  /\ table = [p \in Peers |-> None]
  /\ lost = {}
  /\ others = 0

-----------------------------------------------------------------------------
(* coap_endpoint_get_session                                                 *)

\* As it would be if references and waiting messages did not count.
UnusedAny(p) == table[p].type # "NONE"

\* Nobody uses the session and nothing waits to be sent.
Unused(p) == table[p].type # "NONE" /\ table[p].ref = 0 /\ ~table[p].queued

Idle == {p \in Peers : Unused(p) /\ table[p].type = "SERVER"}
InHandshake == {p \in Peers : /\ Unused(p)
                              /\ \/ table[p].type = "HELLO"
                                 \/ table[p].type = "SERVER" /\ table[p].state = "HANDSHAKE"}

\* As it would be if a handshake never became stale.
StaleNever == {p \in InHandshake : table[p].age > MaxAge}

Stale == {p \in InHandshake : table[p].age > PartialTimeout}

Oldest(S) == {p \in S : \A q \in S : table[p].age >= table[q].age}

\* The session that gives way to a new peer.
Evicted ==
  IF MaxIdle > 0 /\ Cardinality(Idle) >= MaxIdle THEN {{p} : p \in Oldest(Idle)}
  ELSE IF Stale # {} THEN {{p} : p \in Oldest(Stale)} ELSE {{}}

\* The limit is tested with the count from before the eviction.
TooManyHandshakes == Cardinality(InHandshake) > MaxHandshakes

Without(tab, S) == [p \in Peers |-> IF p \in S THEN None ELSE tab[p]]

\* A packet of an unknown peer: the table, and whether there is a session now.
NewPeer(p, hello) ==
  {LET tab == Without(table, out)
   IN IF TooManyHandshakes \/ (proto = "DTLS" /\ ~hello) THEN tab
      ELSE [tab EXCEPT ![p] = IF proto = "UDP" THEN MakeSession("SERVER", "ESTABLISHED")
                              ELSE MakeSession("HELLO", "NONE")] : out \in Evicted}

\* coap_handle_dgram_for_proto, and coap_session_new_dtls_session when the hello
\* proves its address. The DTLS library decides what a packet does.
Handled(tab, p) ==
  LET s == tab[p]
      becomes(states) == {[tab EXCEPT ![p] = [s EXCEPT !.state = st, !.queued = st # "NONE" /\ @]] : st \in states}
  IN CASE s.type = "HELLO" -> {tab, [tab EXCEPT ![p] = [s EXCEPT !.type = "SERVER", !.state = "HANDSHAKE"]],
                               Without(tab, {p})}
       [] s.type = "SERVER" /\ proto = "DTLS" /\ s.state = "HANDSHAKE" ->
            becomes({"HANDSHAKE", "ESTABLISHED", "NONE"})
       [] s.type = "SERVER" /\ proto = "DTLS" /\ s.state = "ESTABLISHED" -> becomes({"ESTABLISHED", "NONE"})
       [] OTHER -> {tab}

-----------------------------------------------------------------------------
Counted(p) == IF p = Client THEN UNCHANGED others
              ELSE others < MaxOthers /\ others' = others + 1

\* coap_read_endpoint
ReadEndpoint(p, hello) ==
  /\ proto \in {"UDP", "DTLS"} /\ Counted(p)
  /\ \E tab \in IF table[p].type # "NONE" THEN {[table EXCEPT ![p].age = 0]} ELSE NewPeer(p, hello) :
       table' \in IF tab[p].type = "NONE" THEN {tab} ELSE Handled(tab, p)
  /\ UNCHANGED <<proto, lost>>

\* coap_accept_endpoint, coap_new_server_session, coap_session_accept. When
\* accept() fails the session is freed before it was in the table, and deleting
\* an entry without neighbours gives up the whole table.
AcceptEndpoint(p) ==
  /\ proto = "TCP" /\ table[p].type = "NONE" /\ p \notin lost /\ Counted(p)
  /\ \/ table' \in {[table EXCEPT ![p] = MakeSession("SERVER", st)] : st \in {"CSM", "NONE"}} /\ UNCHANGED lost
     \/ AcceptMayFail /\ table' = Without(table, Peers) /\ lost' = lost \cup Sessions
  /\ UNCHANGED proto

\* The peer's CSM, or the end of the connection.
StreamEvent(p) ==
  /\ proto = "TCP" /\ table[p].type # "NONE" /\ table[p].state # "NONE"
  /\ \E st \in {"ESTABLISHED", "NONE"} :
       /\ st = "ESTABLISHED" => table[p].state = "CSM"
       /\ table' = [table EXCEPT ![p].state = st, ![p].queued = st # "NONE" /\ @]
  /\ UNCHANGED <<proto, lost, others>>

\* coap_session_reference and coap_session_release by a queued message, an
\* observer or the application, which know a session once it is established;
\* coap_session_set_type_client keeps one.
Reference(p) ==
  /\ table[p].state = "ESTABLISHED" /\ table[p].ref < MaxRef
  /\ table' = [table EXCEPT ![p].ref = @ + 1]
  /\ UNCHANGED <<proto, lost, others>>

Release(p) ==
  /\ table[p].ref > 0
  /\ table' = IF table[p].ref = 1 /\ table[p].type = "CLIENT" THEN Without(table, {p})
              ELSE [table EXCEPT ![p].ref = @ - 1]
  /\ UNCHANGED <<proto, lost, others>>

SetTypeClient(p) ==
  /\ table[p].type = "SERVER" /\ table[p].state = "ESTABLISHED" /\ table[p].ref < MaxRef
  /\ table' = [table EXCEPT ![p].type = "CLIENT", ![p].ref = @ + 1]
  /\ UNCHANGED <<proto, lost, others>>

\* A message is delayed, the delay queue is empty again.
DelayQueue(p) ==
  /\ table[p].state = "ESTABLISHED"
  /\ table' = [table EXCEPT ![p].queued = ~@]
  /\ UNCHANGED <<proto, lost, others>>

\* coap_io_prepare_io: unused server sessions whose time is up.
TimedOut == {p \in Idle : table[p].age >= SessionTimeout \/ table[p].state = "NONE"}

PrepareIo ==
  /\ TimedOut # {}
  /\ table' = Without(table, TimedOut)
  /\ UNCHANGED <<proto, lost, others>>

Tick ==
  /\ table' = [p \in Peers |-> IF table[p].type = "NONE" THEN None
                               ELSE [table[p] EXCEPT !.age = IF @ < MaxAge THEN @ + 1 ELSE @]]
  /\ UNCHANGED <<proto, lost, others>>

EpNext ==
  \/ \E p \in Peers, hello \in BOOLEAN : ReadEndpoint(p, hello)
  \/ \E p \in Peers : \/ AcceptEndpoint(p) \/ StreamEvent(p) \/ Reference(p) \/ Release(p)
                      \/ SetTypeClient(p) \/ DelayQueue(p)
  \/ PrepareIo \/ Tick

EpSpec == EpInit /\ [][EpNext]_epvars

-----------------------------------------------------------------------------
(* Properties                                                                *)

\* A session that somebody references, or that has messages to send, is not
\* freed by an eviction or a timeout: it goes when its own last reference is
\* released or its own packet ends it.
BusyNotFreed ==
  [][\A p \in Peers :
       /\ table[p].type # "NONE" /\ table'[p].type = "NONE" /\ lost' = lost
       => \/ table[p].ref = 0 /\ ~table[p].queued
          \/ table[p].ref = 1 /\ table[p].type = "CLIENT"
          \/ table[p].type = "HELLO"]_epvars

\* A DTLS client that repeats its hello gets a session in the end, though others
\* have filled the endpoint with handshakes they do not continue.
ClientGetsIn == proto = "DTLS" ~> table[Client].type # "NONE"
=============================================================================
