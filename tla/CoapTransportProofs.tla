------------------------ MODULE CoapTransportProofs ------------------------
(* The sessions of a server's endpoint: no eviction and no timeout frees one *)
(* in use, for any peers, limits and timeouts. The TLS libraries: none reads *)
(* a datagram that is gone, and a session is closed only for a cause.        *)
EXTENDS CoapEndpoint, CoapTls, TLAPS

Types == {"NONE", "HELLO", "SERVER", "CLIENT"}
States == {"NONE", "HANDSHAKE", "CSM", "ESTABLISHED"}

SessionRecords ==
  [type : Types, state : States, age : Nat, ref : Nat, queued : BOOLEAN]

\* The types, and where a session can be that no table holds. The latter is what
\* makes a failed accept() a case of its own: it gives up every session of the
\* table, and none of them was given up before.
EpInv ==
  /\ table \in [Peers -> SessionRecords]
  /\ lost \subseteq Peers
  /\ others \in Nat
  /\ lost # {} => proto = "TCP"
  /\ \A p \in lost : table[p].type = "NONE"

-----------------------------------------------------------------------------

\* One field of a session may be set, and leaves the type alone unless it is the
\* type.
LEMMA FieldSet ==
  ASSUME NEW r \in SessionRecords
  PROVE  /\ \A x \in Types : LET s == [r EXCEPT !.type = x] IN
              s \in SessionRecords /\ s.type = x
         /\ \A x \in States : LET s == [r EXCEPT !.state = x] IN
              s \in SessionRecords /\ s.type = r.type
         /\ \A x \in Nat : LET s == [r EXCEPT !.age = x] IN
              s \in SessionRecords /\ s.type = r.type
         /\ \A x \in Nat : LET s == [r EXCEPT !.ref = x] IN
              s \in SessionRecords /\ s.type = r.type
         /\ \A x \in BOOLEAN : LET s == [r EXCEPT !.queued = x] IN
              s \in SessionRecords /\ s.type = r.type
  BY DEF SessionRecords

\* The fields of a session.
LEMMA Fields ==
  ASSUME NEW r \in SessionRecords
  PROVE  r.type \in Types /\ r.age \in Nat /\ r.ref \in Nat /\ r.queued \in BOOLEAN
  BY DEF SessionRecords

\* None is the absence of a session.
LEMMA NoneType == None \in SessionRecords /\ None.type = "NONE"
  BY DEF None, SessionRecords, Types, States

\* A session that is made has the type it was made with.
LEMMA MakeSessionType ==
  ASSUME NEW t \in Types, NEW st \in States
  PROVE  MakeSession(t, st) \in SessionRecords /\ MakeSession(t, st).type = t
<1> DEFINE r == [None EXCEPT !.type = t]
<1>1. r \in SessionRecords /\ r.type = t
  BY NoneType, FieldSet
<1> HIDE DEF r
<1>2. [r EXCEPT !.state = st] \in SessionRecords /\ [r EXCEPT !.state = st].type = t
  BY <1>1, FieldSet
<1> QED
  BY <1>2 DEF MakeSession, r

\* Taking sessions out of a table leaves the others as they are.
LEMMA WithoutType ==
  ASSUME NEW tab \in [Peers -> SessionRecords], NEW S
  PROVE  /\ Without(tab, S) \in [Peers -> SessionRecords]
         /\ \A p \in Peers : Without(tab, S)[p] = IF p \in S THEN None ELSE tab[p]
  BY NoneType DEF Without

\* The session that gives way is one that nobody uses.
LEMMA EvictedUnused ==
  ASSUME NEW out \in Evicted
  PROVE  \A p \in out : p \in Peers /\ Unused(p)
  BY DEF Evicted, Oldest, Idle, Stale, InHandshake

\* A packet of an unknown peer adds a session for it or none, and takes at most
\* sessions that nobody uses.
LEMMA NewPeerEffect ==
  ASSUME EpInv, NEW p \in Peers, table[p].type = "NONE", NEW hello \in BOOLEAN,
         NEW tab \in NewPeer(p, hello)
  PROVE  /\ tab \in [Peers -> SessionRecords]
         /\ \A q \in Peers : table[q].type # "NONE" /\ tab[q].type = "NONE" => Unused(q)
<1>1. PICK out \in Evicted :
        tab = IF TooManyHandshakes \/ (proto = "DTLS" /\ ~hello) THEN Without(table, out)
              ELSE [Without(table, out) EXCEPT
                      ![p] = IF proto = "UDP" THEN MakeSession("SERVER", "ESTABLISHED")
                             ELSE MakeSession("HELLO", "NONE")]
  BY DEF NewPeer
<1> DEFINE left == Without(table, out)
           new == IF proto = "UDP" THEN MakeSession("SERVER", "ESTABLISHED")
                  ELSE MakeSession("HELLO", "NONE")
<1>2. new \in SessionRecords
  BY MakeSessionType DEF Types, States
<1>3. /\ left \in [Peers -> SessionRecords]
      /\ \A q \in Peers : left[q] = IF q \in out THEN None ELSE table[q]
  BY WithoutType DEF EpInv
<1> HIDE DEF left, new
<1>4. tab = left \/ tab = [left EXCEPT ![p] = new]
  BY <1>1 DEF left, new
<1>5. tab \in [Peers -> SessionRecords]
  BY <1>2, <1>3, <1>4
<1>6. ASSUME NEW q \in Peers, table[q].type # "NONE", tab[q].type = "NONE"
      PROVE  Unused(q)
  <2>1. q # p
    BY <1>6
  <2>2. tab[q] = left[q]
    BY <2>1, <1>3, <1>4
  <2>3. q \in out
    BY <2>2, <1>3, <1>6
  <2> QED
    BY <2>3, EvictedUnused
<1> QED
  BY <1>5, <1>6

\* A packet for a session ends it only while it is a hello.
LEMMA HandledEffect ==
  ASSUME NEW p \in Peers, NEW tab \in [Peers -> SessionRecords], NEW new \in Handled(tab, p)
  PROVE  /\ new \in [Peers -> SessionRecords]
         /\ \A q \in Peers : /\ q # p => new[q] = tab[q]
                             /\ tab[q].type \notin {"NONE", "HELLO"} => new[q].type # "NONE"
<1> DEFINE s == tab[p]
<1>0. s \in SessionRecords
  OBVIOUS
<1>1. ASSUME NEW st \in States, NEW d \in BOOLEAN
      PROVE  LET u == [s EXCEPT !.state = st, !.queued = d]
             IN  u \in SessionRecords /\ u.type = s.type
  <2> DEFINE t == [s EXCEPT !.state = st]
             u == [t EXCEPT !.queued = d]
  <2>1. t \in SessionRecords /\ t.type = s.type
    BY <1>0, FieldSet
  <2> HIDE DEF t
  <2>2. u \in SessionRecords /\ u.type = t.type
    BY <2>1, FieldSet
  <2>3. u = [s EXCEPT !.state = st, !.queued = d]
    BY DEF t
  <2> HIDE DEF u
  <2> QED
    BY <2>1, <2>2, <2>3
<1>2. CASE s.type = "HELLO"
  <2> DEFINE t == [s EXCEPT !.type = "SERVER"]
             u == [t EXCEPT !.state = "HANDSHAKE"]
  <2>1. t \in SessionRecords
    BY <1>0, FieldSet DEF Types
  <2> HIDE DEF t
  <2>2. u \in SessionRecords
    BY <2>1, FieldSet DEF States
  <2>3. u = [s EXCEPT !.type = "SERVER", !.state = "HANDSHAKE"]
    BY DEF t
  <2> HIDE DEF u
  <2>4. \/ new = tab
        \/ new = [tab EXCEPT ![p] = u]
        \/ new = Without(tab, {p})
    BY <1>2, <2>3 DEF Handled
  <2> QED
    BY <1>2, <2>2, <2>4, WithoutType
<1>3. CASE s.type # "HELLO"
  <2>1. new = tab \/ \E st \in States :
          new = [tab EXCEPT ![p] = [s EXCEPT !.state = st, !.queued = st # "NONE" /\ s.queued]]
    BY <1>3 DEF Handled, States
  <2>2. CASE new = tab
    BY <2>2
  <2>3. CASE new # tab
    <3>1. PICK st \in States :
            new = [tab EXCEPT ![p] = [s EXCEPT !.state = st, !.queued = st # "NONE" /\ s.queued]]
      BY <2>1, <2>3
    <3> DEFINE d == st # "NONE" /\ s.queued
               u == [s EXCEPT !.state = st, !.queued = d]
    <3>2. d \in BOOLEAN /\ new = [tab EXCEPT ![p] = u]
      BY <3>1
    <3> HIDE DEF d
    <3>3. u \in SessionRecords /\ u.type = s.type
      BY <1>1, <3>2
    <3> HIDE DEF u
    <3> QED
      BY <3>2, <3>3
  <2> QED
    BY <2>2, <2>3
<1> QED
  BY <1>2, <1>3

-----------------------------------------------------------------------------

\* What a step may do to a session.
NotFreedInUse ==
  \A p \in Peers :
    /\ table[p].type # "NONE" /\ table'[p].type = "NONE" /\ lost' = lost
    => \/ table[p].ref = 0 /\ ~table[p].queued
       \/ table[p].ref = 1 /\ table[p].type = "CLIENT"
       \/ table[p].type = "HELLO"

\* A step that changes one session, and leaves one where there was one and none
\* where there was none, frees nothing.
LEMMA OneSession ==
  ASSUME EpInv, NEW p \in Peers, NEW s \in SessionRecords,
         s.type = "NONE" <=> table[p].type = "NONE", table' = [table EXCEPT ![p] = s],
         UNCHANGED <<proto, lost>>, others' \in Nat
  PROVE  EpInv' /\ NotFreedInUse
<1>1. table' \in [Peers -> SessionRecords]
  BY DEF EpInv
<1>2. \A q \in Peers : table'[q] = IF q = p THEN s ELSE table[q]
  BY DEF EpInv
<1>3. EpInv'
  BY <1>1, <1>2 DEF EpInv
<1>4. NotFreedInUse
  BY <1>2 DEF NotFreedInUse
<1> QED
  BY <1>3, <1>4

\* coap_read_endpoint frees sessions nobody uses, and a hello.
LEMMA ReadEndpointStep ==
  ASSUME EpInv, NEW p \in Peers, NEW hello \in BOOLEAN, ReadEndpoint(p, hello)
  PROVE  EpInv' /\ NotFreedInUse
<1>0. others' \in Nat
  BY DEF EpInv, ReadEndpoint, Counted
<1>1. lost = {} /\ UNCHANGED <<proto, lost>>
  BY DEF EpInv, ReadEndpoint
<1>2. PICK tab \in IF table[p].type # "NONE" THEN {[table EXCEPT ![p].age = 0]}
                   ELSE NewPeer(p, hello) :
        table' \in IF tab[p].type = "NONE" THEN {tab} ELSE Handled(tab, p)
  BY DEF ReadEndpoint
<1>3. /\ tab \in [Peers -> SessionRecords]
      /\ \A q \in Peers : table[q].type # "NONE" /\ tab[q].type = "NONE" => Unused(q)
      /\ table[p].type # "NONE" => tab[p].type = table[p].type
  <2>1. CASE table[p].type # "NONE"
    <3> DEFINE s == [table[p] EXCEPT !.age = 0]
    <3>1. s \in SessionRecords /\ s.type = table[p].type
      BY FieldSet DEF EpInv
    <3>2. tab = [table EXCEPT ![p] = s]
      BY <1>2, <2>1 DEF EpInv
    <3> HIDE DEF s
    <3> QED
      BY <3>1, <3>2, <2>1 DEF EpInv
  <2>2. CASE table[p].type = "NONE"
    BY <1>2, <2>2, NewPeerEffect
  <2> QED
    BY <2>1, <2>2
<1>4. /\ table' \in [Peers -> SessionRecords]
      /\ \A q \in Peers : /\ q # p => table'[q] = tab[q]
                          /\ tab[q].type \notin {"NONE", "HELLO"} => table'[q].type # "NONE"
  BY <1>2, <1>3, HandledEffect
<1>5. EpInv'
  BY <1>0, <1>1, <1>4 DEF EpInv
<1>6. NotFreedInUse
  <2> SUFFICES ASSUME NEW q \in Peers, table[q].type # "NONE", table'[q].type = "NONE"
               PROVE  Unused(q) \/ table[q].type = "HELLO"
    BY DEF NotFreedInUse, Unused
  <2>1. CASE tab[q].type = "NONE"
    BY <2>1, <1>3
  <2>2. CASE tab[q].type = "HELLO"
    BY <2>2, <1>3, <1>4
  <2>3. CASE tab[q].type \notin {"NONE", "HELLO"}
    BY <2>3, <1>4
  <2> QED
    BY <2>1, <2>2, <2>3
<1> QED
  BY <1>5, <1>6

\* A failed accept() gives sessions up only together with lost.
LEMMA AcceptEndpointStep ==
  ASSUME EpInv, NEW p \in Peers, AcceptEndpoint(p)
  PROVE  EpInv' /\ NotFreedInUse
<1>0. others' \in Nat /\ UNCHANGED proto /\ proto = "TCP" /\ table[p].type = "NONE" /\ p \notin lost
  BY DEF EpInv, AcceptEndpoint, Counted
<1>1. ASSUME NEW st \in {"CSM", "NONE"}, table' = [table EXCEPT ![p] = MakeSession("SERVER", st)],
             UNCHANGED lost
      PROVE  EpInv' /\ NotFreedInUse
  <2> DEFINE s == MakeSession("SERVER", st)
  <2>1. s \in SessionRecords
    BY MakeSessionType DEF Types, States
  <2> HIDE DEF s
  <2>2. table' \in [Peers -> SessionRecords]
    BY <1>1, <2>1 DEF EpInv, s
  <2>3. \A q \in Peers : q # p => table'[q] = table[q]
    BY <1>1 DEF EpInv
  <2> QED
    BY <1>0, <1>1, <2>2, <2>3 DEF EpInv, NotFreedInUse
<1>2. ASSUME table' = Without(table, Peers), lost' = lost \cup Sessions
      PROVE  EpInv' /\ NotFreedInUse
  <2>1. /\ table' \in [Peers -> SessionRecords]
        /\ \A q \in Peers : table'[q].type = "NONE"
    BY <1>2, WithoutType, NoneType DEF EpInv
  <2>2. Sessions \subseteq Peers
    BY DEF Sessions
  <2>3. EpInv'
    BY <1>0, <1>2, <2>1, <2>2 DEF EpInv
  <2>4. ASSUME NEW q \in Peers, table[q].type # "NONE" PROVE lost' # lost
    BY <1>2, <2>4 DEF EpInv, Sessions
  <2> QED
    BY <2>3, <2>4 DEF NotFreedInUse
<1> QED
  BY <1>1, <1>2 DEF AcceptEndpoint

\* Taking out sessions that nobody uses frees none in use.
LEMMA TakeOut ==
  ASSUME EpInv, NEW S, table' = Without(table, S), UNCHANGED <<proto, lost, others>>,
         \A p \in S : p \in Peers => \/ table[p].ref = 0 /\ ~table[p].queued
                                     \/ table[p].ref = 1 /\ table[p].type = "CLIENT"
  PROVE  EpInv' /\ NotFreedInUse
<1>1. /\ table' \in [Peers -> SessionRecords]
      /\ \A q \in Peers : table'[q] = IF q \in S THEN None ELSE table[q]
  BY WithoutType DEF EpInv
<1>2. EpInv'
  BY <1>1, NoneType DEF EpInv
<1>3. NotFreedInUse
  BY <1>1 DEF NotFreedInUse
<1> QED
  BY <1>2, <1>3

\* The end of a stream, and the peer's CSM, leave the session in the table.
LEMMA StreamEventStep ==
  ASSUME EpInv, NEW p \in Peers, StreamEvent(p)
  PROVE  EpInv' /\ NotFreedInUse
<1>0. table[p].type # "NONE" /\ UNCHANGED <<proto, lost>> /\ others' \in Nat
  BY DEF StreamEvent, EpInv
<1>1. PICK st \in {"ESTABLISHED", "NONE"} :
        table' = [table EXCEPT ![p].state = st, ![p].queued = st # "NONE" /\ @]
  BY DEF StreamEvent
<1> DEFINE r == [table[p] EXCEPT !.state = st]
           q == st # "NONE" /\ r.queued
           s == [r EXCEPT !.queued = q]
<1>2. r \in SessionRecords /\ r.type = table[p].type
  BY FieldSet DEF EpInv, States
<1>3. table' = [table EXCEPT ![p] = s]
  BY <1>1 DEF EpInv
<1>4. q \in BOOLEAN
  OBVIOUS
<1> HIDE DEF r, q
<1>5. s \in SessionRecords /\ s.type = table[p].type
  BY <1>2, <1>4, FieldSet
<1> QED
  BY <1>0, <1>3, <1>5, OneSession

-----------------------------------------------------------------------------

\* The endpoint starts without sessions.
LEMMA EpInitOK == EpInit => EpInv
  BY NoneType DEF EpInit, EpInv

\* Every operation, and every stuttering step, keeps the invariant and frees no
\* session in use.
LEMMA EpStep ==
  ASSUME EpInv, [EpNext]_epvars
  PROVE  EpInv' /\ NotFreedInUse
<1>0. \A p \in Peers : table[p] \in SessionRecords
  BY DEF EpInv
<1>1. ASSUME NEW p \in Peers, Reference(p) PROVE EpInv' /\ NotFreedInUse
  <2> DEFINE s == [table[p] EXCEPT !.ref = table[p].ref + 1]
  <2>1. table[p].ref + 1 \in Nat
    BY <1>0, Fields
  <2>2. s \in SessionRecords /\ s.type = table[p].type
    BY <1>0, <2>1, FieldSet
  <2>3. table' = [table EXCEPT ![p] = s] /\ UNCHANGED <<proto, lost, others>>
    BY <1>1 DEF Reference, EpInv
  <2> HIDE DEF s
  <2> QED
    BY <2>2, <2>3, OneSession DEF EpInv
<1>2. ASSUME NEW p \in Peers, Release(p) PROVE EpInv' /\ NotFreedInUse
  <2>0. UNCHANGED <<proto, lost, others>> /\ table[p].ref > 0
    BY <1>2 DEF Release
  <2>1. CASE table[p].ref = 1 /\ table[p].type = "CLIENT"
    <3>1. table' = Without(table, {p})
      BY <1>2, <2>1 DEF Release
    <3> QED
      BY <2>0, <2>1, <3>1, TakeOut
  <2>2. CASE ~(table[p].ref = 1 /\ table[p].type = "CLIENT")
    <3> DEFINE s == [table[p] EXCEPT !.ref = table[p].ref - 1]
    <3>1. table[p].ref - 1 \in Nat
      BY <1>0, <2>0, Fields
    <3>2. s \in SessionRecords /\ s.type = table[p].type
      BY <1>0, <3>1, FieldSet
    <3>3. table' = [table EXCEPT ![p] = s]
      BY <1>2, <2>2 DEF Release, EpInv
    <3> HIDE DEF s
    <3> QED
      BY <2>0, <3>2, <3>3, OneSession DEF EpInv
  <2> QED
    BY <2>1, <2>2
<1>3. ASSUME NEW p \in Peers, SetTypeClient(p) PROVE EpInv' /\ NotFreedInUse
  <2> DEFINE r == [table[p] EXCEPT !.type = "CLIENT"]
             n == r.ref + 1
             s == [r EXCEPT !.ref = n]
  <2>1. r \in SessionRecords /\ r.type = "CLIENT"
    BY <1>0, FieldSet DEF Types
  <2>2. table' = [table EXCEPT ![p] = s] /\ UNCHANGED <<proto, lost, others>>
    BY <1>3 DEF SetTypeClient, EpInv
  <2> HIDE DEF r
  <2>3. n \in Nat
    BY <2>1, Fields
  <2> HIDE DEF n
  <2>4. s \in SessionRecords /\ s.type = "CLIENT"
    BY <2>1, <2>3, FieldSet
  <2>5. table[p].type = "SERVER"
    BY <1>3 DEF SetTypeClient
  <2> HIDE DEF s
  <2> QED
    BY <2>2, <2>4, <2>5, OneSession DEF EpInv
<1>4. ASSUME NEW p \in Peers, DelayQueue(p) PROVE EpInv' /\ NotFreedInUse
  <2> DEFINE q == ~table[p].queued
             s == [table[p] EXCEPT !.queued = q]
  <2>1. table' = [table EXCEPT ![p] = s] /\ UNCHANGED <<proto, lost, others>>
    BY <1>4 DEF DelayQueue, EpInv
  <2>2. q \in BOOLEAN
    OBVIOUS
  <2> HIDE DEF q
  <2>3. s \in SessionRecords /\ s.type = table[p].type
    BY <1>0, <2>2, FieldSet
  <2> HIDE DEF s
  <2> QED
    BY <2>1, <2>3, OneSession DEF EpInv
<1>5. ASSUME PrepareIo PROVE EpInv' /\ NotFreedInUse
  <2>1. table' = Without(table, TimedOut) /\ UNCHANGED <<proto, lost, others>>
    BY <1>5 DEF PrepareIo
  <2>2. \A p \in TimedOut : table[p].ref = 0 /\ ~table[p].queued
    BY DEF TimedOut, Idle, Unused
  <2> QED
    BY <2>1, <2>2, TakeOut
<1>6. ASSUME Tick PROVE EpInv' /\ NotFreedInUse
  <2>1. UNCHANGED <<proto, lost, others>>
    BY <1>6 DEF Tick
  <2>2. ASSUME NEW p \in Peers
        PROVE  table'[p] \in SessionRecords /\ table'[p].type = table[p].type
    <3> DEFINE a == IF table[p].age < MaxAge THEN table[p].age + 1 ELSE table[p].age
    <3>1. a \in Nat
      BY <1>0, Fields
    <3>2. table'[p] = IF table[p].type = "NONE" THEN None ELSE [table[p] EXCEPT !.age = a]
      BY <1>0, <1>6 DEF Tick
    <3> HIDE DEF a
    <3>3. [table[p] EXCEPT !.age = a] \in SessionRecords
          /\ [table[p] EXCEPT !.age = a].type = table[p].type
      BY <1>0, <3>1, FieldSet
    <3> QED
      BY <3>2, <3>3, NoneType
  <2>3. table' \in [Peers -> SessionRecords]
    <3>1. table' = [p \in Peers |-> table'[p]]
      BY <1>6 DEF Tick
    <3> QED
      BY <3>1, <2>2
  <2>4. EpInv'
    BY <2>1, <2>2, <2>3 DEF EpInv
  <2> QED
    BY <2>2, <2>4 DEF NotFreedInUse
<1>7. CASE UNCHANGED epvars
  <2>1. UNCHANGED <<proto, table, lost, others>>
    BY <1>7 DEF epvars
  <2> QED
    BY <2>1 DEF EpInv, NotFreedInUse
<1> QED
  BY <1>1, <1>2, <1>3, <1>4, <1>5, <1>6, <1>7, ReadEndpointStep, AcceptEndpointStep,
     StreamEventStep DEF EpNext

\* A session that is referenced, or has messages to send, is not freed by the
\* eviction in coap_endpoint_get_session or the timeout in coap_io_prepare_io: it
\* goes when its last reference is released, or its own packet ends it while it is
\* a hello.
THEOREM BusySessionsKept == EpSpec => BusyNotFreed
<1>1. EpInit => EpInv
  BY EpInitOK
<1>2. EpInv /\ [EpNext]_epvars => EpInv' /\ [NotFreedInUse]_epvars
  BY EpStep
<1>3. NotFreedInUse =>
        \A p \in Peers :
          /\ table[p].type # "NONE" /\ table'[p].type = "NONE" /\ lost' = lost
          => \/ table[p].ref = 0 /\ ~table[p].queued
             \/ table[p].ref = 1 /\ table[p].type = "CLIENT"
             \/ table[p].type = "HELLO"
  BY DEF NotFreedInUse
<1> QED
  BY <1>1, <1>2, <1>3, PTL DEF EpSpec, BusyNotFreed

-----------------------------------------------------------------------------
(* The TLS libraries                                                         *)

TlsEvents == {"CONNECTED", "ERROR", "CLOSED", "RENEGOTIATE"}

TlsRec ==
  [lib : {"OPENSSL", "GNUTLS", "MBEDTLS", "TINYDTLS"}, proto : {"DTLS", "TLS"},
   type : {"CLIENT", "HELLO", "SERVER", "FREED"},
   state : {"NONE", "HANDSHAKE", "CSM", "ESTABLISHED"},
   obj : BOOLEAN, up : BOOLEAN, alert : BOOLEAN,
   held : {"none", "live", "dead"}, listen : {"none", "live", "dead"},
   event : TlsEvents \cup {"none"}, tries : Nat, delayed : BOOLEAN, made : Nat,
   told : [TlsEvents -> 0..2], failed : BOOLEAN, bad : BOOLEAN]

\* An event CLOSED or ERROR has a cause.
Caused(r) == r.event \in {"CLOSED", "ERROR"} => r.failed

\* What a part of a call does.
After(a, b) ==
  /\ b \in TlsRec /\ b.lib = a.lib /\ b.bad = a.bad /\ b.listen = a.listen
  /\ a.failed => b.failed
  /\ b.told["CLOSED"] >= a.told["CLOSED"]
  /\ b.obj => a.obj
  /\ a.obj /\ ~b.obj => b.failed /\ b.told["CLOSED"] > 0
  /\ b.held = a.held \/ b.held = "none"
  /\ a.up => b.up \/ b.held = "none"

\* The state between two calls.
TlsInv ==
  /\ dt \in TlsRec /\ ~dt.bad
  /\ dt.listen # "live" /\ dt.held # "live"
  /\ dt.held # "none" => dt.lib = "OPENSSL" \/ (dt.lib = "GNUTLS" /\ dt.up)

\* An event that is told is counted, twice at most, and an event stays told.
LEMMA Told ==
  ASSUME NEW r \in TlsRec, NEW e \in TlsEvents
  PROVE  /\ After(r, TellEvent(r, e))
         /\ TellEvent(r, e).event = r.event /\ TellEvent(r, e).failed = r.failed
         /\ TellEvent(r, e).obj = r.obj /\ TellEvent(r, e).up = r.up
         /\ TellEvent(r, e).held = r.held /\ TellEvent(r, e).state = r.state
         /\ TellEvent(r, "CLOSED").told["CLOSED"] > 0
BY DEF TlsRec, TlsEvents, TellEvent, After

\* The library fails.
LEMMA FailureIs ==
  ASSUME NEW r \in TlsRec
  PROVE  After(r, Failure(r)) /\ Failure(r).failed = TRUE /\ Failure(r).event = r.event
<1> DEFINE f == Failure(r)
<1>1. f = [r EXCEPT !.failed = TRUE]
  BY DEF Failure
<1>2. f \in TlsRec /\ f.failed = TRUE /\ f.event = r.event /\ f.obj = r.obj
  BY <1>1 DEF TlsRec
<1>3. /\ f.lib = r.lib /\ f.bad = r.bad /\ f.listen = r.listen /\ f.told = r.told
      /\ f.held = r.held /\ f.up = r.up
  BY <1>1 DEF TlsRec
<1>4. r.told["CLOSED"] >= r.told["CLOSED"]
  BY DEF TlsRec, TlsEvents
<1> HIDE DEF f
<1> QED BY <1>2, <1>3, <1>4 DEF After, f

\* Parts of a call follow one another.
LEMMA Trans ==
  ASSUME NEW a \in TlsRec, NEW b, NEW c, After(a, b), After(b, c)
  PROVE  After(a, c)
BY DEF After, TlsRec, TlsEvents

\* What a part of a call leads to is a session.
LEMMA StillTls == \A a, b : After(a, b) => b \in TlsRec
BY DEF After

\* Nothing done is a part of a call.
LEMMA Same ==
  ASSUME NEW r \in TlsRec
  PROVE  After(r, r)
BY DEF TlsRec, After, TlsEvents

\* The event that the end of the call will tell is set.
LEMMA Reset ==
  ASSUME NEW r \in TlsRec, NEW e \in TlsEvents \cup {"none"}
  PROVE  /\ After(r, [r EXCEPT !.event = e]) /\ [r EXCEPT !.event = e].event = e
         /\ [r EXCEPT !.event = e].failed = r.failed
BY DEF TlsRec, After, TlsEvents

\* A failure is seen and the event says which.
LEMMA Blamed ==
  ASSUME NEW r \in TlsRec, NEW e \in TlsEvents \cup {"none"}
  PROVE  LET b == [Failure(r) EXCEPT !.event = e]
         IN  After(r, b) /\ b.event = e /\ b.failed = TRUE /\ Caused(b)
<1> DEFINE f == Failure(r)
           b == [f EXCEPT !.event = e]
<1>1. After(r, f) /\ f.failed = TRUE /\ f \in TlsRec
  BY FailureIs DEF After
<1> HIDE DEF f
<1>2. After(f, b) /\ b.event = e /\ b.failed = TRUE
  BY <1>1, Reset
<1>3. After(r, b)
  BY <1>1, <1>2, Trans
<1>4. Caused(b)
  BY <1>2 DEF Caused
<1> QED BY <1>2, <1>3, <1>4 DEF f

\* The object is freed and nothing is told.
LEMMA NoObjectIs ==
  ASSUME NEW r \in TlsRec
  PROVE  LET b == NoObject(r)
         IN  /\ b \in TlsRec /\ b.lib = r.lib /\ b.bad = r.bad /\ b.listen = r.listen
             /\ b.failed = r.failed /\ b.told = r.told /\ b.obj = FALSE /\ b.held = "none"
             /\ b.event = r.event /\ b.up = FALSE
BY DEF NoObject, TlsRec

\* coap_free_tls() of a session with an object: a failure is behind it, and the
\* close is told.
LEMMA FreeTlsIs ==
  ASSUME NEW r \in TlsRec, r.obj => r.failed
  PROVE  LET b == FreeTls(r)
         IN  After(r, b) /\ b.event = r.event /\ b.failed = r.failed
<1>1. CASE ~r.obj
  <2>1. FreeTls(r) = r
    BY <1>1 DEF FreeTls
  <2> QED BY <2>1, Same
<1>2. CASE r.obj
  <2> DEFINE n == NoObject(r)
             e == "CLOSED"
             b == TellEvent(n, e)
  <2>1. /\ n \in TlsRec /\ n.lib = r.lib /\ n.bad = r.bad /\ n.listen = r.listen
        /\ n.failed = r.failed /\ n.told = r.told /\ n.obj = FALSE /\ n.held = "none"
        /\ n.event = r.event /\ n.up = FALSE
    BY NoObjectIs
  <2>2. e \in TlsEvents
    BY DEF TlsEvents
  <2> HIDE DEF n, e
  <2>3. /\ After(n, b) /\ b.event = n.event /\ b.failed = n.failed
        /\ b.obj = n.obj /\ b.up = n.up /\ b.held = n.held
    BY <2>1, <2>2, Told
  <2>4. b.told["CLOSED"] > 0
    BY <2>1, <2>2, Told DEF e
  <2>5. FreeTls(r) = b
    BY <1>2 DEF FreeTls, n, e
  <2> HIDE DEF b
  <2>6. After(r, b)
    BY <1>2, <2>1, <2>3, <2>4 DEF After
  <2> QED BY <2>1, <2>3, <2>5, <2>6
<1> QED BY <1>1, <1>2 DEF TlsRec

\* The session changes its state, and its delayed messages may go.
LEMMA Moved ==
  ASSUME NEW r \in TlsRec, NEW st \in States, NEW d \in BOOLEAN
  PROVE  LET b == [r EXCEPT !.state = st, !.delayed = d]
             c == [r EXCEPT !.state = st]
         IN  /\ After(r, b) /\ b.event = r.event /\ b.failed = r.failed
             /\ After(r, c) /\ c.event = r.event /\ c.failed = r.failed
<1> DEFINE b == [r EXCEPT !.state = st, !.delayed = d]
           c == [r EXCEPT !.state = st]
<1>1. After(r, c) /\ c.event = r.event /\ c.failed = r.failed
  BY DEF TlsRec, After, TlsEvents, States
<1>2. b \in TlsRec /\ b.event = r.event /\ b.failed = r.failed
  BY DEF TlsRec, States
<1>3. /\ b.lib = r.lib /\ b.bad = r.bad /\ b.listen = r.listen /\ b.told = r.told
      /\ b.held = r.held /\ b.up = r.up /\ b.obj = r.obj
  BY DEF TlsRec
<1>4. r.told["CLOSED"] >= r.told["CLOSED"]
  BY DEF TlsRec, TlsEvents
<1> HIDE DEF b
<1>5. After(r, b)
  BY <1>2, <1>3, <1>4 DEF After
<1> QED BY <1>1, <1>2, <1>5 DEF b

\* coap_session_disconnected() leaves the object to those who free it.
LEMMA DisconnectedIs ==
  ASSUME NEW r \in TlsRec, r.obj => r.failed
  PROVE  LET b == TlsDisconnected(r)
         IN  After(r, b) /\ b.event = r.event /\ b.failed = r.failed
<1> DEFINE f == FreeTls(r)
           st == "NONE"
           d == FALSE
           b == [f EXCEPT !.state = st, !.delayed = d]
<1>1. After(r, f) /\ f.event = r.event /\ f.failed = r.failed /\ f \in TlsRec
  BY FreeTlsIs DEF After
<1>2. st \in States /\ d \in BOOLEAN
  BY DEF States
<1>3. TlsDisconnected(r) = b
  BY DEF TlsDisconnected
<1> HIDE DEF f, st, d
<1>4. After(f, b) /\ b.event = f.event /\ b.failed = f.failed
  BY <1>1, <1>2, Moved
<1> HIDE DEF b
<1>5. After(r, b)
  BY <1>1, <1>4, Trans
<1> QED BY <1>1, <1>3, <1>4, <1>5

\* The end of a call: the event is told, and a closed session freed.
LEMMA ReportIs ==
  ASSUME NEW r \in TlsRec, Caused(r)
  PROVE  LET b == Report(r)
         IN  After(r, b) /\ b.event = r.event /\ b.failed = r.failed /\ Caused(b)
<1>1. CASE r.event = "none"
  BY <1>1, Same DEF Report
<1>2. CASE r.event = "CLOSED"
  <2>1. Report(r) = TlsDisconnected(r)
    BY <1>2 DEF Report
  <2>2. r.failed
    BY <1>2 DEF Caused
  <2> QED BY <2>1, <2>2, DisconnectedIs DEF Caused
<1>3. CASE r.event = "ERROR"
  <2> DEFINE e == "ERROR"
             t == TellEvent(r, e)
  <2>1. Report(r) = TlsDisconnected(t)
    BY <1>3 DEF Report
  <2>2. e \in TlsEvents
    BY DEF TlsEvents
  <2> HIDE DEF e
  <2>3. After(r, t) /\ t.event = r.event /\ t.failed = r.failed /\ t \in TlsRec
    BY <2>2, Told DEF After
  <2>4. r.failed
    BY <1>3 DEF Caused
  <2> HIDE DEF t
  <2> DEFINE b == TlsDisconnected(t)
  <2>5. After(t, b) /\ b.event = t.event /\ b.failed = t.failed
    BY <2>3, <2>4, DisconnectedIs
  <2> HIDE DEF b
  <2>6. After(r, b)
    BY <2>3, <2>5, Trans
  <2> QED BY <2>1, <2>3, <2>5, <2>6 DEF Caused, b
<1>4. CASE r.event \notin {"none", "CLOSED", "ERROR"}
  <2> DEFINE e == r.event
             t == TellEvent(r, e)
  <2>1. Report(r) = t
    BY <1>4 DEF Report
  <2>2. e \in TlsEvents
    BY <1>4 DEF TlsRec
  <2> HIDE DEF e
  <2>3. After(r, t) /\ t.event = r.event /\ t.failed = r.failed
    BY <2>2, Told
  <2> QED BY <2>1, <2>3 DEF Caused
<1> QED BY <1>1, <1>2, <1>3, <1>4

\* The datagram is taken back, the handshake is over.
LEMMA Dropped ==
  ASSUME NEW r \in TlsRec
  PROVE  LET b == [r EXCEPT !.held = "none"]
         IN  After(r, b) /\ b.event = r.event /\ b.failed = r.failed /\ b.held = "none"
BY DEF TlsRec, After, TlsEvents

\* The handshake is over.
LEMMA Upped ==
  ASSUME NEW r \in TlsRec, NEW u \in BOOLEAN, r.up => u
  PROVE  LET b == [r EXCEPT !.up = u]
         IN  /\ After(r, b) /\ b.event = r.event /\ b.failed = r.failed /\ b.held = r.held
             /\ b.up = u
BY DEF TlsRec, After, TlsEvents

\* The library reads what is lent, and not what is gone.
LEMMA ReadIs ==
  ASSUME NEW r \in TlsRec, NEW p, r.held # "dead" \/ p = "no"
  PROVE  ReadDatagram(r, p) = r
<1>1. (r.bad \/ (p # "no" /\ r.held = "dead")) = r.bad
  BY DEF TlsRec
<1>2. ReadDatagram(r, p) = [r EXCEPT !.bad = r.bad]
  BY <1>1 DEF ReadDatagram
<1> QED BY <1>2 DEF TlsRec

\* The read callback of OpenSSL.
LEMMA OpensslDgramReadIs ==
  ASSUME NEW r \in TlsRec, NEW p, r.held # "dead" \/ p = "no"
  PROVE  LET b == OpensslDgramRead(r, p)
         IN  After(r, b) /\ b.event = r.event /\ b.failed = r.failed
BY ReadIs, Same, Dropped DEF OpensslDgramRead

\* The pull function of GnuTLS.
LEMMA GnutlsDgramReadIs ==
  ASSUME NEW r \in TlsRec, NEW p, r.held # "dead" \/ p = "no"
  PROVE  LET b == GnutlsDgramRead(r, p)
         IN  After(r, b) /\ b.event = r.event /\ b.failed = r.failed
<1>1. CASE p = "no" \/ r.held = "none"
  BY <1>1, Same DEF GnutlsDgramRead
<1>2. CASE ~(p = "no" \/ r.held = "none")
  <2>1. GnutlsDgramRead(r, p) = [r EXCEPT !.held = IF p = "all" THEN "none" ELSE r.held]
    BY <1>2, ReadIs DEF GnutlsDgramRead
  <2>2. [r EXCEPT !.held = r.held] = r
    BY DEF TlsRec
  <2>3. CASE p = "all"
    BY <2>1, <2>3, Dropped
  <2>4. CASE p # "all"
    BY <2>1, <2>2, <2>4, Same
  <2> QED BY <2>3, <2>4
<1> QED BY <1>1, <1>2

\* The info callback of OpenSSL blames an alert, and no more.
LEMMA InfoCallbackIs ==
  ASSUME NEW r \in TlsRec, Caused(r), NEW alert \in {"none", "fatal", "renegotiate"}
  PROVE  LET b == InfoCallback(r, alert)
         IN  After(r, b) /\ Caused(b)
<1>1. CASE alert = "none"
  BY <1>1, Same DEF InfoCallback
<1>2. CASE alert = "fatal"
  <2> DEFINE e == "ERROR"
  <2>1. InfoCallback(r, alert) = [Failure(r) EXCEPT !.event = e]
    BY <1>2 DEF InfoCallback
  <2>2. e \in TlsEvents
    BY DEF TlsEvents
  <2> HIDE DEF e
  <2> QED BY <2>1, <2>2, Blamed
<1>3. CASE alert = "renegotiate"
  <2> DEFINE e == "RENEGOTIATE"
             b == [r EXCEPT !.event = e]
  <2>1. InfoCallback(r, alert) = b
    BY <1>3 DEF InfoCallback
  <2>2. e \in TlsEvents /\ e \notin {"CLOSED", "ERROR"}
    BY DEF TlsEvents
  <2> HIDE DEF e
  <2>3. After(r, b) /\ b.event = e
    BY <2>2, Reset
  <2> QED BY <2>1, <2>2, <2>3 DEF Caused
<1> QED BY <1>1, <1>2, <1>3

\* What an error of SSL_read() and the like leads to.
LEMMA SslErrorIs ==
  ASSUME NEW r \in TlsRec, NEW x
  PROVE  LET b == SslError(r, x)
         IN  /\ After(r, b) /\ (Caused(r) => Caused(b))
             /\ x \in SslFails => b.failed = TRUE
<1>1. CASE x = "zero"
  <2> DEFINE e == "CLOSED"
  <2>1. SslError(r, x) = [Failure(r) EXCEPT !.event = e]
    BY <1>1 DEF SslError
  <2>2. e \in TlsEvents
    BY DEF TlsEvents
  <2> HIDE DEF e
  <2> QED BY <2>1, <2>2, Blamed
<1>2. CASE x = "ssl"
  <2> DEFINE e == "ERROR"
  <2>1. SslError(r, x) = [Failure(r) EXCEPT !.event = e]
    BY <1>2 DEF SslError
  <2>2. e \in TlsEvents
    BY DEF TlsEvents
  <2> HIDE DEF e
  <2> QED BY <2>1, <2>2, Blamed
<1>3. CASE x = "syscall"
  <2>1. SslError(r, x) = Failure(r)
    BY <1>3 DEF SslError
  <2> QED BY <2>1, FailureIs DEF Caused
<1>4. CASE x \notin {"zero", "ssl", "syscall"}
  <2>1. SslError(r, x) = r
    BY <1>4 DEF SslError
  <2> QED BY <1>4, <2>1, Same DEF SslFails
<1> QED BY <1>1, <1>2, <1>3, <1>4

\* The event of the last call is forgotten.
LEMMA Cleared ==
  ASSUME NEW r \in TlsRec
  PROVE  LET b == [r EXCEPT !.event = "none"]
         IN  After(r, b) /\ Caused(b) /\ b.failed = r.failed
<1> DEFINE e == "none"
           b == [r EXCEPT !.event = e]
<1>1. e \in TlsEvents \cup {"none"} /\ e \notin {"CLOSED", "ERROR"}
  OBVIOUS
<1> HIDE DEF e
<1>2. After(r, b) /\ b.event = e /\ b.failed = r.failed
  BY <1>1, Reset
<1>3. Caused(b)
  BY <1>1, <1>2 DEF Caused
<1> QED BY <1>2, <1>3 DEF e

\* coap_dtls_send() with OpenSSL.
LEMMA OpensslSendIs ==
  ASSUME NEW r \in TlsRec, NEW x
  PROVE  After(r, OpensslSend(r, x)) /\ Caused(OpensslSend(r, x))
<1> DEFINE a == [r EXCEPT !.event = "none"]
           b == SslError(a, x)
           c == Report(b)
<1>1. After(r, a) /\ Caused(a) /\ a \in TlsRec
  BY Cleared, StillTls
<1> HIDE DEF a
<1>2. After(a, b) /\ Caused(b) /\ b \in TlsRec
  BY <1>1, SslErrorIs, StillTls
<1> HIDE DEF b
<1>3. After(b, c) /\ Caused(c)
  BY <1>2, ReportIs
<1> HIDE DEF c
<1>4. After(r, c)
  BY <1>1, <1>2, <1>3, Trans
<1>5. OpensslSend(r, x) = c
  BY DEF OpensslSend, a, b, c
<1> QED BY <1>3, <1>4, <1>5

\* The session is established, and may hold nothing back any more.
LEMMA EstablishedIs ==
  ASSUME NEW r \in TlsRec
  PROVE  LET b == [r EXCEPT !.state = "ESTABLISHED", !.delayed = FALSE]
             c == [r EXCEPT !.state = "ESTABLISHED"]
         IN  /\ After(r, b) /\ b.event = r.event /\ b.failed = r.failed
             /\ After(r, c) /\ c.event = r.event /\ c.failed = r.failed
<1> DEFINE st == "ESTABLISHED"
           d == FALSE
<1>1. st \in States /\ d \in BOOLEAN
  BY DEF States
<1> HIDE DEF st, d
<1>2. LET b == [r EXCEPT !.state = st, !.delayed = d]
          c == [r EXCEPT !.state = st]
      IN  /\ After(r, b) /\ b.event = r.event /\ b.failed = r.failed
          /\ After(r, c) /\ c.event = r.event /\ c.failed = r.failed
  BY <1>1, Moved
<1> QED BY <1>2 DEF st, d

\* What OpenSSL does for a session that is connected: its queue may be sent.
LEMMA OpensslConnectedIs ==
  ASSUME NEW r \in TlsRec, Caused(r), NEW s
  PROVE  After(r, OpensslConnected(r, s)) /\ Caused(OpensslConnected(r, s))
<1> DEFINE b == [r EXCEPT !.state = "ESTABLISHED", !.delayed = FALSE]
           c == [r EXCEPT !.state = "ESTABLISHED"]
<1>1. /\ After(r, b) /\ b.event = r.event /\ b.failed = r.failed /\ b \in TlsRec
      /\ After(r, c) /\ c.event = r.event /\ c.failed = r.failed
  BY EstablishedIs DEF After
<1>2. OpensslConnected(r, s) = IF r.delayed THEN OpensslSend(b, s) ELSE c
  BY DEF OpensslConnected
<1> HIDE DEF b, c
<1>3. After(b, OpensslSend(b, s)) /\ Caused(OpensslSend(b, s))
  BY <1>1, OpensslSendIs
<1>4. After(r, OpensslSend(b, s))
  BY <1>1, <1>3, Trans
<1>5. Caused(c)
  BY <1>1 DEF Caused
<1> QED BY <1>1, <1>2, <1>3, <1>4, <1>5

\* The application is told that the session is connected.
LEMMA ToldConnected ==
  ASSUME NEW r \in TlsRec, Caused(r)
  PROVE  After(r, TellEvent(r, "CONNECTED")) /\ Caused(TellEvent(r, "CONNECTED"))
<1> DEFINE e == "CONNECTED"
           b == TellEvent(r, e)
<1>1. e \in TlsEvents
  BY DEF TlsEvents
<1> HIDE DEF e
<1>2. After(r, b) /\ b.event = r.event /\ b.failed = r.failed
  BY <1>1, Told
<1>3. Caused(b)
  BY <1>2 DEF Caused
<1> QED BY <1>2, <1>3 DEF e

\* What SSL_read() has done when it returns.
LEMMA OpensslReadIs ==
  ASSUME NEW r \in TlsRec, NEW q \in TlsRec, q = [r EXCEPT !.held = "live", !.event = "none"],
         Caused(q), q.held = "live", NEW p, NEW alert \in {"none", "fatal", "renegotiate"},
         NEW fin \in BOOLEAN
  PROVE  After(q, OpensslRead(r, p, alert, fin)) /\ Caused(OpensslRead(r, p, alert, fin))
<1> DEFINE a == OpensslDgramRead(q, p)
           b == InfoCallback(a, alert)
           u == b.up \/ fin
           c == [b EXCEPT !.up = u]
<1>1. After(q, a) /\ a.event = q.event /\ a.failed = q.failed
  BY OpensslDgramReadIs
<1>2. a \in TlsRec /\ Caused(a)
  BY <1>1 DEF After, Caused
<1>3. OpensslRead(r, p, alert, fin) = c
  BY DEF OpensslRead
<1> HIDE DEF a
<1>4. After(a, b) /\ Caused(b) /\ b \in TlsRec
  BY <1>2, InfoCallbackIs, StillTls
<1> HIDE DEF b
<1>5. u \in BOOLEAN /\ (b.up => u)
  BY <1>4 DEF TlsRec
<1> HIDE DEF u
<1>6. After(b, c) /\ c.event = b.event /\ c.failed = b.failed
  BY <1>4, <1>5, Upped
<1> HIDE DEF c
<1>7. After(q, c) /\ Caused(c)
  BY <1>1, <1>4, <1>6, Trans DEF Caused
<1> QED BY <1>3, <1>7

\* coap_dtls_receive() of OpenSSL, after SSL_read().
LEMMA OpensslReceiveIs ==
  ASSUME NEW t \in TlsRec, Caused(t), NEW r, NEW x, NEW s
  PROVE  After(t, OpensslReceive(t, r, x, s)) /\ OpensslReceive(t, r, x, s).held = "none"
<1> DEFINE c == IF x = "data" THEN OpensslSend(t, s)
                ELSE IF x = "want" /\ t.up /\ ~r.up
                THEN Report(OpensslConnected(TellEvent(t, "CONNECTED"), s))
                ELSE Report(SslError(t, x))
<1>1. After(t, c)
  <2>1. After(t, OpensslSend(t, s))
    BY OpensslSendIs
  <2>2. After(t, Report(OpensslConnected(TellEvent(t, "CONNECTED"), s)))
    <3> DEFINE a == TellEvent(t, "CONNECTED")
               b == OpensslConnected(a, s)
    <3>1. After(t, a) /\ Caused(a) /\ a \in TlsRec
      BY ToldConnected, StillTls
    <3> HIDE DEF a
    <3>2. After(a, b) /\ Caused(b) /\ b \in TlsRec
      BY <3>1, OpensslConnectedIs, StillTls
    <3> HIDE DEF b
    <3>3. After(b, Report(b))
      BY <3>2, ReportIs
    <3>4. After(t, Report(b))
      BY <3>1, <3>2, <3>3, Trans
    <3> QED BY <3>4 DEF a, b
  <2>3. After(t, Report(SslError(t, x)))
    <3> DEFINE a == SslError(t, x)
    <3>1. After(t, a) /\ Caused(a) /\ a \in TlsRec
      BY SslErrorIs, StillTls
    <3> HIDE DEF a
    <3>2. After(a, Report(a))
      BY <3>1, ReportIs
    <3>3. After(t, Report(a))
      BY <3>1, <3>2, Trans
    <3> QED BY <3>3 DEF a
  <2> QED BY <2>1, <2>2, <2>3
<1>2. OpensslReceive(t, r, x, s) = [c EXCEPT !.held = "none"]
  BY DEF OpensslReceive
<1> HIDE DEF c
<1>3. c \in TlsRec
  BY <1>1, StillTls
<1> DEFINE d == [c EXCEPT !.held = "none"]
<1>4. After(c, d) /\ d.held = "none"
  BY <1>3, Dropped
<1> HIDE DEF d
<1>5. After(t, d)
  BY <1>1, <1>4, Trans
<1> QED BY <1>2, <1>4, <1>5 DEF d

-----------------------------------------------------------------------------
(* GnuTLS                                                                  *)

\* The session remembers that an alert was sent.
LEMMA Alerted ==
  ASSUME NEW r \in TlsRec, NEW a \in BOOLEAN
  PROVE  LET b == [r EXCEPT !.alert = a]
         IN  After(r, b) /\ b.event = r.event /\ b.failed = r.failed
BY DEF TlsRec, After, TlsEvents

\* do_gnutls_handshake(): every result but progress is a failure.
LEMMA GnutlsHandshakeIs ==
  ASSUME NEW r \in TlsRec, NEW h \in GnutlsResults, NEW p, r.held # "dead" \/ p = "no"
  PROVE  LET b == GnutlsHandshake(r, h, p)
         IN  /\ After(r, b) /\ (Caused(r) => Caused(b))
             /\ h \notin {"done", "again"} => b.failed = TRUE
<1> DEFINE q == GnutlsDgramRead(r, p)
           b == GnutlsHandshake(r, h, p)
<1>1. After(r, q) /\ q.event = r.event /\ q.failed = r.failed
  BY GnutlsDgramReadIs
<1>2. q \in TlsRec /\ (Caused(r) => Caused(q))
  BY <1>1 DEF After, Caused
<1>3. CASE h = "done"
  <2> DEFINE u == TRUE
             c == [q EXCEPT !.up = u]
  <2>1. b = c
    BY <1>3 DEF GnutlsHandshake
  <2>2. u \in BOOLEAN /\ (q.up => u)
    OBVIOUS
  <2> HIDE DEF u, q, b
  <2>3. After(q, c) /\ c.event = q.event /\ c.failed = q.failed
    BY <1>2, <2>2, Upped
  <2> HIDE DEF c
  <2>4. After(r, c) /\ (Caused(r) => Caused(c))
    BY <1>1, <1>2, <2>3, Trans DEF Caused
  <2> QED BY <1>3, <2>1, <2>4 DEF b
<1>4. CASE h = "again"
  <2>1. b = q
    BY <1>4 DEF GnutlsHandshake
  <2> QED BY <1>1, <1>2, <1>4, <2>1
<1>5. ASSUME NEW e \in TlsEvents
      PROVE  LET c == [Failure(q) EXCEPT !.event = e]
             IN  After(r, c) /\ Caused(c) /\ c.failed = TRUE /\ c \in TlsRec
  <2> DEFINE c == [Failure(q) EXCEPT !.event = e]
  <2> HIDE DEF q
  <2>1. After(q, c) /\ Caused(c) /\ c.failed = TRUE
    BY <1>2, Blamed
  <2> HIDE DEF c
  <2>2. After(r, c) /\ c \in TlsRec
    BY <1>1, <2>1, Trans, StillTls
  <2> QED BY <2>1, <2>2 DEF c
<1>6. "ERROR" \in TlsEvents /\ "CLOSED" \in TlsEvents
  BY DEF TlsEvents
<1>7. CASE h = "warning"
  <2> DEFINE e == "ERROR"
  <2>1. b = [Failure(q) EXCEPT !.event = e]
    BY <1>7 DEF GnutlsHandshake
  <2>2. e \in TlsEvents
    BY <1>6
  <2> HIDE DEF e, q
  <2> QED BY <1>5, <2>1, <2>2
<1>8. CASE h = "closed"
  <2> DEFINE e == "CLOSED"
  <2>1. b = [Failure(q) EXCEPT !.event = e]
    BY <1>8 DEF GnutlsHandshake
  <2>2. e \in TlsEvents
    BY <1>6
  <2> HIDE DEF e, q
  <2> QED BY <1>5, <2>1, <2>2
<1>9. CASE h \in {"alert", "refused"}
  <2> DEFINE e == "CLOSED"
             c == [Failure(q) EXCEPT !.event = e]
             a == TRUE
             d == [c EXCEPT !.alert = a]
  <2>1. b = d
    BY <1>9 DEF GnutlsHandshake
  <2>2. e \in TlsEvents /\ a \in BOOLEAN
    BY <1>6
  <2> HIDE DEF e, q, a
  <2>3. After(r, c) /\ Caused(c) /\ c.failed = TRUE /\ c \in TlsRec
    BY <1>5, <2>2
  <2> HIDE DEF c
  <2>4. After(c, d) /\ d.event = c.event /\ d.failed = c.failed
    BY <2>2, <2>3, Alerted
  <2> HIDE DEF d
  <2>5. After(r, d)
    BY <2>3, <2>4, Trans
  <2>6. Caused(d) /\ d.failed = TRUE
    BY <2>3, <2>4 DEF Caused
  <2> QED BY <2>1, <2>5, <2>6
<1>10. CASE h = "other"
  <2> DEFINE c == Failure(q)
  <2>1. b = c
    BY <1>10 DEF GnutlsHandshake
  <2> HIDE DEF q
  <2>2. After(q, c) /\ c.failed = TRUE
    BY <1>2, FailureIs
  <2> HIDE DEF c
  <2>3. After(r, c) /\ Caused(c)
    BY <1>1, <2>2, Trans DEF Caused
  <2> QED BY <2>1, <2>2, <2>3
<1> QED BY <1>3, <1>4, <1>7, <1>8, <1>9, <1>10 DEF GnutlsResults

\* A session whose library has failed is disconnected.
LEMMA GivenUp ==
  ASSUME NEW r \in TlsRec, NEW b, After(r, b), b.failed = TRUE
  PROVE  After(r, TlsDisconnected(b)) /\ Caused(TlsDisconnected(b))
<1>1. b \in TlsRec
  BY DEF After
<1> DEFINE d == TlsDisconnected(b)
<1>2. After(b, d) /\ d.failed = TRUE
  BY <1>1, DisconnectedIs
<1> HIDE DEF d
<1>3. After(r, d) /\ Caused(d)
  BY <1>2, Trans DEF Caused
<1> QED BY <1>3 DEF d

\* coap_dtls_send() with GnuTLS.
LEMMA GnutlsSendIs ==
  ASSUME NEW r \in TlsRec, NEW x
  PROVE  After(r, GnutlsSend(r, x)) /\ Caused(GnutlsSend(r, x))
<1>1. CASE x \in {"ok", "want"}
  <2>1. GnutlsSend(r, x) = [r EXCEPT !.event = "none"]
    BY <1>1 DEF GnutlsSend
  <2> QED BY <2>1, Cleared
<1>2. CASE x = "zero"
  <2> DEFINE e == "CLOSED"
             b == [Failure(r) EXCEPT !.event = e]
             c == TellEvent(b, e)
  <2>1. GnutlsSend(r, x) = TlsDisconnected(c)
    BY <1>2 DEF GnutlsSend
  <2>2. e \in TlsEvents
    BY DEF TlsEvents
  <2> HIDE DEF e
  <2>3. After(r, b) /\ b.failed = TRUE /\ b \in TlsRec
    BY <2>2, Blamed DEF After
  <2> HIDE DEF b
  <2>4. After(b, c) /\ c.failed = TRUE
    BY <2>2, <2>3, Told
  <2> HIDE DEF c
  <2>5. After(r, c)
    BY <2>3, <2>4, Trans
  <2> QED BY <2>1, <2>4, <2>5, GivenUp
<1>3. CASE x \notin {"ok", "want", "zero"}
  <2> DEFINE e == "none"
  <2>1. GnutlsSend(r, x) = [Failure(r) EXCEPT !.event = e]
    BY <1>3 DEF GnutlsSend
  <2>2. e \in TlsEvents \cup {"none"}
    OBVIOUS
  <2> HIDE DEF e
  <2> QED BY <2>1, <2>2, Blamed
<1> QED BY <1>1, <1>2, <1>3

\* What GnuTLS does for a session that is connected.
LEMMA GnutlsConnectedIs ==
  ASSUME NEW r \in TlsRec, Caused(r), NEW s
  PROVE  After(r, GnutlsConnected(r, s)) /\ Caused(GnutlsConnected(r, s))
<1> DEFINE b == [r EXCEPT !.state = "ESTABLISHED", !.delayed = FALSE]
           c == [r EXCEPT !.state = "ESTABLISHED"]
<1>1. /\ After(r, b) /\ b.event = r.event /\ b.failed = r.failed /\ b \in TlsRec
      /\ After(r, c) /\ c.event = r.event /\ c.failed = r.failed
  BY EstablishedIs DEF After
<1>2. GnutlsConnected(r, s) = IF r.delayed THEN GnutlsSend(b, s) ELSE c
  BY DEF GnutlsConnected
<1> HIDE DEF b, c
<1>3. After(b, GnutlsSend(b, s)) /\ Caused(GnutlsSend(b, s))
  BY <1>1, GnutlsSendIs
<1>4. After(r, GnutlsSend(b, s))
  BY <1>1, <1>3, Trans
<1>5. Caused(c)
  BY <1>1 DEF Caused
<1> QED BY <1>1, <1>2, <1>3, <1>4, <1>5

\* A datagram of the handshake, and the handshake once more.
LEMMA GnutlsContinueIs ==
  ASSUME NEW r \in TlsRec, Caused(r), r.held # "dead", NEW h \in GnutlsResults, NEW p,
         NEW h2 \in GnutlsResults, NEW p2, NEW s
  PROVE  LET b == GnutlsContinue(r, h, p, h2, p2, s)
         IN  After(r, b) /\ Caused(b)
<1> DEFINE t == GnutlsHandshake(r, h, p)
           u == GnutlsHandshake(t, h2, p2)
<1>1. After(r, t) /\ Caused(t) /\ t \in TlsRec
  BY GnutlsHandshakeIs, StillTls
<1>2. GnutlsContinue(r, h, p, h2, p2, s) =
        IF h = "done" THEN GnutlsConnected(t, s)
        ELSE IF t.held = "none" \/ t.alert THEN t
        ELSE IF h2 = "done" THEN GnutlsConnected(u, s) ELSE u
  BY DEF GnutlsContinue
<1>3. t.held # "dead"
  BY <1>1 DEF After
<1> HIDE DEF t
<1>4a. After(t, u) /\ Caused(u)
  BY ONLY <1>1, <1>3, GnutlsHandshakeIs, h2 \in GnutlsResults
<1> HIDE DEF u
<1>4. After(t, u) /\ Caused(u) /\ u \in TlsRec
  BY <1>4a, StillTls
<1>5. After(t, GnutlsConnected(t, s)) /\ Caused(GnutlsConnected(t, s))
  BY <1>1, GnutlsConnectedIs
<1>6. After(u, GnutlsConnected(u, s)) /\ Caused(GnutlsConnected(u, s))
  BY <1>4, GnutlsConnectedIs
<1>7. After(r, u)
  BY <1>1, <1>4, Trans
<1>8. After(r, GnutlsConnected(t, s)) /\ After(r, GnutlsConnected(u, s))
  BY <1>1, <1>5, <1>6, <1>7, Trans
<1> QED BY <1>1, <1>2, <1>4, <1>5, <1>6, <1>7, <1>8

\* gnutls_record_recv() once the handshake is over.
LEMMA GnutlsRecvIs ==
  ASSUME NEW r \in TlsRec, Caused(r), r.held # "dead", NEW x, NEW p, NEW s
  PROVE  After(r, GnutlsRecv(r, x, p, s))
<1> DEFINE q == GnutlsDgramRead(r, p)
           g == GnutlsRecv(r, x, p, s)
<1>1. After(r, q) /\ q.event = r.event /\ q.failed = r.failed
  BY GnutlsDgramReadIs
<1>2. q \in TlsRec /\ Caused(q)
  BY <1>1 DEF After, Caused
<1>3. "ERROR" \in TlsEvents /\ "CLOSED" \in TlsEvents
  BY DEF TlsEvents
<1>4. ASSUME NEW e \in TlsEvents
      PROVE  After(r, Report([Failure(q) EXCEPT !.event = e]))
  <2> DEFINE c == [Failure(q) EXCEPT !.event = e]
  <2> HIDE DEF q
  <2>0. After(q, c) /\ Caused(c)
    BY <1>2, Blamed
  <2> HIDE DEF c
  <2>1. After(q, c) /\ Caused(c) /\ c \in TlsRec
    BY <2>0, StillTls
  <2>2. After(c, Report(c))
    BY <2>1, ReportIs
  <2>3. After(r, Report(c))
    BY <1>1, <2>1, <2>2, Trans
  <2> QED BY <2>3 DEF c
<1>5. CASE x = "data"
  <2>1. g = GnutlsSend(q, s)
    BY <1>5 DEF GnutlsRecv
  <2> HIDE DEF q, g
  <2> QED BY <1>1, <1>2, <2>1, GnutlsSendIs, Trans DEF g
<1>6. CASE x = "zero"
  <2> DEFINE e == "CLOSED"
  <2>1. g = Report([Failure(q) EXCEPT !.event = e])
    BY <1>6 DEF GnutlsRecv
  <2> HIDE DEF e, q
  <2> QED BY <1>3, <1>4, <2>1 DEF e
<1>7. CASE x = "warning"
  <2> DEFINE e == "ERROR"
  <2>1. g = Report([Failure(q) EXCEPT !.event = e])
    BY <1>7 DEF GnutlsRecv
  <2> HIDE DEF e, q
  <2> QED BY <1>3, <1>4, <2>1 DEF e
<1>8. CASE x \notin {"data", "zero", "warning"}
  <2>1. g = Report(q)
    BY <1>8 DEF GnutlsRecv
  <2> HIDE DEF q, g
  <2>2. After(q, Report(q))
    BY <1>2, ReportIs
  <2> QED BY <1>1, <2>1, <2>2, Trans DEF g
<1> QED BY <1>5, <1>6, <1>7, <1>8

\* A retransmission is counted.
LEMMA Retried ==
  ASSUME NEW r \in TlsRec, NEW n \in Nat
  PROVE  LET b == [r EXCEPT !.tries = n]
         IN  /\ After(r, b) /\ b.event = r.event /\ b.failed = r.failed /\ b.held = r.held
             /\ b.tries = n
BY DEF TlsRec, After, TlsEvents

\* A timer fires: OpenSSL.
LEMMA OpensslTimeoutIs ==
  ASSUME NEW r \in TlsRec, NEW ok
  PROVE  After(r, OpensslTimeout(r, ok))
<1> DEFINE n == r.tries + 1
           t == [r EXCEPT !.tries = n]
<1>1. n \in Nat
  BY DEF TlsRec
<1>2. OpensslTimeout(r, ok) = IF t.tries > TlsMaxRetransmit \/ ~ok
                              THEN TlsDisconnected(Failure(t)) ELSE t
  BY DEF OpensslTimeout
<1> HIDE DEF n
<1>3. After(r, t) /\ t \in TlsRec
  BY <1>1, Retried, StillTls
<1> HIDE DEF t
<1>4. After(r, Failure(t)) /\ Failure(t).failed = TRUE
  BY <1>3, FailureIs, Trans
<1>5. After(r, TlsDisconnected(Failure(t)))
  BY <1>4, GivenUp
<1> QED BY <1>2, <1>3, <1>5

\* coap_dtls_handle_timeout() with GnuTLS.
LEMMA GnutlsTimeoutIs ==
  ASSUME NEW r \in TlsRec, r.held # "dead", NEW h \in GnutlsResults, NEW p
  PROVE  After(r, GnutlsTimeout(r, h, p))
<1> DEFINE n == IF r.tries > TlsMaxRetransmit THEN r.tries ELSE r.tries + 1
           t == [r EXCEPT !.tries = n]
           g == GnutlsHandshake(t, h, p)
<1>1. n \in Nat
  BY DEF TlsRec
<1>2. GnutlsTimeout(r, h, p) =
        IF t.tries > TlsMaxRetransmit THEN TlsDisconnected(Failure(t))
        ELSE IF h \in {"done", "again", "warning"} THEN g ELSE TlsDisconnected(g)
  BY DEF GnutlsTimeout
<1> HIDE DEF n
<1>3. After(r, t) /\ t \in TlsRec /\ t.held = r.held
  BY <1>1, Retried DEF After
<1> HIDE DEF t
<1>4. After(r, Failure(t)) /\ Failure(t).failed = TRUE
  BY <1>3, FailureIs, Trans
<1>5. After(r, TlsDisconnected(Failure(t)))
  BY <1>4, GivenUp
<1>6. After(t, g) /\ (h \notin {"done", "again"} => g.failed = TRUE)
  BY <1>3, GnutlsHandshakeIs
<1> HIDE DEF g
<1>7. After(r, g)
  BY <1>3, <1>6, Trans
<1>8. h \notin {"done", "again"} => After(r, TlsDisconnected(g))
  BY <1>6, <1>7, GivenUp
<1> QED BY <1>2, <1>5, <1>7, <1>8

\* A call begins: the datagram is lent, the last event forgotten.
LEMMA BegunIs ==
  ASSUME NEW r \in TlsRec
  PROVE  LET q == [r EXCEPT !.held = "live", !.event = "none"]
         IN  /\ q \in TlsRec /\ q.held = "live" /\ Caused(q) /\ q.lib = r.lib
             /\ q.bad = r.bad /\ q.listen = r.listen /\ q.obj = r.obj /\ q.up = r.up
             /\ q.failed = r.failed
<1> DEFINE q == [r EXCEPT !.held = "live", !.event = "none"]
<1>1. q \in TlsRec /\ q.held = "live" /\ q.event = "none"
  BY DEF TlsRec
<1>2. /\ q.lib = r.lib /\ q.bad = r.bad /\ q.listen = r.listen /\ q.obj = r.obj
      /\ q.up = r.up /\ q.failed = r.failed
  BY DEF TlsRec
<1>3. Caused(q)
  BY <1>1 DEF Caused
<1> QED BY <1>1, <1>2, <1>3

\* coap_dtls_receive() with GnuTLS: a datagram is left only after the handshake.
LEMMA GnutlsReceiveIs ==
  ASSUME NEW r \in TlsRec, NEW q \in TlsRec, q = [r EXCEPT !.held = "live", !.event = "none"],
         Caused(q), q.held = "live", NEW h \in GnutlsResults, NEW p,
         NEW h2 \in GnutlsResults, NEW p2, NEW x, NEW s
  PROVE  LET b == GnutlsReceive(r, h, p, h2, p2, x, s)
         IN  After(q, b) /\ (b.held = "none" \/ b.up)
<1> DEFINE e == IF q.state = "HANDSHAKE" THEN GnutlsConnected(TellEvent(q, "CONNECTED"), s) ELSE q
           g == GnutlsRecv(e, x, p, s)
           k == Report(GnutlsContinue(q, h, p, h2, p2, s))
           b == GnutlsReceive(r, h, p, h2, p2, x, s)
<1>1. b = IF q.up /\ x = "data" THEN g
          ELSE IF q.up THEN [g EXCEPT !.held = "none"]
          ELSE [k EXCEPT !.held = "none"]
  BY DEF GnutlsReceive
<1>2. After(q, e) /\ Caused(e) /\ e \in TlsRec
  <2> DEFINE c == TellEvent(q, "CONNECTED")
             d == GnutlsConnected(c, s)
  <2>1. After(q, c) /\ Caused(c) /\ c \in TlsRec
    BY ToldConnected, StillTls
  <2> HIDE DEF c
  <2>2. After(c, d) /\ Caused(d)
    BY <2>1, GnutlsConnectedIs
  <2> HIDE DEF d
  <2>3. After(q, d) /\ d \in TlsRec
    BY <2>1, <2>2, Trans, StillTls
  <2>4. e = IF q.state = "HANDSHAKE" THEN d ELSE q
    BY DEF c, d
  <2> QED BY <2>2, <2>3, <2>4, Same
<1>3. e.held # "dead"
  BY <1>2 DEF After
<1> HIDE DEF e, b
<1>4. After(e, g)
  BY <1>2, <1>3, GnutlsRecvIs
<1> HIDE DEF g
<1>5. After(q, g) /\ g \in TlsRec
  BY <1>2, <1>4, Trans, StillTls
<1>6. After(q, k) /\ k \in TlsRec
  <2> DEFINE c == GnutlsContinue(q, h, p, h2, p2, s)
  <2>1. After(q, c) /\ Caused(c)
    <3>1. q.held # "dead"
      OBVIOUS
    <3> QED BY ONLY <3>1, GnutlsContinueIs, q \in TlsRec, Caused(q), h \in GnutlsResults,
               h2 \in GnutlsResults
  <2>2. c \in TlsRec
    BY <2>1, StillTls
  <2> HIDE DEF c
  <2>3. After(c, Report(c))
    BY <2>1, <2>2, ReportIs
  <2>5. After(q, Report(c))
    BY <2>1, <2>3, Trans
  <2>4. After(q, Report(c)) /\ Report(c) \in TlsRec
    BY <2>5, StillTls
  <2> QED BY <2>4 DEF c
<1> HIDE DEF k
<1>7. ASSUME NEW c \in TlsRec, After(q, c)
      PROVE  LET d == [c EXCEPT !.held = "none"] IN After(q, d) /\ d.held = "none"
  <2> DEFINE d == [c EXCEPT !.held = "none"]
  <2>1. After(c, d) /\ d.held = "none"
    BY Dropped
  <2> HIDE DEF d
  <2>2. After(q, d)
    BY <1>7, <2>1, Trans
  <2> QED BY <2>1, <2>2 DEF d
<1>8. CASE q.up /\ x = "data"
  <2>1. b = g
    BY <1>1, <1>8
  <2>2. g.held = "none" \/ g.up
    BY <1>5, <1>8 DEF After
  <2> QED BY <1>5, <2>1, <2>2 DEF b
<1>9. CASE q.up /\ x # "data"
  <2>1. b = [g EXCEPT !.held = "none"]
    BY <1>1, <1>9
  <2> QED BY <1>5, <1>7, <2>1 DEF b
<1>10. CASE ~q.up
  <2>1. b = [k EXCEPT !.held = "none"]
    BY <1>1, <1>10
  <2> QED BY <1>6, <1>7, <2>1 DEF b
<1> QED BY <1>8, <1>9, <1>10

-----------------------------------------------------------------------------
(* mbed TLS                                                                *)

\* do_mbedtls_handshake(): every result but progress is a failure.
LEMMA MbedtlsHandshakeIs ==
  ASSUME NEW r \in TlsRec, NEW h \in MbedtlsResults, NEW p, r.held # "dead" \/ p = "no"
  PROVE  LET b == MbedtlsHandshake(r, h, p)
         IN  After(r, b) /\ (Caused(r) => Caused(b))
<1> DEFINE q == MbedtlsDgramRead(r, p)
           b == MbedtlsHandshake(r, h, p)
<1>1. After(r, q) /\ q.event = r.event /\ q.failed = r.failed
  BY GnutlsDgramReadIs DEF MbedtlsDgramRead
<1>2. q \in TlsRec /\ (Caused(r) => Caused(q))
  BY <1>1 DEF After, Caused
<1>3. CASE h = "done"
  <2> DEFINE u == TRUE
             c == [q EXCEPT !.up = u]
  <2>1. b = c
    BY <1>3 DEF MbedtlsHandshake
  <2>2. u \in BOOLEAN /\ (q.up => u)
    OBVIOUS
  <2> HIDE DEF u, q, b
  <2>3. After(q, c) /\ c.event = q.event /\ c.failed = q.failed
    BY <1>2, <2>2, Upped
  <2> HIDE DEF c
  <2>4. After(r, c) /\ (Caused(r) => Caused(c))
    BY <1>1, <1>2, <2>3, Trans DEF Caused
  <2> QED BY <2>1, <2>4 DEF b
<1>4. CASE h \in {"again", "verify"}
  <2>1. b = q
    BY <1>4 DEF MbedtlsHandshake
  <2> QED BY <1>1, <1>2, <2>1
<1>5. ASSUME NEW e \in TlsEvents
      PROVE  LET c == [Failure(q) EXCEPT !.event = e] IN After(r, c) /\ Caused(c)
  <2> DEFINE c == [Failure(q) EXCEPT !.event = e]
  <2> HIDE DEF q
  <2>1. After(q, c) /\ Caused(c)
    BY <1>2, Blamed
  <2> HIDE DEF c
  <2>2. After(r, c)
    BY <1>1, <2>1, Trans
  <2> QED BY <2>1, <2>2 DEF c
<1>6. CASE h = "fail"
  <2> DEFINE e == "ERROR"
  <2>1. b = [Failure(q) EXCEPT !.event = e]
    BY <1>6 DEF MbedtlsHandshake
  <2>2. e \in TlsEvents
    BY DEF TlsEvents
  <2> HIDE DEF e, q
  <2> QED BY <1>5, <2>1, <2>2
<1>7. CASE h = "closed"
  <2> DEFINE e == "CLOSED"
  <2>1. b = [Failure(q) EXCEPT !.event = e]
    BY <1>7 DEF MbedtlsHandshake
  <2>2. e \in TlsEvents
    BY DEF TlsEvents
  <2> HIDE DEF e, q
  <2> QED BY <1>5, <2>1, <2>2
<1>8. CASE h = "other"
  <2> DEFINE c == Failure(q)
  <2>1. b = c
    BY <1>8 DEF MbedtlsHandshake
  <2> HIDE DEF q
  <2>2. After(q, c) /\ c.failed = TRUE
    BY <1>2, FailureIs
  <2> HIDE DEF c
  <2>3. After(r, c) /\ Caused(c)
    BY <1>1, <2>2, Trans DEF Caused
  <2> QED BY <2>1, <2>3
<1> QED BY <1>3, <1>4, <1>6, <1>7, <1>8 DEF MbedtlsResults

\* coap_dtls_send() with Mbed TLS.
LEMMA MbedtlsSendIs ==
  ASSUME NEW r \in TlsRec, NEW x
  PROVE  After(r, MbedtlsSend(r, x)) /\ Caused(MbedtlsSend(r, x))
<1> DEFINE e == IF x = "zero" THEN "CLOSED" ELSE "none"
           a == [r EXCEPT !.event = "none"]
           f == [Failure(r) EXCEPT !.event = e]
           c == IF x \in {"ok", "want"} THEN a ELSE f
<1>1. MbedtlsSend(r, x) = Report(c)
  BY DEF MbedtlsSend
<1>2. e \in TlsEvents \cup {"none"}
  BY DEF TlsEvents
<1>3. After(r, a) /\ Caused(a)
  BY Cleared
<1> HIDE DEF e, a
<1>4. After(r, f) /\ Caused(f)
  BY <1>2, Blamed
<1> HIDE DEF f
<1>5. After(r, c) /\ Caused(c) /\ c \in TlsRec
  BY <1>3, <1>4, StillTls
<1> HIDE DEF c
<1>6. After(c, Report(c)) /\ Caused(Report(c))
  BY <1>5, ReportIs
<1>7. After(r, Report(c))
  BY <1>5, <1>6, Trans
<1> QED BY <1>1, <1>6, <1>7

\* What Mbed TLS does for a session that is connected.
LEMMA MbedtlsConnectedIs ==
  ASSUME NEW r \in TlsRec, Caused(r), NEW s
  PROVE  After(r, MbedtlsConnected(r, s)) /\ Caused(MbedtlsConnected(r, s))
<1> DEFINE b == [r EXCEPT !.state = "ESTABLISHED", !.delayed = FALSE]
           c == [r EXCEPT !.state = "ESTABLISHED"]
<1>1. /\ After(r, b) /\ b.event = r.event /\ b.failed = r.failed /\ b \in TlsRec
      /\ After(r, c) /\ c.event = r.event /\ c.failed = r.failed
  BY EstablishedIs DEF After
<1>2. MbedtlsConnected(r, s) = IF r.delayed THEN MbedtlsSend(b, s) ELSE c
  BY DEF MbedtlsConnected
<1> HIDE DEF b, c
<1>3. After(b, MbedtlsSend(b, s)) /\ Caused(MbedtlsSend(b, s))
  BY <1>1, MbedtlsSendIs
<1>4. After(r, MbedtlsSend(b, s))
  BY <1>1, <1>3, Trans
<1>5. Caused(c)
  BY <1>1 DEF Caused
<1> QED BY <1>1, <1>2, <1>3, <1>4, <1>5

\* coap_dtls_handle_timeout() with Mbed TLS.
LEMMA MbedtlsTimeoutIs ==
  ASSUME NEW r \in TlsRec, r.held # "dead", NEW h \in MbedtlsResults, NEW p
  PROVE  After(r, MbedtlsTimeout(r, h, p))
<1> DEFINE n == IF r.tries > TlsMaxRetransmit THEN r.tries ELSE r.tries + 1
           t == [r EXCEPT !.tries = n]
           g == MbedtlsHandshake(t, h, p)
<1>1. n \in Nat
  BY DEF TlsRec
<1>2. MbedtlsTimeout(r, h, p) =
        IF t.tries > TlsMaxRetransmit THEN TlsDisconnected(Failure(t))
        ELSE IF h \in {"done", "again"} THEN g ELSE TlsDisconnected(Failure(g))
  BY DEF MbedtlsTimeout
<1> HIDE DEF n
<1>3. After(r, t) /\ t \in TlsRec /\ t.held = r.held
  BY <1>1, Retried DEF After
<1> HIDE DEF t
<1>4. After(r, Failure(t)) /\ Failure(t).failed = TRUE
  BY <1>3, FailureIs, Trans
<1>5. After(r, TlsDisconnected(Failure(t)))
  BY <1>4, GivenUp
<1>6. After(t, g)
  BY <1>3, MbedtlsHandshakeIs
<1> HIDE DEF g
<1>7. After(r, g) /\ g \in TlsRec
  BY <1>3, <1>6, Trans, StillTls
<1>8. After(r, Failure(g)) /\ Failure(g).failed = TRUE
  BY <1>7, FailureIs, Trans
<1>9. After(r, TlsDisconnected(Failure(g)))
  BY <1>8, GivenUp
<1> QED BY <1>2, <1>5, <1>7, <1>9

\* A datagram of the handshake, and the handshake once more.
LEMMA MbedtlsContinueIs ==
  ASSUME NEW r \in TlsRec, Caused(r), r.held # "dead", NEW h \in MbedtlsResults, NEW p,
         NEW h2 \in MbedtlsResults, NEW p2, NEW s
  PROVE  LET b == MbedtlsContinue(r, h, p, h2, p2, s)
         IN  After(r, b) /\ Caused(b)
<1> DEFINE t == MbedtlsHandshake(r, h, p)
           u == MbedtlsHandshake(t, h2, p2)
<1>1. After(r, t) /\ Caused(t) /\ t \in TlsRec
  BY MbedtlsHandshakeIs, StillTls
<1>2. MbedtlsContinue(r, h, p, h2, p2, s) =
        IF h = "done" THEN MbedtlsConnected(t, s)
        ELSE IF t.held = "none" THEN t
        ELSE IF h2 = "done" THEN MbedtlsConnected(u, s) ELSE u
  BY DEF MbedtlsContinue
<1>3. t.held # "dead"
  BY <1>1 DEF After
<1> HIDE DEF t
<1>4. After(t, u) /\ Caused(u) /\ u \in TlsRec
  BY <1>1, <1>3, MbedtlsHandshakeIs, StillTls
<1> HIDE DEF u
<1>5. After(t, MbedtlsConnected(t, s)) /\ Caused(MbedtlsConnected(t, s))
  BY <1>1, MbedtlsConnectedIs
<1>6. After(u, MbedtlsConnected(u, s)) /\ Caused(MbedtlsConnected(u, s))
  BY <1>4, MbedtlsConnectedIs
<1>7. After(r, u)
  BY <1>1, <1>4, Trans
<1>8. After(r, MbedtlsConnected(t, s)) /\ After(r, MbedtlsConnected(u, s))
  BY <1>1, <1>5, <1>6, <1>7, Trans
<1> QED BY <1>1, <1>2, <1>4, <1>5, <1>6, <1>7, <1>8

\* What follows a call's last part, and the datagram taken back.
LEMMA TakenBack ==
  ASSUME NEW q \in TlsRec, NEW c, After(q, c)
  PROVE  LET d == [c EXCEPT !.held = "none"] IN After(q, d) /\ d.held = "none"
<1> DEFINE d == [c EXCEPT !.held = "none"]
<1>1. c \in TlsRec
  BY DEF After
<1>2. After(c, d) /\ d.held = "none"
  BY <1>1, Dropped
<1> HIDE DEF d
<1>3. After(q, d)
  BY <1>2, Trans
<1> QED BY <1>2, <1>3 DEF d

\* The event of a part of a call is reported.
LEMMA Reported ==
  ASSUME NEW q \in TlsRec, NEW c, After(q, c), Caused(c)
  PROVE  After(q, Report(c)) /\ Caused(Report(c)) /\ (c.failed = TRUE => Report(c).failed = TRUE)
<1>1. c \in TlsRec
  BY DEF After
<1>2. After(c, Report(c)) /\ Caused(Report(c)) /\ Report(c).failed = c.failed
  BY <1>1, ReportIs
<1>3. After(q, Report(c))
  BY <1>2, Trans
<1> QED BY <1>2, <1>3

\* The library fails, which is an event.
LEMMA Blames ==
  ASSUME NEW q \in TlsRec, NEW c, After(q, c), NEW e \in TlsEvents \cup {"none"}
  PROVE  LET d == [Failure(c) EXCEPT !.event = e]
         IN  After(q, d) /\ Caused(d) /\ d.failed = TRUE
<1> DEFINE d == [Failure(c) EXCEPT !.event = e]
<1>1. c \in TlsRec
  BY DEF After
<1>2. After(c, d) /\ Caused(d) /\ d.failed = TRUE
  BY <1>1, Blamed
<1> HIDE DEF d
<1>3. After(q, d)
  BY <1>2, Trans
<1> QED BY <1>2, <1>3 DEF d

\* Nothing is left with the library.
NothingHeld(r) == r.held = "none"

\* coap_dtls_receive() with Mbed TLS takes the datagram back.
LEMMA MbedtlsReceiveIs ==
  ASSUME NEW r \in TlsRec, NEW q \in TlsRec, q = [r EXCEPT !.held = "live", !.event = "none"],
         Caused(q), q.held = "live", NEW h \in MbedtlsResults, NEW p,
         NEW h2 \in MbedtlsResults, NEW p2, NEW x, NEW s
  PROVE  LET b == MbedtlsReceive(r, h, p, h2, p2, x, s)
         IN  After(q, b) /\ NothingHeld(b)
<1> DEFINE f == IF q.state = "HANDSHAKE" THEN MbedtlsConnected(TellEvent(q, "CONNECTED"), s) ELSE q
           e == MbedtlsDgramRead(f, p)
           k == MbedtlsContinue(q, h, p, h2, p2, s)
           z == [Failure(e) EXCEPT !.event = "CLOSED"]
           c == IF ~q.up THEN Report(k)
                ELSE IF x = "data" THEN MbedtlsSend(e, s)
                ELSE IF x = "zero" THEN Report(z)
                ELSE Report(e)
           b == MbedtlsReceive(r, h, p, h2, p2, x, s)
<1>1. b = [c EXCEPT !.held = "none"]
  BY DEF MbedtlsReceive
<1>2. After(q, f) /\ Caused(f) /\ f \in TlsRec
  <2> DEFINE u == TellEvent(q, "CONNECTED")
             d == MbedtlsConnected(u, s)
  <2>1. After(q, u) /\ Caused(u) /\ u \in TlsRec
    BY ToldConnected, StillTls
  <2> HIDE DEF u
  <2>2. After(u, d) /\ Caused(d)
    BY <2>1, MbedtlsConnectedIs
  <2> HIDE DEF d
  <2>3. After(q, d) /\ d \in TlsRec
    BY <2>1, <2>2, Trans, StillTls
  <2>4. f = IF q.state = "HANDSHAKE" THEN d ELSE q
    BY DEF u, d
  <2> QED BY <2>2, <2>3, <2>4, Same
<1>3. f.held # "dead" /\ q.held # "dead"
  BY <1>2 DEF After
<1> HIDE DEF f, b
<1>4. After(f, e) /\ e.event = f.event /\ e.failed = f.failed
  BY <1>2, <1>3, GnutlsDgramReadIs DEF MbedtlsDgramRead
<1> HIDE DEF e
<1>5a. After(q, e) /\ e \in TlsRec
  BY <1>2, <1>4, Trans, StillTls
<1>5. After(q, e) /\ Caused(e) /\ e \in TlsRec
  BY ONLY <1>2, <1>4, <1>5a DEF Caused
<1>6. After(q, k) /\ Caused(k)
  BY ONLY <1>3, MbedtlsContinueIs, q \in TlsRec, Caused(q), h \in MbedtlsResults,
     h2 \in MbedtlsResults
<1> HIDE DEF k
<1>7. After(q, Report(k)) /\ After(q, Report(e))
  BY <1>5, <1>6, Reported
<1>8. After(q, MbedtlsSend(e, s))
  BY <1>5, MbedtlsSendIs, Trans
<1>9. After(q, Report(z))
  <2> DEFINE v == "CLOSED"
             y == [Failure(e) EXCEPT !.event = v]
  <2>1. v \in TlsEvents
    BY DEF TlsEvents
  <2> HIDE DEF v
  <2>2. After(q, y) /\ Caused(y)
    BY <1>5, <2>1, Blames
  <2>3. y = z
    BY DEF v
  <2> HIDE DEF z, y
  <2> QED BY <2>2, <2>3, Reported
<1>10. After(q, c)
  BY <1>7, <1>8, <1>9
<1> HIDE DEF c
<1>11. After(q, b) /\ b.held = "none"
  BY <1>1, <1>10, TakenBack DEF b
<1> HIDE DEF b
<1>12. After(q, b) /\ NothingHeld(b)
  BY <1>11 DEF NothingHeld
<1> QED BY <1>12 DEF b

-----------------------------------------------------------------------------
(* tinyDTLS                                                                *)

\* dtls_event() of tinyDTLS.
LEMMA TinyEventIs ==
  ASSUME NEW r \in TlsRec, Caused(r), NEW x
  PROVE  After(r, TinyEvent(r, x)) /\ Caused(TinyEvent(r, x))
<1>1. CASE x = "fatal"
  <2> DEFINE e == "ERROR"
  <2>1. TinyEvent(r, x) = [Failure(r) EXCEPT !.event = e]
    BY <1>1 DEF TinyEvent
  <2>2. e \in TlsEvents
    BY DEF TlsEvents
  <2> HIDE DEF e
  <2> QED BY <2>1, <2>2, Blamed
<1>2. CASE x = "zero"
  <2> DEFINE e == "CLOSED"
  <2>1. TinyEvent(r, x) = [Failure(r) EXCEPT !.event = e]
    BY <1>2 DEF TinyEvent
  <2>2. e \in TlsEvents
    BY DEF TlsEvents
  <2> HIDE DEF e
  <2> QED BY <2>1, <2>2, Blamed
<1>3. CASE x = "connected"
  <2> DEFINE e == "CONNECTED"
             u == TRUE
             a == [r EXCEPT !.event = e]
             b == [a EXCEPT !.up = u]
  <2>1. TinyEvent(r, x) = b
    BY <1>3 DEF TinyEvent
  <2>2. e \in TlsEvents /\ e \notin {"CLOSED", "ERROR"} /\ u \in BOOLEAN
    BY DEF TlsEvents
  <2>3. u
    OBVIOUS
  <2> HIDE DEF e, u
  <2>4. After(r, a) /\ a.event = e /\ a \in TlsRec
    BY <2>2, Reset DEF After
  <2> HIDE DEF a
  <2>5. After(a, b) /\ b.event = a.event
    BY <2>2, <2>3, <2>4, Upped
  <2> HIDE DEF b
  <2>6. After(r, b) /\ Caused(b)
    BY <2>2, <2>4, <2>5, Trans DEF Caused
  <2> QED BY <2>1, <2>6
<1>4. CASE x = "renegotiate"
  <2> DEFINE e == "RENEGOTIATE"
             b == [r EXCEPT !.event = e]
  <2>1. TinyEvent(r, x) = b
    BY <1>4 DEF TinyEvent
  <2>2. e \in TlsEvents /\ e \notin {"CLOSED", "ERROR"}
    BY DEF TlsEvents
  <2> HIDE DEF e
  <2>3. After(r, b) /\ b.event = e
    BY <2>2, Reset
  <2> QED BY <2>1, <2>2, <2>3 DEF Caused
<1>5. CASE x \notin {"fatal", "zero", "connected", "renegotiate"}
  <2>1. TinyEvent(r, x) = r
    BY <1>5 DEF TinyEvent
  <2> QED BY <2>1, Same
<1> QED BY <1>1, <1>2, <1>3, <1>4, <1>5

\* coap_dtls_send() with tinyDTLS.
LEMMA TinySendIs ==
  ASSUME NEW r \in TlsRec, NEW x
  PROVE  After(r, TinySend(r, x)) /\ Caused(TinySend(r, x))
<1> DEFINE f == IF x = "syscall" THEN Failure(r) ELSE r
           a == [f EXCEPT !.event = "none"]
           b == TinyEvent(a, x)
<1>1. TinySend(r, x) = Report(b)
  BY DEF TinySend
<1>2. After(r, f) /\ f \in TlsRec
  BY FailureIs, Same, StillTls
<1> HIDE DEF f
<1>3. After(f, a) /\ Caused(a) /\ a \in TlsRec
  BY <1>2, Cleared, StillTls
<1> HIDE DEF a
<1>4. After(a, b) /\ Caused(b)
  BY <1>3, TinyEventIs
<1> HIDE DEF b
<1>5. After(r, b)
  BY <1>2, <1>3, <1>4, Trans
<1> QED BY <1>1, <1>4, <1>5, Reported

\* What tinyDTLS does for a session that is connected.
LEMMA TinyConnectedIs ==
  ASSUME NEW r \in TlsRec, NEW s
  PROVE  After(r, TinyConnected(r, s))
<1> DEFINE b == [r EXCEPT !.state = "ESTABLISHED", !.delayed = FALSE]
           c == [r EXCEPT !.state = "ESTABLISHED"]
<1>1. After(r, b) /\ b \in TlsRec /\ After(r, c)
  BY EstablishedIs DEF After
<1>2. TinyConnected(r, s) = IF r.delayed THEN TinySend(b, s) ELSE c
  BY DEF TinyConnected
<1> HIDE DEF b, c
<1>3. After(r, TinySend(b, s))
  BY <1>1, TinySendIs, Trans
<1> QED BY <1>1, <1>2, <1>3

\* coap_dtls_receive() with tinyDTLS.
LEMMA TinyReceiveIs ==
  ASSUME NEW r \in TlsRec, NEW x, NEW s
  PROVE  After(r, TinyReceive(r, x, s))
<1> DEFINE a == [r EXCEPT !.event = "none"]
           q == TinyEvent(a, x)
           z == [Failure(q) EXCEPT !.event = "ERROR"]
           d == IF x = "data" THEN TinySend(q, s) ELSE IF x = "error" THEN z ELSE q
<1>1. TinyReceive(r, x, s) =
        IF d.event = "CONNECTED" THEN TinyConnected(TellEvent(d, "CONNECTED"), s) ELSE Report(d)
  BY DEF TinyReceive
<1>2. After(r, a) /\ Caused(a) /\ a \in TlsRec
  BY Cleared, StillTls
<1> HIDE DEF a
<1>3. After(a, q) /\ Caused(q) /\ q \in TlsRec
  BY <1>2, TinyEventIs, StillTls
<1> HIDE DEF q
<1>4. After(r, q)
  BY <1>2, <1>3, Trans
<1>5. After(r, z) /\ Caused(z)
  <2> DEFINE v == "ERROR"
             y == [Failure(q) EXCEPT !.event = v]
  <2>1. v \in TlsEvents
    BY DEF TlsEvents
  <2> HIDE DEF v
  <2>2. After(r, y) /\ Caused(y)
    BY <1>4, <2>1, Blames
  <2>3. y = z
    BY DEF v
  <2> HIDE DEF z, y
  <2> QED BY <2>2, <2>3
<1>6. After(q, TinySend(q, s)) /\ Caused(TinySend(q, s))
  BY <1>3, TinySendIs
<1>7. After(r, TinySend(q, s))
  BY <1>4, <1>6, Trans
<1> HIDE DEF z
<1>8. After(r, d) /\ Caused(d) /\ d \in TlsRec
  BY <1>3, <1>4, <1>5, <1>6, <1>7, StillTls
<1> HIDE DEF d
<1>9. After(r, Report(d))
  BY <1>8, Reported
<1>10. After(r, TinyConnected(TellEvent(d, "CONNECTED"), s))
  <2> DEFINE t == TellEvent(d, "CONNECTED")
  <2>1. After(d, t) /\ t \in TlsRec
    BY <1>8, ToldConnected, StillTls
  <2> HIDE DEF t
  <2>2. After(t, TinyConnected(t, s))
    BY <2>1, TinyConnectedIs
  <2>3. After(r, TinyConnected(t, s))
    BY <1>8, <2>1, <2>2, Trans
  <2> QED BY <2>3 DEF t
<1> QED BY <1>1, <1>9, <1>10

-----------------------------------------------------------------------------
(* TLS                                                                     *)

\* coap_tls_write() with GnuTLS, which may finish the handshake first.
LEMMA GnutlsTlsWriteIs ==
  ASSUME NEW r \in TlsRec, NEW x \in SendResults
  PROVE  After(r, GnutlsTlsWrite(r, x)) /\ Caused(GnutlsTlsWrite(r, x))
<1>1. CASE x \in {"ok", "want"}
  <2>1. GnutlsTlsWrite(r, x) = [r EXCEPT !.event = "none"]
    BY <1>1 DEF GnutlsTlsWrite
  <2> QED BY <2>1, Cleared
<1>2. CASE x \in {"zero", "ssl"}
  <2> DEFINE e == "CLOSED"
             b == [Failure(r) EXCEPT !.event = e]
  <2>1. GnutlsTlsWrite(r, x) = Report(b)
    BY <1>2 DEF GnutlsTlsWrite
  <2>2. e \in TlsEvents
    BY DEF TlsEvents
  <2> HIDE DEF e
  <2>3. After(r, b) /\ Caused(b)
    BY <2>2, Blamed
  <2> HIDE DEF b
  <2> QED BY <2>1, <2>3, Reported
<1>3. CASE x = "syscall"
  <2> DEFINE e == "none"
  <2>1. GnutlsTlsWrite(r, x) = [Failure(r) EXCEPT !.event = e]
    BY <1>3 DEF GnutlsTlsWrite
  <2>2. e \in TlsEvents \cup {"none"}
    OBVIOUS
  <2> HIDE DEF e
  <2> QED BY <2>1, <2>2, Blamed
<1> QED BY <1>1, <1>2, <1>3 DEF SendResults

\* coap_tls_write() with either library.
LEMMA TlsWriteIs ==
  ASSUME NEW r \in TlsRec, NEW x \in SendResults
  PROVE  After(r, TlsWrite(r, x)) /\ Caused(TlsWrite(r, x))
<1>1. OpensslTlsWrite(r, x) = OpensslSend(r, x)
  BY DEF OpensslTlsWrite, OpensslSend
<1> QED BY <1>1, OpensslSendIs, GnutlsTlsWriteIs DEF TlsWrite

\* The CSM that a connected TLS session sends.
LEMMA TlsSendCsmIs ==
  ASSUME NEW r \in TlsRec, NEW x \in SendResults
  PROVE  After(r, TlsSendCsm(r, x)) /\ Caused(TlsSendCsm(r, x))
<1> DEFINE st == "CSM"
           a == [r EXCEPT !.state = st]
           t == TlsWrite(a, x)
<1>1. TlsSendCsm(r, x) = IF x = "ok" THEN t ELSE TlsDisconnected(Failure(t))
  BY DEF TlsSendCsm
<1>2. st \in States
  BY DEF States
<1> HIDE DEF st
<1>3. After(r, a) /\ a \in TlsRec
  BY <1>2, Moved, StillTls
<1> HIDE DEF a
<1>4. After(a, t) /\ Caused(t)
  BY <1>3, TlsWriteIs
<1> HIDE DEF t
<1>5. After(r, t) /\ t \in TlsRec
  BY <1>3, <1>4, Trans, StillTls
<1>6. After(r, Failure(t)) /\ Failure(t).failed = TRUE
  BY <1>5, FailureIs, Trans
<1>7. After(r, TlsDisconnected(Failure(t))) /\ Caused(TlsDisconnected(Failure(t)))
  BY <1>6, GivenUp
<1> QED BY <1>1, <1>4, <1>5, <1>7

\* The peer's CSM establishes the session, and the queue may be sent.
LEMMA TlsDataIs ==
  ASSUME NEW r \in TlsRec, NEW x \in SendResults
  PROVE  After(r, TlsData(r, x))
<1> DEFINE b == [r EXCEPT !.state = "ESTABLISHED", !.delayed = FALSE]
           c == [r EXCEPT !.state = "ESTABLISHED"]
<1>1. After(r, b) /\ b \in TlsRec /\ After(r, c)
  BY EstablishedIs DEF After
<1>2. TlsData(r, x) = IF r.state # "CSM" THEN r ELSE IF r.delayed THEN TlsWrite(b, x) ELSE c
  BY DEF TlsData
<1> HIDE DEF b, c
<1>3. After(r, TlsWrite(b, x))
  BY <1>1, TlsWriteIs, Trans
<1> QED BY <1>1, <1>2, <1>3, Same

\* coap_tls_read() with OpenSSL.
LEMMA OpensslTlsReadIs ==
  ASSUME NEW r \in TlsRec, NEW x \in {"data", "want"} \cup SslFails,
         NEW alert \in {"none", "fatal", "renegotiate"}, NEW fin \in BOOLEAN,
         NEW s \in SendResults
  PROVE  After(r, OpensslTlsRead(r, x, alert, fin, s))
<1> DEFINE a == [r EXCEPT !.event = "none"]
           i == InfoCallback(a, alert)
           u == i.up \/ fin
           t == [i EXCEPT !.up = u]
           w == IF t.up /\ ~r.up THEN TlsSendCsm(TellEvent(t, "CONNECTED"), s) ELSE t
           g == OpensslTlsRead(r, x, alert, fin, s)
<1>1. g = CASE x = "data" -> TlsData(t, s)
            [] x = "want" -> Report(w)
            [] OTHER -> TlsDisconnected(Report(SslError(t, x)))
  BY DEF OpensslTlsRead
<1>2. After(r, a) /\ Caused(a) /\ a \in TlsRec
  BY Cleared, StillTls
<1> HIDE DEF a, g
<1>3. After(a, i) /\ Caused(i) /\ i \in TlsRec
  BY <1>2, InfoCallbackIs, StillTls
<1> HIDE DEF i
<1>4. u \in BOOLEAN /\ (i.up => u)
  BY <1>3 DEF TlsRec
<1> HIDE DEF u
<1>5. After(i, t) /\ t.event = i.event /\ t.failed = i.failed
  BY <1>3, <1>4, Upped
<1> HIDE DEF t
<1>6. After(r, t) /\ Caused(t) /\ t \in TlsRec
  BY <1>2, <1>3, <1>5, Trans DEF Caused, After
<1>7. CASE x = "data"
  <2>1. g = TlsData(t, s)
    BY <1>1, <1>7
  <2>2. After(t, TlsData(t, s))
    BY <1>6, TlsDataIs
  <2> QED BY <1>6, <2>1, <2>2, Trans DEF g
<1>8. CASE x = "want"
  <2>1. g = Report(w)
    BY <1>1, <1>8
  <2> DEFINE c == TellEvent(t, "CONNECTED")
             d == TlsSendCsm(c, s)
  <2>2. After(t, c) /\ c \in TlsRec
    BY <1>6, ToldConnected, StillTls
  <2>3. w = IF t.up /\ ~r.up THEN d ELSE t
    BY DEF c, d
  <2> HIDE DEF c
  <2>4. After(c, d) /\ Caused(d)
    BY <2>2, TlsSendCsmIs
  <2> HIDE DEF d
  <2>5. After(r, d)
    BY <1>6, <2>2, <2>4, Trans
  <2>6. After(r, w) /\ Caused(w)
    BY <1>6, <2>3, <2>4, <2>5
  <2> HIDE DEF w
  <2> QED BY <2>1, <2>6, Reported DEF g
<1>9. CASE x \in SslFails /\ x \notin {"data", "want"}
  <2> DEFINE c == SslError(t, x)
  <2>1. g = TlsDisconnected(Report(c))
    BY <1>1, <1>9
  <2>2. After(t, c) /\ Caused(c) /\ c.failed = TRUE
    BY <1>6, <1>9, SslErrorIs
  <2> HIDE DEF c
  <2>3. After(r, c)
    BY <1>6, <2>2, Trans
  <2>4. After(r, Report(c)) /\ Report(c).failed = TRUE
    BY <2>2, <2>3, Reported
  <2> QED BY <2>1, <2>4, GivenUp DEF g
<1> QED BY <1>7, <1>8, <1>9

\* coap_tls_read() with GnuTLS.
LEMMA GnutlsTlsReadIs ==
  ASSUME NEW r \in TlsRec, NEW h \in GnutlsResults, NEW x \in {"data", "want"} \cup SslFails,
         NEW s \in SendResults
  PROVE  After(r, GnutlsTlsRead(r, h, x, s))
<1> DEFINE q == [r EXCEPT !.event = "none"]
           p == "no"
           t == GnutlsHandshake(q, h, p)
           z == [Failure(q) EXCEPT !.event = "CLOSED"]
           y == [Failure(q) EXCEPT !.event = "ERROR"]
           g == GnutlsTlsRead(r, h, x, s)
<1>1. g = IF ~q.up /\ q.alert THEN TlsDisconnected(Failure(q))
          ELSE IF ~q.up THEN CASE h = "done" -> Report(TlsSendCsm(TellEvent(t, "CONNECTED"), s))
                               [] h = "again" -> t
                               [] h = "warning" -> Report(t)
                               [] OTHER -> TlsDisconnected(Report(t))
          ELSE CASE x = "data" -> TlsData(q, s)
                 [] x = "want" -> q
                 [] x = "zero" -> TlsDisconnected(Report(z))
                 [] x \in {"ssl", "warning"} -> Report(y)
                 [] x = "syscall" -> TlsDisconnected(Failure(q))
  BY DEF GnutlsTlsRead
<1>2. After(r, q) /\ Caused(q) /\ q \in TlsRec
  BY Cleared, StillTls
<1>3. p = "no"
  OBVIOUS
<1> HIDE DEF q, g, p
<1>4. After(q, t) /\ Caused(t) /\ (h \notin {"done", "again"} => t.failed = TRUE)
  BY <1>2, <1>3, GnutlsHandshakeIs
<1>5. ASSUME NEW e \in TlsEvents
      PROVE  LET c == [Failure(q) EXCEPT !.event = e]
             IN  After(r, c) /\ Caused(c) /\ c.failed = TRUE
  BY <1>2, Blames
<1>6. After(r, z) /\ Caused(z) /\ z.failed = TRUE
  <2> DEFINE e == "CLOSED"
             c == [Failure(q) EXCEPT !.event = e]
  <2>1. e \in TlsEvents
    BY DEF TlsEvents
  <2> HIDE DEF e
  <2>2. After(r, c) /\ Caused(c) /\ c.failed = TRUE
    BY <1>5, <2>1
  <2> QED BY <2>2 DEF e
<1>7. After(r, y) /\ Caused(y)
  <2> DEFINE e == "ERROR"
             c == [Failure(q) EXCEPT !.event = e]
  <2>1. e \in TlsEvents
    BY DEF TlsEvents
  <2> HIDE DEF e
  <2>2. After(r, c) /\ Caused(c) /\ c.failed = TRUE
    BY <1>5, <2>1
  <2> QED BY <2>2 DEF e
<1>8. After(r, TlsDisconnected(Failure(q)))
  <2>1. After(r, Failure(q)) /\ Failure(q).failed = TRUE
    BY <1>2, FailureIs, Trans
  <2> QED BY <2>1, GivenUp
<1> HIDE DEF t, z, y
<1>9. After(r, t) /\ t \in TlsRec
  BY <1>2, <1>4, Trans, StillTls
<1>10. After(r, Report(t)) /\ (t.failed = TRUE => Report(t).failed = TRUE)
  BY <1>4, <1>9, Reported
<1>11. h \notin {"done", "again"} => After(r, TlsDisconnected(Report(t)))
  BY <1>4, <1>10, GivenUp
<1>12. After(r, Report(TlsSendCsm(TellEvent(t, "CONNECTED"), s)))
  <2> DEFINE c == TellEvent(t, "CONNECTED")
             d == TlsSendCsm(c, s)
  <2>1. After(t, c) /\ c \in TlsRec
    BY <1>4, <1>9, ToldConnected, StillTls
  <2> HIDE DEF c
  <2>2. After(c, d) /\ Caused(d)
    BY <2>1, TlsSendCsmIs
  <2> HIDE DEF d
  <2>3. After(r, d)
    BY <1>9, <2>1, <2>2, Trans
  <2>4. After(r, Report(d))
    BY <2>2, <2>3, Reported
  <2> QED BY <2>4 DEF c, d
<1>13. After(r, TlsData(q, s))
  BY <1>2, TlsDataIs, Trans
<1>14. After(r, TlsDisconnected(Report(z)))
  <2>1. After(r, Report(z)) /\ Report(z).failed = TRUE
    BY <1>6, Reported
  <2> QED BY <2>1, GivenUp
<1>15. After(r, Report(y))
  BY <1>7, Reported
<1>16. After(r, g)
  BY <1>1, <1>2, <1>8, <1>9, <1>10, <1>11, <1>12, <1>13, <1>14, <1>15 DEF SslFails
<1> QED BY <1>16 DEF g

\* Where a lent datagram may be left when a call ends.
Left(r) == r.held = "none" \/ r.lib = "OPENSSL" \/ (r.lib = "GNUTLS" /\ r.up)

\* What dt may become, but for the datagram that goes.
EndsWell(r) ==
  /\ r \in TlsRec /\ ~r.bad /\ Left(r)
  /\ dt.obj /\ ~r.obj => r.failed /\ (dt.type # "HELLO" => r.told["CLOSED"] > 0)

\* What ClosedForCause asks of a step.
HasCause ==
  dt.obj /\ ~dt'.obj => dt'.failed /\ (dt.type # "HELLO" => dt'.told["CLOSED"] > 0)

\* A call that ends well keeps the invariant, and closes for a cause.
LEMMA StepsKeep ==
  ASSUME NEW r, EndsWell(r), Steps(r)
  PROVE  TlsInv' /\ HasCause
<1> DEFINE h == IF r.held = "live" THEN "dead" ELSE r.held
           l == IF r.listen = "live" THEN "dead" ELSE r.listen
           b == [r EXCEPT !.held = h, !.listen = l]
<1>1. dt' = b
  BY DEF Steps, Returned
<1>2. r \in TlsRec /\ ~r.bad /\ Left(r)
  BY DEF EndsWell
<1>3. h \in {"none", "dead"} /\ l \in {"none", "dead"} /\ (h = "none" <=> r.held = "none")
  BY <1>2 DEF TlsRec
<1> HIDE DEF h, l
<1>4a. [r EXCEPT !.held = h] \in TlsRec
  BY <1>2, <1>3 DEF TlsRec
<1>4b. b \in TlsRec
  BY <1>3, <1>4a DEF TlsRec
<1>4. b \in TlsRec /\ b.held = h /\ b.listen = l
  BY <1>2, <1>4b DEF TlsRec
<1>5. b.bad = r.bad /\ b.lib = r.lib /\ b.up = r.up
  BY <1>2, <1>3 DEF TlsRec
<1>6. b.obj = r.obj /\ b.failed = r.failed /\ b.told = r.told
  BY <1>2, <1>3 DEF TlsRec
<1> HIDE DEF b
<1>7. /\ dt' \in TlsRec /\ dt'.held = h /\ dt'.listen = l
      /\ dt'.bad = r.bad /\ dt'.lib = r.lib /\ dt'.up = r.up
      /\ dt'.obj = r.obj /\ dt'.failed = r.failed /\ dt'.told = r.told
  BY <1>1, <1>4, <1>5, <1>6
<1>8. TlsInv'
  BY <1>2, <1>3, <1>7 DEF TlsInv, Left
<1>9. HasCause
  BY <1>7 DEF HasCause, EndsWell
<1> QED BY <1>8, <1>9

\* The session as a call finds it: what was lent and not read is gone by now.
LEMMA NowIs ==
  ASSUME TlsInv
  PROVE  /\ Now \in TlsRec /\ Now.lib = dt.lib /\ Now.bad = FALSE /\ Now.obj = dt.obj
         /\ Now.held = dt.held /\ Now.up = dt.up /\ Left(Now) /\ Now.held # "live"
<1> DEFINE f == FALSE
           b == [dt EXCEPT !.failed = f]
<1>1. Now = b
  BY DEF Now
<1>2. dt \in TlsRec /\ dt.bad = FALSE /\ f \in BOOLEAN
  BY DEF TlsInv, TlsRec
<1> HIDE DEF f
<1>3. b \in TlsRec /\ b.lib = dt.lib /\ b.bad = dt.bad /\ b.obj = dt.obj
  BY <1>2 DEF TlsRec
<1>4. b.held = dt.held /\ b.up = dt.up
  BY <1>2 DEF TlsRec
<1> HIDE DEF b
<1>5. Left(b) /\ b.held # "live"
  BY <1>3, <1>4 DEF TlsInv, Left
<1> QED BY <1>1, <1>2, <1>3, <1>4, <1>5

\* The library makes an object for a session that has none.
LEMMA NewObjectIs ==
  ASSUME NEW r \in TlsRec
  PROVE  LET b == NewObject(r)
         IN  /\ b \in TlsRec /\ b.lib = r.lib /\ b.bad = r.bad /\ b.listen = r.listen
             /\ b.obj = TRUE /\ b.held = "none" /\ Left(b)
<1> DEFINE m == IF r.made < MaxObjects THEN r.made + 1 ELSE r.made
           b == [r EXCEPT !.obj = TRUE, !.up = FALSE, !.alert = FALSE, !.held = "none",
                          !.told = Untold, !.made = m]
<1>1. NewObject(r) = b
  BY DEF NewObject
<1>2. m \in Nat
  BY DEF TlsRec
<1>3. Untold \in [TlsEvents -> 0..2]
  BY DEF Untold, TlsEvents
<1> HIDE DEF m
<1>4. b \in TlsRec /\ b.held = "none"
  BY <1>2, <1>3 DEF TlsRec
<1>5. b.lib = r.lib /\ b.bad = r.bad /\ b.listen = r.listen /\ b.obj = TRUE
  BY DEF TlsRec
<1> HIDE DEF b
<1> QED BY <1>1, <1>4, <1>5 DEF Left

\* A call that began with q ends well.
LEMMA Ends ==
  ASSUME TlsInv, NEW q \in TlsRec, q.bad = FALSE, dt.obj => q.obj, NEW r, After(q, r), Left(r)
  PROVE  EndsWell(r)
<1>1. r \in TlsRec /\ r.bad = FALSE
  BY DEF After
<1>2. dt.obj /\ ~r.obj => r.failed /\ r.told["CLOSED"] > 0
  BY DEF After
<1> QED BY <1>1, <1>2 DEF EndsWell

\* Nothing was lent: what is left is what was left before.
LEMMA LeftKept ==
  ASSUME NEW q \in TlsRec, Left(q), NEW r, After(q, r)
  PROVE  Left(r)
BY DEF Left, After

\* A call that goes on from what it found ends well.
LEMMA NowEnds ==
  ASSUME TlsInv, NEW r, After(Now, r)
  PROVE  EndsWell(r)
<1>1. /\ Now \in TlsRec /\ Now.bad = FALSE /\ Now.obj = dt.obj /\ Left(Now)
  BY NowIs
<1>2. Left(r)
  BY <1>1, LeftKept
<1> QED BY <1>1, <1>2, Ends

\* A fresh object of the session.
Base == NewObject(Now)

\* The session with its new object.
LEMMA BaseIs ==
  ASSUME TlsInv
  PROVE  /\ Base \in TlsRec /\ Base.lib = dt.lib /\ Base.bad = FALSE
         /\ Base.obj = TRUE /\ Base.held = "none" /\ Left(Base)
BY NowIs, NewObjectIs DEF Base

\* A call that goes on from the new object ends well.
LEMMA BaseEnds ==
  ASSUME TlsInv, NEW r, After(Base, r)
  PROVE  EndsWell(r)
<1>1. Base \in TlsRec /\ Base.bad = FALSE /\ Base.obj = TRUE /\ Left(Base)
  BY BaseIs
<1>2. Left(r)
  BY <1>1, LeftKept
<1> QED BY <1>1, <1>2, Ends

\* A ClientHello makes the session a server session.
LEMMA ServedIs ==
  ASSUME NEW r \in TlsRec
  PROVE  After(r, Served(r))
<1> DEFINE b == [r EXCEPT !.type = "SERVER", !.state = "HANDSHAKE"]
<1>1. Served(r) = b
  BY DEF Served
<1>2. b \in TlsRec
  BY DEF TlsRec
<1>3. /\ b.lib = r.lib /\ b.bad = r.bad /\ b.listen = r.listen /\ b.told = r.told
      /\ b.held = r.held /\ b.up = r.up /\ b.obj = r.obj /\ b.failed = r.failed
  BY DEF TlsRec
<1>4. r.told["CLOSED"] >= r.told["CLOSED"]
  BY DEF TlsRec, TlsEvents
<1> HIDE DEF b
<1> QED BY <1>1, <1>2, <1>3, <1>4 DEF After

\* The handshake has begun.
LEMMA HandshakeBegun ==
  ASSUME NEW r \in TlsRec
  PROVE  LET b == [r EXCEPT !.state = "HANDSHAKE"] IN After(r, b)
<1> DEFINE st == "HANDSHAKE"
           d == FALSE
<1>1. st \in States /\ d \in BOOLEAN
  BY DEF States
<1> HIDE DEF st, d
<1>2. After(r, [r EXCEPT !.state = st])
  BY <1>1, Moved
<1> QED BY <1>2 DEF st

\* The library makes no object.
LEMMA NotMade ==
  ASSUME NEW r \in TlsRec
  PROVE  After(r, [r EXCEPT !.made = @ + 1]) /\ After(r, [r EXCEPT !.tries = 0, !.made = @ + 1])
<1> DEFINE n == r.made + 1
           b == [r EXCEPT !.made = n]
           z == 0
           c == [b EXCEPT !.tries = z]
<1>1. n \in Nat /\ z \in Nat
  BY DEF TlsRec
<1>2. [r EXCEPT !.made = @ + 1] = b /\ [r EXCEPT !.tries = 0, !.made = @ + 1] = c
  BY DEF TlsRec
<1> HIDE DEF n, z
<1>3. After(r, b)
  BY <1>1 DEF TlsRec, After, TlsEvents
<1>4. b \in TlsRec
  BY <1>3, StillTls
<1> HIDE DEF b
<1>5. After(b, c)
  BY <1>1, <1>4, Retried
<1> HIDE DEF c
<1>6. After(r, c)
  BY <1>3, <1>5, Trans
<1> QED BY <1>2, <1>3, <1>6

\* A client session's library makes an object, or fails.
LEMMA ConnectKeeps ==
  ASSUME TlsInv, NEW delay \in BOOLEAN, DtlsConnect(delay)
  PROVE  TlsInv' /\ HasCause
<1>1. PICK ok \in BOOLEAN, h \in (GnutlsResults \cup MbedtlsResults) \ {"done"} :
        LET c == CASE dt.lib = "OPENSSL" -> OpensslClient(Now, ok)
                   [] dt.lib = "GNUTLS" /\ h \in GnutlsResults -> GnutlsClient(Now, h)
                   [] dt.lib = "MBEDTLS" /\ h \in MbedtlsResults -> MbedtlsClient(Now, h)
                   [] dt.lib = "TINYDTLS" -> TinyClient(Now, ok)
                   [] OTHER -> Now
        IN Steps(IF c.obj THEN [c EXCEPT !.delayed = delay] ELSE TellEvent(Failure(c), "ERROR"))
  BY DEF DtlsConnect
<1> DEFINE c == CASE dt.lib = "OPENSSL" -> OpensslClient(Now, ok)
                  [] dt.lib = "GNUTLS" /\ h \in GnutlsResults -> GnutlsClient(Now, h)
                  [] dt.lib = "MBEDTLS" /\ h \in MbedtlsResults -> MbedtlsClient(Now, h)
                  [] dt.lib = "TINYDTLS" -> TinyClient(Now, ok)
                  [] OTHER -> Now
<1>2. Now \in TlsRec /\ Base \in TlsRec /\ Base.held = "none"
  BY NowIs, BaseIs
<1>3. After(Now, [Now EXCEPT !.made = @ + 1]) /\ After(Now, [Now EXCEPT !.tries = 0, !.made = @ + 1])
  BY <1>2, NotMade
<1>4. \E q \in {Now, Base} : After(q, OpensslClient(Now, ok))
  <2> DEFINE z == 0
             a == [Base EXCEPT !.state = "HANDSHAKE"]
             b == [a EXCEPT !.tries = z]
  <2>1. OpensslClient(Now, ok) = IF ok THEN b ELSE [Now EXCEPT !.tries = 0, !.made = @ + 1]
    BY DEF OpensslClient, Base
  <2>2. After(Base, a) /\ a \in TlsRec
    BY <1>2, HandshakeBegun, StillTls
  <2>3. z \in Nat
    OBVIOUS
  <2> HIDE DEF a, z
  <2>4. After(a, b)
    BY <2>2, <2>3, Retried
  <2> HIDE DEF b
  <2>5. After(Base, b)
    BY <1>2, <2>2, <2>4, Trans
  <2> QED BY <1>3, <2>1, <2>5
<1>5. h \in GnutlsResults => \E q \in {Now, Base} : After(q, GnutlsClient(Now, h))
  <2> SUFFICES ASSUME h \in GnutlsResults
               PROVE  \E q \in {Now, Base} : After(q, GnutlsClient(Now, h))
    OBVIOUS
  <2> DEFINE p == "no"
             a == GnutlsHandshake(Base, h, p)
             b == [a EXCEPT !.state = "HANDSHAKE"]
  <2>1. GnutlsClient(Now, h) = IF h \in Unfinished THEN b ELSE [Now EXCEPT !.made = @ + 1]
    BY DEF GnutlsClient, Base
  <2>2. p = "no"
    OBVIOUS
  <2> HIDE DEF p
  <2>0. After(Base, a)
    BY <1>2, <2>2, GnutlsHandshakeIs
  <2> HIDE DEF a
  <2>3. After(Base, a) /\ a \in TlsRec
    BY <2>0, StillTls
  <2>4. After(a, b)
    BY <2>3, HandshakeBegun
  <2> HIDE DEF b
  <2>5. After(Base, b)
    BY <1>2, <2>3, <2>4, Trans
  <2> QED BY <1>3, <2>1, <2>5
<1>6. h \in MbedtlsResults => \E q \in {Now, Base} : After(q, MbedtlsClient(Now, h))
  <2> SUFFICES ASSUME h \in MbedtlsResults
               PROVE  \E q \in {Now, Base} : After(q, MbedtlsClient(Now, h))
    OBVIOUS
  <2> DEFINE p == "no"
             a == MbedtlsHandshake(Base, h, p)
             b == [a EXCEPT !.state = "HANDSHAKE"]
  <2>1. MbedtlsClient(Now, h) = IF h = "again" THEN b ELSE [Now EXCEPT !.made = @ + 1]
    BY DEF MbedtlsClient, Base
  <2>2. p = "no"
    OBVIOUS
  <2> HIDE DEF p
  <2>3. After(Base, a) /\ a \in TlsRec
    BY <1>2, <2>2, MbedtlsHandshakeIs, StillTls
  <2> HIDE DEF a
  <2>4. After(a, b)
    BY <2>3, HandshakeBegun
  <2> HIDE DEF b
  <2>5. After(Base, b)
    BY <1>2, <2>3, <2>4, Trans
  <2> QED BY <1>3, <2>1, <2>5
<1>7. \E q \in {Now, Base} : After(q, TinyClient(Now, ok))
  <2>1. TinyClient(Now, ok) = IF ok THEN [Base EXCEPT !.state = "HANDSHAKE"]
                              ELSE [Now EXCEPT !.made = @ + 1]
    BY DEF TinyClient, Base
  <2>2. After(Base, [Base EXCEPT !.state = "HANDSHAKE"])
    BY <1>2, HandshakeBegun
  <2> QED BY <1>3, <2>1, <2>2
<1>8. After(Now, Now) /\ dt.lib \in {"OPENSSL", "GNUTLS", "MBEDTLS", "TINYDTLS"}
  BY <1>2, Same DEF TlsInv, TlsRec
<1>9. PICK q \in {Now, Base} : After(q, c)
  <2>1. c \in {OpensslClient(Now, ok), TinyClient(Now, ok), Now}
        \/ (h \in GnutlsResults /\ c = GnutlsClient(Now, h))
        \/ (h \in MbedtlsResults /\ c = MbedtlsClient(Now, h))
    BY <1>8
  <2> HIDE DEF c
  <2> QED BY <1>4, <1>5, <1>6, <1>7, <1>8, <2>1
<1> DEFINE d == [c EXCEPT !.delayed = delay]
           e == "ERROR"
           f == TellEvent(Failure(c), e)
<1>10. Steps(IF c.obj THEN d ELSE f)
  BY <1>1
<1> HIDE DEF c
<1>11. c \in TlsRec /\ q \in TlsRec
  BY <1>2, <1>9, StillTls
<1>12. After(c, d)
  BY <1>11 DEF TlsRec, After, TlsEvents
<1>13. After(c, f)
  <2>1. e \in TlsEvents
    BY DEF TlsEvents
  <2>2. After(c, Failure(c)) /\ Failure(c) \in TlsRec
    BY <1>11, FailureIs, StillTls
  <2> HIDE DEF e
  <2>3. After(Failure(c), f)
    BY <2>1, <2>2, Told
  <2> QED BY <1>11, <2>2, <2>3, Trans
<1> HIDE DEF d, f
<1>14. After(q, d) /\ After(q, f)
  BY <1>9, <1>11, <1>12, <1>13, Trans
<1>15. EndsWell(d) /\ EndsWell(f)
  BY <1>9, <1>14, NowEnds, BaseEnds
<1> QED BY <1>10, <1>15, StepsKeep

\* A message is delayed until the session is connected.
LEMMA DelayKeeps ==
  ASSUME TlsInv, DtlsDelay
  PROVE  TlsInv' /\ HasCause
<1> DEFINE d == TRUE
           b == [Now EXCEPT !.delayed = d]
<1>1. Steps(b) /\ d \in BOOLEAN
  BY DEF DtlsDelay
<1>2. Now \in TlsRec
  BY NowIs
<1> HIDE DEF d
<1>3. After(Now, b)
  <2> DEFINE n == Now
  <2>1. n \in TlsRec
    BY <1>2
  <2> HIDE DEF n
  <2>2. After(n, [n EXCEPT !.delayed = d])
    BY <1>1, <2>1 DEF TlsRec, After, TlsEvents
  <2> QED BY <2>2 DEF n
<1> HIDE DEF b
<1> QED BY <1>1, <1>3, NowEnds, StepsKeep

\* The session is closed by libcoap itself.
LEMMA ClosingKeeps ==
  ASSUME TlsInv, SessionCloses \/ SessionFreed
  PROVE  TlsInv' /\ HasCause
<1> DEFINE f == Failure(Now)
           d == TlsDisconnected(f)
           b == [d EXCEPT !.type = "FREED"]
<1>1. Steps(d) \/ Steps(b)
  BY DEF SessionCloses, SessionFreed
<1>2. Now \in TlsRec
  BY NowIs
<1>3. After(Now, f) /\ f.failed = TRUE
  BY <1>2, FailureIs
<1> HIDE DEF f
<1>4. After(Now, d) /\ d \in TlsRec
  BY <1>2, <1>3, GivenUp, StillTls
<1> HIDE DEF d
<1>5. After(d, b)
  BY <1>4 DEF TlsRec, After, TlsEvents
<1> HIDE DEF b
<1>6. After(Now, b)
  BY <1>2, <1>4, <1>5, Trans
<1> QED BY <1>1, <1>4, <1>6, NowEnds, StepsKeep

\* A message is sent.
LEMMA SendKeeps ==
  ASSUME TlsInv, NEW x \in SendResults, TlsSend(x)
  PROVE  TlsInv' /\ HasCause
<1>1. Now \in TlsRec /\ dt.lib \in {"OPENSSL", "GNUTLS", "MBEDTLS", "TINYDTLS"}
  BY NowIs DEF TlsInv, TlsRec
<1>2. PICK r \in {TlsWrite(Now, x), OpensslSend(Now, x), GnutlsSend(Now, x),
                  MbedtlsSend(Now, x), TinySend(Now, x)} : Steps(r)
  <2> DEFINE c == CASE dt.lib = "OPENSSL" -> OpensslSend(Now, x)
                    [] dt.lib = "GNUTLS" -> GnutlsSend(Now, x)
                    [] dt.lib = "MBEDTLS" -> MbedtlsSend(Now, x)
                    [] dt.lib = "TINYDTLS" -> TinySend(Now, x)
  <2>1. Steps(IF dt.proto = "TLS" THEN TlsWrite(Now, x) ELSE c)
    BY DEF TlsSend
  <2>2. c \in {OpensslSend(Now, x), GnutlsSend(Now, x), MbedtlsSend(Now, x), TinySend(Now, x)}
    BY <1>1
  <2> HIDE DEF c
  <2> QED BY <2>1, <2>2
<1>3. After(Now, r)
  BY <1>1, <1>2, TlsWriteIs, OpensslSendIs, GnutlsSendIs, MbedtlsSendIs, TinySendIs
<1> QED BY <1>2, <1>3, NowEnds, StepsKeep

\* The timer of the handshake fires.
LEMMA TimeoutKeeps ==
  ASSUME TlsInv, HandshakeTimeout
  PROVE  TlsInv' /\ HasCause
<1>1. Now \in TlsRec /\ Now.held = dt.held
  BY NowIs
<1>2. ~dt.up
  BY DEF HandshakeTimeout
<1>3. ASSUME NEW r, After(Now, r), Steps(r) PROVE TlsInv' /\ HasCause
  BY <1>3, NowEnds, StepsKeep
<1>4. ASSUME dt.lib = "OPENSSL", NEW ok \in BOOLEAN, Steps(OpensslTimeout(Now, ok))
      PROVE  TlsInv' /\ HasCause
  BY <1>1, <1>3, <1>4, OpensslTimeoutIs
<1>5. dt.lib \in {"GNUTLS", "MBEDTLS"} => Now.held # "dead"
  BY <1>1, <1>2 DEF TlsInv
<1>6. ASSUME dt.lib = "GNUTLS", NEW h \in GnutlsResults, NEW p \in Pulls,
             Steps(GnutlsTimeout(Now, h, p))
      PROVE  TlsInv' /\ HasCause
  BY <1>1, <1>3, <1>5, <1>6, GnutlsTimeoutIs
<1>7. ASSUME dt.lib = "MBEDTLS", NEW h \in MbedtlsResults, NEW p \in Pulls,
             Steps(MbedtlsTimeout(Now, h, p))
      PROVE  TlsInv' /\ HasCause
  BY <1>1, <1>3, <1>5, <1>7, MbedtlsTimeoutIs
<1> QED BY <1>4, <1>6, <1>7 DEF HandshakeTimeout

\* A TLS session's TCP connection is made.
LEMMA TlsConnectKeeps ==
  ASSUME TlsInv, TlsConnect
  PROVE  TlsInv' /\ HasCause
<1>1. Now \in TlsRec /\ Base \in TlsRec /\ Base.held = "none"
  BY NowIs, BaseIs
<1>2. ASSUME NEW ok \in BOOLEAN, Steps(OpensslTlsClient(Now, ok))
      PROVE  TlsInv' /\ HasCause
  <2> DEFINE a == [Base EXCEPT !.state = "HANDSHAKE"]
             m == [Failure(Now) EXCEPT !.made = @ + 1]
             e == "ERROR"
             t == TellEvent(m, e)
             d == TlsDisconnected(t)
  <2>1. OpensslTlsClient(Now, ok) = IF ok THEN a ELSE d
    BY DEF OpensslTlsClient, Base
  <2>2. After(Base, a)
    BY <1>1, HandshakeBegun
  <2>3. After(Now, Failure(Now)) /\ Failure(Now).failed = TRUE /\ Failure(Now) \in TlsRec
    BY <1>1, FailureIs DEF After
  <2>4. After(Failure(Now), m)
    BY <2>3, NotMade
  <2>5. e \in TlsEvents
    BY DEF TlsEvents
  <2> HIDE DEF m, a, e
  <2>6. After(Now, m) /\ m.failed = TRUE /\ m \in TlsRec
    BY <1>1, <2>3, <2>4, Trans DEF After, TlsRec
  <2>7. After(m, t) /\ t.failed = TRUE
    BY <2>5, <2>6, Told
  <2> HIDE DEF t
  <2>8. After(Now, t)
    BY <1>1, <2>6, <2>7, Trans
  <2>9. After(Now, d)
    BY <1>1, <2>7, <2>8, GivenUp
  <2> HIDE DEF d
  <2>10. EndsWell(a) /\ EndsWell(d)
    BY <2>2, <2>9, NowEnds, BaseEnds
  <2> QED BY <1>2, <2>1, <2>10, StepsKeep
<1>3. ASSUME NEW h \in GnutlsResults, Steps(GnutlsTlsClient(Now, h))
      PROVE  TlsInv' /\ HasCause
  <2> DEFINE p == "no"
             a == GnutlsHandshake(Base, h, p)
             b == [a EXCEPT !.state = "HANDSHAKE"]
  <2>1. GnutlsTlsClient(Now, h) = b
    BY DEF GnutlsTlsClient, Base
  <2>2. p = "no"
    OBVIOUS
  <2> HIDE DEF p
  <2>0. After(Base, a)
    BY <1>1, <2>2, GnutlsHandshakeIs
  <2> HIDE DEF a
  <2>3. After(Base, a) /\ a \in TlsRec
    BY <2>0, StillTls
  <2>4. After(a, b)
    BY <2>3, HandshakeBegun
  <2> HIDE DEF b
  <2>5. After(Base, b)
    BY <1>1, <2>3, <2>4, Trans
  <2> QED BY <1>3, <2>1, <2>5, BaseEnds, StepsKeep
<1> QED BY <1>2, <1>3 DEF TlsConnect

\* A TLS session has bytes to read.
LEMMA TlsReadKeeps ==
  ASSUME TlsInv, TlsRead
  PROVE  TlsInv' /\ HasCause
<1>1. Now \in TlsRec
  BY NowIs
<1>2. PICK x \in {"data", "want"} \cup SslFails, s \in InnerResults :
        \/ \E fin \in BOOLEAN, alert \in {"none", "fatal", "renegotiate"} :
             Steps(OpensslTlsRead(Now, x, alert, fin, s))
        \/ \E h \in GnutlsResults : Steps(GnutlsTlsRead(Now, h, x, s))
  BY DEF TlsRead
<1>3. s \in SendResults
  BY DEF InnerResults, SendResults
<1>4. ASSUME NEW r, After(Now, r), Steps(r) PROVE TlsInv' /\ HasCause
  BY <1>4, NowEnds, StepsKeep
<1>5. ASSUME NEW fin \in BOOLEAN, NEW alert \in {"none", "fatal", "renegotiate"},
             Steps(OpensslTlsRead(Now, x, alert, fin, s))
      PROVE  TlsInv' /\ HasCause
  BY <1>1, <1>3, <1>4, <1>5, OpensslTlsReadIs
<1>6. ASSUME NEW h \in GnutlsResults, Steps(GnutlsTlsRead(Now, h, x, s))
      PROVE  TlsInv' /\ HasCause
  BY <1>1, <1>3, <1>4, <1>6, GnutlsTlsReadIs
<1> QED BY <1>2, <1>5, <1>6

\* The datagram that is lent to the library for a call.
Begun == [Now EXCEPT !.held = "live", !.event = "none"]

\* The session with a datagram lent to its library.
LEMMA NowBegun ==
  ASSUME TlsInv
  PROVE  /\ Begun \in TlsRec /\ Begun.held = "live" /\ Caused(Begun) /\ Begun.lib = dt.lib
         /\ Begun.bad = FALSE /\ Begun.obj = dt.obj /\ Begun.held # "dead"
<1>1. Now \in TlsRec /\ Now.lib = dt.lib /\ Now.bad = FALSE /\ Now.obj = dt.obj
  BY NowIs
<1> DEFINE n == Now
<1>2. n \in TlsRec
  BY <1>1
<1> HIDE DEF n
<1>3. LET q == [n EXCEPT !.held = "live", !.event = "none"]
      IN  /\ q \in TlsRec /\ q.held = "live" /\ Caused(q) /\ q.lib = n.lib
          /\ q.bad = n.bad /\ q.obj = n.obj
  BY <1>2, BegunIs
<1> QED BY <1>1, <1>3 DEF n, Begun

\* A datagram arrives for a session that has an object.
LEMMA DatagramKeeps ==
  ASSUME TlsInv, DatagramArrives
  PROVE  TlsInv' /\ HasCause
<1> DEFINE q == Begun
<1>1. /\ q \in TlsRec /\ q.held = "live" /\ Caused(q) /\ q.lib = dt.lib
      /\ q.bad = FALSE /\ q.obj = dt.obj /\ Now \in TlsRec
      /\ q = [Now EXCEPT !.held = "live", !.event = "none"]
  BY NowBegun, NowIs DEF Begun
<1> HIDE DEF q
<1>2. ASSUME NEW r, After(q, r), Left(r), Steps(r) PROVE TlsInv' /\ HasCause
  BY <1>1, <1>2, Ends, StepsKeep
<1>3. ASSUME NEW s, NEW x, NEW p, NEW alert \in {"none", "fatal", "renegotiate"},
             NEW fin \in BOOLEAN,
             Steps(OpensslReceive(OpensslRead(Now, p, alert, fin), dt, x, s))
      PROVE  TlsInv' /\ HasCause
  <2> DEFINE t == OpensslRead(Now, p, alert, fin)
             r == OpensslReceive(t, dt, x, s)
  <2>0. After(q, t) /\ Caused(t)
    BY ONLY <1>1, OpensslReadIs, alert \in {"none", "fatal", "renegotiate"}, fin \in BOOLEAN
  <2>2. Steps(r)
    BY <1>3
  <2> HIDE DEF t
  <2>1. After(q, t) /\ Caused(t) /\ t \in TlsRec
    BY <2>0, StillTls
  <2>3. After(t, r) /\ r.held = "none"
    BY <2>1, OpensslReceiveIs
  <2> HIDE DEF r
  <2>4. After(q, r) /\ Left(r)
    BY <1>1, <2>1, <2>3, Trans DEF Left
  <2> QED BY <1>2, <2>2, <2>4
<1>4. ASSUME dt.lib = "GNUTLS", NEW h \in GnutlsResults, NEW p, NEW h2 \in GnutlsResults, NEW p2,
             NEW x, NEW s, Steps(GnutlsReceive(Now, h, p, h2, p2, x, s))
      PROVE  TlsInv' /\ HasCause
  <2> DEFINE r == GnutlsReceive(Now, h, p, h2, p2, x, s)
  <2>1. After(q, r) /\ (r.held = "none" \/ r.up)
    BY ONLY <1>1, GnutlsReceiveIs, h \in GnutlsResults, h2 \in GnutlsResults
  <2>2. Steps(r)
    BY <1>4
  <2> HIDE DEF r
  <2>3. r.lib = "GNUTLS"
    BY <1>1, <1>4, <2>1 DEF After
  <2>4. Left(r)
    BY <2>1, <2>3 DEF Left
  <2> QED BY <1>2, <2>1, <2>2, <2>4
<1>5. ASSUME NEW h \in MbedtlsResults, NEW p, NEW h2 \in MbedtlsResults, NEW p2,
             NEW x, NEW s, Steps(MbedtlsReceive(Now, h, p, h2, p2, x, s))
      PROVE  TlsInv' /\ HasCause
  <2> DEFINE r == MbedtlsReceive(Now, h, p, h2, p2, x, s)
  <2> DEFINE m == Now
             w == MbedtlsReceive(m, h, p, h2, p2, x, s)
  <2>6. q \in TlsRec /\ Caused(q) /\ q.held = "live"
    BY <1>1
  <2>4. m \in TlsRec /\ q = [m EXCEPT !.held = "live", !.event = "none"]
    BY <1>1
  <2> HIDE DEF m
  <2>7. After(q, w)
    BY ONLY <2>4, <2>6, MbedtlsReceiveIs, h \in MbedtlsResults, h2 \in MbedtlsResults
  <2>8. NothingHeld(w)
    BY ONLY <2>4, <2>6, MbedtlsReceiveIs, h \in MbedtlsResults, h2 \in MbedtlsResults
  <2> HIDE DEF w
  <2>5. After(q, w) /\ w.held = "none"
    BY <2>7, <2>8 DEF NothingHeld
  <2>1. After(q, r) /\ r.held = "none"
    BY <2>5 DEF m, w
  <2>2. Steps(r)
    BY <1>5
  <2> HIDE DEF r
  <2>3. Left(r)
    BY <2>1 DEF Left
  <2> QED BY <1>2, <2>1, <2>2, <2>3
<1>6. ASSUME NEW x, NEW s, Steps(TinyReceive(Now, x, s))
      PROVE  TlsInv' /\ HasCause
  BY <1>1, <1>6, TinyReceiveIs, NowEnds, StepsKeep
<1>7. "again" \in GnutlsResults /\ "again" \in MbedtlsResults
  BY DEF GnutlsResults, MbedtlsResults
<1>8. PICK s \in InnerResults :
        \/ /\ dt.lib = "OPENSSL"
           /\ \E x \in {"data", "want"} \cup SslFails, p \in {"no", "all"},
                 alert \in {"none", "fatal", "renegotiate"}, fin \in BOOLEAN :
                /\ fin => x = "want" /\ p = "all" /\ ~dt.up
                /\ x = "data" => dt.up /\ alert = "none"
                /\ alert = "fatal" => x = "ssl"
                /\ Steps(OpensslReceive(OpensslRead(Now, p, alert, fin), dt, x, s))
        \/ /\ dt.lib = "GNUTLS" /\ dt.up
           /\ \E x \in {"data", "warning", "want", "zero"}, p \in Pulls :
                Steps(GnutlsReceive(Now, "again", p, "again", "no", x, s))
        \/ /\ dt.lib = "GNUTLS" /\ ~dt.up
           /\ \E h, h2 \in GnutlsResults, p, p2 \in Pulls :
                /\ Finishes(h, p) /\ Finishes(h2, p2)
                /\ Steps(GnutlsReceive(Now, h, p, h2, p2, "want", s))
        \/ /\ dt.lib = "MBEDTLS" /\ dt.up
           /\ \E x \in {"data", "want", "zero"}, p \in Pulls :
                Steps(MbedtlsReceive(Now, "again", p, "again", "no", x, s))
        \/ /\ dt.lib = "MBEDTLS" /\ ~dt.up
           /\ \E h, h2 \in MbedtlsResults, p, p2 \in Pulls :
                /\ Finishes(h, p) /\ Finishes(h2, p2)
                /\ Steps(MbedtlsReceive(Now, h, p, h2, p2, "want", s))
        \/ /\ dt.lib = "TINYDTLS"
           /\ \E x \in {"none", "data", "connected", "renegotiate", "zero", "fatal", "error"} :
                /\ x = "data" => dt.up
                /\ Steps(TinyReceive(Now, x, s))
  BY Zenon DEF DatagramArrives
<1> QED BY <1>3, <1>4, <1>5, <1>6, <1>7, <1>8

\* The object of a session that a ClientHello is for.
Hailed == IF Now.obj THEN Now ELSE Base

\* The object that a ClientHello is for is the session's own.
LEMMA HailedIs ==
  ASSUME TlsInv
  PROVE  /\ Hailed \in TlsRec /\ Hailed.lib = dt.lib /\ Hailed.bad = FALSE
         /\ Hailed.obj /\ Left(Hailed)
BY NowIs, BaseIs DEF Hailed

\* The datagram of the ClientHello is lent.
LEMMA Lent ==
  ASSUME NEW r \in TlsRec
  PROVE  LET l == [r EXCEPT !.held = "live"]
         IN  /\ l \in TlsRec /\ l.held = "live" /\ l.held # "dead" /\ l.lib = r.lib
             /\ l.bad = r.bad /\ l.obj = r.obj
BY DEF TlsRec

\* A ClientHello with GnuTLS: it is taken back or its object freed.
LEMMA GnutlsHelloKeeps ==
  ASSUME TlsInv, dt.type = "HELLO", dt.lib = "GNUTLS",
         NEW h \in (GnutlsResults \cup {"verify"}) \ {"done"}, NEW p \in Pulls,
         LET t == GnutlsHello(Now, h, p)
         IN  Steps(IF h \in {"again", "warning"} THEN Served(t) ELSE t)
  PROVE  TlsInv' /\ HasCause
<1> DEFINE q == Hailed
           l == [q EXCEPT !.held = "live"]
           g == GnutlsHandshake(l, h, p)
           n == [g EXCEPT !.held = "none"]
           t == GnutlsHello(Now, h, p)
<1>1. t = IF h = "verify" THEN q
          ELSE IF h \in Unfinished THEN n ELSE NoObject(g)
  BY DEF GnutlsHello, Hailed, Base
<1>2. Steps(IF h \in {"again", "warning"} THEN Served(t) ELSE t)
  OBVIOUS
<1>3. q \in TlsRec /\ q.lib = dt.lib /\ q.bad = FALSE /\ q.obj /\ Left(q)
  BY HailedIs
<1> HIDE DEF q, t
<1>4. CASE h = "verify"
  <2>1. Steps(q)
    BY <1>1, <1>2, <1>4
  <2>2. EndsWell(q)
    BY <1>3, Same, Ends
  <2> QED BY <2>1, <2>2, StepsKeep
<1>5. CASE h # "verify"
  <2>1. l \in TlsRec /\ l.held # "dead" /\ l.bad = FALSE /\ l.obj
    BY <1>3, Lent
  <2> HIDE DEF l
  <2>5. h \in GnutlsResults
    BY <1>5
  <2>6. After(l, g) /\ (h \notin {"done", "again"} => g.failed = TRUE)
    BY ONLY <2>1, <2>5, GnutlsHandshakeIs
  <2> HIDE DEF g
  <2>2. After(l, g) /\ (h \notin {"done", "again"} => g.failed = TRUE) /\ g \in TlsRec
    BY <2>6 DEF After
  <2>3. CASE h \in Unfinished
    <3>1. After(l, n) /\ n.held = "none" /\ n \in TlsRec
      BY <2>1, <2>2, TakenBack DEF After
    <3>2. t = n /\ h \in {"again", "warning"}
      BY <1>1, <1>5, <2>3 DEF Unfinished
    <3> HIDE DEF n
    <3>3. After(n, Served(n)) /\ Left(n)
      BY <3>1, ServedIs DEF Left
    <3>4. After(l, Served(n)) /\ Left(Served(n))
      BY <2>1, <3>1, <3>3, Trans, LeftKept
    <3>5. EndsWell(Served(n))
      BY <2>1, <3>4, Ends
    <3> QED BY <1>2, <3>2, <3>5, StepsKeep
  <2>4. CASE h \notin Unfinished
    <3> DEFINE b == NoObject(g)
    <3>1. t = b /\ h \notin {"again", "warning"}
      BY <1>1, <1>5, <2>4 DEF Unfinished
    <3>2. /\ b \in TlsRec /\ b.bad = g.bad /\ b.failed = g.failed /\ b.held = "none"
      BY <2>2, NoObjectIs
    <3>3. g.failed = TRUE /\ g.bad = FALSE
      BY <2>1, <2>2, <3>1 DEF After
    <3> HIDE DEF b
    <3>4. EndsWell(b)
      BY <3>2, <3>3 DEF EndsWell, Left
    <3> QED BY <1>2, <3>1, <3>4, StepsKeep
  <2> QED BY <2>3, <2>4
<1> QED BY <1>4, <1>5

\* A ClientHello with Mbed TLS.
LEMMA MbedtlsHelloKeeps ==
  ASSUME TlsInv, NEW h \in MbedtlsResults, NEW p \in Pulls, NEW keySeen \in BOOLEAN,
         LET t == MbedtlsHello(Now, h, p)
         IN  Steps(IF h = "again" \/ keySeen THEN Served(t) ELSE t)
  PROVE  TlsInv' /\ HasCause
<1> DEFINE q == Hailed
           l == [q EXCEPT !.held = "live"]
           g == MbedtlsHandshake(l, h, p)
           n == [g EXCEPT !.held = "none"]
<1>1. Steps(IF h = "again" \/ keySeen THEN Served(n) ELSE n)
  BY DEF MbedtlsHello, Hailed, Base
<1>2. q \in TlsRec /\ q.lib = dt.lib /\ q.bad = FALSE /\ q.obj /\ Left(q)
  BY HailedIs
<1> HIDE DEF q
<1>3. l \in TlsRec /\ l.held # "dead" /\ l.bad = FALSE /\ l.obj
  BY <1>2, Lent
<1> HIDE DEF l
<1>4. After(l, g)
  BY <1>3, MbedtlsHandshakeIs
<1> HIDE DEF g
<1>5. After(l, n) /\ n.held = "none" /\ n \in TlsRec
  BY <1>3, <1>4, TakenBack DEF After
<1> HIDE DEF n
<1>6. After(n, Served(n)) /\ Left(n)
  BY <1>5, ServedIs DEF Left
<1>7. After(l, Served(n)) /\ Left(Served(n))
  BY <1>3, <1>5, <1>6, Trans, LeftKept
<1>8. EndsWell(Served(n)) /\ EndsWell(n)
  BY <1>3, <1>5, <1>6, <1>7, Ends
<1> QED BY <1>1, <1>8, StepsKeep

\* A ClientHello with OpenSSL, whose listening object reads it first.
LEMMA OpensslHelloKeeps ==
  ASSUME TlsInv, dt.lib = "OPENSSL", NEW good \in BOOLEAN, NEW ok \in BOOLEAN,
         NEW p, NEW p2,
         LET t == OpensslHello(Now, p)
             u == OpensslServer(t, p2, ok)
         IN  Steps(IF ~good THEN t ELSE IF ok THEN Served(u) ELSE [u EXCEPT !.type = "FREED"])
  PROVE  TlsInv' /\ HasCause
<1> DEFINE k == IF p = "all" THEN "none" ELSE "live"
           m == Now
           t == [m EXCEPT !.listen = k]
           u == OpensslServer(t, p2, ok)
<1>1. Steps(IF ~good THEN t ELSE IF ok THEN Served(u) ELSE [u EXCEPT !.type = "FREED"])
  BY DEF OpensslHello
<1>2. m \in TlsRec /\ m.lib = dt.lib /\ m.bad = FALSE /\ m.obj = dt.obj /\ k \in {"none", "live"}
  BY NowIs
<1> HIDE DEF m, k
<1>3. /\ t \in TlsRec /\ t.listen = k /\ t.lib = "OPENSSL" /\ t.bad = FALSE
      /\ t.obj = dt.obj
  BY <1>2 DEF TlsRec
<1> HIDE DEF t
<1>4. CASE ~good
  <2>1. Steps(t)
    BY <1>1, <1>4
  <2>2. EndsWell(t)
    BY <1>3 DEF EndsWell, Left
  <2> QED BY <2>1, <2>2, StepsKeep
<1>5. CASE good /\ ok
  <2> DEFINE o == NewObject(t)
             none == "none"
             a == [o EXCEPT !.held = k, !.listen = none]
             d == OpensslDgramRead(a, p2)
  <2>1. u = d
    BY <1>3, <1>5 DEF OpensslServer
  <2>2. o \in TlsRec /\ o.lib = t.lib /\ o.bad = t.bad /\ o.obj = TRUE
    BY <1>3, NewObjectIs
  <2> HIDE DEF o
  <2>3a. [o EXCEPT !.held = k] \in TlsRec
    BY <1>2, <2>2 DEF TlsRec
  <2>3b. a \in TlsRec
    BY <2>3a DEF TlsRec
  <2>3. a \in TlsRec /\ a.held = k
    BY <2>2, <2>3b DEF TlsRec
  <2>4. a.lib = "OPENSSL" /\ a.bad = FALSE /\ a.obj = TRUE
    BY <1>3, <2>2 DEF TlsRec
  <2>5. a.held # "dead"
    BY <1>2, <2>3
  <2> HIDE DEF a
  <2>6. After(a, d) /\ d \in TlsRec
    BY <2>3, <2>5, OpensslDgramReadIs, StillTls
  <2> HIDE DEF d
  <2>7. After(a, Served(d))
    BY <2>3, <2>6, ServedIs, Trans
  <2>8. Left(Served(d))
    BY <2>4, <2>7 DEF Left, After
  <2>9. EndsWell(Served(d))
    BY <2>3, <2>4, <2>7, <2>8, Ends
  <2>10. Steps(Served(d))
    BY <1>1, <1>5, <2>1
  <2> QED BY <2>9, <2>10, StepsKeep
<1>6. CASE good /\ ~ok
  <2> DEFINE f == Failure(t)
             a == [f EXCEPT !.listen = "none"]
             d == [a EXCEPT !.type = "FREED"]
  <2>1. u = a
    BY <1>6 DEF OpensslServer
  <2>2. After(t, f) /\ f \in TlsRec
    BY <1>3, FailureIs, StillTls
  <2>3. f.failed = TRUE /\ f.lib = "OPENSSL" /\ f.bad = FALSE
    BY <1>3, <2>2, FailureIs DEF After
  <2>4. f.obj = t.obj
    BY <1>3 DEF Failure, TlsRec
  <2> HIDE DEF f
  <2>5. a \in TlsRec /\ a.failed = TRUE /\ a.lib = "OPENSSL" /\ a.bad = FALSE /\ a.obj = t.obj
    BY <2>2, <2>3, <2>4 DEF TlsRec
  <2> HIDE DEF a
  <2>6. d \in TlsRec /\ d.lib = "OPENSSL" /\ d.bad = FALSE /\ d.obj = t.obj
    BY <2>5 DEF TlsRec
  <2> HIDE DEF d
  <2>7. EndsWell(d)
    BY <1>3, <2>6 DEF EndsWell, Left
  <2>8. Steps(d)
    BY <1>1, <1>6, <2>1 DEF d
  <2> QED BY <2>7, <2>8, StepsKeep
<1> QED BY <1>4, <1>5, <1>6

\* A ClientHello arrives, with any library.
LEMMA HelloKeeps ==
  ASSUME TlsInv, HelloArrives
  PROVE  TlsInv' /\ HasCause
<1>1. dt.type = "HELLO"
  BY DEF HelloArrives
<1>2. ASSUME dt.lib = "TINYDTLS", NEW peer \in BOOLEAN,
             Steps(IF peer THEN Served(NewObject(Now)) ELSE Now)
      PROVE  TlsInv' /\ HasCause
  <2>1. Base \in TlsRec /\ Now \in TlsRec
    BY BaseIs, NowIs
  <2>2. EndsWell(Served(Base)) /\ EndsWell(Now)
    BY <2>1, ServedIs, Same, NowEnds, BaseEnds
  <2> QED BY <1>2, <2>2, StepsKeep DEF Base
<1> QED BY <1>1, <1>2, GnutlsHelloKeeps, MbedtlsHelloKeeps, OpensslHelloKeeps, Zenon
           DEF HelloArrives

\* The invariant of a session between two calls, and the cause of a close.
LEMMA TlsStep ==
  ASSUME TlsInv, [TlsNext]_dt
  PROVE  TlsInv' /\ (HasCause \/ UNCHANGED dt)
<1>1. CASE UNCHANGED dt
  BY <1>1 DEF TlsInv
<1>2. CASE TlsNext
  BY <1>2, ConnectKeeps, DelayKeeps, SendKeeps, HelloKeeps, DatagramKeeps, TimeoutKeeps,
     TlsConnectKeeps, TlsReadKeeps, ClosingKeeps DEF TlsNext
<1> QED BY <1>1, <1>2

\* A new session.
LEMMA TlsInitInv == TlsInit => TlsInv
<1> SUFFICES ASSUME TlsInit PROVE TlsInv
  OBVIOUS
<1>1. PICK lib \in TlsLibs, type \in {"CLIENT", "HELLO"}, pr \in {"DTLS", "TLS"} :
        dt = NewTlsSession(lib, pr, type)
  BY DEF TlsInit
<1>2. Untold \in [TlsEvents -> 0..2] /\ lib \in {"OPENSSL", "GNUTLS", "MBEDTLS", "TINYDTLS"}
  BY TlsAssumption DEF Untold, TlsEvents
<1>3. dt \in TlsRec
  BY <1>1, <1>2 DEF NewTlsSession, TlsRec
<1>4. dt.bad = FALSE /\ dt.listen = "none" /\ dt.held = "none"
  BY <1>1 DEF NewTlsSession
<1> QED BY <1>3, <1>4 DEF TlsInv

\* No library reads a datagram that is gone (NothingStaleRead), whatever the
\* libraries return, in whichever order calls and timers come.
THEOREM NeverStaleRead == TlsSpec => []NothingStaleRead
<1>1. TlsInv /\ [TlsNext]_dt => TlsInv'
  BY TlsStep
<1>2. TlsInv => NothingStaleRead
  BY DEF TlsInv, NothingStaleRead
<1> QED BY <1>1, <1>2, TlsInitInv, PTL DEF TlsSpec

\* A secure session is closed only when the call at hand gives a reason, the
\* library's or libcoap's own, never by an event of an earlier call, and the
\* application is told (ClosedForCause).
THEOREM AlwaysClosedForCause == TlsSpec => ClosedForCause
<1>1. TlsInv /\ [TlsNext]_dt => TlsInv'
  BY TlsStep
<1>2. TlsInv /\ [TlsNext]_dt =>
        [dt.obj /\ ~dt'.obj => dt'.failed /\ (dt.type # "HELLO" => dt'.told["CLOSED"] > 0)]_dt
  BY TlsStep DEF HasCause
<1> QED BY <1>1, <1>2, TlsInitInv, PTL DEF TlsSpec, ClosedForCause
=============================================================================
