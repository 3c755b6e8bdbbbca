----------------------------- MODULE Lwm2mProofs -----------------------------
(***************************************************************************)
(* Machine-checked proofs about the LwM2M part, for any devices, paths,    *)
(* requests and bounds: no request of the server's application is          *)
(* forgotten and no cancellation hangs; the pieces of a payload stay in    *)
(* order on both ways; the organizer answers every read and write of the   *)
(* analyzer at most once and never loses one it has taken; and no server   *)
(* of a client waits for a reply that cannot come.                         *)
(***************************************************************************)
EXTENDS LwClient, LwServer, LwPacket, QosOrganizer, InductionFacts

-----------------------------------------------------------------------------
(* The server.                                                              *)

Statuses == {"REGISTERED", "REG_PENDING", "DEREG_PENDING"}
Observations == [id : Nat, uri : Uris, status : Statuses]

Names == Devices \cup {""}
Sessions == Devices \cup {None}

Registrations ==
  [name : Names, sessionH : Sessions, lifetime : Nat, left : Int,
   objects : SUBSET Uris, observations : SUBSET Observations, observationId : Nat]

Requests ==
  [number : Nat, kind : {"observe", "cancel", "dm"}, client : ClientIds, uri : Uris, id : Nat]

\* The types of the server's state. The records are needed: an update of one
\* field says nothing of the others until they are known to be there.
LwsTypeOK ==
  /\ Registered \subseteq ClientIds
  /\ \A c \in Registered : clientList[c] \in Registrations
  /\ location \in [Devices -> ClientIds \cup {None}]
  /\ pending \subseteq Requests
  /\ nextRequest \in Nat
  /\ crashed \in BOOLEAN

\* What every step keeps.
LwsInv == LwsTypeOK /\ CancelInFlight /\ RequestsAccounted

-----------------------------------------------------------------------------

\* One field of a registration at a time may be set, and only the field
\* observations changes the observations.
LEMMA FieldSet ==
  ASSUME NEW r \in Registrations
  PROVE  /\ \A x \in Names : LET s == [r EXCEPT !.name = x] IN
              s \in Registrations /\ s.observations = r.observations
         /\ \A x \in Sessions : LET s == [r EXCEPT !.sessionH = x] IN
              s \in Registrations /\ s.observations = r.observations
         /\ \A x \in Nat : LET s == [r EXCEPT !.lifetime = x] IN
              s \in Registrations /\ s.observations = r.observations
         /\ \A x \in Int : LET s == [r EXCEPT !.left = x] IN
              s \in Registrations /\ s.observations = r.observations
         /\ \A x \in SUBSET Uris : LET s == [r EXCEPT !.objects = x] IN
              s \in Registrations /\ s.observations = r.observations
         /\ \A x \in SUBSET Observations : LET s == [r EXCEPT !.observations = x] IN
              s \in Registrations /\ s.observations = x
         /\ \A x \in Nat : LET s == [r EXCEPT !.observationId = x] IN
              s \in Registrations /\ s.observations = r.observations
  BY DEF Registrations

\* The fields of a registration.
LEMMA Fields ==
  ASSUME NEW r \in Registrations
  PROVE  /\ r.lifetime \in Nat /\ r.left \in Int /\ r.observationId \in Nat
         /\ r.objects \subseteq Uris /\ r.observations \subseteq Observations
  BY DEF Registrations

\* Register keeps the observations of the name it knows, and starts the life of
\* a new one with none.
LEMMA RegisterKeeps ==
  ASSUME LwsInv, NEW d \in Devices, NEW l \in LifetimesAsked, NEW objects \in Announcements,
         HandleRegister(d, l, objects)
  PROVE  LwsInv'
<1> DEFINE c == RegistrationOf(d)
           life == IF l = 0 THEN DefaultLifetime ELSE l
           old == IF c \in Registered THEN clientList[c] ELSE NewClient
<1>1. /\ c \in ClientIds
      /\ clientList' = [i \in Registered \cup {c} |->
             IF i = c THEN [old EXCEPT !.name = d, !.sessionH = d, !.lifetime = life,
                                       !.left = life, !.objects = objects]
             ELSE clientList[i]]
      /\ location' = [location EXCEPT ![d] = c]
      /\ UNCHANGED <<pending, nextRequest, answered, malformed, crashed>>
  BY DEF HandleRegister
<1>2. life \in Nat /\ objects \subseteq Uris
  BY ServerAssumption
<1>3. old \in Registrations
  <2>1. NewClient \in Registrations
    <3>1. "" \in Names /\ None \in Sessions
      BY DEF Names, Sessions
    <3>2. ASSUME NEW a \in Names, NEW b \in Sessions
          PROVE  [name |-> a, sessionH |-> b, lifetime |-> 0, left |-> 0, objects |-> {},
                  observations |-> {}, observationId |-> 0] \in Registrations
      BY DEF Registrations
    <3> QED
      BY <3>1, <3>2, Zenon DEF NewClient
  <2> QED
    BY <2>1 DEF LwsInv, LwsTypeOK
<1> HIDE DEF c, life, old
<1>4. Registered' = Registered \cup {c}
  BY <1>1 DEF Registered
<1> DEFINE new == [old EXCEPT !.name = d, !.sessionH = d, !.lifetime = life, !.left = life,
                              !.objects = objects]
<1>5. new \in Registrations /\ new.observations = old.observations
  <2> DEFINE r1 == [old EXCEPT !.name = d]
             r2 == [r1 EXCEPT !.sessionH = d]
             r3 == [r2 EXCEPT !.lifetime = life]
             r4 == [r3 EXCEPT !.left = life]
  <2>1. r1 \in Registrations /\ r1.observations = old.observations
    BY <1>3, FieldSet DEF Names
  <2> HIDE DEF r1
  <2>2. r2 \in Registrations /\ r2.observations = old.observations
    BY <2>1, FieldSet DEF Sessions
  <2> HIDE DEF r2
  <2>3. r3 \in Registrations /\ r3.observations = old.observations
    BY <1>2, <2>2, FieldSet
  <2> HIDE DEF r3
  <2>4. r4 \in Registrations /\ r4.observations = old.observations
    BY <1>2, <2>3, FieldSet
  <2> HIDE DEF r4
  <2>5. LET s == [r4 EXCEPT !.objects = objects] IN
        s \in Registrations /\ s.observations = old.observations
    BY <1>2, <2>4, FieldSet
  <2> QED
    BY <2>5 DEF r1, r2, r3, r4
<1>6. LwsTypeOK'
  <2>1. \A i \in Registered' : clientList'[i] = IF i = c THEN new ELSE clientList[i]
    BY <1>1, <1>4
  <2> HIDE DEF new
  <2> QED
    BY <1>1, <1>4, <1>5, <2>1 DEF LwsInv, LwsTypeOK
<1>7. old.observations \subseteq IF c \in Registered THEN clientList[c].observations ELSE {}
  BY DEF old, NewClient
<1>8. clientList'[c].observations = old.observations
  BY <1>1, <1>4, <1>5
<1> HIDE DEF new
<1>9. CancelInFlight'
  BY <1>1, <1>4, <1>7, <1>8 DEF LwsInv, CancelInFlight
<1>10. RequestsAccounted'
  BY <1>1 DEF LwsInv, RequestsAccounted
<1> QED
  BY <1>6, <1>9, <1>10 DEF LwsInv

\* An update only takes observations away, and of one registration.
LEMMA UpdateKeeps ==
  ASSUME LwsInv, NEW d \in Devices, NEW l \in LifetimesAsked, NEW objects \in Announcements,
         Update(d, l, objects)
  PROVE  LwsInv'
<1> DEFINE c == location[d]
           new == Updated(c, d, l, objects)
<1>1. /\ c \in Registered
      /\ clientList' = [clientList EXCEPT ![c] = new]
      /\ UNCHANGED <<location, pending, nextRequest, answered, malformed, crashed>>
  BY DEF Update
<1>2. clientList[c] \in Registrations /\ l \in Nat /\ objects \subseteq Uris
  BY <1>1, ServerAssumption DEF LwsInv, LwsTypeOK
<1>3. new \in Registrations /\ new.observations \subseteq clientList[c].observations
  <2> DEFINE old == clientList[c]
             life == IF l # 0 THEN l ELSE old.lifetime
             os == IF objects = {} THEN old.observations
                   ELSE { o \in old.observations : o.uri \in objects }
             obs == IF objects = {} THEN old.objects ELSE objects
             r1 == [old EXCEPT !.sessionH = d]
             r2 == [r1 EXCEPT !.lifetime = life]
             r3 == [r2 EXCEPT !.observations = os]
             r4 == [r3 EXCEPT !.objects = obs]
  <2>1. /\ life \in Nat /\ life \in Int /\ obs \in SUBSET Uris
        /\ os \in SUBSET Observations /\ os \subseteq old.observations
    BY <1>2, Fields
  <2>2. new = [r4 EXCEPT !.left = life]
    BY <1>2 DEF Updated, Registrations
  <2> HIDE DEF life, os, obs
  <2>3. r1 \in Registrations
    BY <1>2, FieldSet DEF Sessions
  <2> HIDE DEF r1
  <2>4. r2 \in Registrations
    BY <2>1, <2>3, FieldSet
  <2> HIDE DEF r2
  <2>5. r3 \in Registrations /\ r3.observations = os
    BY <2>1, <2>4, FieldSet
  <2> HIDE DEF r3
  <2>6. r4 \in Registrations /\ r4.observations = os
    BY <2>1, <2>5, FieldSet
  <2> HIDE DEF r4
  <2> QED
    BY <2>1, <2>2, <2>6, FieldSet
<1> HIDE DEF c, new
<1>4. Registered' = Registered
  BY <1>1 DEF Registered
<1>5. \A i \in Registered : clientList'[i] = IF i = c THEN new ELSE clientList[i]
  BY <1>1 DEF Registered
<1>6. LwsTypeOK'
  BY <1>1, <1>3, <1>4, <1>5 DEF LwsInv, LwsTypeOK
<1>7. CancelInFlight'
  BY <1>1, <1>3, <1>4, <1>5 DEF LwsInv, CancelInFlight
<1>8. RequestsAccounted'
  BY <1>1 DEF LwsInv, RequestsAccounted
<1> QED
  BY <1>6, <1>7, <1>8 DEF LwsInv

\* Registrations that go (by DELETE or at the end of their life) take their
\* observations along; the requests made of them stay under way.
LEMMA LeavingKeeps ==
  ASSUME LwsInv, NEW gone, clientList' = Without(clientList, gone),
         location' \in [Devices -> ClientIds \cup {None}],
         UNCHANGED <<pending, nextRequest, answered, malformed, crashed>>
  PROVE  LwsInv'
<1>1. Registered' = Registered \ gone
  BY DEF Registered, Without
<1>2. \A i \in Registered' : i \in Registered /\ clientList'[i] = clientList[i]
  BY <1>1 DEF Registered, Without
<1>3. LwsTypeOK'
  BY <1>1, <1>2 DEF LwsInv, LwsTypeOK
<1>4. CancelInFlight'
  BY <1>2 DEF LwsInv, CancelInFlight
<1>5. RequestsAccounted'
  BY DEF LwsInv, RequestsAccounted
<1> QED
  BY <1>3, <1>4, <1>5 DEF LwsInv

\* Time only shortens the lives of the registrations.
LEMMA TimeKeeps ==
  ASSUME LwsInv, Time
  PROVE  LwsInv'
<1>1. /\ Registered' = Registered
      /\ \A i \in Registered : clientList'[i] = [clientList[i] EXCEPT !.left = @ - 1]
      /\ UNCHANGED <<location, pending, nextRequest, answered, malformed, crashed>>
  BY DEF Time, Registered
<1>2. \A i \in Registered : /\ clientList'[i] \in Registrations
                            /\ clientList'[i].observations = clientList[i].observations
  <2> SUFFICES ASSUME NEW i \in Registered
               PROVE  /\ clientList'[i] \in Registrations
                      /\ clientList'[i].observations = clientList[i].observations
    OBVIOUS
  <2>1. clientList[i] \in Registrations
    BY DEF LwsInv, LwsTypeOK
  <2>2. clientList[i].left - 1 \in Int
    BY <2>1, Fields
  <2>3. LET s == [clientList[i] EXCEPT !.left = clientList[i].left - 1] IN
        s \in Registrations /\ s.observations = clientList[i].observations
    BY <2>1, <2>2, FieldSet
  <2>4. clientList'[i] = [clientList[i] EXCEPT !.left = clientList[i].left - 1]
    BY <1>1
  <2> QED
    BY <2>3, <2>4
<1>3. LwsTypeOK'
  BY <1>1, <1>2 DEF LwsInv, LwsTypeOK
<1>4. CancelInFlight'
  BY <1>1, <1>2 DEF LwsInv, CancelInFlight
<1>5. RequestsAccounted'
  BY <1>1 DEF LwsInv, RequestsAccounted
<1> QED
  BY <1>3, <1>4, <1>5 DEF LwsInv

-----------------------------------------------------------------------------

\* A request has the next number and the client and path it is for.
LEMMA RequestType ==
  ASSUME LwsTypeOK, NEW kind \in {"observe", "cancel", "dm"}, NEW c \in Registered,
         NEW uri \in Uris, NEW id \in Nat
  PROVE  /\ Request(kind, c, uri, id) \in Requests
         /\ Request(kind, c, uri, id).number = nextRequest
         /\ Request(kind, c, uri, id).kind = kind
         /\ Request(kind, c, uri, id).client = c
         /\ Request(kind, c, uri, id).uri = uri
  BY DEF Request, Requests, LwsTypeOK

\* A request that is added under the next number leaves none unaccounted for.
LEMMA RequestAdded ==
  ASSUME LwsInv, NEW r \in Requests, r.number = nextRequest,
         pending' = pending \cup {r}, nextRequest' = nextRequest + 1,
         UNCHANGED <<answered, malformed, crashed>>
  PROVE  RequestsAccounted'
<1> SUFFICES ASSUME ~crashed, NEW n \in 1..nextRequest
             PROVE  n \in answered \cup malformed \/ \E q \in pending' : q.number = n
  BY DEF RequestsAccounted, LwsInv, LwsTypeOK
<1>1. CASE n = nextRequest
  BY <1>1
<1>2. CASE n \in 1..(nextRequest - 1)
  BY <1>2 DEF LwsInv, RequestsAccounted
<1> QED
  BY <1>1, <1>2 DEF LwsInv, LwsTypeOK

\* A step that gives one client the observations os leaves the types intact.
LEMMA ObservationsSet ==
  ASSUME LwsTypeOK, NEW c \in Registered, NEW os \in SUBSET Observations,
         NEW id \in Nat,
         Registered' = Registered,
         \A i \in Registered : clientList'[i] =
            IF i = c THEN [clientList[c] EXCEPT !.observationId = id, !.observations = os]
            ELSE clientList[i]
  PROVE  /\ \A i \in Registered : clientList'[i] \in Registrations
         /\ clientList'[c].observations = os
<1>1. clientList[c] \in Registrations
  BY DEF LwsTypeOK
<1>2. /\ [clientList[c] EXCEPT !.observationId = id, !.observations = os] \in Registrations
      /\ [clientList[c] EXCEPT !.observationId = id, !.observations = os].observations = os
  BY <1>1 DEF Registrations
<1> QED
  BY <1>2 DEF LwsTypeOK

\* The observations WithStatus makes are of the same paths.
LEMMA WithStatusType ==
  ASSUME NEW os \in SUBSET Observations, NEW status \in Statuses
  PROVE  /\ WithStatus(os, status) \subseteq Observations
         /\ \A o \in WithStatus(os, status) :
               o.status = status /\ \E p \in os : p.uri = o.uri
  BY DEF WithStatus, Observation, Observations

\* lwm2m_observe makes no observation that is being cancelled.
LEMMA ObserveKeeps ==
  ASSUME LwsInv, NEW c \in Registered, NEW uri \in Uris, Observe(c, uri)
  PROVE  LwsInv'
<1> DEFINE id == clientList[c].observationId + 1
           seen == ObservationOf(c, uri)
           os == (clientList[c].observations \ seen) \cup WithStatus(seen, "REG_PENDING")
           r == Request("observe", c, uri, id)
<1>1. /\ clientList' = [clientList EXCEPT ![c].observationId = id, ![c].observations = os]
      /\ pending' = pending \cup {r}
      /\ nextRequest' = nextRequest + 1
      /\ UNCHANGED <<location, answered, malformed, crashed>>
  <2>1. clientList[c] \in Registrations
    BY DEF LwsInv, LwsTypeOK
  <2> QED
    BY <2>1 DEF Observe, Registrations, Registered
<1>2. clientList[c].observations \subseteq Observations /\ id \in Nat
  <2>1. clientList[c] \in Registrations
    BY DEF LwsInv, LwsTypeOK
  <2> QED
    BY <2>1, Fields
<1>3. seen \in SUBSET Observations
  BY <1>2 DEF ObservationOf
<1>4. os \in SUBSET Observations
  BY <1>2, <1>3, WithStatusType DEF Statuses
<1>5. r \in Requests /\ r.number = nextRequest
  BY <1>2, RequestType DEF LwsInv
<1>6. \A o \in os : o.status = "DEREG_PENDING" => o \in clientList[c].observations
  BY <1>3, WithStatusType DEF Statuses
<1> HIDE DEF id, os, r, seen
<1>7. /\ Registered' = Registered
      /\ \A i \in Registered : clientList'[i] =
           IF i = c THEN [clientList[c] EXCEPT !.observationId = id, !.observations = os]
           ELSE clientList[i]
  <2>1. clientList[c] \in Registrations
    BY DEF LwsInv, LwsTypeOK
  <2> QED
    BY <1>1, <2>1 DEF Registered, Registrations
<1>8. /\ \A i \in Registered : clientList'[i] \in Registrations
      /\ clientList'[c].observations = os
  BY <1>2, <1>4, <1>7, ObservationsSet DEF LwsInv
<1>9. LwsTypeOK'
  <2>1. nextRequest' \in Nat /\ pending' \subseteq Requests
    BY <1>1, <1>5 DEF LwsInv, LwsTypeOK
  <2> QED
    BY <2>1, <1>1, <1>7, <1>8 DEF LwsInv, LwsTypeOK
<1>10. CancelInFlight'
  <2>1. \A i \in Registered : \A o \in clientList'[i].observations :
           o.status = "DEREG_PENDING" => o \in clientList[i].observations
    BY <1>6, <1>7, <1>8
  <2>2. pending \subseteq pending' /\ UNCHANGED crashed /\ Registered' = Registered
    BY <1>1, <1>7
  <2> QED
    BY <2>1, <2>2 DEF LwsInv, CancelInFlight
<1>11. RequestsAccounted'
  BY <1>1, <1>5, RequestAdded
<1> QED
  BY <1>9, <1>10, <1>11 DEF LwsInv

\* lwm2m_observe_cancel marks an observation only together with the request
\* that will remove it.
LEMMA ObserveCancelKeeps ==
  ASSUME LwsInv, NEW c \in Registered, NEW uri \in Uris, ObserveCancel(c, uri)
  PROVE  LwsInv'
<1> DEFINE seen == ObservationOf(c, uri)
<1>1. clientList[c] \in Registrations /\ clientList[c].observations \in SUBSET Observations
  BY DEF LwsInv, LwsTypeOK, Registrations
<1>2. seen \in SUBSET Observations /\ \A o \in seen : o.uri = uri
  BY <1>1 DEF ObservationOf
<1>3. ASSUME NEW os \in SUBSET Observations,
             clientList' = [clientList EXCEPT ![c].observations = os]
      PROVE  /\ Registered' = Registered
             /\ \A i \in Registered : clientList'[i] \in Registrations
             /\ \A i \in Registered \ {c} : clientList'[i] = clientList[i]
             /\ clientList'[c].observations = os
  <2>1. /\ Registered' = Registered
        /\ \A i \in Registered : clientList'[i] =
             IF i = c THEN [clientList[c] EXCEPT !.observations = os] ELSE clientList[i]
    BY <1>3 DEF Registered
  <2>2. /\ [clientList[c] EXCEPT !.observations = os] \in Registrations
        /\ [clientList[c] EXCEPT !.observations = os].observations = os
    BY <1>1 DEF Registrations
  <2> QED
    BY <2>1, <2>2 DEF LwsInv, LwsTypeOK
<1>4. ASSUME nextRequest <= MaxRequests,
             clientList' = [clientList EXCEPT ![c].observations =
                              (@ \ seen) \cup WithStatus(seen, "DEREG_PENDING")],
             pending' = pending \cup {Request("cancel", c, uri, 0)},
             nextRequest' = nextRequest + 1,
             UNCHANGED <<location, answered, malformed, crashed>>
      PROVE  LwsInv'
  <2> DEFINE os == (clientList[c].observations \ seen) \cup WithStatus(seen, "DEREG_PENDING")
             r == Request("cancel", c, uri, 0)
  <2>1. os \in SUBSET Observations
    BY <1>1, <1>2, WithStatusType DEF Statuses
  <2>2. \A o \in os : o \in clientList[c].observations \/ o.uri = uri
    BY <1>2, WithStatusType DEF Statuses
  <2>3. r \in Requests /\ r.number = nextRequest /\ r.kind = "cancel"
        /\ r.client = c /\ r.uri = uri
    BY RequestType DEF LwsInv
  <2>4. clientList' = [clientList EXCEPT ![c].observations = os]
    BY <1>4, <1>1 DEF Registered
  <2> HIDE DEF os, r
  <2>5. /\ Registered' = Registered
        /\ \A i \in Registered : clientList'[i] \in Registrations
        /\ \A i \in Registered \ {c} : clientList'[i] = clientList[i]
        /\ clientList'[c].observations = os
    BY <1>3, <2>1, <2>4
  <2>6. pending' = pending \cup {r}
    BY <1>4 DEF r
  <2>7. LwsTypeOK'
    <3>1. nextRequest' \in Nat /\ pending' \subseteq Requests
      BY <1>4, <2>3, <2>6 DEF LwsInv, LwsTypeOK
    <3> QED
      BY <3>1, <1>4, <2>5 DEF LwsInv, LwsTypeOK
  <2>8. CancelInFlight'
    BY <1>4, <2>2, <2>3, <2>5, <2>6 DEF LwsInv, CancelInFlight
  <2>9. RequestsAccounted'
    BY <1>4, <2>3, <2>6, RequestAdded
  <2> QED
    BY <2>7, <2>8, <2>9 DEF LwsInv
<1>5. ASSUME clientList' = [clientList EXCEPT ![c].observations = @ \ seen],
             UNCHANGED <<location, pending, nextRequest, answered, malformed, crashed>>
      PROVE  LwsInv'
  <2> DEFINE os == clientList[c].observations \ seen
  <2>1. os \in SUBSET Observations /\ os \subseteq clientList[c].observations
    BY <1>1
  <2>2. clientList' = [clientList EXCEPT ![c].observations = os]
    BY <1>5, <1>1 DEF Registered
  <2> HIDE DEF os
  <2>3. /\ Registered' = Registered
        /\ \A i \in Registered : clientList'[i] \in Registrations
        /\ \A i \in Registered \ {c} : clientList'[i] = clientList[i]
        /\ clientList'[c].observations = os
    BY <1>3, <2>1, <2>2
  <2>4. LwsTypeOK'
    BY <1>5, <2>3 DEF LwsInv, LwsTypeOK
  <2>5. CancelInFlight'
    BY <1>5, <2>1, <2>3 DEF LwsInv, CancelInFlight
  <2>6. RequestsAccounted'
    BY <1>5 DEF LwsInv, RequestsAccounted
  <2> QED
    BY <2>4, <2>5, <2>6 DEF LwsInv
<1> QED
  BY <1>4, <1>5 DEF ObserveCancel

\* A request that ends with its number answered or malformed, or with a NULL
\* pointer, leaves the others where they were.
LEMMA RequestRemoved ==
  ASSUME LwsInv, NEW r \in pending, pending' = pending \ {r}, nextRequest' = nextRequest,
         answered \subseteq answered', malformed \subseteq malformed',
         crashed => crashed', ~crashed' => r.number \in answered' \cup malformed'
  PROVE  RequestsAccounted'
  BY DEF LwsInv, RequestsAccounted

\* The end of an observe request makes an observation that stands, or none.
LEMMA ObserveEndsKeeps ==
  ASSUME LwsInv, NEW r \in pending, NEW reply \in Replies, ObserveEnds(r, reply), ~crashed,
         pending' = pending \ {r}, UNCHANGED <<location, nextRequest>>
  PROVE  LwsInv'
<1> DEFINE c == r.client
           os == Established(r, reply)
<1>0. r \in Requests /\ r.kind = "observe"
  BY DEF ObserveEnds, LwsInv, LwsTypeOK
<1>1. RequestsAccounted'
  <2>1. /\ answered \subseteq answered' /\ malformed' = malformed /\ r.number \in answered'
        /\ crashed' = crashed
    BY DEF ObserveEnds
  <2> QED
    BY <2>1, RequestRemoved
<1>2. pending' \subseteq pending /\ \A q \in pending : q.kind = "cancel" => q \in pending'
  BY <1>0
<1>3. CASE c \notin Registered
  <2>1. UNCHANGED <<clientList, Registered, crashed>>
    BY <1>3 DEF ObserveEnds, Registered
  <2>2. LwsTypeOK'
    BY <2>1, <1>2 DEF LwsInv, LwsTypeOK
  <2>3. CancelInFlight'
    BY <2>1, <1>2 DEF LwsInv, CancelInFlight
  <2> QED
    BY <1>1, <2>2, <2>3 DEF LwsInv
<1>4. CASE c \in Registered
  <2>1. clientList[c] \in Registrations /\ clientList[c].observations \in SUBSET Observations
    BY <1>4 DEF LwsInv, LwsTypeOK, Registrations
  <2>2. /\ os \in SUBSET Observations
        /\ \A o \in os : o.status = "DEREG_PENDING" => o \in clientList[c].observations
    <3>1. Observation(r.id, r.uri, "REGISTERED") \in Observations
          /\ Observation(r.id, r.uri, "REGISTERED").status = "REGISTERED"
      BY <1>0 DEF Observation, Observations, Statuses, Requests
    <3> QED
      BY <2>1, <3>1 DEF Established
  <2>3. clientList' = [clientList EXCEPT ![c].observations = os] /\ UNCHANGED crashed
    BY <1>4 DEF ObserveEnds
  <2> HIDE DEF c, os
  <2>4. /\ Registered' = Registered
        /\ \A i \in Registered : clientList'[i] =
             IF i = c THEN [clientList[c] EXCEPT !.observations = os] ELSE clientList[i]
    BY <2>3, <1>4 DEF Registered
  <2>5. /\ [clientList[c] EXCEPT !.observations = os] \in Registrations
        /\ [clientList[c] EXCEPT !.observations = os].observations = os
    BY <2>1, <2>2 DEF Registrations
  <2>6. LwsTypeOK'
    BY <2>3, <2>4, <2>5, <1>2 DEF LwsInv, LwsTypeOK
  <2>7. CancelInFlight'
    BY <2>2, <2>3, <2>4, <2>5, <1>2 DEF LwsInv, CancelInFlight
  <2> QED
    BY <1>1, <2>6, <2>7 DEF LwsInv
<1> QED
  BY <1>3, <1>4

\* The end of a cancellation removes what it was for, whatever the reply, so
\* that what is still being cancelled waits for another request.
LEMMA CancelEndsKeeps ==
  ASSUME LwsInv, NEW r \in pending, NEW reply \in Replies, CancelEnds(r, reply), ~crashed,
         pending' = pending \ {r}, UNCHANGED <<location, nextRequest>>
  PROVE  LwsInv'
<1> DEFINE c == r.client
           os == clientList[c].observations \ ObservationOf(c, r.uri)
<1>0. r \in Requests /\ r.kind = "cancel"
  BY DEF CancelEnds, LwsInv, LwsTypeOK
<1>1. RequestsAccounted'
  <2>1. /\ answered \subseteq answered' /\ malformed' = malformed
        /\ ~crashed' => r.number \in answered'
    BY DEF CancelEnds
  <2> QED
    BY <2>1, RequestRemoved
<1>2. crashed' \in BOOLEAN
  BY DEF CancelEnds
<1>3. CASE c \notin Registered
  <2>1. UNCHANGED <<clientList, Registered>>
    BY <1>3 DEF CancelEnds, Registered
  <2>2. LwsTypeOK'
    BY <2>1, <1>2 DEF LwsInv, LwsTypeOK
  <2>3. CancelInFlight'
    BY <2>1, <1>3 DEF LwsInv, CancelInFlight
  <2> QED
    BY <1>1, <2>2, <2>3 DEF LwsInv
<1>4. CASE c \in Registered
  <2>1. clientList[c] \in Registrations /\ clientList[c].observations \in SUBSET Observations
    BY <1>4 DEF LwsInv, LwsTypeOK, Registrations
  <2>2. /\ os \in SUBSET Observations
        /\ \A o \in os : o \in clientList[c].observations /\ o.uri # r.uri
    BY <2>1 DEF ObservationOf
  <2>3. clientList' = [clientList EXCEPT ![c].observations = os]
    BY <1>4, <2>1 DEF CancelEnds, Registered
  <2> HIDE DEF os
  <2>4. /\ Registered' = Registered
        /\ \A i \in Registered : clientList'[i] =
             IF i = c THEN [clientList[c] EXCEPT !.observations = os] ELSE clientList[i]
    BY <2>3, <1>4 DEF Registered
  <2>5. /\ [clientList[c] EXCEPT !.observations = os] \in Registrations
        /\ [clientList[c] EXCEPT !.observations = os].observations = os
    BY <2>1, <2>2 DEF Registrations
  <2>6. LwsTypeOK'
    BY <1>2, <2>4, <2>5 DEF LwsInv, LwsTypeOK
  <2>7. CancelInFlight'
    <3> SUFFICES ASSUME NEW i \in Registered, NEW o \in clientList'[i].observations,
                        o.status = "DEREG_PENDING"
                 PROVE  \E q \in pending' : q.kind = "cancel" /\ q.client = i /\ q.uri = o.uri
      BY <2>4 DEF CancelInFlight
    <3>1. o \in clientList[i].observations /\ (i = c => o.uri # r.uri)
      BY <2>2, <2>4, <2>5
    <3>2. PICK q \in pending : q.kind = "cancel" /\ q.client = i /\ q.uri = o.uri
      BY <3>1 DEF LwsInv, CancelInFlight
    <3>3. q # r
      BY <3>1, <3>2
    <3> QED
      BY <3>2, <3>3
  <2> QED
    BY <1>1, <2>6, <2>7 DEF LwsInv
<1> QED
  BY <1>3, <1>4

\* The end of a device management request touches no registration.
LEMMA OperationEndsKeeps ==
  ASSUME LwsInv, NEW r \in pending, NEW reply \in Replies, OperationEnds(r, reply), ~crashed,
         pending' = pending \ {r}, UNCHANGED <<location, nextRequest>>
  PROVE  LwsInv'
<1>1. /\ r.kind = "dm" /\ UNCHANGED <<clientList, Registered, crashed>>
      /\ answered \subseteq answered' /\ malformed \subseteq malformed'
      /\ r.number \in answered' \cup malformed'
  BY DEF OperationEnds, Registered
<1>2. LwsTypeOK'
  BY <1>1 DEF LwsInv, LwsTypeOK
<1>3. CancelInFlight'
  BY <1>1 DEF LwsInv, CancelInFlight
<1>4. RequestsAccounted'
  BY <1>1, RequestRemoved
<1> QED
  BY <1>2, <1>3, <1>4 DEF LwsInv

-----------------------------------------------------------------------------

\* The server starts with no client and no request.
LEMMA LwsInitOK == LwsInit => LwsInv
<1> SUFFICES ASSUME LwsInit PROVE LwsInv
  OBVIOUS
<1>1. Registered = {} /\ nextRequest = 1 /\ pending = {}
  BY DEF LwsInit, Registered
<1>2. LwsTypeOK
  <2>1. nextRequest \in Nat /\ crashed = FALSE /\ location \in [Devices -> ClientIds \cup {None}]
    BY <1>1 DEF LwsInit
  <2> QED
    BY <1>1, <2>1 DEF LwsTypeOK
<1>3. CancelInFlight /\ RequestsAccounted
  BY <1>1 DEF CancelInFlight, RequestsAccounted
<1> QED
  BY <1>2, <1>3 DEF LwsInv

\* Every handler, and every stuttering step, keeps the invariant.
LEMMA LwsStep == LwsInv /\ [LwsNext]_lwsvars => LwsInv'
<1> SUFFICES ASSUME LwsInv, [LwsNext]_lwsvars PROVE LwsInv'
  OBVIOUS
<1>1. ASSUME NEW d \in Devices, HandleDeregister(d) PROVE LwsInv'
  <2>1. location' \in [Devices -> ClientIds \cup {None}]
    BY <1>1 DEF HandleDeregister, LwsInv, LwsTypeOK
  <2> QED
    BY <1>1, <2>1, LeavingKeeps DEF HandleDeregister
<1>2. ASSUME ExpireClients PROVE LwsInv'
  <2>1. location' \in [Devices -> ClientIds \cup {None}]
    BY <1>2 DEF ExpireClients, LwsInv, LwsTypeOK
  <2> QED
    BY <1>2, <2>1, LeavingKeeps DEF ExpireClients
<1>3. ASSUME NEW c \in Registered, NEW u \in Uris, MakeOperation(c, u) PROVE LwsInv'
  <2> DEFINE r == Request("dm", c, u, 0)
  <2>1. r \in Requests /\ r.number = nextRequest
    BY RequestType DEF LwsInv
  <2>2. /\ pending' = pending \cup {r} /\ nextRequest' = nextRequest + 1
        /\ UNCHANGED <<clientList, Registered, location, answered, malformed, crashed>>
    BY <1>3 DEF MakeOperation, Registered
  <2> HIDE DEF r
  <2>3. LwsTypeOK'
    BY <2>1, <2>2 DEF LwsInv, LwsTypeOK
  <2>4. CancelInFlight'
    BY <2>2 DEF LwsInv, CancelInFlight
  <2>5. RequestsAccounted'
    BY <2>1, <2>2, RequestAdded
  <2> QED
    BY <2>3, <2>4, <2>5 DEF LwsInv
<1>4. ASSUME NEW r \in pending, NEW reply \in Replies, RequestEnds(r, reply) PROVE LwsInv'
  BY <1>4, ObserveEndsKeeps, CancelEndsKeeps, OperationEndsKeeps DEF RequestEnds
<1>5. CASE UNCHANGED lwsvars
  <2>1. UNCHANGED <<clientList, Registered, location, pending, nextRequest, answered,
                    malformed, crashed>>
    BY <1>5 DEF lwsvars, Registered
  <2>2. LwsTypeOK'
    BY <2>1 DEF LwsInv, LwsTypeOK
  <2>3. CancelInFlight' /\ RequestsAccounted'
    BY <2>1 DEF LwsInv, CancelInFlight, RequestsAccounted
  <2> QED
    BY <2>2, <2>3 DEF LwsInv
<1> QED
  BY <1>1, <1>2, <1>3, <1>4, <1>5, RegisterKeeps, UpdateKeeps, TimeKeeps, ObserveKeeps,
     ObserveCancelKeeps DEF LwsNext

\* Whatever becomes of the clients meanwhile (a deregistration, the end of a
\* lifetime, another registration under the same number), an observation that is
\* being cancelled has a request under way that will remove it
\* (prv_obsCancelRequestCallback), and every request of the application is under
\* way or was ended (prv_obsRequestCallback, prv_resultCallback), as long as no
\* NULL pointer was followed at the end of a cancellation.
THEOREM ServerRequestsExact == LwsSpec => []RequestsExact
<1>1. LwsInit => LwsInv
  BY LwsInitOK
<1>2. LwsInv /\ [LwsNext]_lwsvars => LwsInv'
  BY LwsStep
<1>3. LwsInv => RequestsExact
  BY DEF LwsInv, RequestsExact
<1> QED
  BY <1>1, <1>2, <1>3, PTL DEF LwsSpec

-----------------------------------------------------------------------------
(* Block-wise transfer.                                                     *)

\* Where the server can be, and the blocks it can have sent.
PacketPlaces == Bodies \cup {Min(Bodies)}

Blocks == {Block(b, n) : b \in PacketPlaces, n \in 0..(BodyBlocks - 1)}

\* The blocks of a body from the first one on, short enough to be kept.
InOrder(b) ==
  /\ b \in Seq(Blocks)
  /\ Len(b) < MAX_BLOCK1_SIZE
  /\ \A i \in 1..Len(b) : b[i].num = i - 1

\* What coap_block1_handler has: the message id is that of the last block, so
\* that a message that comes again is the last block and not another one.
Kept(d) ==
  /\ d = [blocks |-> d.blocks, lastmid |-> d.lastmid, code |-> d.code]
  /\ InOrder(d.blocks)
  /\ d.blocks # << >> => \E p : d.lastmid = <<p, Len(d.blocks) - 1>>

Fetches == [size : Nat, szx : Nat \ {0}, num : Nat, upto : Nat, gap : BOOLEAN,
            state : {"fetching", "done", "refused"}]

\* Between two blocks of a response: the size is agreed on after the first one,
\* so that the number of the next block says where it begins.
Between(f) ==
  /\ f.num = 0 => f.upto = 0
  /\ f.num # 0 => /\ f.szx <= REST_MAX_CHUNK_SIZE
                  /\ f.upto = f.num * f.szx
                  /\ f.upto < f.size

Fetched(f) ==
  /\ f \in Fetches
  /\ ~f.gap
  /\ f.state = "fetching" => Between(f)
  /\ f.state = "done" => f.upto = f.size
  /\ f.state = "refused" => f.size = 0

\* Blocks of one body.
OneBody(b) == \A i \in DOMAIN b : b[i].body = b[1].body

\* A payload that was handed on.
Whole(h) ==
  /\ InOrder(h.blocks) /\ Len(h.blocks) = BodyBlocks
  /\ h.alone => OneBody(h.blocks)

PacketInv ==
  /\ position.body \in PacketPlaces /\ position.num \in Nat
  /\ position = [body |-> position.body, num |-> position.num]
  /\ sent \subseteq Blocks
  /\ Kept(block1Data)
  /\ alone => OneBody(block1Data.blocks)
  /\ \A h \in handed : Whole(h)
  /\ Fetched(fetched)

LEMMA PacketInvInOrder ==
  ASSUME PacketInv
  PROVE  BlocksInOrder
<1>1. ASSUME NEW h \in handed
      PROVE  /\ Len(h.blocks) = BodyBlocks /\ Len(h.blocks) < MAX_BLOCK1_SIZE
             /\ \A i \in DOMAIN h.blocks : h.blocks[i].num = i - 1
             /\ h.alone => \A i \in DOMAIN h.blocks : h.blocks[i].body = h.blocks[1].body
  <2> DEFINE b == h.blocks
  <2>0. Whole(h)
    BY DEF PacketInv
  <2>1. InOrder(b) /\ Len(b) = BodyBlocks /\ (h.alone => OneBody(b))
    BY <2>0, Zenon DEF Whole
  <2> HIDE DEF b
  <2>2. /\ Len(b) = BodyBlocks /\ Len(b) < MAX_BLOCK1_SIZE
        /\ \A i \in DOMAIN b : b[i].num = i - 1
        /\ h.alone => \A i \in DOMAIN b : b[i].body = b[1].body
    BY <2>1 DEF InOrder, OneBody
  <2> QED
    BY <2>2 DEF b
<1>2. Fetched(fetched)
  BY DEF PacketInv
<1> QED
  BY <1>1, <1>2 DEF BlocksInOrder, Fetched

-----------------------------------------------------------------------------
(* Block1.                                                                   *)

\* The fields of a block.
LEMMA BlockFields ==
  ASSUME NEW m \in Blocks
  PROVE  /\ m.num \in 0..(BodyBlocks - 1)
         /\ m.mid = <<m.body, m.num>>
         /\ m.more <=> m.num < BodyBlocks - 1
<1>1. PICK b \in PacketPlaces, n \in 0..(BodyBlocks - 1) : m = Block(b, n)
  BY DEF Blocks
<1> QED
  BY <1>1 DEF Block

LEMMA FirstBlock ==
  ASSUME NEW m \in Blocks, m.num = 0
  PROVE  InOrder(<<m>>)
<1>1. <<m>> \in Seq(Blocks) /\ Len(<<m>>) = 1 /\ <<m>>[1] = m
  OBVIOUS
<1> QED
  BY <1>1, PacketAssumption DEF InOrder

LEMMA NextBlock ==
  ASSUME NEW b, InOrder(b), NEW m \in Blocks, Len(b) = m.num,
         ~(Len(b) + 1 >= MAX_BLOCK1_SIZE)
  PROVE  InOrder(Append(b, m)) /\ Len(Append(b, m)) = Len(b) + 1
<1> DEFINE new == Append(b, m)
<1>1. b \in Seq(Blocks) /\ Len(b) \in Nat /\ \A i \in 1..Len(b) : b[i].num = i - 1
  BY DEF InOrder
<1>2. /\ new \in Seq(Blocks) /\ Len(new) = Len(b) + 1
      /\ \A i \in 1..Len(b) : new[i] = b[i]
      /\ new[Len(b) + 1] = m
  BY <1>1
<1> HIDE DEF new
<1>3. ASSUME NEW i \in 1..Len(new) PROVE new[i].num = i - 1
  <2>1. CASE i \in 1..Len(b)
    BY <1>1, <1>2, <2>1
  <2>2. CASE i = Len(b) + 1
    BY <1>1, <1>2, <2>2
  <2> QED
    BY <1>1, <1>2, <2>1, <2>2
<1>4. Len(new) < MAX_BLOCK1_SIZE
  BY <1>1, <1>2, PacketAssumption
<1>5. InOrder(new)
  BY <1>2, <1>3, <1>4 DEF InOrder
<1> QED
  BY <1>2, <1>5 DEF new

\* What is kept stays so if only the answer to the message changes.
LEMMA KeptCode ==
  ASSUME NEW d, Kept(d), NEW c
  PROVE  /\ Kept([d EXCEPT !.code = c])
         /\ [d EXCEPT !.code = c].blocks = d.blocks
         /\ [d EXCEPT !.code = c].code = c
<1> DEFINE b == d.blocks
           i == d.lastmid
           o == d.code
           new == [d EXCEPT !.code = c]
<1>1. d = [blocks |-> b, lastmid |-> i, code |-> o]
  BY DEF Kept
<1> HIDE DEF b, i, o
<1>2. new = [blocks |-> b, lastmid |-> i, code |-> c]
  BY <1>1
<1> HIDE DEF new
<1>3. new.blocks = b /\ new.lastmid = i /\ new.code = c
  BY <1>2
<1>4. InOrder(b) /\ (b # << >> => \E p : i = <<p, Len(b) - 1>>)
  BY DEF Kept, b, i
<1>5. Kept(new)
  BY <1>2, <1>3, <1>4 DEF Kept
<1> QED
  BY <1>3, <1>5 DEF new, b

\* A block that is taken: what is kept then ends with it.
LEMMA KeptNew ==
  ASSUME NEW b, InOrder(b), NEW p, NEW n, n = Len(b) - 1,
         NEW d, d = [blocks |-> b, lastmid |-> <<p, n>>, code |-> 0]
  PROVE  Kept(d) /\ d.blocks = b /\ d.code = 0
BY DEF Kept

\* coap_block1_handler keeps the blocks in order, and when it accepts a block
\* the last one it has is that block.
LEMMA Block1Keeps ==
  ASSUME Kept(block1Data), NEW m \in Blocks
  PROVE  /\ Kept(Block1(m))
         /\ Block1(m).code = 0 => Len(Block1(m).blocks) = m.num + 1
<1> DEFINE d == block1Data
<1>1. m.num \in Nat /\ m.mid = <<m.body, m.num>>
  BY BlockFields, PacketAssumption
<1>2. InOrder(d.blocks) /\ Len(d.blocks) \in Nat
      /\ (d.blocks # << >> => \E p : d.lastmid = <<p, Len(d.blocks) - 1>>)
  BY DEF Kept, InOrder
<1>3. CASE m.num = 0
  <2>1. Block1(m) = [blocks |-> <<m>>, lastmid |-> m.mid, code |-> 0]
    BY <1>3 DEF Block1
  <2> DEFINE b == <<m>>
  <2>2. InOrder(b) /\ Len(b) = 1
    BY <1>3, FirstBlock
  <2> HIDE DEF b
  <2> DEFINE n == m.num
  <2>3. n = Len(b) - 1
    BY <1>3, <2>2
  <2>4. Block1(m) = [blocks |-> b, lastmid |-> <<m.body, n>>, code |-> 0]
    BY <1>1, <2>1 DEF b
  <2> HIDE DEF n
  <2>5. Kept(Block1(m)) /\ Block1(m).blocks = b
    <3>1. InOrder(b)
      BY <2>2
    <3> DEFINE d1 == Block1(m)
               p == m.body
    <3>2. d1 = [blocks |-> b, lastmid |-> <<p, n>>, code |-> 0]
      BY <2>4
    <3> HIDE DEF d1, p
    <3>3. Kept(d1) /\ d1.blocks = b
      BY <2>3, <3>1, <3>2, KeptNew
    <3> QED
      BY <3>3 DEF d1
  <2> QED
    BY <1>3, <2>2, <2>5
<1>4. CASE m.num # 0 /\ d.blocks = << >>
  <2>1. Block1(m) = [d EXCEPT !.code = 408]
    BY <1>4 DEF Block1
  <2> QED
    BY <2>1, KeptCode
<1>5. CASE m.num # 0 /\ d.blocks # << >> /\ d.lastmid = m.mid
  <2>1. Block1(m) = [d EXCEPT !.code = 0]
    BY <1>5 DEF Block1
  <2>2. PICK p : d.lastmid = <<p, Len(d.blocks) - 1>>
    BY <1>2, <1>5
  <2>3. m.num = Len(d.blocks) - 1
    BY <1>1, <1>5, <2>2
  <2>4. Len(d.blocks) = m.num + 1
    BY <1>1, <1>2, <2>3
  <2> QED
    BY <2>1, <2>4, KeptCode
<1>6. CASE /\ m.num # 0 /\ d.blocks # << >> /\ d.lastmid # m.mid
           /\ Len(d.blocks) # m.num
  <2>1. Block1(m) = [d EXCEPT !.code = 408]
    BY <1>6 DEF Block1
  <2> QED
    BY <2>1, KeptCode
<1>7. CASE /\ m.num # 0 /\ d.blocks # << >> /\ d.lastmid # m.mid
           /\ Len(d.blocks) = m.num /\ Len(d.blocks) + 1 >= MAX_BLOCK1_SIZE
  <2>1. Block1(m) = [d EXCEPT !.code = 413]
    BY <1>7 DEF Block1
  <2> QED
    BY <2>1, KeptCode
<1>8. CASE /\ m.num # 0 /\ d.blocks # << >> /\ d.lastmid # m.mid
           /\ Len(d.blocks) = m.num /\ ~(Len(d.blocks) + 1 >= MAX_BLOCK1_SIZE)
  <2> DEFINE b == Append(d.blocks, m)
  <2>1. Block1(m) = [blocks |-> b, lastmid |-> m.mid, code |-> 0]
    BY <1>8 DEF Block1
  <2>2. InOrder(b) /\ Len(b) = Len(d.blocks) + 1
    BY <1>2, <1>8, NextBlock
  <2> HIDE DEF b
  <2>3. m.num = Len(b) - 1 /\ Len(b) = m.num + 1
    BY <1>1, <1>2, <1>8, <2>2
  <2>4. Block1(m) = [blocks |-> b, lastmid |-> <<m.body, m.num>>, code |-> 0]
    BY <1>1, <2>1
  <2>5. Kept(Block1(m)) /\ Block1(m).blocks = b
    BY <2>2, <2>3, <2>4, KeptNew
  <2> QED
    BY <2>3, <2>5
<1> QED
  BY <1>3, <1>4, <1>5, <1>6, <1>7, <1>8

\* A block of the body at hand leaves what is kept one body.
LEMMA Block1OneBody ==
  ASSUME Kept(block1Data), NEW m \in Blocks,
         m.num = 0 \/ (/\ block1Data.blocks # <<>> /\ OneBody(block1Data.blocks)
                       /\ m.body = block1Data.blocks[1].body)
  PROVE  OneBody(Block1(m).blocks)
<1> DEFINE d == block1Data
<1>1. CASE m.num = 0
  <2>1. Block1(m).blocks = <<m>>
    BY <1>1 DEF Block1
  <2> QED
    BY <2>1 DEF OneBody
<1>2. CASE m.num # 0
  <2>1. d.blocks \in Seq(Blocks) /\ d.blocks # <<>>
    BY <1>2 DEF Kept, InOrder
  <2>2. \E c : Block1(m) = [d EXCEPT !.code = c] \/ Block1(m).blocks = Append(d.blocks, m)
    BY <1>2 DEF Block1
  <2>3. CASE \E c : Block1(m) = [d EXCEPT !.code = c]
    <3>1. Block1(m).blocks = d.blocks
      BY <2>3 DEF Kept
    <3> QED
      BY <1>2, <3>1
  <2>4. CASE Block1(m).blocks = Append(d.blocks, m)
    <3> DEFINE b == d.blocks
               a == Append(b, m)
    <3>1. /\ b \in Seq(Blocks) /\ b # <<>> /\ m.body = b[1].body
          /\ \A i \in DOMAIN b : b[i].body = b[1].body
      BY <1>2, <2>1 DEF OneBody
    <3> HIDE DEF b
    <3>2. /\ DOMAIN a = 1..(Len(b) + 1) /\ Len(b) \in Nat \ {0}
          /\ \A i \in 1..Len(b) : a[i] = b[i]
          /\ a[Len(b) + 1] = m
      BY <3>1
    <3> HIDE DEF a
    <3>3. \A i \in DOMAIN a : a[i].body = a[1].body
      BY <3>1, <3>2
    <3> QED
      BY <2>4, <3>3 DEF OneBody, a, b
  <2> QED
    BY <2>2, <2>3, <2>4
<1> QED
  BY <1>1, <1>2

LEMMA ReceiveBlockInv ==
  ASSUME PacketInv, NEW m \in sent, ReceiveBlock(m)
  PROVE  PacketInv'
<1> DEFINE d == Block1(m)
           own == m.num = 0 \/ (alone /\ block1Data.blocks # <<>> /\ m.body = block1Data.blocks[1].body)
<1>1. /\ block1Data' = d /\ alone' = own
      /\ handed' = IF d.code = 0 /\ ~m.more
                   THEN handed \cup {[blocks |-> d.blocks, alone |-> own]} ELSE handed
      /\ UNCHANGED <<sent, position, fetched>>
  BY DEF ReceiveBlock
<1>2. m \in Blocks /\ Kept(block1Data)
  BY DEF PacketInv
<1>3. Kept(d) /\ (d.code = 0 => Len(d.blocks) = m.num + 1)
  BY <1>2, Block1Keeps
<1>3a. own => OneBody(d.blocks)
  BY <1>2, Block1OneBody DEF PacketInv
<1> HIDE DEF d, own
<1>4. m.num \in 0..(BodyBlocks - 1) /\ (m.more <=> m.num < BodyBlocks - 1)
  BY <1>2, BlockFields
<1>5. ASSUME NEW h \in handed'
      PROVE  Whole(h)
  <2>1. CASE h \in handed
    BY <2>1 DEF PacketInv
  <2>2. CASE h \notin handed
    <3>1. d.code = 0 /\ ~m.more /\ h = [blocks |-> d.blocks, alone |-> own]
      BY <1>1, <2>2
    <3>2. h.blocks = d.blocks /\ h.alone = own
      BY <3>1
    <3>3. Len(d.blocks) = m.num + 1 /\ InOrder(d.blocks)
      BY <1>3, <3>1 DEF Kept
    <3>4. m.num + 1 = BodyBlocks
      BY <1>4, <3>1, PacketAssumption
    <3> QED
      BY <1>3a, <3>2, <3>3, <3>4 DEF Whole
  <2> QED
    BY <2>1, <2>2
<1>6. Kept(block1Data') /\ (alone' => OneBody(block1Data'.blocks))
  BY <1>1, <1>3, <1>3a
<1> QED
  BY <1>1, <1>5, <1>6 DEF PacketInv

LEMMA SendBlockInv ==
  ASSUME PacketInv, SendBlock
  PROVE  PacketInv'
<1> DEFINE b == position.body
           n == position.num
<1>1. b \in PacketPlaces /\ n \in Nat /\ position = [body |-> b, num |-> n]
  BY DEF PacketInv
<1>2. CASE /\ n < BodyBlocks
           /\ sent' = sent \cup {Block(b, n)}
           /\ position' = [position EXCEPT !.num = @ + 1]
           /\ UNCHANGED <<block1Data, alone, handed, fetched>>
  <2>1. position' = [body |-> b, num |-> n + 1]
    BY <1>1, <1>2
  <2>2. n \in 0..(BodyBlocks - 1)
    BY <1>1, <1>2, PacketAssumption
  <2>3. Block(b, n) \in Blocks
    BY <1>1, <2>2 DEF Blocks
  <2> HIDE DEF b, n
  <2>4. sent' \subseteq Blocks
    BY <1>2, <2>3 DEF PacketInv
  <2>5. /\ position'.body = b /\ position'.num = n + 1
        /\ position' = [body |-> position'.body, num |-> position'.num]
    BY <2>1
  <2>6. position'.body \in PacketPlaces /\ position'.num \in Nat
    BY <1>1, <2>5
  <2> QED
    BY <1>2, <2>4, <2>5, <2>6 DEF PacketInv
<1>3. CASE /\ b + 1 \in Bodies
           /\ position' = [body |-> b + 1, num |-> 0]
           /\ UNCHANGED <<sent, block1Data, alone, handed, fetched>>
  <2> DEFINE c == b + 1
  <2>1. c \in PacketPlaces /\ position' = [body |-> c, num |-> 0]
    BY <1>3 DEF PacketPlaces
  <2> HIDE DEF b, n, c
  <2>2. /\ position'.body \in PacketPlaces /\ position'.num \in Nat
        /\ position' = [body |-> position'.body, num |-> position'.num]
    BY <2>1
  <2> QED
    BY <1>3, <2>2 DEF PacketInv
<1> QED
  BY <1>2, <1>3 DEF SendBlock

-----------------------------------------------------------------------------
(* Block2.                                                                   *)

\* g is f with these fields set.
IsSet(g, f, szx, num, upto, gap, state) ==
  g = [f EXCEPT !.szx = szx, !.num = num, !.upto = upto, !.gap = gap, !.state = state]

\* Setting the fields of a transfer, one after the other.
LEMMA FetchSet ==
  ASSUME NEW f \in Fetches, NEW szx \in Nat \ {0}, NEW num \in Nat, NEW upto \in Nat,
         NEW gap \in BOOLEAN, NEW state \in {"fetching", "done", "refused"},
         NEW g, IsSet(g, f, szx, num, upto, gap, state)
  PROVE  /\ g \in Fetches /\ g.size = f.size /\ g.szx = szx /\ g.num = num
         /\ g.upto = upto /\ g.gap = gap /\ g.state = state
<1> DEFINE f1 == [f EXCEPT !.szx = szx]
           f2 == [f1 EXCEPT !.num = num]
           f3 == [f2 EXCEPT !.upto = upto]
           f4 == [f3 EXCEPT !.gap = gap]
           f5 == [f4 EXCEPT !.state = state]
<1>1. f1 \in Fetches /\ f1.size = f.size /\ f1.szx = szx
  BY DEF Fetches
<1> HIDE DEF f1
<1>2. f2 \in Fetches /\ f2.size = f.size /\ f2.szx = szx /\ f2.num = num
  BY <1>1 DEF Fetches
<1> HIDE DEF f2
<1>3. /\ f3 \in Fetches /\ f3.size = f.size /\ f3.szx = szx /\ f3.num = num
      /\ f3.upto = upto
  BY <1>2 DEF Fetches
<1> HIDE DEF f3
<1>4. /\ f4 \in Fetches /\ f4.size = f.size /\ f4.szx = szx /\ f4.num = num
      /\ f4.upto = upto /\ f4.gap = gap
  BY <1>3 DEF Fetches
<1> HIDE DEF f4
<1>5. /\ f5 \in Fetches /\ f5.size = f.size /\ f5.szx = szx /\ f5.num = num
      /\ f5.upto = upto /\ f5.gap = gap /\ f5.state = state
  BY <1>4 DEF Fetches
<1> QED
  <2>1. g = f5
    BY Zenon DEF IsSet, f1, f2, f3, f4, f5
  <2> HIDE DEF f5
  <2> QED
    BY <1>5, <2>1

\* One block more: it begins where the last one ended.
LEMMA FetchBlockInv ==
  ASSUME PacketInv, FetchBlock
  PROVE  PacketInv'
<1> DEFINE f == fetched
           size == f.size
           upto == f.upto
           chunk == LeastOf(f.szx, REST_MAX_CHUNK_SIZE)
           r == Slice(f.size, f.num, f.szx)
           upto2 == IF r.ok THEN r.to ELSE f.upto
           gap2 == f.gap \/ (r.ok /\ r.from # f.upto)
           state2 == IF ~r.ok THEN "refused" ELSE IF r.more THEN "fetching" ELSE "done"
           num2 == f.num + 1
<1>1. /\ f.state = "fetching"
      /\ IsSet(fetched', f, chunk, num2, upto2, gap2, state2)
      /\ UNCHANGED <<sent, block1Data, alone, handed, position>>
  BY DEF FetchBlock, IsSet
<1>2. f \in Fetches /\ ~f.gap /\ Between(f)
  BY <1>1 DEF PacketInv, Fetched
<1>3. size \in Nat /\ upto \in Nat /\ f.szx \in Nat \ {0} /\ f.num \in Nat
  BY <1>2 DEF Fetches
<1>4. chunk \in Nat \ {0} /\ chunk <= f.szx /\ chunk <= REST_MAX_CHUNK_SIZE
      /\ (f.num # 0 => chunk = f.szx)
  BY <1>2, <1>3, PacketAssumption DEF LeastOf, Between
<1>5. upto = f.num * f.szx
  BY <1>2, <1>3 DEF Between
<1>6. num2 \in Nat /\ num2 # 0 /\ upto + chunk = num2 * chunk
  <2>1. CASE f.num = 0
    BY <1>2, <1>3, <1>4, <2>1 DEF Between
  <2>2. CASE f.num # 0
    <3> DEFINE a == f.num
               c == chunk
    <3>1. upto = a * c /\ a \in Nat /\ c \in Nat
      BY <1>3, <1>4, <1>5, <2>2
    <3> HIDE DEF a, c, upto
    <3>2. a * c + c = (a + 1) * c
      BY <3>1
    <3>3. upto + c = (a + 1) * c
      BY <3>1, <3>2
    <3> QED
      BY <1>3, <3>3 DEF a, c
  <2> QED
    BY <2>1, <2>2
<1>7. CASE f.num * f.szx >= size
  <2>1. ~r.ok
    BY <1>7 DEF Slice
  <2>2. size = 0
    BY <1>2, <1>3, <1>5, <1>7 DEF Between
  <2>3. upto2 = upto /\ gap2 = FALSE /\ state2 = "refused"
    BY <1>2, <2>1
  <2> HIDE DEF f, chunk, r, upto2, gap2, state2, num2, upto
  <2>4. /\ fetched' \in Fetches /\ fetched'.size = f.size /\ fetched'.gap = gap2
        /\ fetched'.state = state2
    <3>1. upto2 \in Nat /\ gap2 \in BOOLEAN /\ state2 \in {"fetching", "done", "refused"}
      BY <1>3, <2>3
    <3> QED
      BY <1>1, <1>2, <1>4, <1>6, <3>1, FetchSet
  <2>5. Fetched(fetched')
    BY <2>2, <2>3, <2>4 DEF Fetched
  <2> QED
    BY <1>1, <2>5 DEF PacketInv
<1>8. CASE ~(f.num * f.szx >= size)
  <2>1. /\ r.ok /\ r.from = upto
        /\ r.to = upto + LeastOf(size - upto, chunk)
        /\ r.more <=> size - upto > chunk
    BY <1>5, <1>8 DEF Slice
  <2>2. upto < size
    BY <1>3, <1>5, <1>8
  <2>3. upto2 = upto + LeastOf(size - upto, chunk) /\ gap2 = FALSE
    BY <1>2, <2>1
  <2>4. CASE size - upto > chunk
    <3>1. state2 = "fetching" /\ upto2 = upto + chunk
      BY <1>3, <1>4, <2>1, <2>3, <2>4 DEF LeastOf
    <3>2. upto2 \in Nat /\ upto2 < size /\ upto2 = num2 * chunk
      BY <1>3, <1>4, <1>6, <2>4, <3>1
    <3> HIDE DEF f, chunk, r, upto2, gap2, state2, num2, upto
    <3>3. /\ fetched' \in Fetches /\ fetched'.size = f.size /\ fetched'.szx = chunk
          /\ fetched'.num = num2 /\ fetched'.upto = upto2 /\ fetched'.gap = gap2
          /\ fetched'.state = state2
      <4>1. upto2 \in Nat /\ gap2 \in BOOLEAN /\ state2 \in {"fetching", "done", "refused"}
        BY <2>3, <3>1, <3>2
      <4> QED
        BY <1>1, <1>2, <1>4, <1>6, <4>1, FetchSet
    <3>4. Between(fetched')
      BY <1>4, <1>6, <3>2, <3>3 DEF Between, size
    <3>5. Fetched(fetched')
      BY <2>3, <3>1, <3>3, <3>4 DEF Fetched
    <3> QED
      BY <1>1, <3>5 DEF PacketInv
  <2>5. CASE ~(size - upto > chunk)
    <3>1. state2 = "done" /\ upto2 = size
      BY <1>3, <1>4, <2>1, <2>2, <2>3, <2>5 DEF LeastOf
    <3>2. upto2 \in Nat
      BY <1>3, <3>1
    <3> HIDE DEF f, chunk, r, upto2, gap2, state2, num2, upto
    <3>3. /\ fetched' \in Fetches /\ fetched'.size = f.size
          /\ fetched'.upto = upto2 /\ fetched'.gap = gap2 /\ fetched'.state = state2
      <4>1. upto2 \in Nat /\ gap2 \in BOOLEAN /\ state2 \in {"fetching", "done", "refused"}
        BY <2>3, <3>1, <3>2
      <4> QED
        BY <1>1, <1>2, <1>4, <1>6, <4>1, FetchSet
    <3>4. Fetched(fetched')
      BY <2>3, <3>1, <3>3 DEF Fetched, size
    <3> QED
      BY <1>1, <3>4 DEF PacketInv
  <2> QED
    BY <2>4, <2>5
<1> QED
  BY <1>7, <1>8

-----------------------------------------------------------------------------

LEMMA PacketInitInv ==
  ASSUME LwpInit
  PROVE  PacketInv
<1>1. /\ position.body \in PacketPlaces /\ position.num \in Nat
      /\ position = [body |-> position.body, num |-> position.num]
  BY DEF LwpInit, PacketPlaces
<1>2. sent \subseteq Blocks /\ handed = {} /\ alone = FALSE
  BY DEF LwpInit
<1>3. Kept(block1Data)
  <2> DEFINE e == << >>
  <2>1. InOrder(e)
    BY PacketAssumption DEF InOrder
  <2>2. block1Data = [blocks |-> e, lastmid |-> e, code |-> 0]
    BY DEF LwpInit
  <2>3. e = << >>
    OBVIOUS
  <2> HIDE DEF e
  <2> QED
    BY <2>1, <2>2, <2>3 DEF Kept
<1>4. Fetched(fetched)
  <2>1. PICK p \in PayloadSizes, b \in BlockSizes :
          fetched = [size |-> p, szx |-> b, num |-> 0, upto |-> 0, gap |-> FALSE,
                     state |-> "fetching"]
    BY DEF LwpInit
  <2>2. p \in Nat /\ b \in Nat \ {0}
    BY PacketAssumption
  <2> QED
    BY <2>1, <2>2 DEF Fetched, Fetches, Between
<1> QED
  BY <1>1, <1>2, <1>3, <1>4 DEF PacketInv

LEMMA PacketStep ==
  ASSUME PacketInv, [LwpNext]_lwpvars
  PROVE  PacketInv'
<1>1. CASE SendBlock
  BY <1>1, SendBlockInv
<1>2. CASE \E m \in sent : ReceiveBlock(m)
  BY <1>2, ReceiveBlockInv
<1>3. CASE FetchBlock
  BY <1>3, FetchBlockInv
<1>4. CASE UNCHANGED lwpvars
  BY <1>4 DEF PacketInv, lwpvars
<1> QED
  BY <1>1, <1>2, <1>3, <1>4 DEF LwpNext

\* However the blocks of a request are delayed and repeated, what
\* coap_block1_handler hands on has the length of a body, its numbers in order
\* and below the limit, and is one body if no block of another body came since
\* its first; and the pieces of a response that lwm2m_handle_packet cuts are
\* its payload.
THEOREM BlocksAlwaysInOrder == LwpSpec => []BlocksInOrder
<1>1. LwpInit => PacketInv
  BY PacketInitInv
<1>2. PacketInv /\ [LwpNext]_lwpvars => PacketInv'
  BY PacketStep
<1>3. PacketInv => BlocksInOrder
  BY PacketInvInOrder
<1> QED
  BY <1>1, <1>2, <1>3, PTL DEF LwpSpec

-----------------------------------------------------------------------------
(* The organizer.                                                           *)

-----------------------------------------------------------------------------
(* Where a request is.                                                     *)

Given(T, a) == {t \in T : t.user = a}          \* with a device
Places(q, a) == {k \in DOMAIN q : q[k] = a}    \* in the queue of answers

\* All reads and writes are in as many places as they have been taken.
Accounts(T, q, acks, ask) ==
  \A a \in OrgAsk :
    AskKind[a] # "observe" =>
      Cardinality(Given(T, a)) + Cardinality(Places(q, a)) + acks[a]
        = IF ask[a] = "taken" THEN 1 ELSE 0

\* The user data of an observation: it is never a read or a write.
Watched(u) == u = Console \/ (u \in OrgAsk /\ AskKind[u] = "observe")

IsObservation(o) == o = [id |-> o.id, uri |-> o.uri, user |-> o.user, status |-> o.status]

\* Reads and writes travel in requests, and only in them: an observation, its
\* request and its cancellation belong to the console or to an Observe.
OrgInv ==
  /\ IsFiniteSet(transactions)
  /\ ackQueue \in Seq(OrgAsk)
  /\ ackSent \in [OrgAsk -> Nat]
  /\ asked \in [OrgAsk -> {"no", "taken", "lost"}]
  /\ \A t \in transactions : /\ t.kind = "request" => t.user \in OrgAsk \cup {Console}
                             /\ t.kind # "request" => Watched(t.user)
  /\ \A o \in observations : IsObservation(o) /\ Watched(o.user)
  /\ Accounts(transactions, ackQueue, ackSent, asked)

LEMMA OrgInvAccounted ==
  ASSUME OrgInv
  PROVE  AskAccounted
BY DEF OrgInv, Accounts, Given, Places, AskAccounted

LEMMA PlacesType ==
  ASSUME NEW q \in Seq(OrgAsk), NEW a
  PROVE  /\ Places(q, a) \in SUBSET (1..Len(q))
         /\ IsFiniteSet(Places(q, a))
         /\ Cardinality(Places(q, a)) \in Nat
<1>1. Places(q, a) \in SUBSET (1..Len(q)) /\ Len(q) \in Nat
  BY DEF Places
<1>2. IsFiniteSet(1..Len(q))
  BY <1>1, FS_Interval
<1>3. IsFiniteSet(Places(q, a))
  BY <1>1, <1>2, FS_Subset
<1> QED
  BY <1>1, <1>3, FS_CardinalityType

\* An answer is queued.
LEMMA PlacesAppend ==
  ASSUME NEW q \in Seq(OrgAsk), NEW u \in OrgAsk, NEW a
  PROVE  Cardinality(Places(Append(q, u), a))
           = Cardinality(Places(q, a)) + (IF u = a THEN 1 ELSE 0)
<1> DEFINE n == Len(q)
           new == Append(q, u)
<1>1. /\ new \in Seq(OrgAsk) /\ Len(new) = n + 1 /\ n \in Nat
      /\ \A k \in 1..n : new[k] = q[k]
      /\ new[n + 1] = u
  BY AppendProperties
<1>2. DOMAIN q = 1..n /\ DOMAIN new = 1..(n + 1)
  BY <1>1
<1>3. /\ IsFiniteSet(Places(q, a)) /\ Cardinality(Places(q, a)) \in Nat
      /\ n + 1 \notin Places(q, a)
  <2>1. n + 1 \notin 1..n
    BY <1>1
  <2> QED
    BY <2>1, PlacesType
<1> HIDE DEF new, n
<1>4. CASE u = a
  <2>1. Places(new, a) = Places(q, a) \cup {n + 1}
    BY <1>1, <1>2, <1>4 DEF Places
  <2>2. Cardinality(Places(q, a) \cup {n + 1}) = Cardinality(Places(q, a)) + 1
    BY <1>3, FS_AddElement
  <2> QED
    BY <1>4, <2>1, <2>2 DEF new
<1>5. CASE u # a
  <2>1. Places(new, a) = Places(q, a)
    BY <1>1, <1>2, <1>5 DEF Places
  <2> QED
    BY <1>3, <1>5, <2>1 DEF new
<1> QED
  BY <1>4, <1>5

\* The first answer is taken out of the queue.
LEMMA PlacesTail ==
  ASSUME NEW q \in Seq(OrgAsk), q # << >>, NEW a
  PROVE  Cardinality(Places(Tail(q), a))
           = Cardinality(Places(q, a)) - (IF Head(q) = a THEN 1 ELSE 0)
<1> DEFINE n == Len(q)
           new == Tail(q)
           S == Places(new, a)
           T == Places(q, a) \ {1}
           f == [k \in S |-> k + 1]
<1>1. /\ new \in Seq(OrgAsk) /\ Len(new) = n - 1 /\ n \in Nat /\ n # 0
      /\ \A k \in 1..(n - 1) : new[k] = q[k + 1]
      /\ Head(q) = q[1]
  BY HeadTailProperties
<1>2. DOMAIN q = 1..n /\ DOMAIN new = 1..(n - 1)
  BY <1>1
<1>3. IsFiniteSet(S) /\ IsFiniteSet(Places(q, a)) /\ Cardinality(Places(q, a)) \in Nat
  BY <1>1, PlacesType
<1> HIDE DEF n, new
<1>4. \A k \in S : k \in Nat /\ k + 1 \in T
  BY <1>1, <1>2 DEF Places
<1>5. \A k \in T : k - 1 \in S /\ k = (k - 1) + 1
  BY <1>1, <1>2 DEF Places
<1>6. f \in Bijection(S, T)
  <2> HIDE DEF S, T
  <2>1. f \in [S -> T]
    BY <1>4
  <2>2. \A x, y \in S : f[x] = f[y] => x = y
    BY <1>4
  <2>3. \A y \in T : \E x \in S : f[x] = y
    BY <1>5
  <2> HIDE DEF f
  <2> QED
    BY <2>1, <2>2, <2>3 DEF Bijection, Injection, Surjection, IsInjective
<1>7. Cardinality(T) = Cardinality(S)
  <2> HIDE DEF S, T, f
  <2>1. ExistsBijection(S, T)
    BY <1>6 DEF ExistsBijection
  <2> QED
    BY <1>3, <2>1, FS_Bijection
<1>8. Cardinality(T) = Cardinality(Places(q, a)) - (IF Head(q) = a THEN 1 ELSE 0)
  <2>1. 1 \in Places(q, a) <=> Head(q) = a
    BY <1>1, <1>2 DEF Places
  <2>2. Cardinality(T) = IF 1 \in Places(q, a) THEN Cardinality(Places(q, a)) - 1
                         ELSE Cardinality(Places(q, a))
    BY <1>3, FS_RemoveElement
  <2> QED
    BY <1>3, <2>1, <2>2
<1> QED
  BY <1>7, <1>8 DEF new

LEMMA GivenType ==
  ASSUME NEW T, IsFiniteSet(T), NEW a
  PROVE  IsFiniteSet(Given(T, a)) /\ Cardinality(Given(T, a)) \in Nat
<1>1. Given(T, a) \in SUBSET T
  BY DEF Given
<1> QED
  BY <1>1, FS_Subset, FS_CardinalityType

\* A transaction ends.
LEMMA GivenDrop ==
  ASSUME NEW T, IsFiniteSet(T), NEW t \in T, NEW a
  PROVE  Cardinality(Given(T \ {t}, a))
           = Cardinality(Given(T, a)) - (IF t.user = a THEN 1 ELSE 0)
<1>1. Given(T \ {t}, a) = Given(T, a) \ {t}
  BY DEF Given
<1>2. t \in Given(T, a) <=> t.user = a
  BY DEF Given
<1>3. IsFiniteSet(Given(T, a)) /\ Cardinality(Given(T, a)) \in Nat
  BY GivenType
<1>4. Cardinality(Given(T, a) \ {t}) = IF t \in Given(T, a) THEN Cardinality(Given(T, a)) - 1
                                      ELSE Cardinality(Given(T, a))
  BY <1>3, FS_RemoveElement
<1>5. CASE t.user = a
  BY <1>1, <1>2, <1>4, <1>5
<1>6. CASE t.user # a
  BY <1>1, <1>2, <1>3, <1>4, <1>6
<1> QED
  BY <1>5, <1>6

\* A transaction starts, for a request that has none yet.
LEMMA GivenAdd ==
  ASSUME NEW T, IsFiniteSet(T), NEW t, NEW a
  PROVE  /\ t.user # a => Cardinality(Given(T \cup {t}, a)) = Cardinality(Given(T, a))
         /\ t.user = a /\ Cardinality(Given(T, a)) = 0 => Cardinality(Given(T \cup {t}, a)) = 1
<1>1. ASSUME t.user # a PROVE Cardinality(Given(T \cup {t}, a)) = Cardinality(Given(T, a))
  <2>1. Given(T \cup {t}, a) = Given(T, a)
    BY <1>1 DEF Given
  <2> QED
    BY <2>1
<1>2. ASSUME t.user = a, Cardinality(Given(T, a)) = 0 PROVE Cardinality(Given(T \cup {t}, a)) = 1
  <2>1. Given(T, a) = {}
    BY <1>2, GivenType, FS_EmptySet
  <2>2. Given(T \cup {t}, a) = {t}
    BY <1>2, <2>1 DEF Given
  <2> QED
    BY <2>2, FS_Singleton
<1> QED
  BY <1>1, <1>2

\* The four ways in which what is counted changes.  An answer to an Observe, or
\* a transaction that belongs to one or to the console, is not counted.
LEMMA AckWatched ==
  ASSUME NEW T, NEW q \in Seq(OrgAsk), NEW acks, NEW ask, Accounts(T, q, acks, ask),
         NEW u \in OrgAsk, AskKind[u] = "observe"
  PROVE  Accounts(T, Append(q, u), acks, ask)
<1> SUFFICES ASSUME NEW a \in OrgAsk, AskKind[a] # "observe"
             PROVE  Cardinality(Places(Append(q, u), a)) = Cardinality(Places(q, a))
  BY DEF Accounts
<1>1. u # a
  OBVIOUS
<1>2. Cardinality(Places(q, a)) \in Nat
  BY PlacesType
<1> QED
  BY <1>1, <1>2, PlacesAppend

LEMMA DropWatched ==
  ASSUME NEW T, IsFiniteSet(T), NEW q, NEW acks, NEW ask, Accounts(T, q, acks, ask),
         NEW t \in T, Watched(t.user)
  PROVE  Accounts(T \ {t}, q, acks, ask)
<1> SUFFICES ASSUME NEW a \in OrgAsk, AskKind[a] # "observe"
             PROVE  Cardinality(Given(T \ {t}, a)) = Cardinality(Given(T, a))
  BY DEF Accounts
<1>1. t.user # a
  BY OrganizerAssumption DEF Watched
<1>2. Cardinality(Given(T, a)) \in Nat
  BY GivenType
<1> QED
  BY <1>1, <1>2, GivenDrop

LEMMA AddWatched ==
  ASSUME NEW T, IsFiniteSet(T), NEW q, NEW acks, NEW ask, Accounts(T, q, acks, ask),
         NEW t, Watched(t.user)
  PROVE  Accounts(T \cup {t}, q, acks, ask)
<1> SUFFICES ASSUME NEW a \in OrgAsk, AskKind[a] # "observe"
             PROVE  Cardinality(Given(T \cup {t}, a)) = Cardinality(Given(T, a))
  BY DEF Accounts
<1>1. t.user # a
  BY OrganizerAssumption DEF Watched
<1> QED
  BY <1>1, GivenAdd

\* The request leaves the device and its answer enters the queue.
LEMMA Answered ==
  ASSUME NEW T, IsFiniteSet(T), NEW q \in Seq(OrgAsk), NEW acks \in [OrgAsk -> Nat], NEW ask,
         Accounts(T, q, acks, ask), NEW t \in T, t.user \in OrgAsk
  PROVE  Accounts(T \ {t}, Append(q, t.user), acks, ask)
<1> SUFFICES ASSUME NEW a \in OrgAsk, AskKind[a] # "observe"
             PROVE  Cardinality(Given(T \ {t}, a)) + Cardinality(Places(Append(q, t.user), a)) + acks[a]
                      = IF ask[a] = "taken" THEN 1 ELSE 0
  BY DEF Accounts
<1> DEFINE x == Cardinality(Given(T, a))
           y == Cardinality(Places(q, a))
           d == IF t.user = a THEN 1 ELSE 0
<1>1. x \in Nat /\ y \in Nat /\ acks[a] \in Nat /\ d \in Nat
  BY GivenType, PlacesType
<1>2. Cardinality(Given(T \ {t}, a)) = x - d /\ Cardinality(Places(Append(q, t.user), a)) = y + d
  BY GivenDrop, PlacesAppend
<1>3. x + y + acks[a] = IF ask[a] = "taken" THEN 1 ELSE 0
  BY DEF Accounts
<1> HIDE DEF x, y, d
<1>4. (x - d) + (y + d) + acks[a] = x + y + acks[a]
  BY <1>1
<1> QED
  BY <1>2, <1>3, <1>4

\* One that ends without the callback: its request was counted there and
\* nowhere else, and is not counted any more.
LEMMA DropAsked ==
  ASSUME NEW T, IsFiniteSet(T), NEW q \in Seq(OrgAsk), NEW acks \in [OrgAsk -> Nat], NEW ask,
         Accounts(T, q, acks, ask), NEW t \in T
  PROVE  Accounts(T \ {t}, q, acks, [a \in OrgAsk |-> IF a = t.user THEN "lost" ELSE ask[a]])
<1> DEFINE new == [a \in OrgAsk |-> IF a = t.user THEN "lost" ELSE ask[a]]
<1> SUFFICES ASSUME NEW a \in OrgAsk, AskKind[a] # "observe"
             PROVE  Cardinality(Given(T \ {t}, a)) + Cardinality(Places(q, a)) + acks[a]
                      = IF new[a] = "taken" THEN 1 ELSE 0
  BY DEF Accounts
<1> DEFINE x == Cardinality(Given(T, a))
           y == Cardinality(Places(q, a))
           z == Cardinality(Given(T \ {t}, a))
<1>1. x \in Nat /\ y \in Nat /\ acks[a] \in Nat
  BY GivenType, PlacesType
<1>2. IsFiniteSet(T \ {t})
  BY FS_RemoveElement
<1>3. z \in Nat
  BY <1>2, GivenType
<1>4. z = x - (IF t.user = a THEN 1 ELSE 0)
  BY GivenDrop
<1>5. x + y + acks[a] = IF ask[a] = "taken" THEN 1 ELSE 0
  BY DEF Accounts
<1>6. new[a] = IF a = t.user THEN "lost" ELSE ask[a]
  OBVIOUS
<1> HIDE DEF x, y, z, new
<1>7. CASE t.user = a
  <2>1. z = x - 1 /\ new[a] = "lost"
    BY <1>4, <1>6, <1>7
  <2>2. x + y + acks[a] <= 1
    BY <1>5
  <2>3. z + y + acks[a] = 0
    BY <1>1, <1>3, <2>1, <2>2
  <2> QED
    BY <2>1, <2>3 DEF y, z
<1>8. CASE t.user # a
  <2>1. z = x /\ new[a] = ask[a]
    BY <1>1, <1>4, <1>6, <1>8
  <2> QED
    BY <1>5, <2>1 DEF y, z
<1> QED
  BY <1>7, <1>8

-----------------------------------------------------------------------------
(* The callbacks and the actions.                                          *)

\* What the callbacks hand on.
IsLists(s) == s = [table |-> s.table, ack |-> s.ack, non |-> s.non]

LEMMA OrgListsType == IsLists(OrgLists) /\ OrgLists.ack = ackQueue
BY DEF IsLists, OrgLists

\* Deletions do not touch the queue of answers.
LEMMA DeletedAck ==
  ASSUME NEW gone
  PROVE  IsLists(Deleted(OrgLists, gone)) /\ Deleted(OrgLists, gone).ack = ackQueue
BY DEF IsLists, OrgLists, Deleted

\* The callback of an observation queues one answer at most, to its own user.
LEMMA ObserveCallbackAck ==
  ASSUME NEW s, IsLists(s), NEW id, NEW uri, NEW status, NEW data, NEW user, NEW garbage
  PROVE  LET new == ObserveCallback(s, id, uri, status, data, user, garbage)
         IN  new.ack = s.ack \/ (user # Console /\ new.ack = Append(s.ack, user))
<1> DEFINE r == InsertObserve(s.table, id, uri, user, garbage)
           new == ObserveCallback(s, id, uri, status, data, user, garbage)
           a == s.ack
           b == s.table
           c == s.non
<1>1. s = [table |-> b, ack |-> a, non |-> c]
  BY DEF IsLists
<1> HIDE DEF r, a, b, c
<1>2. CASE user = Console
  <2>1. new = s
    BY <1>2 DEF ObserveCallback
  <2> QED
    BY <2>1
<1>3. CASE user # Console /\ data /\ r.new
  <2>1. new = InsertACKMsg([s EXCEPT !.table = r.table], user)
    BY <1>3 DEF ObserveCallback, r
  <2> DEFINE v == r.table
  <2> HIDE DEF v
  <2>2. [s EXCEPT !.table = v] = [table |-> v, ack |-> a, non |-> c]
    BY <1>1
  <2>3. new.ack = Append(a, user)
    BY <2>1, <2>2 DEF InsertACKMsg, v
  <2> QED
    BY <1>3, <2>3 DEF a
<1>4. CASE user # Console /\ data /\ ~r.new
  <2>1. new = InsertNONMsg(s, r.token)
    BY <1>4 DEF ObserveCallback, r
  <2>2. new.ack = a
    BY <1>1, <2>1 DEF InsertNONMsg
  <2> QED
    BY <2>2 DEF a
<1>5. CASE user # Console /\ ~data /\ status = "2.02"
  <2> DEFINE v == DeleteObserve(s.table, id, uri)
  <2>1. new = [s EXCEPT !.table = v]
    BY <1>5 DEF ObserveCallback
  <2> HIDE DEF v
  <2>2. new.ack = a
    BY <1>1, <2>1
  <2> QED
    BY <2>2 DEF a
<1>6. CASE user # Console /\ ~data /\ status # "2.02"
  <2>1. new = InsertACKMsg(s, user)
    BY <1>6 DEF ObserveCallback
  <2>2. new.ack = Append(a, user)
    BY <1>1, <2>1 DEF InsertACKMsg
  <2> QED
    BY <1>6, <2>2 DEF a
<1> QED
  BY <1>2, <1>3, <1>4, <1>5, <1>6

\* So it keeps the counts if the user is not a read or a write.
LEMMA WatchedCallback ==
  ASSUME NEW T, NEW q \in Seq(OrgAsk), NEW acks, NEW ask, Accounts(T, q, acks, ask),
         NEW user, Watched(user), NEW new,
         new = q \/ (user # Console /\ new = Append(q, user))
  PROVE  new \in Seq(OrgAsk) /\ Accounts(T, new, acks, ask)
<1>1. CASE new = q
  BY <1>1
<1>2. CASE user # Console /\ new = Append(q, user)
  <2>1. user \in OrgAsk /\ AskKind[user] = "observe"
    BY <1>2 DEF Watched
  <2>2. Append(q, user) \in Seq(OrgAsk)
    BY <2>1, AppendProperties
  <2>3. Accounts(T, Append(q, user), acks, ask)
    BY <2>1, AckWatched
  <2> QED
    BY <1>2, <2>2, <2>3
<1> QED
  BY <1>1, <1>2

LEMMA OrgInitInv ==
  ASSUME OrgInit
  PROVE  OrgInv
<1>1. IsFiniteSet(transactions) /\ transactions = {} /\ observations = {}
  BY FS_EmptySet DEF OrgInit
<1>2. ackQueue \in Seq(OrgAsk) /\ ackSent \in [OrgAsk -> Nat]
  BY DEF OrgInit
<1>3. asked \in [OrgAsk -> {"no", "taken", "lost"}]
  BY DEF OrgInit
<1>4. ASSUME NEW a \in OrgAsk
      PROVE  /\ Cardinality(Given(transactions, a)) = 0
             /\ Cardinality(Places(ackQueue, a)) = 0
             /\ ackSent[a] = 0 /\ asked[a] # "taken"
  <2>1. Given(transactions, a) = {} /\ Places(ackQueue, a) = {}
    BY DEF OrgInit, Given, Places
  <2>2. ackSent[a] = 0 /\ asked[a] # "taken"
    BY DEF OrgInit
  <2> QED
    BY <2>1, <2>2, FS_EmptySet
<1>5. Accounts(transactions, ackQueue, ackSent, asked)
  BY <1>4 DEF Accounts
<1> QED
  BY <1>1, <1>2, <1>3, <1>5 DEF OrgInv

\* Actions that leave alone what is counted.
LEMMA CountedUnchanged ==
  ASSUME OrgInv, UNCHANGED <<transactions, ackQueue, ackSent, asked>>,
         observations' \subseteq observations
  PROVE  OrgInv'
BY DEF OrgInv

\* The status of an observation changes, not its user.
LEMMA StatusChange ==
  ASSUME NEW o, IsObservation(o), Watched(o.user), NEW v
  PROVE  IsObservation([o EXCEPT !.status = v]) /\ Watched([o EXCEPT !.status = v].user)
<1> DEFINE a == o.id
           b == o.uri
           u == o.user
           w == o.status
           new == [o EXCEPT !.status = v]
<1>1. o = [id |-> a, uri |-> b, user |-> u, status |-> w]
  BY DEF IsObservation
<1> HIDE DEF a, b, u, w
<1>2. new = [id |-> a, uri |-> b, user |-> u, status |-> v]
  BY <1>1
<1> HIDE DEF new
<1>3. IsObservation(new) /\ new.user = u
  BY <1>2 DEF IsObservation
<1> QED
  BY <1>3 DEF new, u

LEMMA OrgUpdateInv ==
  ASSUME OrgInv, NEW id, NEW gone, OrgUpdate(id, gone)
  PROVE  OrgInv'
<1>1. UNCHANGED <<transactions, ackSent, asked>> /\ observations' \subseteq observations
  BY DEF OrgUpdate
<1>2. PICK left : Keep(Deleted(OrgLists, left))
  BY DEF OrgUpdate
<1>3. ackQueue' = ackQueue
  BY <1>2, DeletedAck DEF Keep
<1> QED
  BY <1>1, <1>3, CountedUnchanged

LEMMA OrgNotifyInv ==
  ASSUME OrgInv, NEW o \in observations, NEW data, NEW garbage, OrgNotify(o, data, garbage)
  PROVE  OrgInv'
<1>1. UNCHANGED <<observations, transactions, ackSent, asked>>
  BY DEF OrgNotify, core
<1>2. Watched(o.user)
  BY DEF OrgInv
<1>3. ackQueue' = ackQueue \/ (o.user # Console /\ ackQueue' = Append(ackQueue, o.user))
  BY ObserveCallbackAck, OrgListsType DEF OrgNotify, Keep
<1>4. ackQueue' \in Seq(OrgAsk) /\ Accounts(transactions, ackQueue', ackSent, asked)
  BY <1>2, <1>3, WatchedCallback DEF OrgInv
<1> QED
  BY <1>1, <1>4 DEF OrgInv

LEMMA OrgResultInv ==
  ASSUME OrgInv, NEW t \in transactions, OrgResult(t)
  PROVE  OrgInv'
<1>1. /\ t.kind = "request" /\ transactions' = transactions \ {t}
      /\ UNCHANGED <<observations, ackSent, asked>>
  BY DEF OrgResult
<1>2. IsFiniteSet(transactions')
  BY <1>1, FS_RemoveElement DEF OrgInv
<1>3. ackQueue' \in Seq(OrgAsk) /\ Accounts(transactions', ackQueue', ackSent, asked)
  <2>1. CASE t.user = Console
    <3>1. ackQueue' = ackQueue
      BY <2>1 DEF OrgResult, Keep, ResultCallback, OrgLists
    <3>2. Watched(t.user)
      BY <2>1 DEF Watched
    <3>3. Accounts(transactions \ {t}, ackQueue, ackSent, asked)
      BY <3>2, DropWatched DEF OrgInv
    <3> QED
      BY <1>1, <3>1, <3>3 DEF OrgInv
  <2>2. CASE t.user # Console
    <3>1. ackQueue' = Append(ackQueue, t.user)
      BY <2>2 DEF OrgResult, Keep, ResultCallback, InsertACKMsg, OrgLists
    <3>2. t.user \in OrgAsk
      BY <1>1, <2>2 DEF OrgInv
    <3>3. Append(ackQueue, t.user) \in Seq(OrgAsk)
      BY <3>2, AppendProperties DEF OrgInv
    <3>4. Accounts(transactions \ {t}, Append(ackQueue, t.user), ackSent, asked)
      BY <3>2, Answered DEF OrgInv
    <3> QED
      BY <1>1, <3>1, <3>3, <3>4
  <2> QED
    BY <2>1, <2>2
<1> QED
  BY <1>1, <1>2, <1>3 DEF OrgInv

LEMMA OrgMisplacedInv ==
  ASSUME OrgInv, NEW t \in transactions, OrgMisplaced(t)
  PROVE  OrgInv'
<1>1. /\ t.kind = "request" /\ transactions' = transactions \ {t}
      /\ asked' = [a \in OrgAsk |-> IF a = t.user THEN "lost" ELSE asked[a]]
      /\ UNCHANGED <<observations, ackQueue, ackSent>>
  BY DEF OrgMisplaced, orgQueues
<1>2. IsFiniteSet(transactions')
  BY <1>1, FS_RemoveElement DEF OrgInv
<1>3. asked' \in [OrgAsk -> {"no", "taken", "lost"}]
  BY <1>1 DEF OrgInv
<1>4. Accounts(transactions', ackQueue, ackSent, asked')
  <2>1. /\ IsFiniteSet(transactions) /\ ackQueue \in Seq(OrgAsk) /\ ackSent \in [OrgAsk -> Nat]
        /\ Accounts(transactions, ackQueue, ackSent, asked)
    BY DEF OrgInv
  <2> DEFINE new == [a \in OrgAsk |-> IF a = t.user THEN "lost" ELSE asked[a]]
  <2>2. Accounts(transactions \ {t}, ackQueue, ackSent, new)
    BY ONLY <2>1, t \in transactions, DropAsked
  <2>3. asked' = new
    BY <1>1
  <2> HIDE DEF new
  <2> QED
    BY <1>1, <2>2, <2>3
<1> QED
  BY <1>1, <1>2, <1>3, <1>4 DEF OrgInv

LEMMA OrgObservedInv ==
  ASSUME OrgInv, NEW t \in transactions, NEW content, NEW data, NEW garbage,
         OrgObserved(t, content, data, garbage)
  PROVE  OrgInv'
<1>1. /\ t.kind = "observe" /\ transactions' = transactions \ {t}
      /\ UNCHANGED <<ackSent, asked>>
  BY DEF OrgObserved
<1>2. Watched(t.user)
  BY <1>1 DEF OrgInv
<1>3. IsFiniteSet(transactions')
  BY <1>1, FS_RemoveElement DEF OrgInv
<1>4. PICK told, ok : /\ told = OrgLists \/ \E gone : told = Deleted(OrgLists, gone)
                      /\ Keep(ObserveCallback(told, t.id, t.uri, "0", ok, t.user, garbage))
  BY DEF OrgObserved
<1>5. IsLists(told) /\ told.ack = ackQueue
  BY <1>4, OrgListsType, DeletedAck
<1>6. ackQueue' = ackQueue \/ (t.user # Console /\ ackQueue' = Append(ackQueue, t.user))
  BY <1>4, <1>5, ObserveCallbackAck DEF Keep
<1>7. Accounts(transactions \ {t}, ackQueue, ackSent, asked)
  BY <1>2, DropWatched DEF OrgInv
<1>8. ackQueue' \in Seq(OrgAsk) /\ Accounts(transactions', ackQueue', ackSent, asked)
  BY <1>1, <1>2, <1>6, <1>7, WatchedCallback DEF OrgInv
<1>9. ASSUME NEW o \in observations' PROVE IsObservation(o) /\ Watched(o.user)
  <2>1. CASE o \in observations
    BY <2>1 DEF OrgInv
  <2>2. CASE o \notin observations
    <3>1. o = [id |-> t.id, uri |-> t.uri, user |-> t.user, status |-> "reg"]
      BY <2>2 DEF OrgObserved
    <3> QED
      BY <1>2, <3>1 DEF IsObservation
  <2> QED
    BY <2>1, <2>2
<1> QED
  BY <1>1, <1>3, <1>8, <1>9 DEF OrgInv

LEMMA OrgCancelledInv ==
  ASSUME OrgInv, NEW t \in transactions, NEW came, OrgCancelled(t, came)
  PROVE  OrgInv'
<1>1. /\ t.kind = "cancel" /\ transactions' = transactions \ {t}
      /\ UNCHANGED <<ackQueue, ackSent, asked>>
      /\ observations' \subseteq observations
  BY DEF OrgCancelled, orgQueues
<1>2. Watched(t.user)
  BY <1>1 DEF OrgInv
<1>3. IsFiniteSet(transactions')
  BY <1>1, FS_RemoveElement DEF OrgInv
<1>4. Accounts(transactions \ {t}, ackQueue, ackSent, asked)
  BY <1>2, DropWatched DEF OrgInv
<1> QED
  BY <1>1, <1>3, <1>4 DEF OrgInv

\* What keeps the part of the invariant that is about transactions.
StartOK(T) ==
  /\ IsFiniteSet(T)
  /\ \A t \in T : /\ t.kind = "request" => t.user \in OrgAsk \cup {Console}
                  /\ t.kind # "request" => Watched(t.user)

\* A transaction for the console or for an Observe.
LEMMA StartWatched ==
  ASSUME OrgInv, NEW kind, NEW id, NEW uri, NEW user, Watched(user),
         Start(kind, id, uri, user)
  PROVE  StartOK(transactions') /\ Accounts(transactions', ackQueue, ackSent, asked)
<1> DEFINE t == [kind |-> kind, id |-> id, uri |-> uri, user |-> user]
<1>0. StartOK(transactions) /\ Accounts(transactions, ackQueue, ackSent, asked)
  BY DEF OrgInv, StartOK
<1>1. t.kind = kind /\ t.user = user /\ user \in OrgAsk \cup {Console}
  BY DEF Watched
<1>2. transactions' = transactions \/ transactions' = transactions \cup {t}
  BY DEF Start
<1> HIDE DEF t
<1>3. CASE transactions' = transactions
  BY <1>0, <1>3
<1>4. CASE transactions' = transactions \cup {t}
  <2>1. IsFiniteSet(transactions \cup {t})
    BY <1>0, FS_AddElement DEF StartOK
  <2>2. StartOK(transactions \cup {t})
    BY <1>0, <1>1, <2>1 DEF StartOK
  <2>3. Accounts(transactions \cup {t}, ackQueue, ackSent, asked)
    BY <1>0, <1>1, AddWatched DEF StartOK
  <2> QED
    BY <1>4, <2>2, <2>3
<1> QED
  BY <1>2, <1>3, <1>4

\* The client thread takes a read or a write that it has not seen before.
LEMMA StartAsked ==
  ASSUME OrgInv, NEW id, id \in OrgIds, NEW uri, NEW a \in OrgAsk,
         asked[a] = "no", AskKind[a] # "observe", Start("request", id, uri, a),
         asked' = [asked EXCEPT ![a] = "taken"]
  PROVE  StartOK(transactions') /\ Accounts(transactions', ackQueue, ackSent, asked')
<1> DEFINE kind == "request"
           t == [kind |-> kind, id |-> id, uri |-> uri, user |-> a]
<1>0. /\ StartOK(transactions) /\ Accounts(transactions, ackQueue, ackSent, asked)
      /\ ackQueue \in Seq(OrgAsk) /\ ackSent \in [OrgAsk -> Nat]
      /\ asked \in [OrgAsk -> {"no", "taken", "lost"}]
  BY DEF OrgInv, StartOK
<1>1. t.kind = "request" /\ t.user = a
  OBVIOUS
<1>2. transactions' = transactions \cup {t}
  BY DEF Start
<1> HIDE DEF t
<1>3. StartOK(transactions')
  <2>1. IsFiniteSet(transactions \cup {t})
    BY <1>0, FS_AddElement DEF StartOK
  <2> QED
    BY <1>0, <1>1, <1>2, <2>1 DEF StartOK
<1>4. ASSUME NEW b \in OrgAsk, AskKind[b] # "observe"
      PROVE  Cardinality(Given(transactions', b)) + Cardinality(Places(ackQueue, b)) + ackSent[b]
               = IF asked'[b] = "taken" THEN 1 ELSE 0
  <2> DEFINE x == Cardinality(Given(transactions, b))
             y == Cardinality(Places(ackQueue, b))
             z == Cardinality(Given(transactions \cup {t}, b))
  <2>1. x \in Nat /\ y \in Nat /\ ackSent[b] \in Nat
    BY <1>0, GivenType, PlacesType DEF StartOK
  <2>2. x + y + ackSent[b] = IF asked[b] = "taken" THEN 1 ELSE 0
    BY <1>0, <1>4 DEF Accounts
  <2>3. /\ t.user # b => z = x
        /\ t.user = b /\ x = 0 => z = 1
    BY <1>0, GivenAdd DEF StartOK
  <2> HIDE DEF x, y, z
  <2>4. CASE b = a
    <3>1. x = 0 /\ y = 0 /\ ackSent[b] = 0
      BY <2>1, <2>2, <2>4
    <3>2. z = 1 /\ asked'[b] = "taken"
      BY <1>0, <1>1, <2>3, <2>4, <3>1
    <3> QED
      BY <1>2, <3>1, <3>2 DEF y, z
  <2>5. CASE b # a
    <3>1. z = x /\ asked'[b] = asked[b]
      BY <1>0, <1>1, <2>3, <2>5
    <3> QED
      BY <1>2, <2>2, <3>1 DEF x, y, z
  <2> QED
    BY <2>4, <2>5
<1> QED
  BY <1>3, <1>4 DEF Accounts

\* A request that is not taken, or an Observe, may change its own status.
LEMMA AskedOther ==
  ASSUME NEW T, NEW q, NEW acks, NEW ask \in [OrgAsk -> {"no", "taken", "lost"}],
         Accounts(T, q, acks, ask),
         NEW a \in OrgAsk, NEW v \in {"no", "taken", "lost"},
         AskKind[a] = "observe" \/ (ask[a] = "no" /\ v = "lost")
  PROVE  Accounts(T, q, acks, [ask EXCEPT ![a] = v])
<1> DEFINE new == [ask EXCEPT ![a] = v]
<1>1. new[a] = v /\ \A b \in OrgAsk : b # a => new[b] = ask[b]
  OBVIOUS
<1> HIDE DEF new
<1>2. ASSUME NEW b \in OrgAsk, AskKind[b] # "observe"
      PROVE  (IF new[b] = "taken" THEN 1 ELSE 0) = (IF ask[b] = "taken" THEN 1 ELSE 0)
  BY <1>1, <1>2
<1>3. Accounts(T, q, acks, new)
  BY <1>2 DEF Accounts
<1> QED
  BY <1>3 DEF new

\* Observations go, or change their status.
LEMMA StatusesOK ==
  ASSUME OrgInv,
         \A p \in observations' :
           \E o \in observations : p = o \/ \E v : p = [o EXCEPT !.status = v]
  PROVE  \A p \in observations' : IsObservation(p) /\ Watched(p.user)
<1> SUFFICES ASSUME NEW p \in observations'
             PROVE  IsObservation(p) /\ Watched(p.user)
  OBVIOUS
<1>1. PICK o \in observations : p = o \/ \E v : p = [o EXCEPT !.status = v]
  OBVIOUS
<1>2. IsObservation(o) /\ Watched(o.user)
  BY DEF OrgInv
<1>3. CASE p = o
  BY <1>2, <1>3
<1>4. CASE \E v : p = [o EXCEPT !.status = v]
  <2>1. PICK v : p = [o EXCEPT !.status = v]
    BY <1>4
  <2> QED
    BY <1>2, <2>1, StatusChange
<1> QED
  BY <1>1, <1>3, <1>4

\* The invariant again, once each of its parts holds in the next state.
LEMMA OrgInvNext ==
  ASSUME OrgInv, StartOK(transactions'),
         asked' \in [OrgAsk -> {"no", "taken", "lost"}],
         UNCHANGED <<ackQueue, ackSent>>,
         Accounts(transactions', ackQueue, ackSent, asked'),
         \A p \in observations' : IsObservation(p) /\ Watched(p.user)
  PROVE  OrgInv'
<1>1. ackQueue' \in Seq(OrgAsk) /\ ackSent' \in [OrgAsk -> Nat]
  BY DEF OrgInv
<1>2. Accounts(transactions', ackQueue', ackSent', asked')
  <2>1. ackQueue' = ackQueue /\ ackSent' = ackSent
    OBVIOUS
  <2> QED
    BY <2>1
<1> QED
  BY <1>1, <1>2 DEF OrgInv, StartOK

LEMMA CommandsInv ==
  ASSUME OrgInv, NEW id, NEW uri,
         ConsoleRequest(id, uri) \/ ConsoleObserve(id, uri) \/ ConsoleCancel(id, uri)
  PROVE  OrgInv'
<1>0. Watched(Console)
  BY DEF Watched
<1>1. UNCHANGED <<ackQueue, ackSent, asked>>
  BY DEF ConsoleRequest, ConsoleObserve, ConsoleCancel, ConsoleStep, orgQueues
<1>2. \/ \E kind : Start(kind, id, uri, Console)
      \/ UNCHANGED transactions
  BY DEF ConsoleRequest, ConsoleObserve, ConsoleCancel
<1>3. StartOK(transactions') /\ Accounts(transactions', ackQueue, ackSent, asked)
  <2>1. CASE UNCHANGED transactions
    BY <2>1 DEF OrgInv, StartOK
  <2>2. CASE \E kind : Start(kind, id, uri, Console)
    BY <1>0, <2>2, StartWatched
  <2> QED
    BY <1>2, <2>1, <2>2
<1>4. ASSUME NEW p \in observations'
      PROVE  \E o \in observations : p = o \/ \E v : p = [o EXCEPT !.status = v]
  <2>1. CASE ConsoleRequest(id, uri)
    BY <2>1 DEF ConsoleRequest
  <2>2. CASE ConsoleObserve(id, uri)
    BY <2>2 DEF ConsoleObserve
  <2>3. CASE ConsoleCancel(id, uri)
    <3>1. PICK o \in observations :
            \/ observations' = (observations \ {o}) \cup {[o EXCEPT !.status = "dereg"]}
            \/ observations' = observations \ {o}
      BY <2>3 DEF ConsoleCancel, Of
    <3> QED
      BY <3>1
  <2> QED
    BY <2>1, <2>2, <2>3
<1>5. \A p \in observations' : IsObservation(p) /\ Watched(p.user)
  BY <1>4, StatusesOK
<1> QED
  <2>1. UNCHANGED <<ackQueue, ackSent>> /\ asked' = asked
    BY <1>1
  <2>2. asked' \in [OrgAsk -> {"no", "taken", "lost"}]
    BY <2>1 DEF OrgInv
  <2>3. Accounts(transactions', ackQueue, ackSent, asked')
    BY <1>3, <2>1
  <2> QED
    BY <1>3, <1>5, <2>1, <2>2, <2>3, OrgInvNext

LEMMA HandleWriteInv ==
  ASSUME OrgInv, NEW a \in OrgAsk, NEW id, NEW empty, HandleWrite(a, id, empty)
  PROVE  OrgInv'
<1> DEFINE target == FindURI(id, 0)
           taken == target \in OrgIds /\ UriDepth[AskUri[a]] >= 2 /\ ~empty
<1>1. /\ asked[a] = "no" /\ AskKind[a] # "observe"
      /\ asked' = [asked EXCEPT ![a] = IF taken THEN "taken" ELSE "lost"]
      /\ UNCHANGED <<observations, ackQueue, ackSent>>
  BY DEF HandleWrite, orgQueues
<1>2. asked' \in [OrgAsk -> {"no", "taken", "lost"}]
  BY <1>1 DEF OrgInv
<1>3. CASE taken
  <2>1. target \in OrgIds /\ Start("request", target, AskUri[a], a)
    BY <1>3 DEF HandleWrite
  <2>2. asked' = [asked EXCEPT ![a] = "taken"]
    BY <1>1, <1>3
  <2> HIDE DEF target, taken
  <2>3. StartOK(transactions') /\ Accounts(transactions', ackQueue, ackSent, asked')
    BY <1>1, <2>1, <2>2, StartAsked
  <2>4. \A p \in observations' : IsObservation(p) /\ Watched(p.user)
    BY <1>1 DEF OrgInv
  <2> QED
    BY <1>1, <1>2, <2>3, <2>4, OrgInvNext
<1>4. CASE ~taken
  <2>1. UNCHANGED transactions
    BY <1>4 DEF HandleWrite
  <2>2. asked' = [asked EXCEPT ![a] = "lost"]
    BY <1>1, <1>4
  <2>3. Accounts(transactions, ackQueue, ackSent, [asked EXCEPT ![a] = "lost"])
    <3> DEFINE v == "lost"
    <3>1. v \in {"no", "taken", "lost"} /\ (asked[a] = "no" /\ v = "lost")
      BY <1>1
    <3> HIDE DEF v
    <3>2. Accounts(transactions, ackQueue, ackSent, [asked EXCEPT ![a] = v])
      BY <3>1, AskedOther DEF OrgInv
    <3> QED
      BY <3>2 DEF v
  <2> QED
    BY <1>1, <1>2, <2>1, <2>2, <2>3 DEF OrgInv
<1> QED
  BY <1>3, <1>4

LEMMA HandleReadInv ==
  ASSUME OrgInv, NEW a \in OrgAsk, NEW id, NEW garbage, HandleRead(a, id, garbage)
  PROVE  OrgInv'
<1> DEFINE target == FindURI(id, garbage)
           status == IF target \in OrgIds THEN "taken" ELSE "lost"
           kind == IF AskKind[a] = "observe" THEN "observe" ELSE "request"
<1>1. /\ asked[a] = "no"
      /\ asked' = [asked EXCEPT ![a] = status]
      /\ Start(kind, target, AskUri[a], a)
      /\ UNCHANGED <<ackQueue, ackSent>>
  BY DEF HandleRead, orgQueues
<1>2. status \in {"no", "taken", "lost"}
  OBVIOUS
<1>3. asked' \in [OrgAsk -> {"no", "taken", "lost"}]
  <2> HIDE DEF status
  <2> QED
    BY <1>1, <1>2 DEF OrgInv
<1>4. \A p \in observations' :
        \E o \in observations : p = o \/ \E v : p = [o EXCEPT !.status = v]
  BY DEF HandleRead
<1>5. \A p \in observations' : IsObservation(p) /\ Watched(p.user)
  BY <1>4, StatusesOK
<1> HIDE DEF target
<1>6. StartOK(transactions') /\ Accounts(transactions', ackQueue, ackSent, asked')
  <2>1. CASE AskKind[a] = "observe"
    <3>1. Watched(a)
      BY <2>1 DEF Watched
    <3> HIDE DEF kind, status
    <3>2. StartOK(transactions') /\ Accounts(transactions', ackQueue, ackSent, asked)
      BY <1>1, <3>1, StartWatched
    <3>3. Accounts(transactions', ackQueue, ackSent, [asked EXCEPT ![a] = status])
      BY <1>2, <2>1, <3>2, AskedOther DEF OrgInv
    <3> QED
      BY <1>1, <3>2, <3>3
  <2>2. CASE AskKind[a] # "observe" /\ target \in OrgIds
    <3>1. /\ Start("request", target, AskUri[a], a)
          /\ asked' = [asked EXCEPT ![a] = "taken"]
      BY <1>1, <2>2
    <3> QED
      BY <1>1, <2>2, <3>1, StartAsked
  <2>3. CASE AskKind[a] # "observe" /\ target \notin OrgIds
    <3>1. transactions' = transactions
      BY <1>1, <2>3 DEF Start
    <3>2. status = "lost"
      BY <2>3
    <3> HIDE DEF status
    <3>3. Accounts(transactions, ackQueue, ackSent, [asked EXCEPT ![a] = status])
      BY <1>1, <1>2, <3>2, AskedOther DEF OrgInv
    <3> QED
      BY <1>1, <3>1, <3>3 DEF OrgInv, StartOK
  <2> QED
    BY <2>1, <2>2, <2>3
<1> QED
  BY <1>1, <1>3, <1>5, <1>6, OrgInvNext

LEMMA SendAckInv ==
  ASSUME OrgInv, SendAck
  PROVE  OrgInv'
<1>1. UNCHANGED <<transactions, observations, asked>>
  BY DEF SendAck, SenderStep, core
<1>2. CASE ackQueue = << >>
  BY <1>1, <1>2 DEF SendAck, OrgInv
<1>3. CASE ackQueue # << >>
  <2> DEFINE h == Head(ackQueue)
             q == Tail(ackQueue)
  <2>1. /\ ackQueue' = q
        /\ ackSent' = [ackSent EXCEPT ![h] = @ + 1]
    BY <1>3 DEF SendAck
  <2>2. h \in OrgAsk /\ q \in Seq(OrgAsk)
    BY <1>3, HeadTailProperties DEF OrgInv
  <2>3. /\ ackSent' \in [OrgAsk -> Nat]
        /\ \A b \in OrgAsk : ackSent'[b] = ackSent[b] + (IF h = b THEN 1 ELSE 0)
    <3> HIDE DEF h
    <3> QED
      BY <2>1, <2>2 DEF OrgInv
  <2>4. ASSUME NEW b \in OrgAsk, AskKind[b] # "observe"
        PROVE  Cardinality(Given(transactions, b)) + Cardinality(Places(q, b)) + ackSent'[b]
                 = IF asked[b] = "taken" THEN 1 ELSE 0
    <3> DEFINE x == Cardinality(Given(transactions, b))
               y == Cardinality(Places(ackQueue, b))
               d == IF h = b THEN 1 ELSE 0
    <3>1. x \in Nat /\ y \in Nat /\ ackSent[b] \in Nat /\ d \in Nat
      BY GivenType, PlacesType DEF OrgInv
    <3>2. x + y + ackSent[b] = IF asked[b] = "taken" THEN 1 ELSE 0
      BY <2>4 DEF OrgInv, Accounts
    <3>3. Cardinality(Places(q, b)) = y - d
      BY <1>3, PlacesTail DEF OrgInv
    <3>4. ackSent'[b] = ackSent[b] + d
      BY <2>3
    <3> HIDE DEF x, y, d
    <3>5. x + (y - d) + (ackSent[b] + d) = x + y + ackSent[b]
      BY <3>1
    <3> QED
      BY <3>2, <3>3, <3>4, <3>5 DEF x
  <2>5. Accounts(transactions, q, ackSent', asked)
    BY <2>4 DEF Accounts
  <2> HIDE DEF q
  <2> QED
    BY <1>1, <2>1, <2>2, <2>3, <2>5 DEF OrgInv
<1> QED
  BY <1>2, <1>3

\* Every step keeps the invariant.
LEMMA OrgNextInv ==
  ASSUME OrgInv, [OrgNext]_orgvars
  PROVE  OrgInv'
<1>1. CASE DeviceSteps
  <2>1. ASSUME NEW e \in Endpoint, OrgRegister(e) PROVE OrgInv'
    BY <2>1, CountedUnchanged DEF OrgRegister
  <2>2. ASSUME NEW id \in OrgIds, NEW gone \in SUBSET OrgUri, OrgUpdate(id, gone) PROVE OrgInv'
    BY <2>2, OrgUpdateInv
  <2>3. ASSUME NEW id \in OrgIds, OrgLeave(id) PROVE OrgInv'
    BY <2>3, CountedUnchanged DEF OrgLeave, orgQueues
  <2>4. ASSUME NEW o \in observations, NEW data \in BOOLEAN, NEW g \in Garbage,
               OrgNotify(o, data, g)
        PROVE  OrgInv'
    BY <2>4, OrgNotifyInv
  <2> QED
    BY <1>1, <2>1, <2>2, <2>3, <2>4 DEF DeviceSteps
<1>2. CASE Settles
  <2> SUFFICES ASSUME NEW t \in transactions,
                      \/ OrgResult(t) \/ OrgMisplaced(t)
                      \/ \E content, data \in BOOLEAN, g \in Garbage : OrgObserved(t, content, data, g)
                      \/ \E came \in BOOLEAN : OrgCancelled(t, came)
               PROVE  OrgInv'
    BY <1>2 DEF Settles
  <2> QED
    BY OrgResultInv, OrgMisplacedInv, OrgObservedInv, OrgCancelledInv
<1>3. CASE Commands
  BY <1>3, CommandsInv DEF Commands
<1>4. CASE ClientThread
  <2>1. ASSUME NEW c \in created, TakeCreated(c) PROVE OrgInv'
    BY <2>1, CountedUnchanged DEF TakeCreated, orgQueues
  <2> QED
    BY <1>4, <2>1, HandleWriteInv, HandleReadInv DEF ClientThread
<1>5. CASE SenderThread
  <2>1. CASE SendReg
    BY <2>1, CountedUnchanged DEF SendReg, SenderStep, core
  <2>2. CASE SendUpdate
    BY <2>2, CountedUnchanged DEF SendUpdate, SenderStep, core
  <2>3. CASE SendNon
    BY <2>3, CountedUnchanged DEF SendNon, SenderStep, core
  <2> QED
    BY <1>5, <2>1, <2>2, <2>3, SendAckInv DEF SenderThread
<1>6. CASE UNCHANGED orgvars
  BY <1>6, CountedUnchanged DEF orgvars, core, orgQueues
<1> QED
  BY <1>1, <1>2, <1>3, <1>4, <1>5, <1>6 DEF OrgNext

\* A read or write of the analyzer that hnd_read or hnd_write has handed to the
\* core and that prv_resultCallback has not lost is with a device, in the queue of
\* ACKs or answered, and in one of these places only, whatever devices, the console, Observe requests and the sender
\* thread do meanwhile.
THEOREM AsksAlwaysAccounted == OrgSpec => []AskAccounted
<1>1. OrgInit => OrgInv
  BY OrgInitInv
<1>2. OrgInv /\ [OrgNext]_orgvars => OrgInv'
  BY OrgNextInv
<1>3. OrgInv => AskAccounted
  BY OrgInvAccounted
<1> QED
  BY <1>1, <1>2, <1>3, PTL DEF OrgSpec

-----------------------------------------------------------------------------
(* The client: the invariant of a context, and the steps that set one field. *)

ClientStates == {"INITIAL", "BOOTSTRAP_REQUIRED", "BOOTSTRAPPING", "REGISTERING", "READY"}
SrvStatuses ==
  {"DEREGISTERED", "REG_HOLD_OFF", "REG_PENDING", "REG_FAILED", "REGISTERED",
   "REG_UPDATE_NEEDED", "REG_FULL_UPDATE_NEEDED", "REG_UPDATE_PENDING", "DEREG_PENDING",
   "BS_HOLD_OFF", "BS_INITIATED", "BS_PENDING", "BS_FINISHING", "BS_FINISHED",
   "BS_FAILING", "BS_FAILED"}
Asks == {"no", "yes", "passed"}
SrvRec == [status : SrvStatuses, due : BOOLEAN, session : BOOLEAN, location : BOOLEAN,
           attempt : Nat, sequence : Nat, dirty : BOOLEAN, asked : Asks]
TrKinds == {"register", "update", "deregister", "bootstrap"}
TrRec == [kind : TrKinds, id : Ids, closed : BOOLEAN, freed : BOOLEAN]

\* The servers of a context.
Tables(S) == UNION {[D -> SrvRec] : D \in SUBSET S}

Contexts == [state : ClientStates, srv : Tables(Servers), bsrv : Tables(Bootstraps),
             sec : SUBSET Ids, trs : Seq(TrRec), uaf : BOOLEAN]

\* A transaction of this kind with i that can still be answered.
Has(trs, kind, i) ==
  \E j \in 1..Len(trs) : trs[j].kind = kind /\ trs[j].id = i /\ ~trs[j].closed

\* A server with this status has the transaction it waits for.
Served(trs, status, i) == \A kind \in Awaits(status) : Has(trs, kind, i)

\* A server that is not freed is in the list that a transaction's callback
\* looks in.
Owned(f, g, t) ==
  /\ t.freed => t.closed
  /\ ~t.freed /\ t.kind = "bootstrap" => t.id \in DOMAIN g
  /\ ~t.freed /\ t.kind # "bootstrap" => t.id \in DOMAIN f
AllOwned(f, g, trs) == \A j \in 1..Len(trs) : Owned(f, g, trs[j])

\* An update with objects stays asked for.
AskKept(r) == r.asked = "yes" => r.status = "REG_FULL_UPDATE_NEEDED"
AllKept(f) == \A i \in DOMAIN f : AskKept(f[i])

AllServed(f, trs, X) == \A i \in DOMAIN f \ X : Served(trs, f[i].status, i)

\* The invariant of a context, but for the servers of X, which may wait for
\* the transaction that is being ended.
Sound(k, X) ==
  /\ k \in Contexts
  /\ AllOwned(k.srv, k.bsrv, k.trs)
  /\ AllKept(k.srv)
  /\ AllServed(k.srv, k.trs, X) /\ AllServed(k.bsrv, k.trs, X)

-----------------------------------------------------------------------------

\* A table of servers, by its domain and its values.
LEMMA TablesIs ==
  ASSUME NEW S, NEW f
  PROVE  f \in Tables(S) <=> /\ f = [i \in DOMAIN f |-> f[i]] /\ DOMAIN f \subseteq S
                             /\ \A i \in DOMAIN f : f[i] \in SrvRec
<1>1. ASSUME f \in Tables(S)
      PROVE  /\ f = [i \in DOMAIN f |-> f[i]] /\ DOMAIN f \subseteq S
             /\ \A i \in DOMAIN f : f[i] \in SrvRec
  <2>1. PICK D \in SUBSET S : f \in [D -> SrvRec]
    BY <1>1 DEF Tables
  <2> QED BY <2>1
<1>2. ASSUME f = [i \in DOMAIN f |-> f[i]], DOMAIN f \subseteq S,
             \A i \in DOMAIN f : f[i] \in SrvRec
      PROVE  f \in Tables(S)
  <2>1. f \in [DOMAIN f -> SrvRec]
    BY <1>2
  <2> QED BY <1>2, <2>1 DEF Tables
<1> QED BY <1>1, <1>2

\* One server of a table is set.
LEMMA TablePut ==
  ASSUME NEW S, NEW f \in Tables(S), NEW i \in DOMAIN f, NEW r \in SrvRec
  PROVE  LET h == [f EXCEPT ![i] = r]
         IN  /\ h \in Tables(S) /\ DOMAIN h = DOMAIN f /\ h[i] = r
             /\ \A j \in DOMAIN f : j # i => h[j] = f[j]
<1> DEFINE h == [f EXCEPT ![i] = r]
<1>1. /\ f = [j \in DOMAIN f |-> f[j]] /\ DOMAIN f \subseteq S
      /\ \A j \in DOMAIN f : f[j] \in SrvRec
  BY TablesIs
<1>2. DOMAIN h = DOMAIN f /\ h[i] = r /\ \A j \in DOMAIN f : j # i => h[j] = f[j]
  BY <1>1
<1>3. h = [j \in DOMAIN h |-> h[j]]
  OBVIOUS
<1> HIDE DEF h
<1>4. h \in Tables(S)
  BY <1>1, <1>2, <1>3, TablesIs
<1> QED BY <1>2, <1>4 DEF h

\* The types of a context's fields.
LEMMA ContextTypes ==
  ASSUME NEW k \in Contexts
  PROVE  /\ k.state \in ClientStates /\ k.srv \in Tables(Servers) /\ k.bsrv \in Tables(Bootstraps)
         /\ k.sec \in SUBSET Ids /\ k.trs \in Seq(TrRec) /\ k.uaf \in BOOLEAN
BY DEF Contexts

\* One field of a context is set.
LEMMA WithSrv ==
  ASSUME NEW k \in Contexts, NEW f \in Tables(Servers)
  PROVE  LET m == [k EXCEPT !.srv = f]
         IN  /\ m \in Contexts /\ m.srv = f /\ m.bsrv = k.bsrv /\ m.trs = k.trs
             /\ m.state = k.state /\ m.sec = k.sec /\ m.uaf = k.uaf
BY DEF Contexts

\* The bootstrap servers of it are,
LEMMA WithBsrv ==
  ASSUME NEW k \in Contexts, NEW f \in Tables(Bootstraps)
  PROVE  LET m == [k EXCEPT !.bsrv = f]
         IN  /\ m \in Contexts /\ m.bsrv = f /\ m.srv = k.srv /\ m.trs = k.trs
             /\ m.state = k.state /\ m.sec = k.sec /\ m.uaf = k.uaf
BY DEF Contexts

\* and its transactions.
LEMMA WithTrs ==
  ASSUME NEW k \in Contexts, NEW q \in Seq(TrRec)
  PROVE  LET m == [k EXCEPT !.trs = q]
         IN  /\ m \in Contexts /\ m.trs = q /\ m.srv = k.srv /\ m.bsrv = k.bsrv
             /\ m.state = k.state /\ m.sec = k.sec /\ m.uaf = k.uaf
BY DEF Contexts

\* The state of the client is set: nobody waits for it.
LEMMA WithState ==
  ASSUME NEW k, NEW X, Sound(k, X), NEW st \in ClientStates
  PROVE  LET m == [k EXCEPT !.state = st]
         IN  /\ Sound(m, X) /\ m.srv = k.srv /\ m.bsrv = k.bsrv /\ m.trs = k.trs
<1> DEFINE m == [k EXCEPT !.state = st]
<1>1. k \in Contexts
  BY DEF Sound
<1>2. m \in Contexts /\ m.trs = k.trs /\ m.srv = k.srv /\ m.bsrv = k.bsrv
  BY <1>1 DEF Contexts
<1> HIDE DEF m
<1>3. Sound(m, X)
  BY <1>2 DEF Sound
<1> QED BY <1>2, <1>3 DEF m

\* So is the Security object.
LEMMA WithSec ==
  ASSUME NEW k, NEW X, Sound(k, X), NEW sec \in SUBSET Ids
  PROVE  LET m == [k EXCEPT !.sec = sec]
         IN  /\ Sound(m, X) /\ m.srv = k.srv /\ m.bsrv = k.bsrv /\ m.trs = k.trs
<1> DEFINE m == [k EXCEPT !.sec = sec]
<1>1. k \in Contexts
  BY DEF Sound
<1>2. m \in Contexts /\ m.trs = k.trs /\ m.srv = k.srv /\ m.bsrv = k.bsrv
  BY <1>1 DEF Contexts
<1> HIDE DEF m
<1>3. Sound(m, X)
  BY <1>2 DEF Sound
<1> QED BY <1>2, <1>3 DEF m

\* A callback to a server that was freed.
LEMMA WithUaf ==
  ASSUME NEW k, NEW X, Sound(k, X), NEW u \in BOOLEAN
  PROVE  Sound([k EXCEPT !.uaf = u], X)
<1> DEFINE m == [k EXCEPT !.uaf = u]
<1>1. k \in Contexts
  BY DEF Sound
<1>2. m \in Contexts /\ m.trs = k.trs /\ m.srv = k.srv /\ m.bsrv = k.bsrv
  BY <1>1 DEF Contexts
<1> HIDE DEF m
<1>3. Sound(m, X)
  BY <1>2 DEF Sound
<1> QED BY <1>3 DEF m

\* Who waits for nothing is served.
LEMMA Idle ==
  ASSUME NEW trs, NEW i, NEW status,
         status \notin {"REG_PENDING", "REG_UPDATE_PENDING", "DEREG_PENDING", "BS_INITIATED"}
  PROVE  Served(trs, status, i)
BY DEF Served, Awaits

\* Whoever waits for a reply waits for one transaction.
LEMMA Waiting ==
  ASSUME NEW trs, NEW i
  PROVE  /\ Served(trs, "REG_PENDING", i) <=> Has(trs, "register", i)
         /\ Served(trs, "REG_UPDATE_PENDING", i) <=> Has(trs, "update", i)
         /\ Served(trs, "DEREG_PENDING", i) <=> Has(trs, "deregister", i)
         /\ Served(trs, "BS_INITIATED", i) <=> Has(trs, "bootstrap", i)
BY DEF Served, Awaits

\* No instance is both a server and a bootstrap server.
LEMMA IdsApart ==
  ASSUME NEW S, NEW f \in Tables(Servers), NEW g \in Tables(Bootstraps)
  PROVE  /\ DOMAIN f \subseteq Servers /\ DOMAIN g \subseteq Bootstraps
         /\ DOMAIN f \cap DOMAIN g = {}
BY TablesIs, LwcAssumption

\* A server is set.
LEMMA PutServer ==
  ASSUME NEW k, NEW X, Sound(k, X), NEW i \in DOMAIN k.srv, NEW r \in SrvRec,
         AskKept(r), Served(k.trs, r.status, i)
  PROVE  LET m == [k EXCEPT !.srv = [k.srv EXCEPT ![i] = r]]
         IN  /\ Sound(m, X \ {i}) /\ m.srv[i] = r /\ DOMAIN m.srv = DOMAIN k.srv
             /\ m.bsrv = k.bsrv /\ m.trs = k.trs
<1> DEFINE h == [k.srv EXCEPT ![i] = r]
           m == [k EXCEPT !.srv = h]
<1>1. k \in Contexts /\ k.srv \in Tables(Servers) /\ k.bsrv \in Tables(Bootstraps)
  BY ContextTypes DEF Sound
<1>2. /\ h \in Tables(Servers) /\ DOMAIN h = DOMAIN k.srv /\ h[i] = r
      /\ \A j \in DOMAIN k.srv : j # i => h[j] = k.srv[j]
  BY <1>1, TablePut
<1> HIDE DEF h
<1>3. m \in Contexts /\ m.srv = h /\ m.bsrv = k.bsrv /\ m.trs = k.trs
  BY <1>1, <1>2, WithSrv
<1> HIDE DEF m
<1>4. i \notin DOMAIN k.bsrv
  BY <1>1, IdsApart
<1>5. AllOwned(m.srv, m.bsrv, m.trs)
  BY <1>2, <1>3 DEF Sound, AllOwned, Owned
<1>6. AllKept(m.srv)
  BY <1>2, <1>3 DEF Sound, AllKept
<1>7. AllServed(m.srv, m.trs, X \ {i}) /\ AllServed(m.bsrv, m.trs, X \ {i})
  BY <1>2, <1>3, <1>4 DEF Sound, AllServed
<1>8. Sound(m, X \ {i})
  BY <1>3, <1>5, <1>6, <1>7 DEF Sound
<1> QED BY <1>2, <1>3, <1>8 DEF m, h

\* A bootstrap server is set.
LEMMA PutBootstrap ==
  ASSUME NEW k, NEW X, Sound(k, X), NEW i \in DOMAIN k.bsrv, NEW r \in SrvRec,
         Served(k.trs, r.status, i)
  PROVE  LET m == [k EXCEPT !.bsrv = [k.bsrv EXCEPT ![i] = r]]
         IN  /\ Sound(m, X \ {i}) /\ m.bsrv[i] = r /\ DOMAIN m.bsrv = DOMAIN k.bsrv
             /\ m.srv = k.srv /\ m.trs = k.trs
<1> DEFINE h == [k.bsrv EXCEPT ![i] = r]
           m == [k EXCEPT !.bsrv = h]
<1>1. k \in Contexts /\ k.srv \in Tables(Servers) /\ k.bsrv \in Tables(Bootstraps)
  BY ContextTypes DEF Sound
<1>2. /\ h \in Tables(Bootstraps) /\ DOMAIN h = DOMAIN k.bsrv /\ h[i] = r
      /\ \A j \in DOMAIN k.bsrv : j # i => h[j] = k.bsrv[j]
  BY <1>1, TablePut
<1> HIDE DEF h
<1>3. m \in Contexts /\ m.bsrv = h /\ m.srv = k.srv /\ m.trs = k.trs
  BY <1>1, <1>2, WithBsrv
<1> HIDE DEF m
<1>4. i \notin DOMAIN k.srv
  BY <1>1, IdsApart
<1>5. AllOwned(m.srv, m.bsrv, m.trs)
  BY <1>2, <1>3 DEF Sound, AllOwned, Owned
<1>6. AllKept(m.srv)
  BY <1>2, <1>3 DEF Sound, AllKept
<1>7. AllServed(m.srv, m.trs, X \ {i}) /\ AllServed(m.bsrv, m.trs, X \ {i})
  BY <1>2, <1>3, <1>4 DEF Sound, AllServed
<1>8. Sound(m, X \ {i})
  BY <1>3, <1>5, <1>6, <1>7 DEF Sound
<1> QED BY <1>2, <1>3, <1>8 DEF m, h

\* A status that waits for no reply.
Quiet(status) ==
  status \notin {"REG_PENDING", "REG_UPDATE_PENDING", "DEREG_PENDING", "BS_INITIATED"}

\* h is f, some servers having been told to wait for nothing.
Calmed(f, h) ==
  /\ DOMAIN h = DOMAIN f
  /\ \A i \in DOMAIN f : h[i].status = f[i].status \/ Quiet(h[i].status)

\* The servers are set, all of them.
LEMMA PutServers ==
  ASSUME NEW k, NEW X, Sound(k, X), NEW h \in Tables(Servers), Calmed(k.srv, h), AllKept(h)
  PROVE  LET m == [k EXCEPT !.srv = h]
         IN  Sound(m, X) /\ m.srv = h /\ m.bsrv = k.bsrv /\ m.trs = k.trs
<1> DEFINE m == [k EXCEPT !.srv = h]
<1>1. k \in Contexts
  BY DEF Sound
<1>2. m \in Contexts /\ m.srv = h /\ m.bsrv = k.bsrv /\ m.trs = k.trs
  BY <1>1, WithSrv
<1> HIDE DEF m
<1>3. AllOwned(m.srv, m.bsrv, m.trs)
  BY <1>2 DEF Sound, AllOwned, Owned, Calmed
<1>4. AllServed(m.srv, m.trs, X)
  <2> SUFFICES ASSUME NEW i \in DOMAIN h \ X PROVE Served(k.trs, h[i].status, i)
    BY <1>2 DEF AllServed
  <2>1. i \in DOMAIN k.srv \ X
    BY DEF Calmed
  <2>2. CASE h[i].status = k.srv[i].status
    BY <2>1, <2>2 DEF Sound, AllServed
  <2>3. CASE Quiet(h[i].status)
    BY <2>3, Idle DEF Quiet
  <2> QED BY <2>1, <2>2, <2>3 DEF Calmed
<1>5. Sound(m, X)
  BY <1>2, <1>3, <1>4 DEF Sound
<1> QED BY <1>2, <1>5 DEF m

\* The bootstrap servers are set, all of them.
LEMMA PutBootstraps ==
  ASSUME NEW k, NEW X, Sound(k, X), NEW h \in Tables(Bootstraps), Calmed(k.bsrv, h)
  PROVE  LET m == [k EXCEPT !.bsrv = h]
         IN  Sound(m, X) /\ m.bsrv = h /\ m.srv = k.srv /\ m.trs = k.trs
<1> DEFINE m == [k EXCEPT !.bsrv = h]
<1>1. k \in Contexts
  BY DEF Sound
<1>2. m \in Contexts /\ m.bsrv = h /\ m.srv = k.srv /\ m.trs = k.trs
  BY <1>1, WithBsrv
<1> HIDE DEF m
<1>3. AllOwned(m.srv, m.bsrv, m.trs)
  BY <1>2 DEF Sound, AllOwned, Owned, Calmed
<1>4. AllServed(m.bsrv, m.trs, X)
  <2> SUFFICES ASSUME NEW i \in DOMAIN h \ X PROVE Served(k.trs, h[i].status, i)
    BY <1>2 DEF AllServed
  <2>1. i \in DOMAIN k.bsrv \ X
    BY DEF Calmed
  <2>2. CASE h[i].status = k.bsrv[i].status
    BY <2>1, <2>2 DEF Sound, AllServed
  <2>3. CASE Quiet(h[i].status)
    BY <2>3, Idle DEF Quiet
  <2> QED BY <2>1, <2>2, <2>3 DEF Calmed
<1>5. Sound(m, X)
  BY <1>2, <1>3, <1>4 DEF Sound
<1> QED BY <1>2, <1>5 DEF m

\* The servers are served by q if they are by p, which holds no more.
LEMMA MoreServed ==
  ASSUME NEW p, NEW q, \A kind, i : Has(p, kind, i) => Has(q, kind, i)
  PROVE  \A status, i : Served(p, status, i) => Served(q, status, i)
BY DEF Served

\* A request is sent.
LEMMA SendingIs ==
  ASSUME NEW k, NEW X, Sound(k, X), NEW kind \in TrKinds, NEW i \in Ids,
         kind = "bootstrap" => i \in DOMAIN k.bsrv,
         kind # "bootstrap" => i \in DOMAIN k.srv
  PROVE  LET m == Sending(k, kind, i)
         IN  /\ Sound(m, X) /\ m.srv = k.srv /\ m.bsrv = k.bsrv /\ Has(m.trs, kind, i)
<1> DEFINE t == [kind |-> kind, id |-> i, closed |-> FALSE, freed |-> FALSE]
           q == Append(k.trs, t)
           m == [k EXCEPT !.trs = q]
<1>1. k \in Contexts /\ k.trs \in Seq(TrRec)
  BY ContextTypes DEF Sound
<1>2. t \in TrRec /\ t.kind = kind /\ t.id = i /\ ~t.closed /\ ~t.freed
  BY DEF TrRec
<1>3. Sending(k, kind, i) = m
  BY DEF Sending
<1> HIDE DEF t
<1>5. /\ q \in Seq(TrRec) /\ Len(q) = Len(k.trs) + 1 /\ Len(k.trs) \in Nat /\ q[Len(q)] = t
      /\ \A j \in 1..Len(k.trs) : q[j] = k.trs[j]
  BY <1>1, <1>2
<1> HIDE DEF q
<1>6. m \in Contexts /\ m.trs = q /\ m.srv = k.srv /\ m.bsrv = k.bsrv
  BY <1>1, <1>5, WithTrs
<1> HIDE DEF m
<1>7. AllOwned(m.srv, m.bsrv, m.trs)
  <2> SUFFICES ASSUME NEW j \in 1..Len(q) PROVE Owned(k.srv, k.bsrv, q[j])
    BY <1>6 DEF AllOwned
  <2>1. CASE j = Len(q)
    BY <1>2, <1>5, <2>1 DEF Owned
  <2>2. CASE j # Len(q)
    <3>1. j \in 1..Len(k.trs) /\ q[j] = k.trs[j]
      BY <1>5, <2>2
    <3> QED BY <3>1 DEF Sound, AllOwned
  <2> QED BY <2>1, <2>2
<1>8. \A z, n : Has(k.trs, z, n) => Has(q, z, n)
  BY <1>5 DEF Has
<1>9. Has(q, kind, i)
  BY <1>2, <1>5 DEF Has
<1>10. \A status, n : Served(k.trs, status, n) => Served(q, status, n)
  BY <1>8, MoreServed
<1>11. AllServed(m.srv, m.trs, X) /\ AllServed(m.bsrv, m.trs, X)
  BY <1>6, <1>10 DEF Sound, AllServed
<1>12. Sound(m, X)
  BY <1>6, <1>7, <1>11 DEF Sound
<1> QED BY <1>3, <1>6, <1>9, <1>12

\* The transactions with servers that wait for nothing are marked.
LEMMA Marked ==
  ASSUME NEW k, NEW X, Sound(k, X), NEW ids, NEW q \in Seq(TrRec), Len(q) = Len(k.trs),
         \A i \in DOMAIN k.srv : i \in ids => Quiet(k.srv[i].status),
         \A i \in DOMAIN k.bsrv : i \in ids => Quiet(k.bsrv[i].status),
         \A j \in 1..Len(q) :
           /\ k.trs[j].id \notin ids => q[j] = k.trs[j]
           /\ q[j].kind = k.trs[j].kind /\ q[j].id = k.trs[j].id
           /\ q[j].freed = k.trs[j].freed
           /\ k.trs[j].closed => q[j].closed
  PROVE  LET m == [k EXCEPT !.trs = q]
         IN  Sound(m, X) /\ m.trs = q /\ m.srv = k.srv /\ m.bsrv = k.bsrv
<1> DEFINE m == [k EXCEPT !.trs = q]
<1>1. k \in Contexts
  BY DEF Sound
<1>2. m \in Contexts /\ m.trs = q /\ m.srv = k.srv /\ m.bsrv = k.bsrv
  BY <1>1, WithTrs
<1> HIDE DEF m
<1>3. AllOwned(m.srv, m.bsrv, m.trs)
  BY <1>2 DEF Sound, AllOwned, Owned
<1>4. ASSUME NEW n, n \notin ids, NEW z, Has(k.trs, z, n) PROVE Has(q, z, n)
  BY <1>4 DEF Has
<1>5. ASSUME NEW n, n \notin ids, NEW s, Served(k.trs, s, n) PROVE Served(q, s, n)
  BY <1>4, <1>5 DEF Served
<1>6. AllServed(m.srv, m.trs, X) /\ AllServed(m.bsrv, m.trs, X)
  BY <1>2, <1>5, Idle DEF Sound, AllServed, Quiet
<1>7. Sound(m, X)
  BY <1>2, <1>3, <1>6 DEF Sound
<1> QED BY <1>2, <1>7 DEF m

\* The session with servers that wait for nothing is closed.
LEMMA ClosingIs ==
  ASSUME NEW k, NEW X, Sound(k, X), NEW ids,
         \A i \in DOMAIN k.srv : i \in ids => Quiet(k.srv[i].status),
         \A i \in DOMAIN k.bsrv : i \in ids => Quiet(k.bsrv[i].status)
  PROVE  LET m == [k EXCEPT !.trs = Closing(k.trs, ids)]
         IN  Sound(m, X) /\ m.srv = k.srv /\ m.bsrv = k.bsrv
<1> DEFINE q == Closing(k.trs, ids)
<1>1. k.trs \in Seq(TrRec)
  BY ContextTypes DEF Sound
<1>2. /\ Len(k.trs) \in Nat /\ DOMAIN k.trs = 1..Len(k.trs)
      /\ \A j \in 1..Len(k.trs) : k.trs[j] \in TrRec
  BY <1>1, SeqFacts
<1>3. \A t \in TrRec : LET u == [t EXCEPT !.closed = TRUE]
                       IN  /\ u \in TrRec /\ u.kind = t.kind /\ u.id = t.id
                           /\ u.freed = t.freed /\ u.closed
  BY DEF TrRec
<1>4. q = [j \in 1..Len(k.trs) |-> IF k.trs[j].id \in ids THEN [k.trs[j] EXCEPT !.closed = TRUE]
                                   ELSE k.trs[j]]
  BY <1>2 DEF Closing
<1> HIDE DEF q
<1>5. \A j \in 1..Len(k.trs) : q[j] \in TrRec
  BY <1>2, <1>3, <1>4
<1>6. q \in Seq(TrRec) /\ Len(q) = Len(k.trs)
  BY <1>2, <1>4, <1>5
<1>7. \A j \in 1..Len(q) :
           /\ k.trs[j].id \notin ids => q[j] = k.trs[j]
           /\ q[j].kind = k.trs[j].kind /\ q[j].id = k.trs[j].id
           /\ q[j].freed = k.trs[j].freed
           /\ k.trs[j].closed => q[j].closed
  BY <1>2, <1>3, <1>4, <1>6
<1>8. LET m == [k EXCEPT !.trs = q]
      IN  Sound(m, X) /\ m.trs = q /\ m.srv = k.srv /\ m.bsrv = k.bsrv
  BY <1>6, <1>7, Marked
<1> QED BY <1>8 DEF q

\* A transaction is taken out of the list.
LEMMA RemovalIs ==
  ASSUME NEW k, Sound(k, {}), NEW j \in 1..Len(k.trs)
  PROVE  LET m == [k EXCEPT !.trs = RemoveAt(@, j)]
             t == k.trs[j]
         IN  /\ t \in TrRec /\ Owned(k.srv, k.bsrv, t) /\ Sound(m, {t.id})
             /\ m.srv = k.srv /\ m.bsrv = k.bsrv /\ Len(m.trs) = Len(k.trs) - 1
             /\ t.closed => Sound(m, {})
             /\ \/ t.id \in DOMAIN k.srv /\ t.kind \notin Awaits(k.srv[t.id].status)
                \/ t.id \in DOMAIN k.bsrv /\ t.kind \notin Awaits(k.bsrv[t.id].status)
                => Sound(m, {})
<1> DEFINE q == RemoveAt(k.trs, j)
           m == [k EXCEPT !.trs = q]
           t == k.trs[j]
<1>1. k \in Contexts /\ k.trs \in Seq(TrRec) /\ Len(k.trs) \in Nat
      /\ k.srv \in Tables(Servers) /\ k.bsrv \in Tables(Bootstraps)
  BY ContextTypes DEF Sound
<1>2. /\ q \in Seq(TrRec) /\ Len(q) = Len(k.trs) - 1
      /\ \A n \in 1..(Len(k.trs) - 1) : q[n] = IF n < j THEN k.trs[n] ELSE k.trs[n + 1]
  BY <1>1, RemoveAtSeq
<1>3. t \in TrRec /\ Owned(k.srv, k.bsrv, t)
  BY <1>1 DEF Sound, AllOwned
<1> HIDE DEF q, t
<1>4. m \in Contexts /\ m.trs = q /\ m.srv = k.srv /\ m.bsrv = k.bsrv
  BY <1>1, <1>2, WithTrs
<1>5. m = [k EXCEPT !.trs = RemoveAt(@, j)]
  BY DEF q
<1> HIDE DEF m
<1>6. \A n \in 1..Len(q) : \E p \in 1..Len(k.trs) : q[n] = k.trs[p]
  <2> SUFFICES ASSUME NEW n \in 1..Len(q) PROVE \E p \in 1..Len(k.trs) : q[n] = k.trs[p]
    OBVIOUS
  <2>1. /\ n \in 1..(Len(k.trs) - 1) /\ n \in 1..Len(k.trs) /\ n + 1 \in 1..Len(k.trs)
        /\ q[n] = IF n < j THEN k.trs[n] ELSE k.trs[n + 1]
    BY <1>1, <1>2
  <2> QED BY <2>1
<1>7. AllOwned(m.srv, m.bsrv, m.trs)
  BY <1>4, <1>6 DEF Sound, AllOwned
<1>8. \A p \in 1..Len(k.trs) : p # j => \E n \in 1..Len(q) : q[n] = k.trs[p]
  <2> SUFFICES ASSUME NEW p \in 1..Len(k.trs), p # j PROVE \E n \in 1..Len(q) : q[n] = k.trs[p]
    OBVIOUS
  <2>1. CASE p < j
    <3>1. p \in 1..Len(q) /\ q[p] = k.trs[p]
      BY <1>1, <1>2, <2>1
    <3> QED BY <3>1
  <2>2. CASE ~(p < j)
    <3>1. p - 1 \in 1..Len(q) /\ q[p - 1] = k.trs[p]
      BY <1>1, <1>2, <2>2
    <3> QED BY <3>1
  <2> QED BY <2>1, <2>2
<1>9. ASSUME NEW z, NEW i, Has(k.trs, z, i), t.closed \/ z # t.kind \/ i # t.id
      PROVE  Has(q, z, i)
  <2>1. PICK p \in 1..Len(k.trs) : k.trs[p].kind = z /\ k.trs[p].id = i /\ ~k.trs[p].closed
    BY <1>9 DEF Has
  <2>2. p # j
    BY <1>9, <2>1 DEF t
  <2>3. PICK n \in 1..Len(q) : q[n] = k.trs[p]
    BY <1>8, <2>2
  <2> QED BY <2>1, <2>3 DEF Has
<1>10. ASSUME NEW s, NEW i, Served(k.trs, s, i), t.closed \/ t.kind \notin Awaits(s) \/ i # t.id
       PROVE  Served(q, s, i)
  BY <1>9, <1>10 DEF Served
<1>11. Sound(m, {t.id})
  <2>1. AllServed(m.srv, m.trs, {t.id}) /\ AllServed(m.bsrv, m.trs, {t.id})
    BY <1>4, <1>10 DEF Sound, AllServed
  <2> QED BY <1>4, <1>7, <2>1 DEF Sound
<1>12. ASSUME t.closed PROVE Sound(m, {})
  <2>1. AllServed(m.srv, m.trs, {}) /\ AllServed(m.bsrv, m.trs, {})
    BY <1>4, <1>10, <1>12 DEF Sound, AllServed
  <2> QED BY <1>4, <1>7, <2>1 DEF Sound
<1>13. ASSUME \/ t.id \in DOMAIN k.srv /\ t.kind \notin Awaits(k.srv[t.id].status)
              \/ t.id \in DOMAIN k.bsrv /\ t.kind \notin Awaits(k.bsrv[t.id].status)
       PROVE  Sound(m, {})
  <2>1. DOMAIN k.srv \cap DOMAIN k.bsrv = {}
    BY <1>1, IdsApart
  <2>2. AllServed(m.srv, m.trs, {}) /\ AllServed(m.bsrv, m.trs, {})
    BY <1>4, <1>10, <1>13, <2>1 DEF Sound, AllServed
  <2> QED BY <1>4, <1>7, <2>2 DEF Sound
<1> QED BY <1>2, <1>3, <1>4, <1>5, <1>11, <1>12, <1>13 DEF t

-----------------------------------------------------------------------------
(* Registration.                                                           *)

\* What the invariant says of one server.
LEMMA ServerOf ==
  ASSUME NEW k, NEW X, Sound(k, X), NEW i \in DOMAIN k.srv
  PROVE  /\ k.srv[i] \in SrvRec /\ AskKept(k.srv[i]) /\ i \in Servers /\ i \in Ids
         /\ i \notin X => Served(k.trs, k.srv[i].status, i)
<1>1. k.srv \in Tables(Servers)
  BY ContextTypes DEF Sound
<1>2. k.srv[i] \in SrvRec /\ i \in Servers
  BY <1>1, TablesIs
<1> QED BY <1>2 DEF Sound, AllKept, AllServed, Ids

\* And of one bootstrap server.
LEMMA BootstrapOf ==
  ASSUME NEW k, NEW X, Sound(k, X), NEW b \in DOMAIN k.bsrv
  PROVE  /\ k.bsrv[b] \in SrvRec /\ b \in Bootstraps /\ b \in Ids
         /\ b \notin X => Served(k.trs, k.bsrv[b].status, b)
<1>1. k.bsrv \in Tables(Bootstraps)
  BY ContextTypes DEF Sound
<1>2. k.bsrv[b] \in SrvRec /\ b \in Bootstraps
  BY <1>1, TablesIs
<1> QED BY <1>2 DEF Sound, AllServed, Ids

\* A server is told to wait for nothing.
LEMMA Calm ==
  ASSUME NEW k, NEW X, Sound(k, X), NEW i \in DOMAIN k.srv, NEW r \in SrvRec,
         AskKept(r), Quiet(r.status)
  PROVE  LET m == [k EXCEPT !.srv[i] = r]
         IN  /\ Sound(m, X \ {i}) /\ m.srv[i] = r /\ DOMAIN m.srv = DOMAIN k.srv
             /\ m.bsrv = k.bsrv /\ m.trs = k.trs
<1>1. Served(k.trs, r.status, i)
  BY Idle DEF Quiet
<1> QED BY <1>1, PutServer

\* A bootstrap server is told to wait for nothing, as a server is.
LEMMA CalmBootstrap ==
  ASSUME NEW k, NEW X, Sound(k, X), NEW i \in DOMAIN k.bsrv, NEW r \in SrvRec, Quiet(r.status)
  PROVE  LET m == [k EXCEPT !.bsrv[i] = r]
         IN  /\ Sound(m, X \ {i}) /\ m.bsrv[i] = r /\ DOMAIN m.bsrv = DOMAIN k.bsrv
             /\ m.srv = k.srv /\ m.trs = k.trs
<1>1. Served(k.trs, r.status, i)
  BY Idle DEF Quiet
<1> QED BY <1>1, PutBootstrap

\* A server's status is set.
LEMMA StatusSet ==
  ASSUME NEW r \in SrvRec, NEW st \in SrvStatuses
  PROVE  LET u == [r EXCEPT !.status = st]
         IN  u \in SrvRec /\ u.status = st /\ u.asked = r.asked
BY DEF SrvRec

\* registration_start
LEMMA StartIs ==
  ASSUME NEW k, NEW X, Sound(k, X), NEW again \in BOOLEAN
  PROVE  LET m == RegistrationStart(k, again)
         IN  /\ Sound(m, X) /\ DOMAIN m.srv = DOMAIN k.srv /\ m.bsrv = k.bsrv /\ m.trs = k.trs
             /\ \A i \in DOMAIN k.srv :
                  k.srv[i].status \notin {"DEREGISTERED", "REG_FAILED"} => m.srv[i] = k.srv[i]
<1> DEFINE cand == {i \in DOMAIN k.srv : \/ k.srv[i].status = "DEREGISTERED"
                                         \/ again /\ k.srv[i].status = "REG_FAILED"}
           ordered == {i \in cand : Ordered(i)}
           begin == (cand \ ordered) \cup {i \in ordered : \A j \in ordered \ {i} :
                                        Order(i) < Order(j) \/ (Order(i) = Order(j) /\ i < j)}
           st(i) == IF i \in begin THEN "REG_HOLD_OFF" ELSE k.srv[i].status
           du(i) == IF i \in begin THEN ~InitialDelay(i) ELSE k.srv[i].due
           new(i) == IF i \notin cand THEN k.srv[i]
                     ELSE [k.srv[i] EXCEPT !.attempt = 0, !.sequence = 0, !.status = st(i), !.due = du(i)]
           h == [i \in DOMAIN k.srv |-> new(i)]
           m == [k EXCEPT !.srv = h]
<1>1. RegistrationStart(k, again) = m
  BY DEF RegistrationStart
<1>2. cand \subseteq DOMAIN k.srv /\ \A i \in cand : k.srv[i].status \in {"DEREGISTERED", "REG_FAILED"}
  OBVIOUS
<1> HIDE DEF cand, begin
<1>3. ASSUME NEW i \in DOMAIN k.srv
      PROVE  /\ new(i) \in SrvRec /\ AskKept(new(i))
             /\ new(i).status = k.srv[i].status \/ Quiet(new(i).status)
             /\ k.srv[i].status \notin {"DEREGISTERED", "REG_FAILED"} => new(i) = k.srv[i]
  <2>1. k.srv[i] \in SrvRec /\ AskKept(k.srv[i])
    BY ServerOf
  <2>2. CASE i \notin cand
    BY <2>1, <2>2
  <2>3. CASE i \in cand
    <3>1. k.srv[i].status \in {"DEREGISTERED", "REG_FAILED"} /\ k.srv[i].asked # "yes"
      BY <1>2, <2>1, <2>3 DEF AskKept, SrvRec
    <3>2. st(i) \in SrvStatuses /\ Quiet(st(i))
      BY <3>1 DEF SrvStatuses, Quiet
    <3>3. du(i) \in BOOLEAN
      BY <2>1 DEF SrvRec, InitialDelay
    <3> DEFINE s == st(i)
               d == du(i)
               z == 0
               u == [k.srv[i] EXCEPT !.attempt = z, !.sequence = z, !.status = s, !.due = d]
    <3>4. new(i) = u /\ z \in Nat /\ s \in SrvStatuses /\ Quiet(s) /\ d \in BOOLEAN
      BY <2>3, <3>2, <3>3
    <3> HIDE DEF s, d, z
    <3>5. u \in SrvRec /\ u.status = s /\ u.asked = k.srv[i].asked
      BY ONLY <2>1, <3>4 DEF u, SrvRec
    <3> HIDE DEF u, new
    <3> QED BY <3>1, <3>4, <3>5 DEF AskKept
  <2> QED BY <2>2, <2>3
<1> HIDE DEF new
<1>4. DOMAIN h = DOMAIN k.srv /\ h = [i \in DOMAIN h |-> h[i]] /\ \A i \in DOMAIN k.srv : h[i] = new(i)
  OBVIOUS
<1> HIDE DEF h
<1>5. k.srv \in Tables(Servers)
  BY ContextTypes DEF Sound
<1>6. h \in Tables(Servers)
  BY <1>3, <1>4, <1>5, TablesIs
<1>7. Calmed(k.srv, h) /\ AllKept(h)
  BY <1>3, <1>4 DEF Calmed, AllKept
<1>8. Sound(m, X) /\ m.srv = h /\ m.bsrv = k.bsrv /\ m.trs = k.trs
  BY <1>6, <1>7, PutServers
<1> HIDE DEF m
<1> QED BY <1>1, <1>3, <1>4, <1>8

\* prv_handleRegistrationSequenceFailure, of a server that was registering.
LEMMA SequenceFailureIs ==
  ASSUME NEW a, NEW i, Sound(a, {i}), i \in DOMAIN a.srv, a.srv[i].status = "REG_PENDING"
  PROVE  LET m == SequenceFailure(a, i)
         IN  Sound(m, {}) /\ m.trs = a.trs
<1> DEFINE c == RegistrationStart(a, FALSE)
           k == IF Ordered(i) /\ ~Blocking(i) /\ a.srv[i].sequence = 1 THEN c ELSE a
           failed == Put(k, i, "REG_FAILED")
           held == [k EXCEPT !.srv[i] = [@ EXCEPT !.status = "REG_HOLD_OFF", !.due = FALSE, !.attempt = 0]]
           boot == [failed EXCEPT !.state = "BOOTSTRAP_REQUIRED"]
           all == [failed EXCEPT !.srv = [j \in DOMAIN @ |->
                     IF @[j].status = "DEREGISTERED" /\ Ordered(j)
                     THEN [@[j] EXCEPT !.status = "REG_FAILED"] ELSE @[j]]]
<1>1. SequenceFailure(a, i) \in {held, boot, all, failed}
  BY DEF SequenceFailure
<1>2. /\ Sound(c, {i}) /\ DOMAIN c.srv = DOMAIN a.srv /\ c.trs = a.trs
      /\ c.srv[i] = a.srv[i]
  <2> DEFINE f == FALSE
  <2>1. f \in BOOLEAN
    OBVIOUS
  <2> HIDE DEF f
  <2>2. LET m == RegistrationStart(a, f)
        IN  /\ Sound(m, {i}) /\ DOMAIN m.srv = DOMAIN a.srv /\ m.trs = a.trs
            /\ m.srv[i] = a.srv[i]
    BY <2>1, StartIs
  <2> QED BY <2>2 DEF f
<1> HIDE DEF c
<1>3. Sound(k, {i}) /\ i \in DOMAIN k.srv /\ k.trs = a.trs /\ k.srv[i].status = "REG_PENDING"
  BY <1>2
<1> HIDE DEF k
<1>4. k.srv[i] \in SrvRec /\ k.srv[i].asked # "yes"
  BY <1>3, ServerOf DEF AskKept, SrvRec
<1>5. Sound(held, {}) /\ held.trs = a.trs
  <2> DEFINE st == "REG_HOLD_OFF"
             d == FALSE
             z == 0
             r == [k.srv[i] EXCEPT !.status = st, !.due = d, !.attempt = z]
  <2>1. held = [k EXCEPT !.srv[i] = r]
    OBVIOUS
  <2>2. st \in SrvStatuses /\ d \in BOOLEAN /\ z \in Nat /\ Quiet(st)
    BY DEF SrvStatuses, Quiet
  <2> HIDE DEF st, d, z, held
  <2>3. r \in SrvRec /\ r.status = st /\ r.asked # "yes"
    BY ONLY <1>4, <2>2 DEF r, SrvRec
  <2> HIDE DEF r
  <2>4. AskKept(r) /\ Quiet(r.status)
    BY <2>2, <2>3 DEF AskKept
  <2> QED BY <1>3, <2>1, <2>3, <2>4, Calm
<1>6. Sound(failed, {}) /\ failed.trs = a.trs
  <2> DEFINE st == "REG_FAILED"
             r == [k.srv[i] EXCEPT !.status = st]
  <2>1. failed = [k EXCEPT !.srv[i] = r]
    BY DEF Put
  <2>2. st \in SrvStatuses /\ Quiet(st)
    BY DEF SrvStatuses, Quiet
  <2> HIDE DEF st, failed
  <2>3. r \in SrvRec /\ r.status = st /\ r.asked # "yes"
    BY <1>4, <2>2, StatusSet
  <2> HIDE DEF r
  <2>4. AskKept(r) /\ Quiet(r.status)
    BY <2>2, <2>3 DEF AskKept
  <2> QED BY <1>3, <2>1, <2>3, <2>4, Calm
<1> HIDE DEF failed
<1>7. Sound(boot, {}) /\ boot.trs = a.trs
  <2>1. "BOOTSTRAP_REQUIRED" \in ClientStates
    BY DEF ClientStates
  <2> QED BY <1>6, <2>1, WithState
<1>8. Sound(all, {}) /\ all.trs = a.trs
  <2> DEFINE f == failed.srv
             st == "REG_FAILED"
             new(j) == IF f[j].status = "DEREGISTERED" /\ Ordered(j)
                       THEN [f[j] EXCEPT !.status = st] ELSE f[j]
             h == [j \in DOMAIN f |-> new(j)]
  <2>1. all = [failed EXCEPT !.srv = h]
    OBVIOUS
  <2>2. st \in SrvStatuses /\ Quiet(st)
    BY DEF SrvStatuses, Quiet
  <2>3. f \in Tables(Servers)
    BY <1>6, ContextTypes DEF Sound
  <2> HIDE DEF st, all
  <2>4. ASSUME NEW j \in DOMAIN f
        PROVE  /\ new(j) \in SrvRec /\ AskKept(new(j))
               /\ new(j).status = f[j].status \/ Quiet(new(j).status)
    <3>1. f[j] \in SrvRec /\ AskKept(f[j])
      BY <1>6, ServerOf
    <3> HIDE DEF f
    <3>2. LET u == [f[j] EXCEPT !.status = st]
          IN  u \in SrvRec /\ u.status = st /\ u.asked = f[j].asked
      BY <2>2, <3>1, StatusSet
    <3>3. CASE f[j].status = "DEREGISTERED" /\ Ordered(j)
      <4>1. f[j].asked # "yes"
        BY <3>1, <3>3 DEF AskKept, SrvRec
      <4> QED BY <2>2, <3>2, <3>3, <4>1 DEF AskKept
    <3>4. CASE ~(f[j].status = "DEREGISTERED" /\ Ordered(j))
      <4>1. new(j) = f[j]
        BY <3>4
      <4> QED BY <3>1, <4>1
    <3> QED BY <3>3, <3>4
  <2> HIDE DEF new
  <2>5. DOMAIN h = DOMAIN f /\ h = [j \in DOMAIN h |-> h[j]] /\ \A j \in DOMAIN f : h[j] = new(j)
    OBVIOUS
  <2> HIDE DEF h
  <2>6. h \in Tables(Servers)
    BY <2>3, <2>4, <2>5, TablesIs
  <2>7. Calmed(failed.srv, h) /\ AllKept(h)
    BY <2>4, <2>5 DEF Calmed, AllKept
  <2> QED BY <1>6, <2>1, <2>6, <2>7, PutServers
<1> QED BY <1>1, <1>5, <1>6, <1>7, <1>8

\* A server of either list is set as it is sent the request it then waits for.
LEMMA SendingPut ==
  ASSUME NEW k, Sound(k, {}), NEW i \in DOMAIN k.srv, NEW kind \in TrKinds, kind # "bootstrap",
         NEW r \in SrvRec, AskKept(r), Awaits(r.status) = {kind}
  PROVE  Sound(Sending([k EXCEPT !.srv[i] = r], kind, i), {})
<1> DEFINE q == Sending(k, kind, i)
           f == [k.srv EXCEPT ![i] = r]
           m == [q EXCEPT !.srv = f]
<1>1. i \in Ids
  BY ServerOf
<1>2. Sound(q, {}) /\ q.srv = k.srv /\ Has(q.trs, kind, i)
  BY <1>1, SendingIs
<1> HIDE DEF f
<1>3. Sending([k EXCEPT !.srv = f], kind, i) = m
  <2>1. k \in Contexts
    BY DEF Sound
  <2> QED BY ONLY <2>1 DEF m, q, Sending, Contexts
<1> HIDE DEF q
<1>4. Served(q.trs, r.status, i)
  BY <1>2 DEF Served
<1>5. Sound([q EXCEPT !.srv = [q.srv EXCEPT ![i] = r]], {})
  <2>1. {} \ {i} = {} /\ i \in DOMAIN q.srv
    BY <1>2
  <2> DEFINE v == [q EXCEPT !.srv = [q.srv EXCEPT ![i] = r]]
  <2>2. Sound(v, {} \ {i})
    BY <1>2, <1>4, <2>1, PutServer
  <2> HIDE DEF v
  <2> QED BY <2>1, <2>2 DEF v
<1> QED BY <1>2, <1>3, <1>5 DEF f

\* A bootstrap server is set as it is asked for a bootstrap.
LEMMA SendingPutBootstrap ==
  ASSUME NEW k, Sound(k, {}), NEW i \in DOMAIN k.bsrv, NEW r \in SrvRec,
         Awaits(r.status) = {"bootstrap"}
  PROVE  Sound(Sending([k EXCEPT !.bsrv[i] = r], "bootstrap", i), {})
<1> DEFINE kind == "bootstrap"
           q == Sending(k, kind, i)
           f == [k.bsrv EXCEPT ![i] = r]
           m == [q EXCEPT !.bsrv = f]
<1>1. i \in Ids
  BY BootstrapOf
<1>2. kind \in TrKinds
  BY DEF TrKinds
<1> HIDE DEF kind
<1>3. Sound(q, {}) /\ q.bsrv = k.bsrv /\ Has(q.trs, kind, i)
  BY <1>1, <1>2, SendingIs DEF kind
<1> HIDE DEF f
<1>4. Sending([k EXCEPT !.bsrv = f], kind, i) = m
  <2>1. k \in Contexts
    BY DEF Sound
  <2> QED BY ONLY <2>1 DEF m, q, Sending, Contexts
<1> HIDE DEF q
<1>5. Served(q.trs, r.status, i)
  BY <1>3 DEF Served, kind
<1>6. Sound([q EXCEPT !.bsrv = [q.bsrv EXCEPT ![i] = r]], {})
  BY <1>3, <1>5, PutBootstrap
<1> QED BY <1>3, <1>4, <1>6 DEF f, kind

\* prv_handleRegistrationAttemptFailure, of a server that was registering.
LEMMA AttemptFailureIs ==
  ASSUME NEW k, NEW i, Sound(k, {i}), i \in DOMAIN k.srv, k.srv[i].status = "REG_PENDING"
  PROVE  LET m == AttemptFailure(k, i)
         IN  Sound(m, {}) /\ m.trs = k.trs
<1> DEFINE st == "REG_HOLD_OFF"
           d == FALSE
           r == [k.srv[i] EXCEPT !.status = st, !.due = d]
           held == [k EXCEPT !.srv[i] = r]
<1>1. AttemptFailure(k, i) \in {held, SequenceFailure(k, i)}
  BY DEF AttemptFailure
<1>2. st \in SrvStatuses /\ Quiet(st) /\ d \in BOOLEAN
  BY DEF SrvStatuses, Quiet
<1>3. k.srv[i] \in SrvRec /\ k.srv[i].asked # "yes"
  BY ServerOf DEF AskKept, SrvRec
<1> HIDE DEF st, d
<1>4. r \in SrvRec /\ r.status = st /\ r.asked # "yes"
  BY ONLY <1>2, <1>3 DEF r, SrvRec
<1> HIDE DEF r
<1>5. AskKept(r) /\ Quiet(r.status)
  BY <1>2, <1>4 DEF AskKept
<1>6. Sound(held, {}) /\ held.trs = k.trs
  BY <1>4, <1>5, Calm
<1> QED BY <1>1, <1>6, SequenceFailureIs

\* prv_handleRegistrationReply, once the transaction is out of the list.
LEMMA RegistrationReplyIs ==
  ASSUME NEW k, NEW i, Sound(k, {i}), i \in DOMAIN k.srv, NEW good \in BOOLEAN,
         k.srv[i].status # "REG_PENDING" => Sound(k, {})
  PROVE  LET m == RegistrationReply(k, i, good)
         IN  Sound(m, {}) /\ m.trs = k.trs
<1> DEFINE st == "REGISTERED"
           d == FALSE
           e == TRUE
           r == [k.srv[i] EXCEPT !.status = st, !.location = e, !.due = d]
           done == [k EXCEPT !.srv[i] = r]
           new == RegistrationStart(done, d)
<1>1. CASE k.srv[i].status # "REG_PENDING"
  BY <1>1 DEF RegistrationReply
<1>2. CASE k.srv[i].status = "REG_PENDING"
  <2>1. RegistrationReply(k, i, good) \in {AttemptFailure(k, i), new, done}
    BY <1>2 DEF RegistrationReply
  <2>2. st \in SrvStatuses /\ Quiet(st) /\ d \in BOOLEAN /\ e \in BOOLEAN
    BY DEF SrvStatuses, Quiet
  <2>3. k.srv[i] \in SrvRec /\ k.srv[i].asked # "yes"
    BY <1>2, ServerOf DEF AskKept, SrvRec
  <2> HIDE DEF st, d, e
  <2>4. r \in SrvRec /\ r.status = st /\ r.asked # "yes"
    BY ONLY <2>2, <2>3 DEF r, SrvRec
  <2> HIDE DEF r
  <2>5. AskKept(r) /\ Quiet(r.status)
    BY <2>2, <2>4 DEF AskKept
  <2>6. Sound(done, {}) /\ done.trs = k.trs
    BY <2>4, <2>5, Calm
  <2> HIDE DEF done
  <2>7. Sound(new, {}) /\ new.trs = done.trs
    BY <2>2, <2>6, StartIs
  <2> QED BY <1>2, <2>1, <2>6, <2>7, AttemptFailureIs
<1> QED BY <1>1, <1>2

\* prv_handleRegistrationUpdateReply
LEMMA UpdateReplyIs ==
  ASSUME NEW k, NEW i, Sound(k, {i}), i \in DOMAIN k.srv, NEW good \in BOOLEAN,
         k.srv[i].status # "REG_UPDATE_PENDING" => Sound(k, {})
  PROVE  LET m == UpdateReply(k, i, good)
         IN  Sound(m, {}) /\ m.trs = k.trs
<1> DEFINE st == IF good THEN "REGISTERED" ELSE "REG_FAILED"
           d == FALSE
           r == [k.srv[i] EXCEPT !.status = st, !.due = d]
           m == [k EXCEPT !.srv[i] = r]
<1>1. CASE k.srv[i].status # "REG_UPDATE_PENDING"
  BY <1>1 DEF UpdateReply
<1>2. CASE k.srv[i].status = "REG_UPDATE_PENDING"
  <2>1. UpdateReply(k, i, good) = m
    BY <1>2 DEF UpdateReply
  <2>2. st \in SrvStatuses /\ Quiet(st) /\ d \in BOOLEAN
    BY DEF SrvStatuses, Quiet
  <2>3. k.srv[i] \in SrvRec /\ k.srv[i].asked # "yes"
    BY <1>2, ServerOf DEF AskKept, SrvRec
  <2> HIDE DEF st, d
  <2>4. r \in SrvRec /\ r.status = st /\ r.asked # "yes"
    BY ONLY <2>2, <2>3 DEF r, SrvRec
  <2> HIDE DEF r
  <2>5. AskKept(r) /\ Quiet(r.status)
    BY <2>2, <2>4 DEF AskKept
  <2>6. Sound(m, {}) /\ m.trs = k.trs
    BY <2>4, <2>5, Calm
  <2> QED BY <2>1, <2>6
<1> QED BY <1>1, <1>2

\* prv_handleDeregistrationReply
LEMMA DeregistrationReplyIs ==
  ASSUME NEW k, NEW i, Sound(k, {i}), i \in DOMAIN k.srv,
         k.srv[i].status # "DEREG_PENDING" => Sound(k, {})
  PROVE  LET m == DeregistrationReply(k, i)
         IN  Sound(m, {}) /\ m.trs = k.trs
<1> DEFINE st == "DEREGISTERED"
           r == [k.srv[i] EXCEPT !.status = st]
           m == [k EXCEPT !.srv[i] = r]
<1>1. CASE k.srv[i].status # "DEREG_PENDING"
  BY <1>1 DEF DeregistrationReply
<1>2. CASE k.srv[i].status = "DEREG_PENDING"
  <2>1. DeregistrationReply(k, i) = m
    BY <1>2 DEF DeregistrationReply, Put
  <2>2. st \in SrvStatuses /\ Quiet(st)
    BY DEF SrvStatuses, Quiet
  <2>3. k.srv[i] \in SrvRec /\ k.srv[i].asked # "yes"
    BY <1>2, ServerOf DEF AskKept, SrvRec
  <2> HIDE DEF st
  <2>4. r \in SrvRec /\ r.status = st /\ r.asked # "yes"
    BY ONLY <2>2, <2>3 DEF r, SrvRec
  <2> HIDE DEF r
  <2>5. AskKept(r) /\ Quiet(r.status)
    BY <2>2, <2>4 DEF AskKept
  <2>6. Sound(m, {}) /\ m.trs = k.trs
    BY <2>4, <2>5, Calm
  <2> QED BY <2>1, <2>6
<1> QED BY <1>1, <1>2

\* prv_register, of a server that is held off.
LEMMA RegisterIs ==
  ASSUME NEW k, Sound(k, {}), NEW i \in DOMAIN k.srv, NEW connects \in BOOLEAN,
         k.srv[i].status = "REG_HOLD_OFF"
  PROVE  Sound(Register(k, i, connects), {})
<1> DEFINE st == "REG_PENDING"
           kind == "register"
           e == TRUE
           n == k.srv[i].attempt + 1
           c == IF k.srv[i].attempt = 0 THEN k.srv[i].sequence + 1 ELSE k.srv[i].sequence
           no == "no"
           r == [k.srv[i] EXCEPT !.session = e, !.status = st, !.attempt = n, !.sequence = c,
                                 !.asked = no]
           m == Sending([k EXCEPT !.srv[i] = r], kind, i)
<1>1. Register(k, i, connects) \in {k, m}
  BY DEF Register
<1>2. k.srv[i] \in SrvRec
  BY ServerOf
<1>3. st \in SrvStatuses /\ e \in BOOLEAN /\ n \in Nat /\ c \in Nat /\ no \in Asks /\ no # "yes"
  BY <1>2 DEF SrvStatuses, SrvRec, Asks
<1>4. Awaits(st) = {kind} /\ kind # "bootstrap" /\ kind \in TrKinds
  BY DEF Awaits, TrKinds
<1> HIDE DEF st, e, n, c, no, kind
<1>5. r \in SrvRec /\ r.status = st /\ r.asked # "yes"
  BY ONLY <1>2, <1>3 DEF r, SrvRec
<1> HIDE DEF r
<1>6. AskKept(r) /\ Awaits(r.status) = {kind}
  BY <1>4, <1>5 DEF AskKept
<1>7. Sound(m, {})
  BY <1>4, <1>5, <1>6, SendingPut
<1> QED BY <1>1, <1>7

\* prv_updateRegistration: an update with objects is sent if one was asked for.
LEMMA UpdateRegistrationIs ==
  ASSUME NEW k, Sound(k, {}), NEW i \in DOMAIN k.srv, NEW w \in BOOLEAN,
         k.srv[i].asked = "yes" => w
  PROVE  Sound(UpdateRegistration(k, i, w), {})
<1> DEFINE st == "REG_UPDATE_PENDING"
           kind == "update"
           e == IF w THEN "no" ELSE k.srv[i].asked
           r == [k.srv[i] EXCEPT !.status = st, !.asked = e]
           m == Sending([k EXCEPT !.srv[i] = r], kind, i)
<1>1. UpdateRegistration(k, i, w) = m
  BY DEF UpdateRegistration
<1>2. k.srv[i] \in SrvRec
  BY ServerOf
<1>3. st \in SrvStatuses /\ e \in Asks /\ e # "yes"
  BY <1>2 DEF SrvStatuses, SrvRec, Asks
<1>4. Awaits(st) = {kind} /\ kind # "bootstrap" /\ kind \in TrKinds
  BY DEF Awaits, TrKinds
<1> HIDE DEF st, e, kind
<1>5. r \in SrvRec /\ r.status = st /\ r.asked # "yes"
  BY ONLY <1>2, <1>3 DEF r, SrvRec
<1> HIDE DEF r
<1>6. AskKept(r) /\ Awaits(r.status) = {kind}
  BY <1>4, <1>5 DEF AskKept
<1>7. Sound(m, {})
  BY <1>4, <1>5, <1>6, SendingPut
<1> QED BY <1>1, <1>7

\* registration_step, for one server.
LEMMA ServerStepIs ==
  ASSUME NEW k, Sound(k, {}), NEW i \in DOMAIN k.srv, NEW connects \in BOOLEAN
  PROVE  Sound(ServerStep(k, i, connects), {})
<1> DEFINE s == k.srv[i]
           a == Register(k, i, connects)
           f == FALSE
           t == TRUE
           b == UpdateRegistration(k, i, f)
           c == UpdateRegistration(k, i, t)
           d == [k EXCEPT !.srv[i].session = f, !.trs = Closing(k.trs, {i})]
<1>1. s \in SrvRec /\ AskKept(s)
  BY ServerOf
<1>2. s.asked = "yes" => s.status = "REG_FULL_UPDATE_NEEDED"
  BY <1>1 DEF AskKept
<1>3. CASE s.status = "REG_HOLD_OFF" /\ s.due
  <2>1. ServerStep(k, i, connects) = a
    BY <1>3 DEF ServerStep
  <2> QED
    BY <1>3, <2>1, RegisterIs
<1>4. CASE (s.status = "REGISTERED" /\ s.due) \/ s.status = "REG_UPDATE_NEEDED"
  <2>1. ServerStep(k, i, connects) = b
    BY <1>4 DEF ServerStep
  <2>2. f \in BOOLEAN /\ (s.asked = "yes" => f)
    BY <1>2, <1>4
  <2> HIDE DEF f
  <2> QED
    BY <2>1, <2>2, UpdateRegistrationIs
<1>5. CASE s.status = "REG_FULL_UPDATE_NEEDED"
  <2>1. ServerStep(k, i, connects) = c
    BY <1>5 DEF ServerStep
  <2>2. t \in BOOLEAN /\ (s.asked = "yes" => t)
    OBVIOUS
  <2> HIDE DEF t
  <2> QED
    BY <2>1, <2>2, UpdateRegistrationIs
<1>6. CASE s.status = "REG_FAILED" /\ s.session
  <2> DEFINE u == [s EXCEPT !.session = f]
             w == [k EXCEPT !.srv[i] = u]
             m == [w EXCEPT !.trs = Closing(w.trs, {i})]
  <2>1. ServerStep(k, i, connects) = d
    BY <1>6 DEF ServerStep
  <2>2. k \in Contexts
    BY DEF Sound
  <2>3. u \in SrvRec /\ u.status = "REG_FAILED" /\ u.asked = s.asked
    BY ONLY <1>1, <1>6 DEF u, f, SrvRec
  <2> HIDE DEF u
  <2>4. AskKept(u) /\ Quiet(u.status)
    BY <1>2, <1>6, <2>3 DEF AskKept, Quiet
  <2>5. /\ Sound(w, {}) /\ w.srv[i] = u /\ DOMAIN w.srv = DOMAIN k.srv
        /\ w.bsrv = k.bsrv /\ w.trs = k.trs
    <3>1. {} \ {i} = {}
      OBVIOUS
    <3>2. /\ Sound(w, {} \ {i}) /\ w.srv[i] = u /\ DOMAIN w.srv = DOMAIN k.srv
          /\ w.bsrv = k.bsrv /\ w.trs = k.trs
      BY <2>3, <2>4, Calm
    <3> HIDE DEF w
    <3> QED
      BY <3>1, <3>2
  <2>6. d = m
    BY <2>2, <2>5 DEF Contexts, u
  <2> HIDE DEF w
  <2>7. w.srv \in Tables(Servers) /\ w.bsrv \in Tables(Bootstraps)
    BY <2>5, ContextTypes DEF Sound
  <2>8. i \notin DOMAIN w.bsrv
    BY <2>5, <2>7, IdsApart
  <2>9. Sound(m, {})
    BY <2>4, <2>5, <2>8, ClosingIs
  <2> QED
    BY <2>1, <2>6, <2>9
<1>7. CASE /\ ~(s.status = "REG_HOLD_OFF" /\ s.due)
           /\ ~((s.status = "REGISTERED" /\ s.due) \/ s.status = "REG_UPDATE_NEEDED")
           /\ s.status # "REG_FULL_UPDATE_NEEDED"
           /\ ~(s.status = "REG_FAILED" /\ s.session)
  <2>1. ServerStep(k, i, connects) = k
    BY <1>7 DEF ServerStep
  <2> QED
    BY <2>1
<1> QED
  BY <1>3, <1>4, <1>5, <1>6, <1>7

\* registration_step, at one place of the list.
LEMMA StepIfThereIs ==
  ASSUME NEW k, Sound(k, {}), NEW i \in Nat, NEW connects \in BOOLEAN
  PROVE  Sound(StepIfThere(k, i, connects), {})
BY ServerStepIs DEF StepIfThere

\* The walk over the instances has an end.
LEMMA LastIdNat ==
  LastId + 1 \in Nat
<1>1. PICK last \in Ids : \A i \in Ids : last >= i
  BY LwcAssumption DEF Ids
<1>2. LastId \in Ids
  BY <1>1 DEF LastId, Max
<1> QED
  BY <1>2, LwcAssumption DEF Ids

\* registration_step
LEMMA RegistrationStepIs ==
  ASSUME NEW k, Sound(k, {}), NEW connects \in BOOLEAN
  PROVE  Sound(RegistrationStep(k, connects), {})
<1> DEFINE n == LastId + 1
           V == {x \in Contexts : Sound(x, {})}
           Rule(m, old) == StepIfThere(old, m - 1, connects)
           r == [x \in (1..n) \X V |-> Rule(x[1], x[2])]
           Walked(f) == f = [m \in 0..n |-> IF m = 0 THEN k ELSE Rule(m, f[m - 1])]
           c == CHOOSE f : Walked(f)
<1>1. n \in Nat
  BY LastIdNat
<1>2. k \in V
  BY DEF Sound
<1>3. RegistrationStep(k, connects) = c[n]
  BY Zenon DEF RegistrationStep
<1> HIDE DEF n
<1>4. \A m \in 1..n, old \in V : Rule(m, old) \in V
  <2> SUFFICES ASSUME NEW m \in 1..n, NEW old \in V PROVE Rule(m, old) \in V
    OBVIOUS
  <2>1. m - 1 \in Nat /\ Sound(old, {})
    BY <1>1
  <2> HIDE DEF V
  <2> DEFINE z == m - 1
  <2>2. z \in Nat
    BY <2>1
  <2> HIDE DEF z
  <2>3. Sound(StepIfThere(old, z, connects), {})
    BY <2>1, <2>2, StepIfThereIs
  <2>4. Sound(Rule(m, old), {})
    BY <2>3 DEF z
  <2> HIDE DEF Rule
  <2>5. Rule(m, old) \in Contexts
    BY <2>4 DEF Sound
  <2> QED
    BY <2>4, <2>5 DEF V
<1>5. \A x \in V : Sound(x, {})
  OBVIOUS
<1> HIDE DEF V, Rule
<1>6. \E f : Walked(f) /\ f \in [0..n -> V]
  <2>1. r \in [(1..n) \X V -> V]
    BY <1>4
  <2>2. \A m \in 1..n, old \in V : r[<<m, old>>] = Rule(m, old)
    OBVIOUS
  <2> HIDE DEF r
  <2>3. PICK f : Follows(f, V, n, k, r)
    BY <1>1, <1>2, <2>1, FollowsExists
  <2>4. /\ f \in [0..n -> V] /\ f[0] = k
        /\ \A m \in 1..n : f[m] = r[<<m, f[m - 1]>>]
    BY <2>3 DEF Follows
  <2>5. ASSUME NEW m \in 1..n PROVE f[m] = Rule(m, f[m - 1])
    <3>1. m - 1 \in 0..n
      BY <1>1
    <3>2. f[m - 1] \in V
      BY <2>4, <3>1
    <3> QED
      BY <2>2, <2>4, <3>2
  <2>6. ASSUME NEW m \in 0..n PROVE f[m] = IF m = 0 THEN k ELSE Rule(m, f[m - 1])
    <3>1. m # 0 => m \in 1..n
      BY <1>1
    <3> QED
      BY <2>4, <2>5, <3>1
  <2>7. f = [m \in 0..n |-> f[m]]
    BY <2>4
  <2>8. Walked(f)
    BY <2>6, <2>7
  <2> QED
    BY <2>4, <2>8
<1>7. Walked(c)
  <2> HIDE DEF Walked
  <2> QED
    BY <1>6
<1> HIDE DEF c
<1>8. c[0] = k /\ \A m \in 1..n : c[m] = Rule(m, c[m - 1])
  <2>1. 0 \in 0..n /\ \A m \in 1..n : m \in 0..n /\ m # 0
    BY <1>1
  <2> QED
    BY <1>7, <2>1
<1> HIDE DEF Walked
<1> DEFINE G == {m \in 0..n : c[m] \in V}
<1>9. 0 \in G /\ \A m \in 1..n : m - 1 \in G => m \in G
  <2>1. 0 \in 0..n /\ \A m \in 1..n : m \in 0..n
    BY <1>1
  <2> QED
    BY <1>2, <1>4, <1>8, <2>1
<1> HIDE DEF G
<1>10. n \in G
  <2>1. \A m \in 0..n : m \in G
    BY <1>1, <1>9, UpTo
  <2>2. n \in 0..n
    BY <1>1
  <2> QED
    BY <2>1, <2>2
<1> QED
  BY <1>3, <1>5, <1>10 DEF G

-----------------------------------------------------------------------------
(* Bootstrap.                                                              *)

\* The invariant lets no server wait for what has ended.
LEMMA SoundLess ==
  ASSUME NEW k, Sound(k, {}), NEW X
  PROVE  Sound(k, X)
BY DEF Sound, AllServed

\* A bootstrap server is told to wait for nothing.
LEMMA CalmOne ==
  ASSUME NEW k, NEW b \in DOMAIN k.bsrv, Sound(k, {b}), NEW r \in SrvRec, Quiet(r.status)
  PROVE  LET m == [k EXCEPT !.bsrv[b] = r]
         IN  /\ Sound(m, {}) /\ m.bsrv[b] = r /\ DOMAIN m.bsrv = DOMAIN k.bsrv
             /\ m.srv = k.srv /\ m.trs = k.trs
<1> DEFINE m == [k EXCEPT !.bsrv[b] = r]
<1>1. {b} \ {b} = {}
  OBVIOUS
<1>2. /\ Sound(m, {b} \ {b}) /\ m.bsrv[b] = r /\ DOMAIN m.bsrv = DOMAIN k.bsrv
      /\ m.srv = k.srv /\ m.trs = k.trs
  BY CalmBootstrap
<1> HIDE DEF m
<1> QED
  BY <1>1, <1>2 DEF m

\* Only its status is set.
LEMMA PutBsIs ==
  ASSUME NEW k, NEW b \in DOMAIN k.bsrv, Sound(k, {b}),
         NEW st \in SrvStatuses, Quiet(st)
  PROVE  LET m == PutBs(k, b, st)
         IN  /\ Sound(m, {}) /\ m.bsrv[b].status = st /\ DOMAIN m.bsrv = DOMAIN k.bsrv
             /\ m.srv = k.srv /\ m.trs = k.trs
<1> DEFINE r == [k.bsrv[b] EXCEPT !.status = st]
           m == [k EXCEPT !.bsrv[b] = r]
<1>1. PutBs(k, b, st) = m
  BY DEF PutBs
<1>2. k.bsrv[b] \in SrvRec
  BY BootstrapOf
<1>3. r \in SrvRec /\ r.status = st
  BY ONLY <1>2, st \in SrvStatuses DEF r, SrvRec
<1> HIDE DEF r
<1>4. Quiet(r.status)
  BY <1>3
<1>5. /\ Sound(m, {}) /\ m.bsrv[b] = r /\ DOMAIN m.bsrv = DOMAIN k.bsrv
      /\ m.srv = k.srv /\ m.trs = k.trs
  BY ONLY Sound(k, {b}), b \in DOMAIN k.bsrv, <1>3, <1>4, CalmOne
<1> HIDE DEF m
<1> QED
  BY <1>1, <1>3, <1>5

\* The statuses of a bootstrap server that waits for nothing.
LEMMA QuietStatuses ==
  \A st \in {"DEREGISTERED", "BS_HOLD_OFF", "BS_PENDING", "BS_FINISHING", "BS_FINISHED",
             "BS_FAILING", "BS_FAILED"} : st \in SrvStatuses /\ Quiet(st)
BY DEF SrvStatuses, Quiet

\* prv_handleBootstrapReply, once the transaction is out of the list.
LEMMA BootstrapReplyIs ==
  ASSUME NEW k, NEW b \in DOMAIN k.bsrv, Sound(k, {b}), NEW good \in BOOLEAN,
         k.bsrv[b].status # "BS_INITIATED" => Sound(k, {})
  PROVE  LET m == BootstrapReply(k, b, good)
         IN  Sound(m, {}) /\ m.trs = k.trs
<1> DEFINE st == "BS_PENDING"
           fl == "BS_FAILING"
           d == FALSE
           r == [k.bsrv[b] EXCEPT !.status = st, !.due = d]
           m == [k EXCEPT !.bsrv[b] = r]
           p == PutBs(k, b, fl)
<1>1. CASE k.bsrv[b].status # "BS_INITIATED"
  BY <1>1 DEF BootstrapReply
<1>2. CASE k.bsrv[b].status = "BS_INITIATED"
  <2>1. BootstrapReply(k, b, good) \in {m, p}
    BY <1>2 DEF BootstrapReply
  <2>2. st \in SrvStatuses /\ Quiet(st) /\ fl \in SrvStatuses /\ Quiet(fl) /\ d \in BOOLEAN
    BY QuietStatuses
  <2>3. k.bsrv[b] \in SrvRec
    BY BootstrapOf
  <2> HIDE DEF st, fl, d
  <2>4. r \in SrvRec /\ r.status = st
    BY ONLY <2>2, <2>3 DEF r, SrvRec
  <2> HIDE DEF r
  <2>5. Quiet(r.status)
    BY <2>2, <2>4
  <2>6. Sound(m, {}) /\ m.trs = k.trs
    BY <2>4, <2>5, CalmOne
  <2>7. Sound(p, {}) /\ p.trs = k.trs
    BY <2>2, PutBsIs
  <2> HIDE DEF m, p
  <2> QED
    BY <2>1, <2>6, <2>7
<1> QED
  BY <1>1, <1>2

\* prv_requestBootstrap
LEMMA RequestBootstrapIs ==
  ASSUME NEW k, Sound(k, {}), NEW b \in DOMAIN k.bsrv, NEW connects \in BOOLEAN
  PROVE  Sound(RequestBootstrap(k, b, connects), {})
<1> DEFINE st == "BS_INITIATED"
           fl == "BS_FAILED"
           e == TRUE
           r == [k.bsrv[b] EXCEPT !.session = e, !.status = st]
           m == Sending([k EXCEPT !.bsrv[b] = r], "bootstrap", b)
           p == PutBs(k, b, fl)
<1>1. RequestBootstrap(k, b, connects) \in {m, p}
  BY DEF RequestBootstrap
<1>2. st \in SrvStatuses /\ e \in BOOLEAN /\ Awaits(st) = {"bootstrap"}
  BY DEF SrvStatuses, Awaits
<1>3. fl \in SrvStatuses /\ Quiet(fl)
  BY QuietStatuses
<1>4. k.bsrv[b] \in SrvRec
  BY BootstrapOf
<1> HIDE DEF st, fl, e
<1>5. r \in SrvRec /\ r.status = st
  BY ONLY <1>2, <1>4 DEF r, SrvRec
<1> HIDE DEF r
<1>6. Sound(m, {})
  BY <1>2, <1>5, SendingPutBootstrap
<1>7. Sound(p, {})
  BY <1>3, PutBsIs, SoundLess
<1> QED
  BY <1>1, <1>6, <1>7

\* The end of a bootstrap.
LEMMA HangUpIs ==
  ASSUME NEW k, Sound(k, {}), NEW b \in DOMAIN k.bsrv, NEW st \in SrvStatuses, Quiet(st)
  PROVE  Sound(HangUp(k, b, st), {})
<1> DEFINE f == FALSE
           u == [k.bsrv[b] EXCEPT !.session = f, !.status = st]
           w == [k EXCEPT !.bsrv[b] = u]
           m == [w EXCEPT !.trs = Closing(w.trs, {b})]
           d == [k EXCEPT !.bsrv[b] = u, !.trs = Closing(k.trs, {b})]
<1>1. k.bsrv[b] \in SrvRec /\ f \in BOOLEAN
  BY BootstrapOf
<1>2. HangUp(k, b, st) = d
  BY DEF HangUp
<1> HIDE DEF f
<1>3. u \in SrvRec /\ u.status = st
  BY ONLY <1>1, st \in SrvStatuses DEF u, SrvRec
<1> HIDE DEF u
<1>4. Quiet(u.status) /\ k \in Contexts
  BY <1>3 DEF Sound
<1>5. /\ Sound(w, {}) /\ w.bsrv[b] = u /\ DOMAIN w.bsrv = DOMAIN k.bsrv
      /\ w.srv = k.srv /\ w.trs = k.trs
  <2>1. Sound(k, {b})
    BY SoundLess
  <2> QED
    BY <1>3, <1>4, <2>1, CalmOne
<1>6. d = m
  BY <1>4, <1>5 DEF Contexts
<1> HIDE DEF w
<1>7. w.srv \in Tables(Servers) /\ w.bsrv \in Tables(Bootstraps)
  BY <1>5, ContextTypes DEF Sound
<1>8. b \notin DOMAIN w.srv
  BY <1>5, <1>7, IdsApart
<1>9. Sound(m, {})
  BY <1>4, <1>5, <1>8, ClosingIs
<1> QED
  BY <1>2, <1>6, <1>9

\* bootstrap_step, for one server.
LEMMA BootstrapServerStepIs ==
  ASSUME NEW k, Sound(k, {}), NEW b \in DOMAIN k.bsrv, NEW connects \in BOOLEAN
  PROVE  Sound(BootstrapServerStep(k, b, connects), {})
<1> DEFINE hold == "BS_HOLD_OFF"
           failing == "BS_FAILING"
           finished == "BS_FINISHED"
           fl == "BS_FAILED"
           f == FALSE
           r == [k.bsrv[b] EXCEPT !.status = hold, !.due = f]
           m == [k EXCEPT !.bsrv[b] = r]
<1>1. BootstrapServerStep(k, b, connects) \in
        {m, RequestBootstrap(k, b, connects), PutBs(k, b, failing),
         HangUp(k, b, finished), HangUp(k, b, fl), k}
  BY DEF BootstrapServerStep
<1>2. /\ hold \in SrvStatuses /\ Quiet(hold) /\ failing \in SrvStatuses /\ Quiet(failing)
      /\ finished \in SrvStatuses /\ Quiet(finished) /\ fl \in SrvStatuses /\ Quiet(fl)
      /\ f \in BOOLEAN
  BY QuietStatuses
<1>3. k.bsrv[b] \in SrvRec
  BY BootstrapOf
<1> HIDE DEF hold, failing, finished, fl, f
<1>4. r \in SrvRec /\ r.status = hold
  BY ONLY <1>2, <1>3 DEF r, SrvRec
<1> HIDE DEF r
<1>5. Quiet(r.status)
  BY <1>2, <1>4
<1>6. Sound(m, {})
  BY <1>4, <1>5, CalmOne, SoundLess
<1>7. Sound(PutBs(k, b, failing), {})
  BY <1>2, PutBsIs, SoundLess
<1>8. Sound(HangUp(k, b, finished), {}) /\ Sound(HangUp(k, b, fl), {})
  BY <1>2, HangUpIs
<1>9. Sound(RequestBootstrap(k, b, connects), {})
  BY RequestBootstrapIs
<1> HIDE DEF m
<1> QED
  BY <1>1, <1>6, <1>7, <1>8, <1>9

\* bootstrap_step, at one place of the list.
LEMMA BootstrapIfThereIs ==
  ASSUME NEW k, Sound(k, {}), NEW i \in Nat, NEW connects \in BOOLEAN
  PROVE  Sound(BootstrapIfThere(k, i, connects), {})
BY BootstrapServerStepIs DEF BootstrapIfThere

\* bootstrap_step
LEMMA BootstrapStepIs ==
  ASSUME NEW k, Sound(k, {}), NEW connects \in BOOLEAN
  PROVE  Sound(BootstrapStep(k, connects), {})
<1> DEFINE n == LastId + 1
           V == {x \in Contexts : Sound(x, {})}
           Rule(m, old) == BootstrapIfThere(old, m - 1, connects)
           r == [x \in (1..n) \X V |-> Rule(x[1], x[2])]
           Walked(f) == f = [m \in 0..n |-> IF m = 0 THEN k ELSE Rule(m, f[m - 1])]
           c == CHOOSE f : Walked(f)
<1>1. n \in Nat
  BY LastIdNat
<1>2. k \in V
  BY DEF Sound
<1>3. BootstrapStep(k, connects) = c[n]
  BY Zenon DEF BootstrapStep
<1> HIDE DEF n
<1>4. \A m \in 1..n, old \in V : Rule(m, old) \in V
  <2> SUFFICES ASSUME NEW m \in 1..n, NEW old \in V PROVE Rule(m, old) \in V
    OBVIOUS
  <2>1. m - 1 \in Nat /\ Sound(old, {})
    BY <1>1
  <2> HIDE DEF V
  <2> DEFINE z == m - 1
  <2>2. z \in Nat
    BY <2>1
  <2> HIDE DEF z
  <2>3. Sound(BootstrapIfThere(old, z, connects), {})
    BY <2>1, <2>2, BootstrapIfThereIs
  <2>4. Sound(Rule(m, old), {})
    BY <2>3 DEF z
  <2> HIDE DEF Rule
  <2>5. Rule(m, old) \in Contexts
    BY <2>4 DEF Sound
  <2> QED
    BY <2>4, <2>5 DEF V
<1>5. \A x \in V : Sound(x, {})
  OBVIOUS
<1> HIDE DEF V, Rule
<1>6. \E f : Walked(f) /\ f \in [0..n -> V]
  <2>1. r \in [(1..n) \X V -> V]
    BY <1>4
  <2>2. \A m \in 1..n, old \in V : r[<<m, old>>] = Rule(m, old)
    OBVIOUS
  <2> HIDE DEF r
  <2>3. PICK f : Follows(f, V, n, k, r)
    BY <1>1, <1>2, <2>1, FollowsExists
  <2>4. /\ f \in [0..n -> V] /\ f[0] = k
        /\ \A m \in 1..n : f[m] = r[<<m, f[m - 1]>>]
    BY <2>3 DEF Follows
  <2>5. ASSUME NEW m \in 1..n PROVE f[m] = Rule(m, f[m - 1])
    <3>1. m - 1 \in 0..n
      BY <1>1
    <3>2. f[m - 1] \in V
      BY <2>4, <3>1
    <3> QED
      BY <2>2, <2>4, <3>2
  <2>6. ASSUME NEW m \in 0..n PROVE f[m] = IF m = 0 THEN k ELSE Rule(m, f[m - 1])
    <3>1. m # 0 => m \in 1..n
      BY <1>1
    <3> QED
      BY <2>4, <2>5, <3>1
  <2>7. f = [m \in 0..n |-> f[m]]
    BY <2>4
  <2>8. Walked(f)
    BY <2>6, <2>7
  <2> QED
    BY <2>4, <2>8
<1>7. Walked(c)
  <2> HIDE DEF Walked
  <2> QED
    BY <1>6
<1> HIDE DEF c
<1>8. c[0] = k /\ \A m \in 1..n : c[m] = Rule(m, c[m - 1])
  <2>1. 0 \in 0..n /\ \A m \in 1..n : m \in 0..n /\ m # 0
    BY <1>1
  <2> QED
    BY <1>7, <2>1
<1> HIDE DEF Walked
<1> DEFINE G == {m \in 0..n : c[m] \in V}
<1>9. 0 \in G /\ \A m \in 1..n : m - 1 \in G => m \in G
  <2>1. 0 \in 0..n /\ \A m \in 1..n : m \in 0..n
    BY <1>1
  <2> QED
    BY <1>2, <1>4, <1>8, <2>1
<1> HIDE DEF G
<1>10. n \in G
  <2>1. \A m \in 0..n : m \in G
    BY <1>1, <1>9, UpTo
  <2>2. n \in 0..n
    BY <1>1
  <2> QED
    BY <2>1, <2>2
<1> QED
  BY <1>3, <1>5, <1>10 DEF G

\* bootstrap_start
LEMMA BootstrapStartIs ==
  ASSUME NEW k, Sound(k, {}), NEW connects \in BOOLEAN
  PROVE  Sound(BootstrapStart(k, connects), {})
<1> DEFINE st == "DEREGISTERED"
           d(b) == k.bsrv[b].session \/ connects
           new(b) == [k.bsrv[b] EXCEPT !.status = st, !.session = d(b)]
           h == [b \in DOMAIN k.bsrv |-> new(b)]
           m == [k EXCEPT !.bsrv = h]
<1>1. BootstrapStart(k, connects) = m
  BY DEF BootstrapStart
<1>2. st \in SrvStatuses /\ Quiet(st)
  BY QuietStatuses
<1>3. ASSUME NEW b \in DOMAIN k.bsrv
      PROVE  new(b) \in SrvRec /\ Quiet(new(b).status)
  <2>1. k.bsrv[b] \in SrvRec
    BY BootstrapOf
  <2> DEFINE e == d(b)
             u == [k.bsrv[b] EXCEPT !.status = st, !.session = e]
  <2>2. e \in BOOLEAN
    BY <2>1 DEF SrvRec
  <2> HIDE DEF e, st
  <2>3. u \in SrvRec /\ u.status = st
    BY ONLY <1>2, <2>1, <2>2 DEF u, SrvRec
  <2>4. new(b) = u
    BY DEF e
  <2> HIDE DEF u, new
  <2> QED
    BY <1>2, <2>3, <2>4
<1> HIDE DEF new
<1>4. DOMAIN h = DOMAIN k.bsrv /\ h = [b \in DOMAIN h |-> h[b]] /\ \A b \in DOMAIN k.bsrv : h[b] = new(b)
  OBVIOUS
<1> HIDE DEF h
<1>5. k.bsrv \in Tables(Bootstraps)
  BY ContextTypes DEF Sound
<1>6. h \in Tables(Bootstraps)
  BY <1>3, <1>4, <1>5, TablesIs
<1>7. Calmed(k.bsrv, h)
  BY <1>3, <1>4 DEF Calmed
<1>8. Sound(m, {})
  BY <1>6, <1>7, PutBootstraps
<1> QED
  BY <1>1, <1>8

\* prv_checkServerStatus
LEMMA CheckServerStatusIs ==
  ASSUME NEW k, Sound(k, {}), NEW b \in DOMAIN k.bsrv
  PROVE  LET m == CheckServerStatus(k, b)
         IN  Sound(m, {}) /\ b \in DOMAIN m.bsrv
<1> DEFINE st == "BS_PENDING"
           f == FALSE
           r == [k.bsrv[b] EXCEPT !.due = f]
           m == [k EXCEPT !.bsrv[b] = r]
           p == PutBs(k, b, st)
<1>1. Sound(k, {b}) /\ k.bsrv[b] \in SrvRec
  BY SoundLess, BootstrapOf
<1>2. CASE k.bsrv[b].status \in {"BS_HOLD_OFF", "BS_INITIATED"}
  <2>1. CheckServerStatus(k, b) = p
    BY <1>2 DEF CheckServerStatus
  <2>2. st \in SrvStatuses /\ Quiet(st)
    BY QuietStatuses
  <2> HIDE DEF st
  <2>3. Sound(p, {}) /\ DOMAIN p.bsrv = DOMAIN k.bsrv
    BY <1>1, <2>2, PutBsIs
  <2> HIDE DEF p
  <2> QED
    BY <2>1, <2>3
<1>3. CASE k.bsrv[b].status \in {"DEREGISTERED", "BS_PENDING"}
  <2>1. CheckServerStatus(k, b) = m
    BY <1>3 DEF CheckServerStatus
  <2>2. Quiet(k.bsrv[b].status) /\ f \in BOOLEAN
    BY <1>3 DEF Quiet
  <2> HIDE DEF f
  <2>3. r \in SrvRec /\ r.status = k.bsrv[b].status
    BY ONLY <1>1, <2>2 DEF r, SrvRec
  <2> HIDE DEF r
  <2>4. Quiet(r.status)
    BY <2>2, <2>3
  <2>5. Sound(m, {}) /\ DOMAIN m.bsrv = DOMAIN k.bsrv
    BY <1>1, <2>3, <2>4, CalmOne
  <2> HIDE DEF m
  <2> QED
    BY <2>1, <2>5
<1>4. CASE /\ k.bsrv[b].status \notin {"BS_HOLD_OFF", "BS_INITIATED"}
           /\ k.bsrv[b].status \notin {"DEREGISTERED", "BS_PENDING"}
  <2>1. CheckServerStatus(k, b) = k
    BY <1>4 DEF CheckServerStatus
  <2> QED
    BY <2>1
<1> QED
  BY <1>2, <1>3, <1>4

\* Servers of a table are marked.
DirtyOf(f, ids) == [i \in DOMAIN f |-> IF i \in ids THEN [f[i] EXCEPT !.dirty = TRUE] ELSE f[i]]

\* A mark changes nothing that the invariant looks at.
LEMMA DirtyOfIs ==
  ASSUME NEW S, NEW f \in Tables(S), NEW ids
  PROVE  LET h == DirtyOf(f, ids)
         IN  h \in Tables(S) /\ Calmed(f, h) /\ (AllKept(f) => AllKept(h))
<1> DEFINE d == TRUE
           new(i) == IF i \in ids THEN [f[i] EXCEPT !.dirty = d] ELSE f[i]
           h == [i \in DOMAIN f |-> new(i)]
<1>1. DirtyOf(f, ids) = h
  BY DEF DirtyOf
<1>2. d \in BOOLEAN
  OBVIOUS
<1>3. DOMAIN f \subseteq S /\ \A i \in DOMAIN f : f[i] \in SrvRec
  BY TablesIs
<1> HIDE DEF d
<1>4. ASSUME NEW i \in DOMAIN f
      PROVE  new(i) \in SrvRec /\ new(i).status = f[i].status /\ new(i).asked = f[i].asked
  <2> DEFINE u == [f[i] EXCEPT !.dirty = d]
  <2>1. f[i] \in SrvRec
    BY <1>3
  <2>2. u \in SrvRec /\ u.status = f[i].status /\ u.asked = f[i].asked
    BY ONLY <1>2, <2>1 DEF u, SrvRec
  <2>3. new(i) \in {u, f[i]}
    OBVIOUS
  <2> HIDE DEF u, new
  <2> QED
    BY <2>1, <2>2, <2>3
<1> HIDE DEF new
<1>5. DOMAIN h = DOMAIN f /\ h = [i \in DOMAIN h |-> h[i]] /\ \A i \in DOMAIN f : h[i] = new(i)
  OBVIOUS
<1> HIDE DEF h
<1>6. h \in Tables(S)
  BY <1>3, <1>4, <1>5, TablesIs
<1>7. Calmed(f, h) /\ (AllKept(f) => AllKept(h))
  BY <1>4, <1>5 DEF Calmed, AllKept, AskKept
<1> QED
  BY <1>1, <1>6, <1>7

\* prv_tagServer and prv_tagAllServer
LEMMA TagIs ==
  ASSUME NEW k, Sound(k, {}), NEW ids
  PROVE  LET m == Tag(k, ids)
         IN  Sound(m, {}) /\ DOMAIN m.bsrv = DOMAIN k.bsrv
<1> DEFINE f == DirtyOf(k.srv, ids)
           g == DirtyOf(k.bsrv, ids)
           a == [k EXCEPT !.srv = f]
           m == [a EXCEPT !.bsrv = g]
<1>1. k \in Contexts /\ k.srv \in Tables(Servers) /\ k.bsrv \in Tables(Bootstraps)
  BY ContextTypes DEF Sound
<1>2. /\ f \in Tables(Servers) /\ Calmed(k.srv, f) /\ AllKept(f)
      /\ g \in Tables(Bootstraps) /\ Calmed(k.bsrv, g)
  BY <1>1, DirtyOfIs DEF Sound
<1>3. Tag(k, ids) = [k EXCEPT !.srv = f, !.bsrv = g]
  BY DEF Tag, DirtyOf
<1> HIDE DEF f, g
<1>4. Sound(a, {}) /\ a.srv = f /\ a.bsrv = k.bsrv
  BY <1>2, PutServers
<1>5. [k EXCEPT !.srv = f, !.bsrv = g] = m
  BY <1>1 DEF Contexts
<1> HIDE DEF a
<1>6. Sound(m, {}) /\ m.bsrv = g
  BY <1>2, <1>4, PutBootstraps
<1> HIDE DEF m
<1> QED
  BY <1>2, <1>3, <1>5, <1>6 DEF Calmed

\* The end of bootstrap_handleCommand.
LEMMA BegunIs ==
  ASSUME NEW k, Sound(k, {}), NEW b \in DOMAIN k.bsrv
  PROVE  Sound(Begun(k, b), {})
<1> DEFINE st == "BS_PENDING"
           s == "BOOTSTRAPPING"
           p == PutBs(k, b, st)
           m == [p EXCEPT !.state = s]
<1>1. Begun(k, b) \in {k, m}
  BY DEF Begun
<1>2. st \in SrvStatuses /\ Quiet(st) /\ s \in ClientStates
  BY QuietStatuses DEF ClientStates
<1> HIDE DEF st, s
<1>3. Sound(k, {b})
  BY SoundLess
<1>4. Sound(p, {})
  BY <1>2, <1>3, PutBsIs
<1> HIDE DEF p
<1>5. Sound(m, {})
  BY <1>2, <1>4, WithState
<1> QED
  BY <1>1, <1>5

\* bootstrap_handleCommand
LEMMA HandleCommandIs ==
  ASSUME NEW a, Sound(a, {}), NEW b \in DOMAIN a.bsrv, NEW i \in Ids,
         NEW op \in {"write", "delete", "other", "fails"}
  PROVE  Sound(HandleCommand(a, b, op, i), {})
<1> DEFINE k == CheckServerStatus(a, b)
           t == Tag(k, {i})
           add == k.sec \cup {i}
           more == [k EXCEPT !.sec = add]
           sub == k.sec \ {i}
           less == [k EXCEPT !.sec = sub]
           l == Tag(less, {i})
<1>1. HandleCommand(a, b, op, i) \in {Begun(t, b), Begun(more, b), Begun(l, b), Begun(k, b), k}
  BY DEF HandleCommand
<1>2. Sound(k, {}) /\ b \in DOMAIN k.bsrv
  BY CheckServerStatusIs
<1> HIDE DEF k
<1>3. add \in SUBSET Ids /\ sub \in SUBSET Ids
  BY <1>2, ContextTypes DEF Sound
<1> HIDE DEF add, sub
<1>4. Sound(more, {}) /\ more.bsrv = k.bsrv
  BY <1>2, <1>3, WithSec
<1>5. Sound(less, {}) /\ less.bsrv = k.bsrv
  BY <1>2, <1>3, WithSec
<1>6. Sound(t, {}) /\ DOMAIN t.bsrv = DOMAIN k.bsrv
  BY <1>2, TagIs
<1> HIDE DEF more, less
<1>7. Sound(l, {}) /\ DOMAIN l.bsrv = DOMAIN less.bsrv
  BY <1>5, TagIs
<1> HIDE DEF t, l
<1>8. Sound(Begun(t, b), {}) /\ Sound(Begun(more, b), {})
  BY <1>2, <1>4, <1>6, BegunIs
<1>9. Sound(Begun(l, b), {}) /\ Sound(Begun(k, b), {})
  BY <1>2, <1>5, <1>7, BegunIs
<1> QED
  BY <1>1, <1>2, <1>8, <1>9

\* bootstrap_handleDeleteAll
LEMMA HandleDeleteAllIs ==
  ASSUME NEW a, Sound(a, {}), NEW b \in DOMAIN a.bsrv, NEW left \in SUBSET Ids
  PROVE  Sound(HandleDeleteAll(a, b, left), {})
<1> DEFINE c == CheckServerStatus(a, b)
           s == (c.sec \cap {b}) \cup left
           k == [c EXCEPT !.sec = s]
           ids == Ids \ {b}
<1>1. HandleDeleteAll(a, b, left) \in {Tag(k, ids), k}
  BY DEF HandleDeleteAll
<1>2. Sound(c, {})
  BY CheckServerStatusIs
<1> HIDE DEF c, ids
<1>3. s \in SUBSET Ids
  BY <1>2, ContextTypes DEF Sound
<1> HIDE DEF s
<1>4. Sound(k, {})
  BY <1>2, <1>3, WithSec
<1> HIDE DEF k
<1>5. Sound(Tag(k, ids), {})
  BY <1>4, TagIs
<1> QED
  BY <1>1, <1>4, <1>5

\* The transactions with the servers of ids are marked as freed.
LEMMA FreeingIs ==
  ASSUME NEW trs \in Seq(TrRec), NEW ids
  PROVE  LET q == Freeing(trs, ids)
         IN  /\ q \in Seq(TrRec) /\ Len(q) = Len(trs)
             /\ \A j \in 1..Len(trs) :
                  /\ trs[j].id \notin ids => q[j] = trs[j]
                  /\ trs[j].id \in ids => q[j].freed /\ q[j].closed
<1> DEFINE q == Freeing(trs, ids)
<1>1. /\ Len(trs) \in Nat /\ DOMAIN trs = 1..Len(trs)
      /\ \A j \in 1..Len(trs) : trs[j] \in TrRec
  BY SeqFacts
<1>2. ASSUME NEW t \in TrRec
      PROVE  LET u == [t EXCEPT !.closed = TRUE, !.freed = TRUE]
             IN  u \in TrRec /\ u.freed /\ u.closed
  BY DEF TrRec
<1>3. q = [j \in 1..Len(trs) |-> IF trs[j].id \in ids
                                 THEN [trs[j] EXCEPT !.closed = TRUE, !.freed = TRUE]
                                 ELSE trs[j]]
  BY <1>1 DEF Freeing
<1> HIDE DEF q
<1>4. ASSUME NEW j \in 1..Len(trs)
      PROVE  /\ q[j] \in TrRec
             /\ trs[j].id \notin ids => q[j] = trs[j]
             /\ trs[j].id \in ids => q[j].freed /\ q[j].closed
  <2>1. trs[j] \in TrRec
    BY <1>1
  <2>2. CASE trs[j].id \in ids
    <3>1. q[j] = [trs[j] EXCEPT !.closed = TRUE, !.freed = TRUE]
      BY <1>3, <2>2
    <3> QED
      BY <2>1, <2>2, <3>1, <1>2
  <2>3. CASE trs[j].id \notin ids
    <3>1. q[j] = trs[j]
      BY <1>3, <2>3
    <3> QED
      BY <2>1, <2>3, <3>1
  <2> QED
    BY <2>2, <2>3
<1>5. q \in Seq(TrRec) /\ Len(q) = Len(trs)
  <2>1. \A j \in 1..Len(trs) : q[j] \in TrRec
    BY <1>4
  <2>2. q = [j \in 1..Len(trs) |-> q[j]]
    BY <1>3
  <2> QED
    BY ONLY <1>1, <2>1, <2>2
<1> QED
  BY <1>4, <1>5 DEF q

\* A new server waits for nothing.
LEMMA NewServerIs ==
  NewServer \in SrvRec /\ NewServer.status = "DEREGISTERED" /\ NewServer.asked # "yes"
BY DEF NewServer, SrvRec, SrvStatuses, Asks

\* prv_refreshServerList: a transaction of a server that is kept is kept too,
\* the others are marked.
LEMMA RefreshServerListIs ==
  ASSUME NEW k, Sound(k, {}), NEW readable \in BOOLEAN
  PROVE  Sound(RefreshServerList(k, readable), {})
<1> DEFINE gone == {i \in DOMAIN k.srv : k.srv[i].dirty}
           bgone == {b \in DOMAIN k.bsrv : k.bsrv[b].dirty}
           kept == (DOMAIN k.srv \ gone) \cup (DOMAIN k.bsrv \ bgone)
           new == IF readable THEN k.sec \ kept ELSE {}
           st == "DEREGISTERED"
           ids == gone \cup bgone
           D == (DOMAIN k.srv \ gone) \cup (new \cap Servers)
           B == (DOMAIN k.bsrv \ bgone) \cup (new \cap Bootstraps)
           f == [i \in D |-> IF i \in new THEN NewServer ELSE k.srv[i]]
           g == [b \in B |-> IF b \in new THEN NewServer ELSE [k.bsrv[b] EXCEPT !.status = st]]
           q == Freeing(k.trs, ids)
           m == [k EXCEPT !.bsrv = g, !.srv = f, !.trs = q]
<1>1. k \in Contexts /\ k.srv \in Tables(Servers) /\ k.bsrv \in Tables(Bootstraps)
      /\ k.trs \in Seq(TrRec)
  BY ContextTypes DEF Sound
<1>2. RefreshServerList(k, readable) = m
  BY DEF RefreshServerList
<1>3. /\ gone \subseteq DOMAIN k.srv /\ bgone \subseteq DOMAIN k.bsrv
      /\ DOMAIN k.srv \subseteq Servers /\ DOMAIN k.bsrv \subseteq Bootstraps
      /\ DOMAIN k.srv \cap DOMAIN k.bsrv = {}
  BY <1>1, IdsApart
<1> HIDE DEF gone, bgone
<1>4. D \subseteq Servers /\ B \subseteq Bootstraps
  BY <1>3
<1> HIDE DEF new
<1>5. /\ \A i \in D : i \notin new => i \in DOMAIN k.srv /\ i \notin ids
      /\ DOMAIN k.srv \ ids \subseteq D /\ DOMAIN k.bsrv \ ids \subseteq B
      /\ \A b \in B : b \notin new => b \in DOMAIN k.bsrv
  BY <1>3
<1>6. /\ q \in Seq(TrRec) /\ Len(q) = Len(k.trs)
      /\ \A j \in 1..Len(k.trs) :
           /\ k.trs[j].id \notin ids => q[j] = k.trs[j]
           /\ k.trs[j].id \in ids => q[j].freed /\ q[j].closed
  <2> HIDE DEF ids
  <2> QED
    BY <1>1, FreeingIs
<1> HIDE DEF q, ids, D, B
<1>7. DOMAIN f = D /\ f = [i \in DOMAIN f |-> f[i]]
      /\ \A i \in D : f[i] = IF i \in new THEN NewServer ELSE k.srv[i]
  OBVIOUS
<1>8. DOMAIN g = B /\ g = [b \in DOMAIN g |-> g[b]]
      /\ \A b \in B : g[b] = IF b \in new THEN NewServer ELSE [k.bsrv[b] EXCEPT !.status = st]
  OBVIOUS
<1> HIDE DEF f, g
<1>9. ASSUME NEW i \in D
      PROVE  f[i] \in SrvRec /\ AskKept(f[i]) /\ Served(q, f[i].status, i)
  <2>1. CASE i \in new
    <3>1. f[i] = NewServer
      BY <1>7, <2>1
    <3>2. AskKept(f[i]) /\ Served(q, f[i].status, i)
      BY <3>1, NewServerIs, Idle DEF AskKept
    <3> QED
      BY <3>1, <3>2, NewServerIs
  <2>2. CASE i \notin new
    <3>1. f[i] = k.srv[i] /\ i \in DOMAIN k.srv /\ i \notin ids
      BY <1>5, <1>7, <2>2
    <3>2. k.srv[i] \in SrvRec /\ AskKept(k.srv[i]) /\ Served(k.trs, k.srv[i].status, i)
      BY <3>1, ServerOf
    <3>3. ASSUME NEW z, Has(k.trs, z, i) PROVE Has(q, z, i)
      BY <1>6, <3>1, <3>3 DEF Has
    <3>4. Served(q, k.srv[i].status, i)
      BY <3>2, <3>3 DEF Served
    <3> QED
      BY <3>1, <3>2, <3>4
  <2> QED
    BY <2>1, <2>2
<1>10. ASSUME NEW b \in B
       PROVE  g[b] \in SrvRec /\ Served(q, g[b].status, b)
  <2>1. g[b] \in SrvRec /\ g[b].status = st
    <3>1. CASE b \in new
      BY <1>8, <3>1, NewServerIs
    <3>2. CASE b \notin new
      <4> DEFINE u == [k.bsrv[b] EXCEPT !.status = st]
      <4>1. g[b] = u /\ b \in DOMAIN k.bsrv
        BY <1>5, <1>8, <3>2
      <4>2. k.bsrv[b] \in SrvRec /\ st \in SrvStatuses
        BY <4>1, BootstrapOf, QuietStatuses
      <4> HIDE DEF st
      <4>3. u \in SrvRec /\ u.status = st
        BY ONLY <4>2 DEF u, SrvRec
      <4> HIDE DEF u
      <4> QED
        BY <4>1, <4>3
    <3> QED
      BY <3>1, <3>2
  <2>2. Served(q, g[b].status, b)
    BY <2>1, Idle
  <2> QED
    BY <2>1, <2>2
<1>11. f \in Tables(Servers) /\ g \in Tables(Bootstraps)
  BY <1>4, <1>7, <1>8, <1>9, <1>10, TablesIs
<1>12. m \in Contexts /\ m.srv = f /\ m.bsrv = g /\ m.trs = q
  BY <1>1, <1>6, <1>11 DEF Contexts
<1> HIDE DEF m
<1>13. AllOwned(f, g, q)
  <2> SUFFICES ASSUME NEW j \in 1..Len(q) PROVE Owned(f, g, q[j])
    BY DEF AllOwned
  <2>1. CASE k.trs[j].id \in ids
    BY <1>6, <2>1 DEF Owned
  <2>2. CASE k.trs[j].id \notin ids
    <3>1. q[j] = k.trs[j] /\ Owned(k.srv, k.bsrv, k.trs[j])
      BY <1>6, <2>2 DEF Sound, AllOwned
    <3> QED
      BY <1>5, <1>7, <1>8, <2>2, <3>1 DEF Owned
  <2> QED
    BY <2>1, <2>2
<1>14. AllKept(f) /\ AllServed(f, q, {}) /\ AllServed(g, q, {})
  BY <1>7, <1>8, <1>9, <1>10 DEF AllKept, AllServed
<1>15. Sound(m, {})
  BY <1>12, <1>13, <1>14 DEF Sound
<1> QED
  BY <1>2, <1>15

-----------------------------------------------------------------------------
\* Whether lwm2m_step returns early does not change the context.
LEMMA GoesIs ==
  ASSUME NEW k
  PROVE  Goes(k).k = k /\ Stops(k).k = k
BY DEF Goes, Stops

\* BOOTSTRAP_REQUIRED, a state of lwm2m_step: a bootstrap begins, if there is a server for it.
LEMMA FromBootstrapRequiredIs ==
  ASSUME NEW k, Sound(k, {}), NEW connects \in BOOLEAN
  PROVE  Sound(FromBootstrapRequired(k, connects).k, {})
<1> DEFINE s == "BOOTSTRAP_REQUIRED"
           t == "BOOTSTRAPPING"
           a == [k EXCEPT !.state = s]
           b == BootstrapStart(k, connects)
           c == [b EXCEPT !.state = t]
           d == BootstrapStep(c, connects)
<1>1. FromBootstrapRequired(k, connects) \in {Stops(a), Goes(d)}
  BY DEF FromBootstrapRequired
<1>2. s \in ClientStates /\ t \in ClientStates
  BY DEF ClientStates
<1> HIDE DEF s, t
<1>3. Sound(a, {})
  BY <1>2, WithState
<1>4. Sound(b, {})
  BY BootstrapStartIs
<1> HIDE DEF b
<1>5. Sound(c, {})
  BY <1>2, <1>4, WithState
<1> HIDE DEF a, c
<1>6. Sound(d, {})
  BY <1>5, BootstrapStepIs
<1> HIDE DEF d
<1> QED
  BY <1>1, <1>3, <1>6, GoesIs

\* REGISTER_REQUIRED: registration_start begins anew.
LEMMA FromRegisterRequiredIs ==
  ASSUME NEW k, Sound(k, {})
  PROVE  Sound(FromRegisterRequired(k).k, {})
<1> DEFINE e == TRUE
           s == "REGISTERING"
           a == RegistrationStart(k, e)
           b == [a EXCEPT !.state = s]
<1>1. FromRegisterRequired(k) = Goes(b)
  BY DEF FromRegisterRequired
<1>2. e \in BOOLEAN /\ s \in ClientStates
  BY DEF ClientStates
<1> HIDE DEF e, s
<1>3. Sound(a, {})
  BY <1>2, StartIs
<1> HIDE DEF a
<1>4. Sound(b, {})
  BY <1>2, <1>3, WithState
<1> HIDE DEF b
<1> QED
  BY <1>1, <1>4, GoesIs

\* INITIAL: the list of servers is read again.
LEMMA FromInitialIs ==
  ASSUME NEW k, Sound(k, {}), NEW connects \in BOOLEAN, NEW readable \in BOOLEAN
  PROVE  Sound(FromInitial(k, connects, readable).k, {})
<1> DEFINE s == "INITIAL"
           a == [k EXCEPT !.state = s]
           b == RefreshServerList(a, readable)
<1>1. FromInitial(k, connects, readable) \in
        {Stops(b), FromRegisterRequired(b), FromBootstrapRequired(b, connects)}
  BY DEF FromInitial
<1>2. s \in ClientStates
  BY DEF ClientStates
<1> HIDE DEF s
<1>3. Sound(a, {})
  BY <1>2, WithState
<1> HIDE DEF a
<1>4. Sound(b, {})
  BY <1>3, RefreshServerListIs
<1> HIDE DEF b
<1>5. Sound(FromRegisterRequired(b).k, {}) /\ Sound(FromBootstrapRequired(b, connects).k, {})
  BY <1>4, FromRegisterRequiredIs, FromBootstrapRequiredIs
<1> QED
  BY <1>1, <1>4, <1>5, GoesIs

\* The state of lwm2m_step, whichever it is.
LEMMA StateStepIs ==
  ASSUME NEW k, Sound(k, {}), NEW connects \in BOOLEAN, NEW readable \in BOOLEAN
  PROVE  Sound(StateStep(k, connects, readable).k, {})
<1> DEFINE s == "READY"
           a == FromInitial(k, connects, readable)
           b == FromBootstrapRequired(k, connects)
           c == BootstrapStep(k, connects)
           d == [k EXCEPT !.state = s]
<1>1. FromBootstrapping(k, connects, readable) \in {a, Stops(k), Goes(c)}
  BY DEF FromBootstrapping
<1>2. FromRegistering(k, connects) \in {b, Goes(d), Goes(k)}
  BY DEF FromRegistering
<1>3. k.state \in ClientStates
  BY ContextTypes DEF Sound
<1>4. StateStep(k, connects, readable) \in
        {a, b, FromBootstrapping(k, connects, readable), FromRegistering(k, connects), Goes(k)}
  BY <1>3 DEF StateStep, ClientStates
<1>5. s \in ClientStates
  BY DEF ClientStates
<1> HIDE DEF s
<1>6. Sound(a.k, {}) /\ Sound(b.k, {})
  BY FromInitialIs, FromBootstrapRequiredIs
<1>7. Sound(c, {})
  BY BootstrapStepIs
<1>8. Sound(d, {})
  BY <1>5, WithState
<1> HIDE DEF a, b, c, d
<1> QED
  BY <1>1, <1>2, <1>4, <1>6, <1>7, <1>8, GoesIs

-----------------------------------------------------------------------------
(* Transactions that end.                                                  *)

\* The end of a transaction: whoever waited for it is told.
LEMMA EndedIs ==
  ASSUME NEW k, Sound(k, {}), NEW j \in 1..Len(k.trs), NEW good \in BOOLEAN
  PROVE  LET m == Ended(k, j, good)
         IN  Sound(m, {}) /\ Len(m.trs) = Len(k.trs) - 1
<1> DEFINE a == [k EXCEPT !.trs = RemoveAt(@, j)]
           t == k.trs[j]
<1>1. /\ t \in TrRec /\ Owned(k.srv, k.bsrv, t) /\ Sound(a, {t.id})
      /\ a.srv = k.srv /\ a.bsrv = k.bsrv /\ Len(a.trs) = Len(k.trs) - 1
  BY RemovalIs
<1>2. t.closed => Sound(a, {})
  BY RemovalIs
<1>3. t.id \in DOMAIN k.srv /\ t.kind \notin Awaits(k.srv[t.id].status) => Sound(a, {})
  BY RemovalIs
<1>4. t.id \in DOMAIN k.bsrv /\ t.kind \notin Awaits(k.bsrv[t.id].status) => Sound(a, {})
  BY RemovalIs
<1>5. Ended(k, j, good) = CallBack(a, t, good)
  BY DEF Ended
<1> HIDE DEF a, t
<1>6. CASE t.freed
  <2> DEFINE u == TRUE
             m == [a EXCEPT !.uaf = u]
  <2>1. CallBack(a, t, good) = m
    BY <1>6 DEF CallBack
  <2>2. u \in BOOLEAN /\ Sound(a, {}) /\ a \in Contexts
    BY <1>1, <1>2, <1>6 DEF Owned, Sound
  <2> HIDE DEF u
  <2>3. Sound(m, {})
    BY <2>2, WithUaf
  <2>4. m.trs = a.trs
    BY <2>2 DEF Contexts
  <2> HIDE DEF m
  <2> QED
    BY <1>1, <1>5, <2>1, <2>3, <2>4
<1>7. CASE ~t.freed /\ t.kind = "register"
  <2> DEFINE m == RegistrationReply(a, t.id, good)
  <2>1. CallBack(a, t, good) = m
    BY <1>7 DEF CallBack
  <2>2. t.id \in DOMAIN a.srv
    BY <1>1, <1>7 DEF Owned
  <2>3. a.srv[t.id].status # "REG_PENDING" => Sound(a, {})
    BY <1>1, <1>3, <1>7, <2>2 DEF Awaits
  <2>4. Sound(m, {}) /\ m.trs = a.trs
    BY <1>1, <2>2, <2>3, RegistrationReplyIs
  <2> HIDE DEF m
  <2> QED
    BY <1>1, <1>5, <2>1, <2>4
<1>8. CASE ~t.freed /\ t.kind = "update"
  <2> DEFINE m == UpdateReply(a, t.id, good)
  <2>1. CallBack(a, t, good) = m
    BY <1>8 DEF CallBack
  <2>2. t.id \in DOMAIN a.srv
    BY <1>1, <1>8 DEF Owned
  <2>3. a.srv[t.id].status # "REG_UPDATE_PENDING" => Sound(a, {})
    BY <1>1, <1>3, <1>8, <2>2 DEF Awaits
  <2>4. Sound(m, {}) /\ m.trs = a.trs
    BY <1>1, <2>2, <2>3, UpdateReplyIs
  <2> HIDE DEF m
  <2> QED
    BY <1>1, <1>5, <2>1, <2>4
<1>9. CASE ~t.freed /\ t.kind = "deregister"
  <2> DEFINE m == DeregistrationReply(a, t.id)
  <2>1. CallBack(a, t, good) = m
    BY <1>9 DEF CallBack
  <2>2. t.id \in DOMAIN a.srv
    BY <1>1, <1>9 DEF Owned
  <2>3. a.srv[t.id].status # "DEREG_PENDING" => Sound(a, {})
    BY <1>1, <1>3, <1>9, <2>2 DEF Awaits
  <2>4. Sound(m, {}) /\ m.trs = a.trs
    BY <1>1, <2>2, <2>3, DeregistrationReplyIs
  <2> HIDE DEF m
  <2> QED
    BY <1>1, <1>5, <2>1, <2>4
<1>10. CASE ~t.freed /\ t.kind = "bootstrap"
  <2> DEFINE m == BootstrapReply(a, t.id, good)
  <2>1. CallBack(a, t, good) = m
    BY <1>10 DEF CallBack
  <2>2. t.id \in DOMAIN a.bsrv
    BY <1>1, <1>10 DEF Owned
  <2>3. a.bsrv[t.id].status # "BS_INITIATED" => Sound(a, {})
    BY <1>1, <1>4, <1>10, <2>2 DEF Awaits
  <2>4. Sound(m, {}) /\ m.trs = a.trs
    BY <1>1, <2>2, <2>3, BootstrapReplyIs
  <2> HIDE DEF m
  <2> QED
    BY <1>1, <1>5, <2>1, <2>4
<1> QED
  BY <1>1, <1>6, <1>7, <1>8, <1>9, <1>10 DEF TrRec, TrKinds

\* registration_deregister
LEMMA DeregisteredIs ==
  ASSUME NEW k, Sound(k, {}), NEW i \in DOMAIN k.srv
  PROVE  Sound(Deregistered(k, i), {})
<1> DEFINE st == "DEREG_PENDING"
           kind == "deregister"
           f == "no"
           r == [k.srv[i] EXCEPT !.status = st, !.asked = f]
           m == Sending([k EXCEPT !.srv[i] = r], kind, i)
<1>1. Deregistered(k, i) \in {k, m}
  BY DEF Deregistered
<1>2. k.srv[i] \in SrvRec
  BY ServerOf
<1>3. st \in SrvStatuses /\ f \in Asks /\ f # "yes"
  BY DEF SrvStatuses, Asks
<1>4. Awaits(st) = {kind} /\ kind # "bootstrap" /\ kind \in TrKinds
  BY DEF Awaits, TrKinds
<1> HIDE DEF st, f, kind
<1>5. r \in SrvRec /\ r.status = st /\ r.asked # "yes"
  BY ONLY <1>2, <1>3 DEF r, SrvRec
<1> HIDE DEF r
<1>6. AskKept(r) /\ Awaits(r.status) = {kind}
  BY <1>4, <1>5 DEF AskKept
<1>7. Sound(m, {})
  BY <1>4, <1>5, <1>6, SendingPut
<1> QED
  BY <1>1, <1>7

\* lwm2m_deregister, at one place of the list.
LEMMA DeregisteredIfThereIs ==
  ASSUME NEW k, Sound(k, {}), NEW i \in Nat
  PROVE  Sound(DeregisteredIfThere(k, i), {})
BY DeregisteredIs DEF DeregisteredIfThere

\* lwm2m_deregister
LEMMA AllDeregisteredIs ==
  ASSUME NEW k, Sound(k, {})
  PROVE  Sound(AllDeregistered(k), {})
<1> DEFINE n == LastId + 1
           V == {x \in Contexts : Sound(x, {})}
           Rule(m, old) == DeregisteredIfThere(old, m - 1)
           r == [x \in (1..n) \X V |-> Rule(x[1], x[2])]
           Walked(f) == f = [m \in 0..n |-> IF m = 0 THEN k ELSE Rule(m, f[m - 1])]
           c == CHOOSE f : Walked(f)
<1>1. n \in Nat
  BY LastIdNat
<1>2. k \in V
  BY DEF Sound
<1>3. AllDeregistered(k) = c[n]
  BY Zenon DEF AllDeregistered
<1> HIDE DEF n
<1>4. \A m \in 1..n, old \in V : Rule(m, old) \in V
  <2> SUFFICES ASSUME NEW m \in 1..n, NEW old \in V PROVE Rule(m, old) \in V
    OBVIOUS
  <2>1. m - 1 \in Nat /\ Sound(old, {})
    BY <1>1
  <2> HIDE DEF V
  <2> DEFINE z == m - 1
  <2>2. z \in Nat
    BY <2>1
  <2> HIDE DEF z
  <2>3. Sound(DeregisteredIfThere(old, z), {})
    BY <2>1, <2>2, DeregisteredIfThereIs
  <2>4. Sound(Rule(m, old), {})
    BY <2>3 DEF z
  <2> HIDE DEF Rule
  <2>5. Rule(m, old) \in Contexts
    BY <2>4 DEF Sound
  <2> QED
    BY <2>4, <2>5 DEF V
<1>5. \A x \in V : Sound(x, {})
  OBVIOUS
<1> HIDE DEF V, Rule
<1>6. \E f : Walked(f) /\ f \in [0..n -> V]
  <2>1. r \in [(1..n) \X V -> V]
    BY <1>4
  <2>2. \A m \in 1..n, old \in V : r[<<m, old>>] = Rule(m, old)
    OBVIOUS
  <2> HIDE DEF r
  <2>3. PICK f : Follows(f, V, n, k, r)
    BY <1>1, <1>2, <2>1, FollowsExists
  <2>4. /\ f \in [0..n -> V] /\ f[0] = k
        /\ \A m \in 1..n : f[m] = r[<<m, f[m - 1]>>]
    BY <2>3 DEF Follows
  <2>5. ASSUME NEW m \in 1..n PROVE f[m] = Rule(m, f[m - 1])
    <3>1. m - 1 \in 0..n
      BY <1>1
    <3>2. f[m - 1] \in V
      BY <2>4, <3>1
    <3> QED
      BY <2>2, <2>4, <3>2
  <2>6. ASSUME NEW m \in 0..n PROVE f[m] = IF m = 0 THEN k ELSE Rule(m, f[m - 1])
    <3>1. m # 0 => m \in 1..n
      BY <1>1
    <3> QED
      BY <2>4, <2>5, <3>1
  <2>7. f = [m \in 0..n |-> f[m]]
    BY <2>4
  <2>8. Walked(f)
    BY <2>6, <2>7
  <2> QED
    BY <2>4, <2>8
<1>7. Walked(c)
  <2> HIDE DEF Walked
  <2> QED
    BY <1>6
<1> HIDE DEF c
<1>8. c[0] = k /\ \A m \in 1..n : c[m] = Rule(m, c[m - 1])
  <2>1. 0 \in 0..n /\ \A m \in 1..n : m \in 0..n /\ m # 0
    BY <1>1
  <2> QED
    BY <1>7, <2>1
<1> HIDE DEF Walked
<1> DEFINE G == {m \in 0..n : c[m] \in V}
<1>9. 0 \in G /\ \A m \in 1..n : m - 1 \in G => m \in G
  <2>1. 0 \in 0..n /\ \A m \in 1..n : m \in 0..n
    BY <1>1
  <2> QED
    BY <1>2, <1>4, <1>8, <2>1
<1> HIDE DEF G
<1>10. n \in G
  <2>1. \A m \in 0..n : m \in G
    BY <1>1, <1>9, UpTo
  <2>2. n \in 0..n
    BY <1>1
  <2> QED
    BY <2>1, <2>2
<1> QED
  BY <1>3, <1>5, <1>10 DEF G

\* transaction_step, at one transaction: the rest of the list grows shorter by one.
LEMMA ExpireOneIs ==
  ASSUME NEW a, a = [k |-> a.k, at |-> a.at], Sound(a.k, {}), a.at \in 1..Len(a.k.trs),
         NEW e \in BOOLEAN
  PROVE  LET z == ExpireOne(a, e)
         IN  /\ z = [k |-> z.k, at |-> z.at] /\ Sound(z.k, {})
             /\ z.at \in Nat /\ z.at >= 1 /\ Len(z.k.trs) \in Nat
             /\ Len(z.k.trs) - z.at = Len(a.k.trs) - a.at - 1
<1> DEFINE f == FALSE
           k == a.k
           at == a.at
           m == Ended(k, at, f)
<1>1. f \in BOOLEAN /\ Sound(k, {}) /\ at \in 1..Len(k.trs)
  OBVIOUS
<1>2. \A x : Sound(x, {}) => Len(x.trs) \in Nat
  <2> SUFFICES ASSUME NEW x, Sound(x, {}) PROVE Len(x.trs) \in Nat
    OBVIOUS
  <2>1. x.trs \in Seq(TrRec)
    BY ContextTypes DEF Sound
  <2> QED
    BY <2>1
<1>3. CASE e
  <2> DEFINE z == [k |-> m, at |-> at]
  <2>1. ExpireOne(a, e) = [a EXCEPT !.k = m]
    BY <1>3 DEF ExpireOne
  <2> HIDE DEF f, k, at
  <2>2. Sound(m, {}) /\ Len(m.trs) = Len(k.trs) - 1
    BY <1>1, EndedIs
  <2>3. Len(m.trs) \in Nat /\ Len(k.trs) \in Nat
    BY <1>1, <1>2, <2>2
  <2> HIDE DEF m
  <2>4. a = [k |-> k, at |-> at]
    BY DEF k, at
  <2>5. [a EXCEPT !.k = m] = z /\ z.k = m /\ z.at = at
    BY <2>4
  <2> HIDE DEF z
  <2>6. z = [k |-> z.k, at |-> z.at]
    BY <2>5 DEF z
  <2>7. /\ z.at \in Nat /\ z.at >= 1 /\ Len(z.k.trs) \in Nat
        /\ Len(z.k.trs) - z.at = Len(k.trs) - at - 1
    <3>1. at \in Nat /\ at >= 1
      BY <1>1, <2>3
    <3>2. Len(m.trs) - at = Len(k.trs) - at - 1
      BY ONLY <2>2, <2>3, <3>1
    <3> QED
      BY ONLY <2>3, <2>5, <3>1, <3>2
  <2> QED
    BY <2>1, <2>2, <2>5, <2>6, <2>7 DEF k, at
<1>4. CASE ~e
  <2> DEFINE z == [k |-> k, at |-> at + 1]
  <2>1. ExpireOne(a, e) = [a EXCEPT !.at = a.at + 1]
    BY <1>4 DEF ExpireOne
  <2> HIDE DEF k, at
  <2>2. Len(k.trs) \in Nat
    BY <1>1, <1>2
  <2>3. a = [k |-> k, at |-> at]
    BY DEF k, at
  <2>4. [a EXCEPT !.at = a.at + 1] = z /\ z.k = k /\ z.at = at + 1
    BY <2>3
  <2> HIDE DEF z
  <2>5. z = [k |-> z.k, at |-> z.at]
    BY <2>4 DEF z
  <2>6. /\ z.at \in Nat /\ z.at >= 1 /\ Len(z.k.trs) \in Nat
        /\ Len(z.k.trs) - z.at = Len(k.trs) - at - 1
    BY <1>1, <2>2, <2>4
  <2> QED
    BY <1>1, <2>1, <2>4, <2>5, <2>6 DEF k, at
<1> QED
  BY <1>3, <1>4

\* transaction_step
LEMMA TransactionsExpireIs ==
  ASSUME NEW k, Sound(k, {}), NEW expired
  PROVE  Sound(TransactionsExpire(k, expired), {})
<1> DEFINE n == Len(k.trs)
           b == [k |-> k, at |-> 1]
           Rule(m, old) == ExpireOne(old, m \in expired)
           Walked(f, m) == f = [i \in 0..m |-> IF i = 0 THEN b ELSE Rule(i, f[i - 1])]
           c == CHOOSE f : Walked(f, n)
<1>1. n \in Nat
  <2>1. k.trs \in Seq(TrRec)
    BY ContextTypes DEF Sound
  <2> QED
    BY <2>1
<1>2. TransactionsExpire(k, expired) = c[n].k
  BY Zenon DEF TransactionsExpire
<1>3. b = [k |-> b.k, at |-> b.at] /\ b.k = k /\ b.at = 1
  OBVIOUS
<1> HIDE DEF n, b
<1>4. \E f : Walked(f, n)
  <2> HIDE DEF Rule
  <2> DEFINE G == {m \in 0..n : \E f : Walked(f, m)}
  <2>1. 0 \in G
    <3> DEFINE f == [i \in 0..0 |-> b]
    <3>1. \A i \in 0..0 : f[i] = IF i = 0 THEN b ELSE Rule(i, f[i - 1])
      OBVIOUS
    <3>2. Walked(f, 0)
      BY <3>1
    <3> HIDE DEF f, Walked
    <3> QED
      BY <1>1, <3>2
  <2>2. ASSUME NEW m \in 1..n, m - 1 \in G PROVE m \in G
    <3>1. PICK f : Walked(f, m - 1)
      BY <2>2
    <3> DEFINE h == [i \in 0..m |-> IF i = m THEN Rule(m, f[m - 1]) ELSE f[i]]
    <3>2. /\ m \in Nat /\ 0 \in 0..m /\ 0 # m /\ 0 \in 0..(m - 1)
          /\ \A i \in 0..m : i # m => i \in 0..(m - 1)
          /\ \A i \in 0..m : i # 0 => i - 1 \in 0..m /\ i - 1 # m /\ i - 1 \in 0..(m - 1)
      BY <1>1
    <3>3. \A i \in 0..(m - 1) : f[i] = IF i = 0 THEN b ELSE Rule(i, f[i - 1])
      BY <3>1
    <3>4. \A i \in 0..(m - 1) : i \in 0..m /\ i # m /\ h[i] = f[i]
      BY <1>1
    <3>5. ASSUME NEW i \in 0..m PROVE h[i] = IF i = 0 THEN b ELSE Rule(i, h[i - 1])
      <4>1. CASE i = 0
        BY <3>2, <3>3, <3>4, <4>1
      <4>2. CASE i # 0
        <5>1. h[i - 1] = f[i - 1]
          BY <3>2, <3>4, <4>2
        <5>2. h[i] = Rule(i, f[i - 1])
          BY <3>2, <3>3, <4>2
        <5> QED
          BY <4>2, <5>1, <5>2
      <4> QED
        BY <4>1, <4>2
    <3>6. h = [i \in 0..m |-> h[i]]
      OBVIOUS
    <3> HIDE DEF h
    <3>7. Walked(h, m)
      BY <3>5, <3>6
    <3> HIDE DEF Walked
    <3> QED
      BY <1>1, <3>7
  <2> HIDE DEF G
  <2>3. \A m \in 1..n : m - 1 \in G => m \in G
    BY <2>2
  <2>4. n \in G
    <3>1. \A m \in 0..n : m \in G
      BY <1>1, <2>1, <2>3, UpTo
    <3> QED
      BY <1>1, <3>1
  <2> QED
    BY <2>4 DEF G
<1>5. Walked(c, n)
  <2> HIDE DEF Walked
  <2> QED
    BY <1>4
<1> HIDE DEF c
<1>6. c[0] = b /\ \A m \in 1..n : c[m] = Rule(m, c[m - 1])
  <2> HIDE DEF Rule
  <2>1. 0 \in 0..n /\ \A m \in 1..n : m \in 0..n /\ m # 0
    BY <1>1
  <2> QED
    BY <1>5, <2>1
<1> HIDE DEF Walked
<1> DEFINE Good(m, a) == /\ a = [k |-> a.k, at |-> a.at] /\ Sound(a.k, {})
                         /\ a.at \in Nat /\ a.at >= 1 /\ Len(a.k.trs) \in Nat
                         /\ Len(a.k.trs) - a.at = n - m - 1
           G == {m \in 0..n : Good(m, c[m])}
<1>7. 0 \in G
  BY <1>1, <1>3, <1>6 DEF n
<1>8. ASSUME NEW m \in 1..n, m - 1 \in G PROVE m \in G
  <2> DEFINE a == c[m - 1]
             e == m \in expired
             z == ExpireOne(a, e)
  <2>1. Good(m - 1, a) /\ m \in 0..n
    BY <1>1, <1>8
  <2>2. c[m] = z /\ e \in BOOLEAN
    BY <1>6
  <2> HIDE DEF a, e
  <2>3. a.at \in 1..Len(a.k.trs)
    BY <1>1, <2>1
  <2>4. /\ z = [k |-> z.k, at |-> z.at] /\ Sound(z.k, {})
        /\ z.at \in Nat /\ z.at >= 1 /\ Len(z.k.trs) \in Nat
        /\ Len(z.k.trs) - z.at = Len(a.k.trs) - a.at - 1
    BY <2>1, <2>2, <2>3, ExpireOneIs
  <2> HIDE DEF z
  <2>5. Good(m, z)
    <3>1. Len(z.k.trs) - z.at = n - m - 1
      BY <1>1, <2>1, <2>4
    <3> QED
      BY <2>4, <3>1
  <2> HIDE DEF Good
  <2> QED
    BY <2>1, <2>2, <2>5
<1>9. Good(n, c[n])
  <2> HIDE DEF G
  <2>1. \A m \in 1..n : m - 1 \in G => m \in G
    BY <1>8
  <2>2. \A m \in 0..n : m \in G
    BY <1>1, <1>7, <2>1, UpTo
  <2>3. n \in G
    BY <1>1, <2>2
  <2> QED
    BY <2>3 DEF G
<1> QED
  BY <1>2, <1>9

-----------------------------------------------------------------------------
(* The actions of the client.                                              *)

\* What every step of the client keeps.
LwcInv == Sound(lw, {})

\* A client begins without a server.
LEMMA InitSound ==
  LwcInit => LwcInv
<1> SUFFICES ASSUME LwcInit PROVE LwcInv
  OBVIOUS
<1> DEFINE e == <<>>
<1>1. /\ DOMAIN e = {} /\ e \in Seq(TrRec) /\ Len(e) = 0 /\ e = [i \in {} |-> e[i]]
  OBVIOUS
<1>2. PICK sec \in Provisioned :
        lw = [state |-> "INITIAL", srv |-> e, bsrv |-> e, sec |-> sec, trs |-> e, uaf |-> FALSE]
  BY DEF LwcInit
<1> HIDE DEF e
<1>3. e \in Tables(Servers) /\ e \in Tables(Bootstraps)
  BY <1>1, TablesIs
<1>4. sec \in SUBSET Ids
  BY LwcAssumption DEF Ids
<1>5. lw \in Contexts /\ lw.srv = e /\ lw.bsrv = e /\ lw.trs = e
  BY <1>1, <1>2, <1>3, <1>4 DEF Contexts, ClientStates
<1>6. AllOwned(e, e, e) /\ AllKept(e) /\ AllServed(e, e, {})
  BY <1>1 DEF AllOwned, AllKept, AllServed
<1> QED
  BY <1>5, <1>6 DEF LwcInv, Sound

\* lwm2m_step keeps the invariant,
LEMMA StepSound ==
  ASSUME LwcInv, NEW c \in BOOLEAN, NEW r \in BOOLEAN, NEW e, LwStep(c, r, e)
  PROVE  LwcInv'
<1> DEFINE s == StateStep(lw, c, r)
           a == s.k
           b == RegistrationStep(a, c)
           d == TransactionsExpire(b, e)
<1>1. lw' \in {a, d}
  BY DEF LwStep
<1>2. Sound(a, {})
  BY StateStepIs DEF LwcInv
<1> HIDE DEF a
<1>3. Sound(b, {})
  BY <1>2, RegistrationStepIs
<1> HIDE DEF b
<1>4. Sound(d, {})
  BY <1>3, TransactionsExpireIs
<1> HIDE DEF d
<1> QED
  BY <1>1, <1>2, <1>4 DEF LwcInv

\* and so does an answer that ends a transaction,
LEMMA AnswerSound ==
  ASSUME LwcInv, NEW j \in 1..Len(lw.trs), NEW good \in BOOLEAN, Answer(j, good)
  PROVE  LwcInv'
<1> DEFINE m == Ended(lw, j, good)
<1>1. Sound(m, {})
  BY EndedIs DEF LwcInv
<1>2. lw' = m
  BY DEF Answer
<1> HIDE DEF m
<1> QED
  BY <1>1, <1>2 DEF LwcInv

\* the passing of time,
LEMMA TimeSound ==
  ASSUME LwcInv, NEW i \in Ids, TimePasses(i)
  PROVE  LwcInv'
<1> DEFINE e == TRUE
           r == [lw.srv[i] EXCEPT !.due = e]
           s == [lw.bsrv[i] EXCEPT !.due = e]
           a == [lw EXCEPT !.srv[i] = r]
           b == [lw EXCEPT !.bsrv[i] = s]
<1>1. \/ i \in DOMAIN lw.srv /\ lw.srv[i].status \in {"REG_HOLD_OFF", "REGISTERED"} /\ lw' = a
      \/ i \in DOMAIN lw.bsrv /\ lw.bsrv[i].status \in {"BS_HOLD_OFF", "BS_PENDING"} /\ lw' = b
  BY DEF TimePasses
<1>2. e \in BOOLEAN
  OBVIOUS
<1> HIDE DEF e
<1>3. CASE i \in DOMAIN lw.srv /\ lw.srv[i].status \in {"REG_HOLD_OFF", "REGISTERED"} /\ lw' = a
  <2>1. lw.srv[i] \in SrvRec /\ AskKept(lw.srv[i])
    BY <1>3, ServerOf DEF LwcInv
  <2>2. r \in SrvRec /\ r.status = lw.srv[i].status /\ r.asked = lw.srv[i].asked
    BY ONLY <1>2, <2>1 DEF r, SrvRec
  <2> HIDE DEF r
  <2>3. AskKept(r) /\ Quiet(r.status)
    BY <1>3, <2>1, <2>2 DEF AskKept, Quiet
  <2>4. {} \ {i} = {}
    OBVIOUS
  <2>5. Sound(a, {} \ {i})
    BY <1>3, <2>2, <2>3, Calm DEF LwcInv
  <2> HIDE DEF a
  <2> QED
    BY <1>3, <2>4, <2>5 DEF LwcInv
<1>4. CASE i \in DOMAIN lw.bsrv /\ lw.bsrv[i].status \in {"BS_HOLD_OFF", "BS_PENDING"} /\ lw' = b
  <2>1. lw.bsrv[i] \in SrvRec
    BY <1>4, BootstrapOf DEF LwcInv
  <2>2. s \in SrvRec /\ s.status = lw.bsrv[i].status
    BY ONLY <1>2, <2>1 DEF s, SrvRec
  <2> HIDE DEF s
  <2>3. Quiet(s.status)
    BY <1>4, <2>2 DEF Quiet
  <2>4. {} \ {i} = {}
    OBVIOUS
  <2>5. Sound(b, {} \ {i})
    BY <1>4, <2>2, <2>3, CalmBootstrap DEF LwcInv
  <2> HIDE DEF b
  <2> QED
    BY <1>4, <2>4, <2>5 DEF LwcInv
<1> QED
  BY <1>1, <1>3, <1>4

\* lwm2m_update_registration, of one server: it is left as it is, or it is to
\* be updated, with objects if that is asked for.
LEMMA UpdateAskedIs ==
  ASSUME NEW s \in SrvRec, AskKept(s), NEW w \in BOOLEAN
  PROVE  LET u == UpdateAsked(s, w)
         IN  u \in SrvRec /\ AskKept(u) /\ (u.status = s.status \/ Quiet(u.status))
<1>1. CASE s.status \in {"REGISTERED", "REG_UPDATE_PENDING"}
  <2> DEFINE st == IF w THEN "REG_FULL_UPDATE_NEEDED" ELSE "REG_UPDATE_NEEDED"
             e == IF w THEN "yes" ELSE s.asked
             u == [s EXCEPT !.status = st, !.asked = e]
  <2>1. UpdateAsked(s, w) = u
    BY <1>1 DEF UpdateAsked, SrvRec
  <2>2. s.asked # "yes"
    BY <1>1 DEF AskKept, SrvRec
  <2>3. /\ st \in SrvStatuses /\ Quiet(st) /\ e \in Asks
        /\ e = "yes" => st = "REG_FULL_UPDATE_NEEDED"
    BY <2>2 DEF SrvStatuses, Quiet, SrvRec, Asks
  <2> HIDE DEF st, e
  <2>4. u \in SrvRec /\ u.status = st /\ u.asked = e
    BY ONLY s \in SrvRec, <2>3 DEF u, SrvRec
  <2> HIDE DEF u
  <2> QED
    BY <2>1, <2>3, <2>4 DEF AskKept
<1>2. CASE s.status \in {"REG_UPDATE_NEEDED", "REG_FULL_UPDATE_NEEDED"} /\ w
  <2> DEFINE st == "REG_FULL_UPDATE_NEEDED"
             e == "yes"
             u == [s EXCEPT !.status = st, !.asked = e]
  <2>1. UpdateAsked(s, w) = u
    BY <1>2 DEF UpdateAsked
  <2>2. st \in SrvStatuses /\ Quiet(st) /\ e \in Asks /\ st = "REG_FULL_UPDATE_NEEDED"
    BY DEF SrvStatuses, Quiet, Asks
  <2> HIDE DEF st, e
  <2>3. u \in SrvRec /\ u.status = st
    BY ONLY s \in SrvRec, <2>2 DEF u, SrvRec
  <2> HIDE DEF u
  <2> QED
    BY <2>1, <2>2, <2>3 DEF AskKept
<1>3. CASE /\ s.status \notin {"REGISTERED", "REG_UPDATE_PENDING"}
           /\ ~(s.status \in {"REG_UPDATE_NEEDED", "REG_FULL_UPDATE_NEEDED"} /\ w)
  <2>1. UpdateAsked(s, w) = s
    BY <1>3 DEF UpdateAsked
  <2> QED
    BY <2>1
<1> QED
  BY <1>1, <1>2, <1>3

\* an update of one server that the application asks for,
LEMMA UpdateOneSound ==
  ASSUME LwcInv, NEW i, NEW w \in BOOLEAN, UpdateOne(i, w)
  PROVE  LwcInv'
<1> DEFINE s == lw.srv[i]
           u == UpdateAsked(s, w)
           m == [lw EXCEPT !.srv[i] = u]
<1>1. i \in DOMAIN lw.srv /\ lw' = m
  BY DEF UpdateOne
<1>2. s \in SrvRec /\ AskKept(s) /\ Served(lw.trs, s.status, i)
  BY <1>1, ServerOf DEF LwcInv
<1> HIDE DEF s
<1>3. u \in SrvRec /\ AskKept(u) /\ (u.status = s.status \/ Quiet(u.status))
  BY <1>2, UpdateAskedIs
<1> HIDE DEF u
<1>4. Served(lw.trs, u.status, i)
  <2>1. CASE u.status = s.status
    BY <1>2, <2>1
  <2>2. CASE Quiet(u.status)
    BY <2>2, Idle DEF Quiet
  <2> QED
    BY <1>3, <2>1, <2>2
<1>5. {} \ {i} = {}
  OBVIOUS
<1>6. Sound(m, {} \ {i})
  BY <1>1, <1>3, <1>4, PutServer DEF LwcInv
<1> HIDE DEF m
<1> QED
  BY <1>1, <1>5, <1>6 DEF LwcInv

\* an update of all of them,
LEMMA UpdateAllSound ==
  ASSUME LwcInv, NEW w \in BOOLEAN, UpdateAll(w)
  PROVE  LwcInv'
<1> DEFINE f == lw.srv
           new(i) == IF f[i].status \in {"REGISTERED", "REG_UPDATE_PENDING"}
                     THEN UpdateAsked(f[i], w)
                     ELSE IF w /\ f[i].status = "REG_UPDATE_NEEDED"
                     THEN [f[i] EXCEPT !.asked = "passed"] ELSE f[i]
           h == [i \in DOMAIN f |-> new(i)]
           m == [lw EXCEPT !.srv = h]
<1>1. lw' = m
  BY DEF UpdateAll
<1>2. f \in Tables(Servers)
  BY ContextTypes DEF Sound, LwcInv
<1>3. ASSUME NEW i \in DOMAIN f
      PROVE  /\ new(i) \in SrvRec /\ AskKept(new(i))
             /\ new(i).status = f[i].status \/ Quiet(new(i).status)
  <2> DEFINE s == f[i]
             u == UpdateAsked(s, w)
             p == "passed"
             v == [s EXCEPT !.asked = p]
  <2>1. new(i) \in {u, v, s}
    OBVIOUS
  <2>2. s \in SrvRec /\ AskKept(s)
    BY ServerOf DEF LwcInv
  <2> HIDE DEF s, new
  <2>3. u \in SrvRec /\ AskKept(u) /\ (u.status = s.status \/ Quiet(u.status))
    BY <2>2, UpdateAskedIs
  <2> HIDE DEF u
  <2>4. p \in Asks /\ p # "yes"
    BY DEF Asks
  <2> HIDE DEF p
  <2>5. v \in SrvRec /\ v.status = s.status /\ v.asked = p
    BY ONLY <2>2, <2>4 DEF v, SrvRec
  <2> HIDE DEF v
  <2>6. AskKept(v)
    BY <2>4, <2>5 DEF AskKept
  <2> QED
    BY <2>1, <2>2, <2>3, <2>5, <2>6 DEF s
<1> HIDE DEF new
<1>4. DOMAIN h = DOMAIN f /\ h = [i \in DOMAIN h |-> h[i]] /\ \A i \in DOMAIN f : h[i] = new(i)
  OBVIOUS
<1> HIDE DEF h
<1>5. h \in Tables(Servers)
  BY <1>2, <1>3, <1>4, TablesIs
<1>6. Calmed(lw.srv, h) /\ AllKept(h)
  BY <1>3, <1>4 DEF Calmed, AllKept
<1>7. Sound(m, {})
  BY <1>5, <1>6, PutServers DEF LwcInv
<1> HIDE DEF m
<1> QED
  BY <1>1, <1>7 DEF LwcInv

\* lwm2m_deregister,
LEMMA DeregisterSound ==
  ASSUME LwcInv, Deregister
  PROVE  LwcInv'
<1> DEFINE m == AllDeregistered(lw)
<1>1. lw' = m
  BY DEF Deregister
<1>2. Sound(m, {})
  BY AllDeregisteredIs DEF LwcInv
<1> HIDE DEF m
<1> QED
  BY <1>1, <1>2 DEF LwcInv

\* a command of the bootstrap server,
LEMMA CommandSound ==
  ASSUME LwcInv, NEW b, NEW op \in {"write", "delete", "other", "fails"}, NEW i \in Ids,
         Command(b, op, i)
  PROVE  LwcInv'
<1> DEFINE m == HandleCommand(lw, b, op, i)
<1>1. lw' = m /\ b \in DOMAIN lw.bsrv
  BY DEF Command, Listens
<1>2. Sound(m, {})
  BY <1>1, HandleCommandIs DEF LwcInv
<1> HIDE DEF m
<1> QED
  BY <1>1, <1>2 DEF LwcInv

\* its Delete of everything,
LEMMA DeleteAllSound ==
  ASSUME LwcInv, NEW b, DeleteAll(b)
  PROVE  LwcInv'
<1>1. lw.sec \in SUBSET Ids
  BY ContextTypes DEF Sound, LwcInv
<1>2. PICK left \in {{}} \cup { {i \in lw.sec \ {b} : i >= j} : j \in lw.sec } :
        lw' = HandleDeleteAll(lw, b, left)
  BY DEF DeleteAll
<1>3. left \in SUBSET Ids /\ b \in DOMAIN lw.bsrv
  BY <1>1 DEF DeleteAll, Listens
<1> DEFINE m == HandleDeleteAll(lw, b, left)
<1>4. Sound(m, {})
  BY <1>3, HandleDeleteAllIs DEF LwcInv
<1> HIDE DEF m
<1> QED
  BY <1>2, <1>4 DEF LwcInv, m

\* and its Finish.
LEMMA FinishSound ==
  ASSUME LwcInv, NEW b, Finish(b)
  PROVE  LwcInv'
<1> DEFINE st == "BS_FINISHING"
           m == PutBs(lw, b, st)
<1>1. lw' = m /\ b \in DOMAIN lw.bsrv
  BY DEF Finish
<1>2. st \in SrvStatuses /\ Quiet(st)
  BY QuietStatuses
<1> HIDE DEF st
<1>3. Sound(lw, {b})
  BY SoundLess DEF LwcInv
<1>4. Sound(m, {})
  BY <1>1, <1>2, <1>3, PutBsIs
<1> HIDE DEF m
<1> QED
  BY <1>1, <1>4 DEF LwcInv

\* What the invariant says of those who wait, and of the updates asked for.
LEMMA SoundKeepsUp ==
  LwcInv => ClientKeepsUp
<1> SUFFICES ASSUME LwcInv PROVE ClientKeepsUp
  OBVIOUS
<1>1. lw.trs \in Seq(TrRec) /\ DOMAIN lw.trs = 1..Len(lw.trs)
  BY ContextTypes DEF Sound, LwcInv
<1>2. FullUpdateKept
  BY DEF LwcInv, Sound, AllKept, AskKept, FullUpdateKept
<1>3. ASSUME NEW i \in DOMAIN lw.srv, NEW kind \in Awaits(lw.srv[i].status)
      PROVE  \E j \in DOMAIN lw.trs : lw.trs[j].kind = kind /\ lw.trs[j].id = i /\ ~lw.trs[j].closed
  <2>1. Served(lw.trs, lw.srv[i].status, i)
    BY DEF LwcInv, Sound, AllServed
  <2> QED
    BY <1>1, <2>1 DEF Served, Has
<1>4. ASSUME NEW b \in DOMAIN lw.bsrv, NEW kind \in Awaits(lw.bsrv[b].status)
      PROVE  \E j \in DOMAIN lw.trs : lw.trs[j].kind = kind /\ lw.trs[j].id = b /\ ~lw.trs[j].closed
  <2>1. Served(lw.trs, lw.bsrv[b].status, b)
    BY DEF LwcInv, Sound, AllServed
  <2> QED
    BY <1>1, <2>1 DEF Served, Has
<1>5. WaitersHaveTransactions
  BY <1>3, <1>4 DEF WaitersHaveTransactions
<1> QED
  BY <1>2, <1>5 DEF ClientKeepsUp

\* Through registration, updates, deregistration and bootstrap, whoever waits
\* for a reply of a server has a transaction that will still end, and an update
\* with objects that was asked for stays asked for until it is sent, but for one
\* that an update of all servers passed over (registration.c:925): for any set of
\* servers, any Server objects and any number of calls and commands.
THEOREM ClientAlwaysKeepsUp == LwcSpec => []ClientKeepsUp
<1>1. LwcInit => LwcInv
  BY InitSound
<1>2. LwcInv /\ [LwcNext]_lwcvars => LwcInv'
  <2> SUFFICES ASSUME LwcInv, [LwcNext]_lwcvars PROVE LwcInv'
    OBVIOUS
  <2>1. CASE \E c, r \in BOOLEAN, e \in SUBSET (1..Len(lw.trs)) : LwStep(c, r, e)
    BY <2>1, StepSound
  <2>2. CASE \E j \in 1..Len(lw.trs), good \in BOOLEAN : Answer(j, good)
    BY <2>2, AnswerSound
  <2>3. CASE \E i \in Ids : TimePasses(i)
    BY <2>3, TimeSound
  <2>4. CASE \E i \in Servers, w \in BOOLEAN : UpdateOne(i, w)
    BY <2>4, UpdateOneSound
  <2>5. CASE \E w \in BOOLEAN : UpdateAll(w)
    BY <2>5, UpdateAllSound
  <2>6. CASE Deregister
    BY <2>6, DeregisterSound
  <2>7. CASE \E b \in Bootstraps, op \in {"write", "delete", "other", "fails"}, i \in Ids :
               Command(b, op, i)
    BY <2>7, CommandSound
  <2>8. CASE \E b \in Bootstraps : DeleteAll(b) \/ Finish(b)
    BY <2>8, DeleteAllSound, FinishSound
  <2>9. CASE UNCHANGED lwcvars
    BY <2>9 DEF LwcInv, lwcvars
  <2> QED
    BY <2>1, <2>2, <2>3, <2>4, <2>5, <2>6, <2>7, <2>8, <2>9 DEF LwcNext
<1> QED
  BY <1>1, <1>2, SoundKeepsUp, PTL DEF LwcSpec

=============================================================================
