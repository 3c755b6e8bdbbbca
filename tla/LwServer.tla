------------------------------ MODULE LwServer ------------------------------
(* The server of the LwM2M core: the registrations of the clients, their     *)
(* lifetimes, and the requests the application makes of a registered client: *)
(* observations, their cancellation, and device management.                  *)
(*                                                                           *)
(* A request ends when its transaction does (module LwTransaction): with a   *)
(* reply, or with NULL when none came. A client is known by its internalID,  *)
(* the least free number, which is also the location it is told.             *)
EXTENDS Naturals, Integers, FiniteSets, FiniteSetsExt

CONSTANTS
  Devices,           \* endpoint names
  MaxId,             \* greatest internalID
  Uris,              \* paths: an object's <<o>>, an instance's <<o, i>>
  Announcements,     \* sets of paths a payload may list; {} is no payload
  LifetimesAsked,    \* 0 when the query gives none
  DefaultLifetime,   \* LWM2M_DEFAULT_LIFETIME
  MaxRequests,       \* requests the application makes
  MaxStepLate        \* time by which lwm2m_step may come late

ASSUME ServerAssumption ==
  /\ MaxId \in Nat /\ MaxRequests \in Nat /\ MaxStepLate \in Nat
  /\ LifetimesAsked \subseteq Nat /\ DefaultLifetime \in Nat \ {0}
  /\ Announcements \subseteq SUBSET Uris

VARIABLES
  clientList,      \* internalID -> registration
  location,        \* device -> the location it was told last, or None
  pending,         \* the requests under way
  nextRequest,     \* number of the next request
  answered,        \* requests whose callback was called
  malformed,       \* requests whose reply had a Location that is no instance
  crashed          \* a NULL pointer was followed

lwsvars == <<clientList, location, pending, nextRequest, answered, malformed, crashed>>

None == -1
ClientIds == 0..MaxId
Registered == DOMAIN clientList

Replies == {"content", "content_no_observe", "error", "bad_location", "none"}

-----------------------------------------------------------------------------
(* Registration.                                                             *)

\* lwm2m_list_newId: the least number not taken.
NewId == Min((0..(MaxId + 1)) \ Registered)

\* prv_getClientByName
ClientsNamed(name) == { c \in Registered : clientList[c].name = name }

NewClient ==
  [name |-> "", sessionH |-> None, lifetime |-> 0, left |-> 0, objects |-> {},
   observations |-> {}, observationId |-> 0]

\* The registration that a Register request is for.
RegistrationOf(name) ==
  IF ClientsNamed(name) # {} THEN Min(ClientsNamed(name)) ELSE NewId

\* registration_handleRequest, POST on /rd. What is refused (a query or a
\* content type that is wrong, no name, no object, an unknown version) leaves
\* the registrations as they are.
HandleRegister(d, lifetime, objects) ==
  LET c == RegistrationOf(d)
      life == IF lifetime = 0 THEN DefaultLifetime ELSE lifetime
      old == IF c \in Registered THEN clientList[c] ELSE NewClient
  IN /\ ~crashed
     /\ objects # {} /\ c \in ClientIds
     /\ clientList' =
          [i \in Registered \cup {c} |->
             IF i = c THEN [old EXCEPT !.name = d, !.sessionH = d, !.lifetime = life,
                                       !.left = life, !.objects = objects]
             ELSE clientList[i]]
     /\ location' = [location EXCEPT ![d] = c]
     /\ UNCHANGED <<pending, nextRequest, answered, malformed, crashed>>

\* What an update makes of a registration: observations of what is no longer
\* announced are removed, the session is the one the update came on.
Updated(c, d, lifetime, objects) ==
  LET life == IF lifetime # 0 THEN lifetime ELSE clientList[c].lifetime
  IN [clientList[c] EXCEPT
        !.sessionH = d,
        !.lifetime = life,
        !.observations = IF objects = {} THEN @ ELSE { o \in @ : o.uri \in objects },
        !.objects = IF objects = {} THEN @ ELSE objects,
        !.left = life]

\* registration_handleRequest, POST on the location the device was told; the
\* number is the only thing the server looks at. An unknown one is refused.
Update(d, lifetime, objects) ==
  LET c == location[d]
  IN /\ ~crashed
     /\ c \in Registered
     /\ clientList' = [clientList EXCEPT ![c] = Updated(c, d, lifetime, objects)]
     /\ UNCHANGED <<location, pending, nextRequest, answered, malformed, crashed>>

Without(f, ids) == [i \in DOMAIN f \ ids |-> f[i]]

\* registration_handleRequest, DELETE.
HandleDeregister(d) ==
  /\ ~crashed
  /\ location[d] \in Registered
  /\ clientList' = Without(clientList, {location[d]})
  /\ location' = [location EXCEPT ![d] = None]
  /\ UNCHANGED <<pending, nextRequest, answered, malformed, crashed>>

\* registration_step: the registrations whose life has ended go.
ExpireClients ==
  LET ended == { c \in Registered : clientList[c].left <= 0 }
  IN /\ ~crashed
     /\ ended # {}
     /\ clientList' = Without(clientList, ended)
     /\ UNCHANGED <<location, pending, nextRequest, answered, malformed, crashed>>

Time ==
  /\ ~crashed
  /\ Registered # {}
  /\ \A c \in Registered : clientList[c].left > -MaxStepLate
  /\ clientList' = [c \in Registered |-> [clientList[c] EXCEPT !.left = @ - 1]]
  /\ UNCHANGED <<location, pending, nextRequest, answered, malformed, crashed>>

-----------------------------------------------------------------------------
(* Observation.                                                              *)

Observation(id, uri, status) == [id |-> id, uri |-> uri, status |-> status]

\* prv_findObservationByURI, as a set of at most one.
ObservationOf(c, uri) == { o \in clientList[c].observations : o.uri = uri }

Request(kind, c, uri, id) ==
  [number |-> nextRequest, kind |-> kind, client |-> c, uri |-> uri, id |-> id]

WithStatus(os, status) == { Observation(o.id, o.uri, status) : o \in os }

\* lwm2m_observe: the number of the observation is used up even if the reply
\* makes none; one that exists is marked, the application wants it again.
Observe(c, uri) ==
  LET id == clientList[c].observationId + 1
      seen == ObservationOf(c, uri)
  IN /\ ~crashed
     /\ nextRequest <= MaxRequests
     /\ id \notin { o.id : o \in clientList[c].observations }
     /\ clientList' = [clientList EXCEPT
          ![c].observationId = id,
          ![c].observations = (@ \ seen) \cup WithStatus(seen, "REG_PENDING")]
     /\ pending' = pending \cup {Request("observe", c, uri, id)}
     /\ nextRequest' = nextRequest + 1
     /\ UNCHANGED <<location, answered, malformed, crashed>>

\* lwm2m_observe_cancel: a request is sent only for an observation that stands;
\* any other is removed at once, and the caller told by the value returned.
ObserveCancel(c, uri) ==
  LET seen == ObservationOf(c, uri)
  IN /\ ~crashed
     /\ seen # {}
     /\ \/ /\ \A o \in seen : o.status = "REGISTERED"
           /\ nextRequest <= MaxRequests
           /\ clientList' = [clientList EXCEPT
                ![c].observations = (@ \ seen) \cup WithStatus(seen, "DEREG_PENDING")]
           /\ pending' = pending \cup {Request("cancel", c, uri, 0)}
           /\ nextRequest' = nextRequest + 1
        \/ /\ \A o \in seen : o.status # "REGISTERED"
           /\ clientList' = [clientList EXCEPT ![c].observations = @ \ seen]
           /\ UNCHANGED <<pending, nextRequest>>
     /\ UNCHANGED <<location, answered, malformed, crashed>>

\* The observations of a client after prv_obsRequestCallback: the reply makes
\* one, in the place of one there was, unless it is being cancelled.
Established(r, reply) ==
  LET seen == ObservationOf(r.client, r.uri)
  IN IF reply = "content" /\ \A o \in seen : o.status # "DEREG_PENDING"
     THEN (clientList[r.client].observations \ seen)
            \cup {Observation(r.id, r.uri, "REGISTERED")}
     ELSE clientList[r.client].observations

\* prv_obsRequestCallback: the application is told in every case.
ObserveEnds(r, reply) ==
  /\ r.kind = "observe"
  /\ clientList' = IF r.client \in Registered
                   THEN [clientList EXCEPT ![r.client].observations = Established(r, reply)]
                   ELSE clientList
  /\ answered' = answered \cup {r.number}
  /\ UNCHANGED <<malformed, crashed>>

\* A cancellation that ends with neither a client nor a reply: the content type
\* of the reply is read, through a NULL pointer, before the callback is called.
Untold(r, reply) == r.client \notin Registered /\ reply = "none"

\* prv_obsCancelRequestCallback if only a reply removed the observation.
CancelEndsKept(r, reply) ==
  LET seen == IF r.client \in Registered THEN ObservationOf(r.client, r.uri) ELSE {}
  IN /\ r.kind = "cancel"
     /\ answered' = IF Untold(r, reply) THEN answered ELSE answered \cup {r.number}
     /\ clientList' = IF r.client \in Registered /\ reply # "none"
                      THEN [clientList EXCEPT ![r.client].observations = @ \ seen]
                      ELSE clientList
     /\ crashed' = (Untold(r, reply) \/ (r.client \in Registered /\ seen = {}))
     /\ UNCHANGED malformed

\* prv_obsCancelRequestCallback: the observation is removed whatever the reply,
\* through a NULL pointer when there is none any more; the application was then
\* told.
CancelEnds(r, reply) ==
  LET seen == IF r.client \in Registered THEN ObservationOf(r.client, r.uri) ELSE {}
  IN /\ r.kind = "cancel"
     /\ answered' = IF Untold(r, reply) THEN answered ELSE answered \cup {r.number}
     /\ clientList' = IF r.client \in Registered
                      THEN [clientList EXCEPT ![r.client].observations = @ \ seen]
                      ELSE clientList
     /\ crashed' = (Untold(r, reply) \/ (r.client \in Registered /\ seen = {}))
     /\ UNCHANGED malformed

-----------------------------------------------------------------------------
(* Device management.                                                        *)

\* prv_makeOperation and lwm2m_dm_discover for any of the lwm2m_dm operations.
MakeOperation(c, uri) ==
  /\ ~crashed
  /\ nextRequest <= MaxRequests
  /\ pending' = pending \cup {Request("dm", c, uri, 0)}
  /\ nextRequest' = nextRequest + 1
  /\ UNCHANGED <<clientList, location, answered, malformed, crashed>>

\* prv_resultCallback: nobody is told of a reply to Create whose Location is
\* not an instance of the object.
OperationEnds(r, reply) ==
  /\ r.kind = "dm"
  /\ IF reply = "bad_location"
     THEN malformed' = malformed \cup {r.number} /\ UNCHANGED answered
     ELSE answered' = answered \cup {r.number} /\ UNCHANGED malformed
  /\ UNCHANGED <<clientList, crashed>>

\* The transaction of a request ends.
RequestEnds(r, reply) ==
  /\ ~crashed
  /\ reply = "bad_location" => r.kind = "dm"
  /\ reply = "content_no_observe" => r.kind # "dm"
  /\ ObserveEnds(r, reply) \/ CancelEnds(r, reply) \/ OperationEnds(r, reply)
  /\ pending' = pending \ {r}
  /\ UNCHANGED <<location, nextRequest>>

-----------------------------------------------------------------------------

LwsInit ==
  /\ clientList = << >> /\ location = [d \in Devices |-> None]
  /\ pending = {} /\ nextRequest = 1 /\ answered = {} /\ malformed = {}
  /\ crashed = FALSE

LwsNext ==
  \/ \E d \in Devices, l \in LifetimesAsked, objects \in Announcements :
       HandleRegister(d, l, objects) \/ Update(d, l, objects)
  \/ \E d \in Devices : HandleDeregister(d)
  \/ ExpireClients
  \/ Time
  \/ \E c \in Registered, u \in Uris : Observe(c, u) \/ ObserveCancel(c, u) \/ MakeOperation(c, u)
  \/ \E r \in pending, reply \in Replies : RequestEnds(r, reply)

LwsSpec == LwsInit /\ [][LwsNext]_lwsvars

-----------------------------------------------------------------------------
(* Properties.                                                               *)

\* An observation that is being cancelled has a request under way that will
\* remove it.
CancelInFlight ==
  ~crashed => \A c \in Registered : \A o \in clientList[c].observations :
     o.status = "DEREG_PENDING" =>
        \E r \in pending : r.kind = "cancel" /\ r.client = c /\ r.uri = o.uri

\* A request is under way, or its callback was called, or its reply was to a
\* Create and had a malformed Location.
RequestsAccounted ==
  ~crashed => \A n \in 1..(nextRequest - 1) :
     \/ n \in answered \cup malformed
     \/ \E r \in pending : r.number = n

\* As long as the server has not followed a NULL pointer, no request of the
\* application is forgotten and no cancellation hangs, whatever becomes of the
\* client meanwhile (prv_obsRequestCallback, prv_obsCancelRequestCallback,
\* prv_resultCallback). The code does follow one: when a cancellation ends
\* after the observation, or after the client and without a reply, is gone
\* (observe.c:1032 and 999). That an observation which was cancelled while it
\* was asked for stays away is not said: a late reply makes it again.
RequestsExact == CancelInFlight /\ RequestsAccounted

=============================================================================
