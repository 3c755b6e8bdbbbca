------------------------------ MODULE LwDevice ------------------------------
(* Device management at an LwM2M client: how a server's operation becomes a  *)
(* CoAP request, what dm_handleRequest takes the request for, what becomes   *)
(* of the object's instances, the list of what the servers watch and with    *)
(* which attributes, and what a Discover tells them of these.                *)
(*                                                                           *)
(* A path is a sequence: <<object>>, <<object, instance>> or                 *)
(* <<object, instance, resource>>. There is one object.                      *)
EXTENDS Naturals, Sequences, FiniteSets, SequencesExt, FiniteSetsExt, TLC

CONSTANTS
  DmServers,          \* the servers the device is registered with
  Object, Resource,   \* one object, one resource of its instances
  MaxInstance,        \* greatest number of an instance
  AttributesWritten,  \* sets of attributes a request may set, or clear
  MaxMessageId,       \* message ids are 0..MaxMessageId and begin again
  MaxOperations       \* operations the servers make

ASSUME DeviceAssumption ==
  /\ MaxInstance \in Nat /\ MaxMessageId \in Nat \ {0} /\ MaxOperations \in Nat
  /\ AttributesWritten \subseteq SUBSET {"pmin", "pmax", "gt", "lt", "st"}

VARIABLES
  instanceList,   \* the instances of the object
  observedList,   \* a sequence of paths with their watchers, newest first
  nextId,         \* the device's next message id
  operations,     \* operations made so far
  written,        \* server -> the <<path, attribute>> it wrote to what still exists
  misread         \* the number of a freed instance was read and was another one

lwdvars == <<instanceList, observedList, nextId, operations, written, misread>>

Instances == 0..MaxInstance
MessageIds == 0..MaxMessageId
Paths == {<<Object>>} \cup { <<Object, i>> : i \in Instances }
         \cup { <<Object, i, Resource>> : i \in Instances }

HasInstance(p) == Len(p) >= 2
HasResource(p) == Len(p) = 3

Operations == {"read", "write", "execute", "create", "delete", "discover",
               "write_attributes", "observe", "cancel"}

-----------------------------------------------------------------------------
(* At the server: lwm2m_dm_read and its like.                                *)

\* The operations the functions let through for a path.
Allowed(op, p) ==
  CASE op \in {"read", "discover", "cancel", "write_attributes"} -> TRUE
    [] op = "observe" -> HasInstance(p) \/ ~HasResource(p)
    [] op = "write"   -> HasInstance(p)
    [] op = "execute" -> HasResource(p)
    [] op = "create"  -> ~HasInstance(p)
    [] op = "delete"  -> HasInstance(p) /\ ~HasResource(p)

\* The request an operation becomes.
RequestFor(op, p) ==
  [method  |-> CASE op \in {"read", "discover", "observe", "cancel"} -> "GET"
                 [] op = "delete" -> "DELETE"
                 [] op \in {"execute", "create"} -> "POST"
                 [] op = "write_attributes" -> "PUT"
                 [] op = "write" -> IF HasResource(p) THEN "PUT" ELSE "POST",
   observe |-> CASE op = "observe" -> 0 [] op = "cancel" -> 1 [] OTHER -> 2,
   accept  |-> IF op = "discover" THEN "link" ELSE "tlv",
   query   |-> op = "write_attributes",
   path    |-> p]

-----------------------------------------------------------------------------
(* At the device.                                                            *)

\* dm_handleRequest: the operation it takes a request for.
Meaning(r) ==
  CASE r.method = "GET" ->
         (CASE r.observe = 0 -> "observe" [] r.observe = 1 -> "cancel"
            [] r.observe = 2 /\ r.accept = "link" -> "discover" [] OTHER -> "read")
    [] r.method = "POST" ->
         (IF ~HasInstance(r.path) THEN "create"
          ELSE IF ~HasResource(r.path) THEN "write" ELSE "execute")
    [] r.method = "PUT" ->
         (IF r.query THEN "write_attributes"
          ELSE IF HasInstance(r.path) THEN "write" ELSE "refused")
    [] r.method = "DELETE" ->
         IF HasInstance(r.path) /\ ~HasResource(r.path) THEN "delete" ELSE "refused"

\* object_readData, object_checkReadable: 2.05, or 4.04.
Exists(p) == HasInstance(p) => p[2] \in instanceList

\* The parameters of a watcher are {} for NULL, else {the set of its flags}.
Watcher(s, mid, active, parameters) ==
  [server |-> s, lastMid |-> mid, active |-> active, parameters |-> parameters]

\* observe_setParameters: the first request brings its flags, a later one only
\* clears some.
AfterWrite(parameters, set, clear) ==
  IF parameters # {} THEN { flags \ clear : flags \in parameters }
  ELSE IF set = {} THEN {} ELSE {set}

\* prv_findObserved: the first path that agrees with p in what p gives; 0 if
\* there is none.
FindObserved(p) == SelectInSeq(observedList, LAMBDA o : IsPrefix(p, o.uri))

\* prv_findWatcher
FindWatcher(o, s) == SelectInSeq(o.watchers, LAMBDA w : w.server = s)

\* prv_getWatcher, with what its callers then write into the watcher: the path
\* and the watcher are found, or put first.
GetWatcher(p, s, mid, active, set, clear) ==
  LET i == FindObserved(p)
      j == FindWatcher(observedList[i], s)
      new == Watcher(s, mid, active, AfterWrite({}, set, clear))
  IN IF i = 0
     THEN <<[uri |-> p, watchers |-> <<new>>]>> \o observedList
     ELSE [observedList EXCEPT ![i].watchers =
             IF j = 0 THEN <<new>> \o @
             ELSE [@ EXCEPT ![j] = Watcher(s, IF active THEN mid ELSE @.lastMid, active \/ @.active,
                                           AfterWrite(@.parameters, set, clear))]]

\* observe_cancel: the first watcher of the list with that message id and
\* session goes, and its path with the last one.
Cancel(mid, s) ==
  LET hit(o) == SelectInSeq(o.watchers, LAMBDA w : w.lastMid = mid /\ w.server = s)
      i == SelectInSeq(observedList, LAMBDA o : hit(o) # 0)
  IN IF i = 0 THEN observedList
     ELSE IF Len(observedList[i].watchers) = 1 THEN RemoveAt(observedList, i)
     ELSE [observedList EXCEPT ![i].watchers = RemoveAt(@, hit(observedList[i]))]

\* observe_handleRequest with Observe 1.
CancelRequest(p, s) ==
  LET i == FindObserved(p)
      j == FindWatcher(observedList[i], s)
  IN IF i = 0 THEN observedList
     ELSE IF j = 0 THEN observedList
     ELSE Cancel(observedList[i].watchers[j].lastMid, s)

\* observe_clear, for some instances.
Clear(ids) == SelectSeq(observedList, LAMBDA o : ~(HasInstance(o.uri) /\ o.uri[2] \in ids))

\* What the servers wrote, but for what concerns the instances that go.
Forgotten(ids) ==
  [s \in DmServers |-> { x \in written[s] : ~(HasInstance(x[1]) /\ x[1][2] \in ids) }]

\* object_delete, of an instance.
Delete(op, p) ==
  /\ op = "delete" /\ Exists(p)
  /\ instanceList' = instanceList \ {p[2]}
  /\ observedList' = Clear({p[2]})
  /\ written' = Forgotten({p[2]})
  /\ UNCHANGED misread

\* object_delete of the object, for a bootstrap server (bootstrap_handleCommand,
\* bootstrap_handleDeleteAll): the instances go, the least first, until one
\* cannot be deleted. What is watched is cleared by the number of the instance,
\* read after deleteFunc has freed it: the same as before, or anything, also
\* the value that stands for no instance, with which all of the object goes.
DeleteObject ==
  /\ operations < MaxOperations
  /\ \E left \in { {i \in instanceList : i >= n} : n \in 0..(MaxInstance + 1) },
        read \in SUBSET Instances, all \in BOOLEAN :
       LET gone == instanceList \ left
       IN /\ gone # {}
          /\ instanceList' = left
          /\ observedList' = IF all THEN <<>> ELSE Clear(read)
          /\ written' = Forgotten(gone)
          /\ misread' = (misread \/ all \/ read # gone)
  /\ operations' = operations + 1
  /\ UNCHANGED nextId

\* object_create: the payload names a new instance, or the least free number is
\* taken; one that exists is refused.
Create(op) ==
  /\ op = "create"
  /\ \E i \in Instances \ instanceList : instanceList' = instanceList \cup {i}
  /\ UNCHANGED <<observedList, written, misread>>

\* observe_handleRequest with Observe 0 after object_readData.
Watch(op, p, s, mid) ==
  /\ op = "observe" /\ Exists(p)
  /\ observedList' = GetWatcher(p, s, mid, TRUE, {}, {})
  /\ UNCHANGED <<instanceList, written, misread>>

\* observe_setParameters after object_checkReadable. (LwNotify has the rule
\* about the thresholds.)
Attribute(op, p, s) ==
  /\ op = "write_attributes" /\ Exists(p)
  /\ \E set, clear \in AttributesWritten :
       /\ set \cap clear = {}
       /\ observedList' = GetWatcher(p, s, 0, FALSE, set, clear)
       /\ written' = [written EXCEPT ![s] = @ \cup { <<p, f>> : f \in set }]
  /\ UNCHANGED <<instanceList, misread>>

Unwatch(op, p, s) ==
  /\ op = "cancel" /\ Exists(p)
  /\ observedList' = CancelRequest(p, s)
  /\ UNCHANGED <<instanceList, written, misread>>

\* Reading, writing, executing and discovering leave the lists alone; so does
\* what is refused.
Leave(op, p) ==
  /\ op \in {"read", "write", "execute", "discover", "refused"} \/ (op # "create" /\ ~Exists(p))
  /\ UNCHANGED <<instanceList, observedList, written, misread>>

\* A server's operation is handled by the device; mid is the server's id of it,
\* which only an Observe keeps.
Operation(s, op, p, mid) ==
  LET done == Meaning(RequestFor(op, p))
  IN /\ operations < MaxOperations
     /\ Allowed(op, p)
     /\ \/ Delete(done, p) \/ Create(done) \/ Leave(done, p)
        \/ Watch(done, p, s, mid) \/ Attribute(done, p, s) \/ Unwatch(done, p, s)
     /\ operations' = operations + 1
     /\ UNCHANGED nextId

\* observe_step sends a notification to a watcher with the device's next id.
Notification(i, j) ==
  /\ observedList[i].watchers[j].active
  /\ observedList' = [observedList EXCEPT ![i].watchers[j].lastMid = nextId]
  /\ nextId' = (nextId + 1) % (MaxMessageId + 1)
  /\ UNCHANGED <<instanceList, operations, written, misread>>

\* handle_reset: a server refuses the notification it got.
Reset(s, mid) ==
  /\ observedList' = Cancel(mid, s)
  /\ observedList' # observedList
  /\ UNCHANGED <<instanceList, nextId, operations, written, misread>>

-----------------------------------------------------------------------------
(* Discover: the links of a path and of what is under it, with attributes.   *)

Periods == {"pmin", "pmax"}

\* observe_findByUri if it took what prv_findObserved takes.
FindByUriLoose(p) == FindObserved(p)

\* observe_findByUri: the entry of exactly this path; 0 if there is none.
FindByUri(p) == SelectInSeq(observedList, LAMBDA o : o.uri = p)

\* prv_findAttributes: {} for NULL, else {the attributes}, each with the path
\* it was found at.
FindAttributes(s, p) ==
  LET i == FindByUri(p)
      j == IF i = 0 THEN 0 ELSE FindWatcher(observedList[i], s)
  IN IF j = 0 THEN {}
     ELSE { { <<f, p>> : f \in flags } : flags \in observedList[i].watchers[j].parameters }

Flags(attributes) == { x[1] : x \in attributes }

\* mergedParam of discover_serialize: the periods of the instance before those
\* of the object. Of the thresholds it has the flags and the value 0, which is
\* nobody's.
Merged(object, instance) ==
  IF object = {} THEN instance
  ELSE IF instance = {} THEN object
  ELSE { { x \in i \cup o : x[1] \in Periods /\ (x \in i \/ x[1] \notin Flags(i)) }
         \cup { <<f, <<>>>> : f \in Flags(i \cup o) \ Periods } : i \in instance, o \in object }

\* prv_serializeAttributes: what is written for a path that has its own
\* parameters, or none, under those of objectParamP. A period that the own ones
\* do not give is looked for in objectParamP, be it NULL or not.
Serialized(own, above) ==
  LET missing == UNION { Periods \ Flags(a) : a \in own }
  IN [crash |-> missing # {} /\ above = {},
      attributes |-> IF own = {} THEN UNION above
                     ELSE UNION own \cup { x \in UNION above : x[1] \in missing }]

LinkTo(p, serialized) == [path |-> p] @@ serialized

\* prv_serializeLinkData for an instance: its own link is taken back when it
\* has no attributes.
InstanceLinks(s, p) ==
  LET own == LinkTo(p, Serialized(FindAttributes(s, p), {}))
      r == Append(p, Resource)
  IN (IF own.attributes = {} /\ ~own.crash THEN {} ELSE {own})
     \cup { LinkTo(r, Serialized(FindAttributes(s, r), {})) }

\* discover_serialize: the links of the answer. The buffer has room for them.
DiscoverSerialize(s, p) ==
  LET at(n) == FindAttributes(s, SubSeq(p, 1, n))
  IN CASE Len(p) = 3 -> { LinkTo(p, Serialized(at(3), Merged(at(1), at(2)))) }
       [] Len(p) = 2 -> { LinkTo(p, Serialized(at(2), {})) } \cup InstanceLinks(s, p)
       [] Len(p) = 1 -> { LinkTo(p, Serialized(at(1), {})) }
                        \cup UNION { InstanceLinks(s, <<Object, i>>) : i \in instanceList }

\* object_discover: 4.04, or the links; each instance has one resource.
Discover(s, p) ==
  IF Exists(p) THEN [code |-> 205, links |-> DiscoverSerialize(s, p)]
  ELSE [code |-> 404, links |-> {}]

-----------------------------------------------------------------------------

LwdInit ==
  /\ instanceList = {0} /\ observedList = << >>
  /\ nextId \in MessageIds /\ operations = 0
  /\ written = [s \in DmServers |-> {}] /\ misread = FALSE

LwdNext ==
  \/ \E s \in DmServers, op \in Operations, p \in Paths :
       \E mid \in IF op = "observe" THEN MessageIds ELSE {0} : Operation(s, op, p, mid)
  \/ DeleteObject
  \/ \E i \in DOMAIN observedList : \E j \in DOMAIN observedList[i].watchers : Notification(i, j)
  \/ \E s \in DmServers, mid \in MessageIds : Reset(s, mid)

LwdSpec == LwdInit /\ [][LwdNext]_lwdvars

-----------------------------------------------------------------------------
(* Properties.                                                               *)

\* Nothing of an instance that was deleted is watched.
WatchedExists == \A i \in DOMAIN observedList : Exists(observedList[i].uri)

\* The path next above p, or p, that has the attribute for the server.
Nearest(s, p, f) ==
  LET has == { n \in 1..Len(p) : f \in Flags(UNION FindAttributes(s, SubSeq(p, 1, n))) }
  IN IF has = {} THEN {} ELSE {SubSeq(p, 1, Max(has))}

\* A Discover that is answered lists what exists, and nothing else, each path
\* with periods that this server, and not another, wrote to it or to what it
\* belongs to, since it exists; a resource by itself has the nearest ones.
DiscoverTells(s, p) ==
  LET links == Discover(s, p).links
      below == { q \in Paths : HasResource(q) /\ IsPrefix(p, q) /\ Exists(q) }
  IN (Exists(p) /\ \A l \in links : ~l.crash) =>
       /\ {p} \cup below \subseteq { l.path : l \in links }
       /\ \A l \in links :
            /\ Exists(l.path)
            /\ \A x \in l.attributes : x[1] \in Periods =>
                 IsPrefix(x[2], l.path) /\ \E y \in written[s] : IsPrefix(y[1], x[2]) /\ y[2] = x[1]
            /\ HasResource(p) => \A f \in Periods :
                 { x[2] : x \in { z \in l.attributes : z[1] = f } } = Nearest(s, p, f)

\* What the servers watch exists, and they are told of it nothing but what they
\* wrote (observe.c, discover.c): attributes are kept apart by server, and an
\* instance that is deleted and created again begins without any. By path they
\* are kept apart in one direction: what is written to a path may land on an
\* entry below it that is there already, and is then shown there and not at the
\* path it was written to (prv_findObserved, observe.c:62), but nothing is shown
\* above or beside the path it was written to. This holds until the number of an
\* instance is misread when the whole object is deleted (objects.c:384). (Where
\* nothing is watched there is nothing to confuse.)
DeviceExact ==
  ~misread =>
    /\ WatchedExists
    /\ observedList # << >> => \A s \in DmServers, p \in Paths : DiscoverTells(s, p)
=============================================================================
