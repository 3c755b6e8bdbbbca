-------------------------- MODULE LwRegisterFormat --------------------------
(* What a Register request says: the query string and the link-format list   *)
(* of objects that the client writes into buffers of a length it computes    *)
(* beforehand, and what the server reads from them.                          *)
(*                                                                           *)
(* A query is a sequence of parameters, a list a sequence of links; each     *)
(* keeps the number of its characters, for the buffers.                      *)
EXTENDS Naturals, Integers, Sequences, FiniteSets, SequencesExt, FiniteSetsExt

CONSTANTS
  ObjectIds, InstanceIds,   \* numbers of objects and of their instances
  Lifetimes,                \* seconds; 0 is "not given"
  NameLen, MsisdnLen,       \* characters of the endpoint's name and number
  AltPathLens               \* characters of the alternative path, 0 for none

ASSUME FormatAssumption ==
  /\ ObjectIds \subseteq Nat /\ InstanceIds \subseteq Nat /\ Lifetimes \subseteq Nat
  /\ NameLen \in Nat \ {0} /\ MsisdnLen \in Nat \ {0} /\ AltPathLens \subseteq Nat

VARIABLE device    \* what the client has to say

Transports == {"U", "T", "S", "N"}

LWM2M_SECURITY_OBJECT_ID == 0
LWM2M_OSCORE_OBJECT_ID == 21

\* Of `>;rt="oma.lwm2m",', what a build without JSON says.
REG_LWM2M_RESOURCE_TYPE_LEN == 17

Digits(n) == IF n < 10 THEN 1 ELSE IF n < 100 THEN 2 ELSE IF n < 1000 THEN 3
             ELSE IF n < 10000 THEN 4 ELSE 5

-----------------------------------------------------------------------------
(* Writing.                                                                  *)

\* One parameter: its key, the characters after the delimiter, its value.
Param(key, len, value) == [key |-> key, len |-> len, value |-> value]

\* prv_getRegistrationQuery.
RegistrationQuery(d) ==
  <<Param("lwm2m", 9, "1.1"), Param("ep", 3 + NameLen, d.name)>>
  \o (IF d.msisdn THEN <<Param("sms", 4 + MsisdnLen, d.name)>> ELSE <<>>)
  \o (IF d.binding \ {"unknown", "Q"} # {}
      THEN <<Param("b", 2 + Cardinality(d.binding \ {"unknown", "Q"}),
                   d.binding \ {"unknown", "Q"})>> ELSE <<>>)
  \o (IF "Q" \in d.binding THEN <<Param("Q", 1, "")>> ELSE <<>>)
  \o (IF d.lifetime # 0 THEN <<Param("lt", 3 + Digits(d.lifetime), d.lifetime)>> ELSE <<>>)

\* prv_getRegistrationQueryLength: the buffer, its final NUL included.
RegistrationQueryLength(d) ==
  1 + 9 + 1 + 3 + NameLen
  + (IF d.msisdn THEN 1 + 4 + MsisdnLen ELSE 0)
  + (IF d.binding \ {"unknown", "Q"} # {}
     THEN 1 + 2 + Cardinality(d.binding \cap Transports) ELSE 0)
  + (IF "Q" \in d.binding THEN 1 + 1 ELSE 0)
  + (IF d.lifetime # 0 THEN 1 + 3 + Digits(d.lifetime) ELSE 0)
  + 1

\* utils_stringCopy: the index after n more characters; the NUL that follows
\* them must fit too. -1 once something did not fit.
StringCopy(index, n, length) ==
  IF index = -1 \/ index + n >= length THEN -1 ELSE index + n

\* What prv_getRegistrationQuery returns for a buffer of `length': 0 when a
\* part does not fit, else the characters written with the final NUL.
QueryWritten(d, length) ==
  LET end == FoldLeft(LAMBDA i, p : StringCopy(i, 1 + p.len, length), 0, RegistrationQuery(d))
  IN IF end = -1 \/ end >= length THEN 0 ELSE end + 1

\* One link of the list: the path, its characters, whether it has attributes.
Link(path, len, attributes) == [path |-> path, len |-> len, attributes |-> attributes]

\* The links of one object: itself when it has no instance, else each instance.
ObjectLinks(id, instances) ==
  IF instances = {} THEN <<Link(<<id>>, 3 + Digits(id), FALSE)>>
  ELSE [k \in 1..Cardinality(instances) |->
          LET i == SetToSortSeq(instances, <)[k]
          IN Link(<<id, i>>, 4 + Digits(id) + Digits(i), FALSE)]

\* object_getRegisterPayload, which leaves out the security object only.
RegisterPayload(d) ==
  <<Link(<<>>, 1 + (IF d.altPath = 0 THEN 1 ELSE d.altPath) + REG_LWM2M_RESOURCE_TYPE_LEN - 1, TRUE)>>
  \o FlattenSeq([k \in 1..Cardinality(DOMAIN d.objectList) |->
       LET id == SetToSortSeq(DOMAIN d.objectList, <)[k]
       IN IF id = LWM2M_SECURITY_OBJECT_ID THEN <<>>
          ELSE ObjectLinks(id, d.objectList[id])])

\* object_getRegisterPayload returns the index after the last link, its comma
\* cut off; 0 when a link, its comma and a NUL do not fit. (The buffer must
\* have room for the shortest link before one is written.)
PayloadWritten(d, length) ==
  LET end == FoldLeft(LAMBDA i, l :
               IF i = -1 \/ (~l.attributes /\ length - i < 5) THEN -1
               ELSE StringCopy(i, l.len + 1, length), 0, RegisterPayload(d))
  IN IF end = -1 THEN 0 ELSE end - 1

\* object_getRegisterPayloadBufferLength, which leaves out two objects.
RegisterPayloadBufferLength(d) ==
  1 + (IF d.altPath = 0 THEN 1 ELSE d.altPath) + REG_LWM2M_RESOURCE_TYPE_LEN
  + MapThenSumSet(LAMBDA id :
      IF d.objectList[id] = {} THEN 4 + Digits(id)
      ELSE MapThenSumSet(LAMBDA i : 5 + Digits(id) + Digits(i), d.objectList[id]),
      DOMAIN d.objectList \ {LWM2M_SECURITY_OBJECT_ID, LWM2M_OSCORE_OBJECT_ID})
  + 1

-----------------------------------------------------------------------------
(* Reading.                                                                  *)

\* utils_stringToBinding keeps BINDING_UNKNOWN among the bits it returns.
StringToBinding(letters) == letters \cup {"unknown"}

NoParameters ==
  [ok |-> TRUE, name |-> "", lifetime |-> 0, msisdn |-> FALSE, binding |-> {},
   version |-> "missing"]

\* One turn of prv_getParameters' loop.
ReadParam(p, q) ==
  CASE p.key = "ep"  -> [q EXCEPT !.ok = @ /\ q.name = "" /\ p.len # 3, !.name = p.value]
    [] p.key = "sms" -> [q EXCEPT !.ok = @ /\ ~q.msisdn /\ p.len # 4, !.msisdn = TRUE]
    [] p.key = "lt"  -> [q EXCEPT !.ok = @ /\ q.lifetime = 0 /\ p.len # 3,
                                  !.lifetime = p.value]
    [] p.key = "lwm2m" -> [q EXCEPT !.ok = @ /\ q.version = "missing" /\ p.len # 6,
                                    !.version = p.value]
    [] p.key = "b" -> [q EXCEPT !.ok = @ /\ q.binding \ {"Q"} = {} /\ p.len # 2,
                                !.binding = @ \cup StringToBinding(p.value)]
    [] p.key = "Q" -> [q EXCEPT !.ok = @ /\ "Q" \notin q.binding /\ p.len = 2,
                                !.binding = @ \cup {"Q"}]

\* prv_getParameters: what it found; ok is FALSE where it returns an error.
GetParameters(query) ==
  LET q == FoldLeft(LAMBDA acc, p : IF acc.ok THEN ReadParam(p, acc) ELSE acc,
                    NoParameters, query)
  IN [q EXCEPT !.ok = @ /\ ~(q.version = "1.0" /\ q.binding \cap {"T", "N"} # {})]

\* prv_getId and prv_parseLinkAttributes tell the links apart: an object or
\* an instance has no attributes, the root has some.
IsObjectLink(l) == ~l.attributes /\ Len(l.path) \in {1, 2}

\* prv_decodeRegisterPayload if an object's link replaced the one found before.
DecodeRegisterPayloadLast(links) ==
  LET objs == SelectSeq(links, IsObjectLink)
      roots == SelectSeq(links, LAMBDA l : ~IsObjectLink(l))
  IN IF Len(roots) > 1 THEN << >>
     ELSE [id \in { l.path[1] : l \in Range(objs) } |->
             { objs[k].path[2] : k \in { j \in DOMAIN objs :
                 /\ objs[j].path[1] = id /\ Len(objs[j].path) = 2
                 /\ \A n \in DOMAIN objs : objs[n].path[1] = id => n <= j } }]

\* prv_decodeRegisterPayload: the objects with their instances; none at all
\* when a second link is not an object's.
DecodeRegisterPayload(links) ==
  LET objs == SelectSeq(links, IsObjectLink)
      roots == SelectSeq(links, LAMBDA l : ~IsObjectLink(l))
  IN IF Len(roots) > 1 THEN << >>
     ELSE [id \in { l.path[1] : l \in Range(objs) } |->
             { l.path[2] : l \in { k \in Range(objs) : k.path[1] = id /\ Len(k.path) = 2 } }]

-----------------------------------------------------------------------------
(* The device is described step by step.                                     *)

FormatInit ==
  device = [name |-> "d", msisdn |-> FALSE, binding |-> {"unknown"}, lifetime |-> 0,
            altPath |-> 0, objectList |-> << >>]

\* prv_getMandatoryInfo: the lifetime and the binding come from the server object.
MandatoryInfo ==
  \E b \in SUBSET (Transports \cup {"Q"}), l \in Lifetimes :
     /\ device.binding = {"unknown"} /\ b # {}
     /\ device' = [device EXCEPT !.binding = StringToBinding(b), !.lifetime = l]

\* lwm2m_configure with a number and an alternative path.
Configure ==
  \E n \in BOOLEAN, a \in AltPathLens :
     device' = [device EXCEPT !.msisdn = n, !.altPath = a]

\* lwm2m_add_object and the instances the application gives it.
AddObject ==
  \E id \in ObjectIds, instances \in SUBSET InstanceIds :
     /\ id \notin DOMAIN device.objectList
     /\ device' = [device EXCEPT !.objectList =
          [o \in DOMAIN @ \cup {id} |-> IF o = id THEN instances ELSE @[o]]]

FormatNext == MandatoryInfo \/ Configure \/ AddObject

FormatSpec == FormatInit /\ [][FormatNext]_device

-----------------------------------------------------------------------------
(* Properties.                                                               *)

\* The server reads from a registration the parameters the client is configured
\* with and every object but the security object, with every instance. In queue
\* mode it refuses the query: the length of "Q" is compared with that of "b=".
RegisterRead ==
  LET q == GetParameters(RegistrationQuery(device))
      read == DecodeRegisterPayload(RegisterPayload(device))
  IN /\ DOMAIN read = DOMAIN device.objectList \ {LWM2M_SECURITY_OBJECT_ID}
     /\ \A id \in DOMAIN read : read[id] = device.objectList[id]
     /\ IF "Q" \in device.binding THEN ~q.ok
        ELSE device.binding # {"unknown"} =>
               /\ q.ok
               /\ q.name = device.name /\ q.lifetime = device.lifetime
               /\ q.msisdn = device.msisdn /\ q.binding = device.binding
               /\ q.version = "1.1"

\* The buffers computed beforehand hold the query and the list, unless the
\* OSCORE object is listed, whose links are not counted.
RegisterFits ==
  /\ QueryWritten(device, RegistrationQueryLength(device)) # 0
  /\ LWM2M_OSCORE_OBJECT_ID \notin DOMAIN device.objectList =>
       PayloadWritten(device, RegisterPayloadBufferLength(device)) # 0

\* A Register request fits its buffers and says what the client has to say
\* (registration.c, objects.c, management.c).
RegisterExact == RegisterRead /\ RegisterFits
=============================================================================
