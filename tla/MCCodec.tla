------------------------------- MODULE MCCodec -------------------------------
(* The encodings, each by itself: the values of a Read in five formats, a    *)
(* registration's query and list of objects, a libcoap PDU changed in place,  *)
(* and a message of the LwM2M core, as a whole and in blocks; and, from        *)
(* MCServer, the server that handles requests.                               *)
EXTENDS MCServer, LwCoap, LwJson, LwRegisterFormat, LwPacket

-----------------------------------------------------------------------------
(* Resource values around every limit of TLV for Radix = 12: lengths of 7, 8, *)
(* 12 and 144, one- and two-byte ids, integers of each width.                 *)

SomeUris == {<<3>>, <<3, 0>>, <<3, 0, 1>>, <<130, 14, 20>>}

Buf(n) == [k \in 1..n |-> (37 * k + 90) % 251]

Values ==
  { [type |-> "string", buffer |-> b] : b \in {<<>>, <<65>>, <<65, 1>>, <<1, 34, 92, 10>>} }
  \cup { [type |-> "opaque", buffer |-> Buf(n)] : n \in {0, 1, 2, 3, 7, 8, 11, 12, 143, 144} }
  \cup { [type |-> "corelink", buffer |-> <<60, 47>>] }
  \cup { [type |-> "int", number |-> n] : n \in {-7, -6, 5, 6, -73, 71, 72, -10368, -10369, 10368} }
  \cup { [type |-> "uint", number |-> n] : n \in {0, 11, 12, 144, 20735, 20736, 429981695} }
  \cup { [type |-> "float", real |-> r] : r \in {-5, 0, 30, 144, 145} }
  \cup { [type |-> "bool", flag |-> f] : f \in BOOLEAN }
  \cup { [type |-> "link", link |-> l] : l \in {<<3, 12>>, <<140, 0>>} }

Few == { [type |-> "int", number |-> -6], [type |-> "opaque", buffer |-> Buf(3)],
         [type |-> "string", buffer |-> <<66>>] }

Resources(V, id) == { [id |-> id] @@ v : v \in V }
Multiples(V, id) ==
  { [id |-> id, type |-> "multiple", children |-> c] :
      c \in { <<[id |-> 0] @@ v>> : v \in V }
            \cup { <<[id |-> 1] @@ v, [id |-> 12] @@ w>> : v \in V, w \in Few } }
Instance(id, resources) == [id |-> id, type |-> "instance", children |-> resources]

SomeTrees(u) ==
  CASE Len(u) = 3 -> { <<n>> : n \in Resources(Values, u[3]) \cup Multiples(Values, u[3]) }
    [] Len(u) = 2 -> { <<n>> : n \in Resources(Values, 1) \cup Multiples(Few, 1) }
                     \cup { <<n, o>> : n \in Resources(Values, 1),
                                       o \in Resources(Few, 12) \cup Multiples(Few, 12) }
    [] Len(u) = 1 -> { <<Instance(0, <<n>>)>> : n \in Resources(Few, 1) \cup Multiples(Few, 12) }
                     \cup { <<Instance(0, <<n, o>>), Instance(12, <<o>>)>> :
                              n \in Resources(Values, 1), o \in Multiples(Few, 2) }

SomeMessageUris == {<<>>, <<3>>, <<3, 0>>, <<1024, 65534, 12>>, <<3, 0, 1, 12>>}
SomeAltPath == <<108, 119>>

-----------------------------------------------------------------------------

codecvars == <<transfer, device, pdu, asked, packet, lwpvars>>
servervars == <<exchvars, cachevars>>

CodecInit ==
  /\ part \in {"exchange", "cache", "data", "register", "pdu", "message", "blocks",
              "pieces"}
  /\ ServerInit
  /\ IF part = "data" THEN DataInit ELSE transfer = [step |-> "none"]
  /\ FormatInit /\ PduInit /\ PacketInit /\ LwpInit
  /\ part # "pdu" => pdu.code = 1
  /\ part # "message" => packet.uri = <<>>
  /\ part # "pieces" => fetched.size = Min(PayloadSizes) /\ fetched.szx = Min(BlockSizes)

CodecNext ==
  \/ part = "data" /\ DataNext /\ UNCHANGED <<part, device, pdu, asked, packet, lwpvars>>
  \/ part = "register" /\ FormatNext /\ UNCHANGED <<part, transfer, pdu, asked, packet, lwpvars>>
  \/ part = "pdu" /\ PduNext /\ UNCHANGED <<part, transfer, device, packet, lwpvars>>
  \/ part = "message" /\ PacketNext /\ UNCHANGED <<part, transfer, device, pdu, asked, lwpvars>>
  \/ /\ part = "blocks" /\ (SendBlock \/ \E m \in sent : ReceiveBlock(m))
     /\ UNCHANGED <<part, transfer, device, pdu, asked, packet>>
  \/ part = "pieces" /\ FetchBlock /\ UNCHANGED <<part, transfer, device, pdu, asked, packet>>

\* One part runs.
PartNext ==
  \/ ServerNext /\ UNCHANGED codecvars
  \/ CodecNext /\ UNCHANGED servervars

CodecSpec == CodecInit /\ [][PartNext]_<<part, servervars, codecvars>>
=============================================================================
