------------------------------- MODULE LwCoap -------------------------------
(* The messages of the LwM2M core: what the setters of er-coap-13 put in a   *)
(* packet, the buffer computed for it, its bytes, and what a receiver reads,  *)
(* be it er-coap-13 itself or libcoap, to which this project hands its        *)
(* messages. Requests carry the URI of an object, an instance, a resource or  *)
(* one of its instances as path segments; responses carry none.               *)
EXTENDS CoapPdu, LwData

CONSTANTS
  MessageUris,    \* sequences of one to four numbers, none in a response
  AltPath,        \* the characters of the alternative path, none if empty
  IntValues,      \* of the options that hold a number
  QueryLengths,   \* characters of a query or location segment
  BlockSizesOffered,
  MaxFields       \* bound on the options set beside the path

VARIABLE packet   \* coap_packet_t: its token, its options by number, its payload

COAP_MAX_OPTION_HEADER_LEN == 5
COAP_MAX_ACCEPT_NUM == 2
LWM2M_MAX_ID == 65535

\* Options that hold bytes, numbers, several segments, blocks.
ByteOptions == {1, 3, 4, 35}
IntOptions == {5, 6, 7, 12, 14, 28}
MultiOptions == {8, 11, 15}
OBSERVE == 6
URI_PATH == 11
ACCEPT == 17
LOCATION_QUERY == 20
PROXY_URI == 35
BlockOptions == {23, 27}

-----------------------------------------------------------------------------
(* Writing.                                                                  *)

\* transaction_new: the alternative path and the numbers of the URI.
UriSegments(uri) ==
  (IF AltPath = <<>> THEN <<>> ELSE <<AltPath>>) \o [k \in DOMAIN uri |-> UintToText(uri[k])]

\* coap_add_multi_option: the length of a segment is kept in one byte.
Segment(s) == SubSeq(s, 1, Len(s) % ByteRange)

\* coap_set_header_uri_query and its like: the text is split at each separator;
\* a part that is empty is lost at the end only.
Split(parts) ==
  LET kept == IF Len(parts) > 1 /\ Last(parts) = <<>> THEN Front(parts) ELSE parts
  IN [k \in DOMAIN kept |-> Segment(kept[k])]

\* coap_serialize_array_option of Location-Query, kept as one text, here the
\* parts between its separators: each part is an option.
QueryParts(parts) == IF Len(parts) > 1 /\ Last(parts) = <<>> THEN Front(parts) ELSE parts

\* The values written for an option.
ValuesOf(m, n) == IF n = LOCATION_QUERY THEN QueryParts(m.options[n]) ELSE m.options[n]

\* coap_serialize_int_option: as few bytes as the number needs, none for 0.
IntBytes(v) ==
  LET n == Cardinality({ k \in 0..3 : v >= ByteRange ^ k })
  IN [k \in 1..n |-> (v \div ByteRange ^ (n - k)) % ByteRange]

\* coap_log_2.
Log2(v) == Max({ k \in 0..15 : 2 ^ k <= v })

\* A block's number, its more flag and the exponent of its size in one number.
BlockNumber(b) == b.num * 16 + (IF b.more THEN 8 ELSE 0) + Log2(b.size \div 16)

OptionBytes(number, v) ==
  IF number = 5 THEN <<>>
  ELSE IF number \in IntOptions \cup {ACCEPT} THEN IntBytes(v)
  ELSE IF number \in BlockOptions THEN IntBytes(BlockNumber(v)) ELSE v

\* coap_set_option_header.
OptionHeader(delta, length) ==
  LET Nib(v) == IF v < 13 THEN v ELSE IF v <= ByteRange + 12 THEN 13 ELSE 14
      Field(v) == IF v > ByteRange + 12
                  THEN <<((v - Wide) \div ByteRange) % ByteRange, (v - Wide) % ByteRange>>
                  ELSE IF v > 12 THEN <<v - 13>> ELSE <<>>
  IN <<Nib(delta) * 16 + Nib(length)>> \o Field(delta) \o Field(length)

\* coap_serialize_message, its options in the order of their numbers, when the
\* values of one option are all written with its delta.
SerializeMessageFlat(m) ==
  LET numbers == SetToSortSeq(DOMAIN m.options, <)
      Delta(i) == numbers[i] - (IF i = 1 THEN 0 ELSE numbers[i - 1])
      Written(i) ==
        LET values == ValuesOf(m, numbers[i])
        IN FlattenSeq([k \in DOMAIN values |->
             LET b == OptionBytes(numbers[i], values[k])
             IN OptionHeader(Delta(i), Len(b)) \o b])
  IN <<64 + Len(m.token), 1, 0, 0>> \o m.token \o FlattenSeq([i \in DOMAIN numbers |-> Written(i)])
     \o (IF m.payload = <<>> THEN <<>> ELSE <<COAP_PAYLOAD_START>> \o m.payload)

\* coap_serialize_message, its options in the order of their numbers
\* (coap_serialize_int_option, _array_option and _multi_option).
SerializeMessage(m) ==
  LET numbers == SetToSortSeq(DOMAIN m.options, <)
      Delta(i, k) == IF k > 1 THEN 0 ELSE numbers[i] - (IF i = 1 THEN 0 ELSE numbers[i - 1])
      Written(i) ==
        LET values == ValuesOf(m, numbers[i])
        IN FlattenSeq([k \in DOMAIN values |->
             LET b == OptionBytes(numbers[i], values[k])
             IN OptionHeader(Delta(i, k), Len(b)) \o b])
  IN <<64 + Len(m.token), 1, 0, 0>> \o m.token \o FlattenSeq([i \in DOMAIN numbers |-> Written(i)])
     \o (IF m.payload = <<>> THEN <<>> ELSE <<COAP_PAYLOAD_START>> \o m.payload)

\* coap_serialize_get_size: the most a header may take for each option, whose
\* bytes are counted for texts only; Location-Query counts as one option.
SerializeGetSize(m) ==
  4 + Len(m.payload) + Len(m.token)
  + MapThenSumSet(LAMBDA n :
      IF n = LOCATION_QUERY
      THEN COAP_MAX_OPTION_HEADER_LEN + Len(FlattenSeq(m.options[n])) + Len(m.options[n]) - 1
      ELSE MapThenSumSet(LAMBDA k :
             COAP_MAX_OPTION_HEADER_LEN
             + (IF n \in ByteOptions \cup MultiOptions THEN Len(m.options[n][k]) ELSE 0),
             DOMAIN m.options[n]), DOMAIN m.options)
  + (IF m.payload = <<>> THEN 0 ELSE 1)

-----------------------------------------------------------------------------
(* Reading.                                                                  *)

\* The option at the start of b, as the loop of coap_parse_message reads it: a
\* length nibble of 15 is a length.
ReadOption(b) ==
  LET Width(n) == IF n = 14 THEN 2 ELSE IF n = 13 THEN 1 ELSE 0
      Value(n, at) == IF n = 14 THEN Wide + b[at] * ByteRange + b[at + 1]
                      ELSE IF n = 13 THEN 13 + b[at] ELSE n
      d == b[1] \div 16
      l == b[1] % 16
      header == 1 + Width(d) + Width(l)
      length == Value(l, 2 + Width(d))
  IN [delta |-> Value(d, 2), value |-> SubSeq(b, header + 1, header + length),
      rest |-> SubSeq(b, header + length + 1, Len(b)), fits |-> header + length <= Len(b)]

\* coap_parse_int_option.
ParseInt(b) == FoldLeft(LAMBDA acc, x : acc * ByteRange + x, 0, b)

\* The value kept of an option; of a block, its number, flag and size.
ParsedValue(number, b) ==
  IF number = 5 THEN 0
  ELSE IF number \in IntOptions \cup {ACCEPT} THEN ParseInt(b)
  ELSE IF number \in BlockOptions
  THEN [num |-> ParseInt(b) \div 16, more |-> (ParseInt(b) \div 8) % 2 = 1,
        size |-> 16 * 2 ^ (ParseInt(b) % 8)]
  ELSE IF number \in {1, 4} THEN SubSeq(b, 1, Min({8, Len(b)})) ELSE b

\* An option that is kept only once replaces the one before; a third Accept is
\* left out. Parts of a Location-Query are put together again, unless the text
\* so far is empty (coap_merge_multi_option).
WithOption(options, number, v) ==
  LET old == IF number \in DOMAIN options THEN options[number] ELSE <<>>
      new == IF \/ number \in MultiOptions
                \/ number = ACCEPT /\ Len(old) < COAP_MAX_ACCEPT_NUM
                \/ number = LOCATION_QUERY /\ FlattenSeq(old) # <<>>
             THEN Append(old, v) ELSE IF number = ACCEPT THEN old ELSE <<v>>
  IN [n \in DOMAIN options \cup {number} |-> IF n = number THEN new ELSE options[n]]

\* The rest of a message, its options after the number and those read so far;
\* a message for a proxy is refused.
RECURSIVE ParseRest(_, _, _)
ParseRest(b, number, options) ==
  IF b = <<>> THEN [ok |-> TRUE, options |-> options, payload |-> <<>>]
  ELSE IF b[1] \div 16 = 15 THEN [ok |-> TRUE, options |-> options, payload |-> Tail(b)]
  ELSE LET o == ReadOption(b)
           n == number + o.delta
           known == ByteOptions \cup IntOptions \cup MultiOptions \cup BlockOptions
                    \cup {ACCEPT, LOCATION_QUERY}
       IN IF ~o.fits \/ n = PROXY_URI \/ (n \notin known /\ n % 2 = 1) THEN [ok |-> FALSE]
          ELSE ParseRest(o.rest, n,
                         IF n \in known THEN WithOption(options, n, ParsedValue(n, o.value))
                         ELSE options)

\* coap_parse_message.
ParseMessage(wire) ==
  LET length == Min({8, wire[1] % 16})
      read == ParseRest(SubSeq(wire, 5 + length, Len(wire)), 0, << >>)
  IN IF wire[1] \div 64 # 1 \/ ~read.ok THEN [ok |-> FALSE]
     ELSE read @@ [token |-> SubSeq(wire, 5, 4 + length)]

\* uri_decode for a request on objects: the segment of the alternative path may
\* be any beginning of it; one of the numbers must be less than 65535.
UriDecode(segments) ==
  LET alt == AltPath = <<>> \/ (segments # <<>> /\ IsPrefix(segments[1], AltPath))
      path == IF AltPath = <<>> THEN segments ELSE Tail(segments)
      numbers == [k \in DOMAIN path |-> TextToUInt(path[k])]
  IN IF ~alt \/ path = <<>> \/ Len(path) > 4 THEN Failed
     ELSE IF \E k \in DOMAIN path : ~numbers[k].ok \/ numbers[k].value >= LWM2M_MAX_ID
     THEN Failed ELSE Done([k \in DOMAIN path |-> numbers[k].value])

-----------------------------------------------------------------------------
(* The setters.                                                              *)

PacketInit ==
  \E u \in MessageUris :
    packet = [token |-> <<>>, payload |-> <<>>, uri |-> u,
              options |-> [n \in IF u = <<>> THEN {} ELSE {URI_PATH} |-> UriSegments(u)]]

Set(number, values) ==
  /\ Cardinality(DOMAIN packet.options \ {URI_PATH}) < MaxFields \/ number \in DOMAIN packet.options
  /\ packet' = [packet EXCEPT !.options =
                  [n \in DOMAIN @ \cup {number} |-> IF n = number THEN values ELSE @[n]]]

\* coap_set_header_token, _etag and _if_match keep eight bytes.
SetToken == \E n \in TokenLengths : packet' = [packet EXCEPT !.token = TokenOf(Min({8, n}))]

SetEtag == \E n \in TokenLengths \ {0}, o \in {1, 4} : Set(o, <<TokenOf(Min({8, n}))>>)

\* coap_set_header_content_type, _max_age and _size, and _if_none_match.
SetInt == \E v \in IntValues, o \in {5, 12, 14, 28} : Set(o, <<IF o = 5 THEN 0 ELSE v>>)

\* coap_set_header_observe keeps three bytes.
SetObserve == \E v \in IntValues : Set(OBSERVE, <<v % ByteRange ^ 3>>)

\* coap_set_header_accept keeps the first two, of two bytes.
SetAccept ==
  \E v \in IntValues :
    LET old == IF ACCEPT \in DOMAIN packet.options THEN packet.options[ACCEPT] ELSE <<>>
    IN Len(old) < COAP_MAX_ACCEPT_NUM /\ Set(ACCEPT, Append(old, v % ByteRange ^ 2))

\* coap_set_header_uri_query and _location_path.
SetSegments ==
  \E o \in {8, 15}, p, q \in QueryLengths : Set(o, Split(<<Blob(p), Blob(q)>>))

\* coap_set_header_uri_host and _proxy_uri.
SetText == \E o \in {3, PROXY_URI}, n \in QueryLengths : Set(o, <<Blob(n)>>)

\* coap_set_header_location_query: two parts, or four that are not empty.
SetLocationQuery ==
  \E p, q \in QueryLengths :
    \/ Set(LOCATION_QUERY, <<Blob(p), Blob(q)>>)
    \/ p # 0 /\ q # 0 /\ Set(LOCATION_QUERY, <<Blob(p), Blob(q), Blob(q), Blob(q)>>)

\* coap_set_header_block1 and _block2 refuse sizes and numbers out of bounds.
SetBlock ==
  \E o \in BlockOptions, size \in BlockSizesOffered, more \in BOOLEAN, num \in IntValues :
    /\ size \in 16..2048 /\ num < ByteRange ^ 3 \div 16
    /\ Set(o, <<[num |-> num, more |-> more, size |-> size]>>)

\* coap_set_payload.
SetPayload == \E n \in DataLengths : packet' = [packet EXCEPT !.payload = Blob(n)]

PacketNext ==
  SetToken \/ SetEtag \/ SetInt \/ SetObserve \/ SetAccept \/ SetSegments \/ SetText
  \/ SetLocationQuery \/ SetBlock \/ SetPayload

PacketSpec == PacketInit /\ [][PacketNext]_packet

-----------------------------------------------------------------------------
(* Properties.                                                               *)

\* The options of a message as libcoap lists them.
Flat(m) ==
  LET numbers == SetToSortSeq(DOMAIN m.options, <)
  IN FlattenSeq([i \in DOMAIN numbers |->
       [k \in DOMAIN ValuesOf(m, numbers[i]) |->
          [number |-> numbers[i],
           value |-> OptionBytes(numbers[i], ValuesOf(m, numbers[i])[k])]]])

\* What is read of the parts of a Location-Query: an empty one in front is lost.
MergedQuery(parts) ==
  LET sent == QueryParts(parts)
  IN IF Len(sent) > 1 /\ sent[1] = <<>> THEN Tail(sent) ELSE sent

\* Either receiver finds in the bytes what the setters put in the packet, and
\* the object, instance and resource that the transaction was for. er-coap-13
\* refuses a message only if it is for a proxy, and loses of a Location-Query
\* an empty part at its ends; libcoap refuses a message only for the length of
\* an option.
MessageRead ==
  LET wire == SerializeMessage(packet)
      lw == ParseMessage(wire)
      lib == PduParse("udp", wire)
      flat == Flat(packet)
  IN /\ IF PROXY_URI \in DOMAIN packet.options THEN ~lw.ok
        ELSE /\ lw.ok /\ lw.token = packet.token /\ lw.payload = packet.payload
             /\ lw.options = [n \in DOMAIN packet.options |->
                  IF n = LOCATION_QUERY THEN MergedQuery(packet.options[n]) ELSE packet.options[n]]
             /\ packet.uri # <<>> => UriDecode(lw.options[URI_PATH]) = Done(packet.uri)
     /\ IF \A k \in DOMAIN flat : BaseLengthOK(flat[k].number, Len(flat[k].value))
        THEN lib = [ok |-> TRUE, code |-> 1, token |-> packet.token, options |-> flat,
                    data |-> packet.payload]
        ELSE ~lib.ok

\* The bytes that coap_serialize_get_size does not count. A Max-Age or Size of
\* four bytes is counted as 5 and takes 6 when no option comes less than 13
\* before it. A Location-Query is counted with one header of 5 bytes; each of its
\* parts takes one, of two bytes where the part has 13 characters or more.
CountedShort(m) ==
  LET before(n) == Max({0} \cup { k \in DOMAIN m.options : k < n })
      wide == { n \in {14, 28} \cap DOMAIN m.options :
                  m.options[n][1] >= ByteRange ^ 3 /\ n - before(n) >= 13 }
      long == IF LOCATION_QUERY \notin DOMAIN m.options THEN {}
              ELSE { k \in DOMAIN m.options[LOCATION_QUERY] :
                       Len(m.options[LOCATION_QUERY][k]) >= 13 }
  IN Cardinality(wide) + Max({0, Cardinality(long) - 3})

\* The message fits the buffer allocated for it, but for those bytes.
MessageFits == Len(SerializeMessage(packet)) <= SerializeGetSize(packet) + CountedShort(packet)

\* What the core writes, either CoAP implementation reads, from a buffer that
\* is large enough but for the bytes of CountedShort (er-coap-13.c, pdu.c, uri.c).
MessageExact == MessageRead /\ MessageFits
=============================================================================
