------------------------------- MODULE LwData -------------------------------
(* Resource values on the wire: the tree of lwm2m_data_t nodes that a Read    *)
(* answers with, and its text, opaque and TLV encodings (data.c, tlv.c and   *)
(* the conversions of utils.c).                                              *)
(*                                                                           *)
(* A node is a record with its type, its id and one field for the value,     *)
(* whose name tells the kind of the value: buffer, number, real, flag, link  *)
(* or children. Texts and buffers are sequences of byte values. Radix stands  *)
(* for the 256 values of a byte in the lengths, ids and integers of TLV: with *)
(* a smaller one the widest length and integer fields come within reach.     *)
EXTENDS Integers, Sequences, SequencesExt

CONSTANT Radix
ASSUME RadixAssumption == Radix \in 10..256 /\ Radix % 2 = 0

Containers == {"object", "instance", "multiple"}
Buffers == {"string", "opaque", "corelink"}

Failed == [ok |-> FALSE]
Done(x) == [ok |-> TRUE, value |-> x]

\* Characters by their codes.
Minus == 45
Dot == 46
Colon == 58
Zero == 48
Padding == 61

-----------------------------------------------------------------------------
(* Texts.                                                                    *)

\* utils_uintToText, with room enough.
RECURSIVE UintToText(_)
UintToText(n) == IF n < 10 THEN <<Zero + n>> ELSE Append(UintToText(n \div 10), Zero + (n % 10))

\* utils_intToText.
IntToText(n) == IF n < 0 THEN <<Minus>> \o UintToText(-n) ELSE UintToText(n)

IsDigit(c) == c \in Zero..(Zero + 9)

\* utils_textToUInt: refused when empty or when a character is no digit. (A
\* number that grows past the last digit of the largest one wraps.)
TextToUInt(t) ==
  LET max == Radix ^ 8 - 1
      Step(acc, c) ==
        IF ~acc.ok \/ ~IsDigit(c) \/ acc.value > max \div 10 THEN Failed
        ELSE Done((acc.value * 10 + (c - Zero)) % (max + 1))
  IN IF t = <<>> THEN Failed ELSE FoldLeft(Step, Done(0), t)

\* utils_textToInt: a lone minus sign reads as 0.
TextToInt(t) ==
  LET negative == t # <<>> /\ t[1] = Minus
      digits == IF negative THEN Tail(t) ELSE t
      read == IF negative /\ digits = <<>> THEN Done(0) ELSE TextToUInt(digits)
  IN IF ~read.ok \/ read.value > (Radix ^ 8 \div 2) - (IF negative THEN 0 ELSE 1) THEN Failed
     ELSE Done(IF negative THEN -read.value ELSE read.value)

\* A real number is counted in tenths. utils_floatToText writes a fraction
\* only where there is one; utils_textToFloat reads it back.
RealToText(r) ==
  LET size == IF r < 0 THEN -r ELSE r
  IN (IF r < 0 THEN <<Minus>> ELSE <<>>) \o UintToText(size \div 10)
     \o (IF size % 10 = 0 THEN <<>> ELSE <<Dot, Zero + (size % 10)>>)

TextToReal(t) ==
  LET negative == t # <<>> /\ t[1] = Minus
      body == IF negative THEN Tail(t) ELSE t
      dots == { k \in DOMAIN body : body[k] = Dot }
      whole == IF dots = {} THEN body ELSE SubSeq(body, 1, (CHOOSE k \in dots : TRUE) - 1)
      read == IF whole = <<>> THEN Done(0) ELSE TextToUInt(whole)
      tenths == IF dots = {} THEN 0 ELSE body[Len(body)] - Zero
      size == read.value * 10 + tenths
  IN IF t = <<>> \/ ~read.ok \/ (body # <<>> /\ Last(body) = Dot) THEN Failed
     ELSE Done(IF negative THEN -size ELSE size)

\* utils_objLinkToText and utils_textToObjLink.
ObjLinkToText(link) == UintToText(link[1]) \o <<Colon>> \o UintToText(link[2])

TextToObjLink(t) ==
  LET seps == { k \in DOMAIN t : t[k] = Colon }
      sep == CHOOSE k \in seps : \A j \in seps : k <= j
      object == TextToUInt(SubSeq(t, 1, sep - 1))
      instance == TextToUInt(SubSeq(t, sep + 1, Len(t)))
  IN IF seps = {} THEN Failed
     ELSE IF ~object.ok \/ ~instance.ok THEN Failed
     ELSE Done(<<object.value, instance.value>>)

\* A digit of Base64 (b64Alphabet, prv_base64Value), by a code of its own.
B64Digit(v) == 128 + v
B64Value(c) == c - 128

\* utils_base64Encode: three bytes in four digits, the last group padded.
RECURSIVE Base64Encode(_)
Base64Encode(b) ==
  LET At(k) == IF k <= Len(b) THEN b[k] ELSE 0
      digits == <<At(1) \div 4, (At(1) % 4) * 16 + (At(2) \div 16),
                  (At(2) % 16) * 4 + (At(3) \div 64), At(3) % 64>>
  IN IF b = <<>> THEN <<>>
     ELSE [k \in 1..4 |-> IF k <= Len(b) + 1 THEN B64Digit(digits[k]) ELSE Padding]
          \o Base64Encode(SubSeq(b, 4, Len(b)))

\* utils_base64Decode of whole groups. The third byte of a group takes its two
\* high bits from the second digit, where the encoder put them in the third.
RECURSIVE Base64Decode(_)
Base64Decode(t) ==
  LET v == [k \in 1..4 |-> B64Value(t[k])]
      bytes == <<v[1] * 4 + (v[2] \div 16), v[2] * 16 + (v[3] \div 4), v[2] * 64 + v[4]>>
      n == IF t[3] = Padding THEN 1 ELSE IF t[4] = Padding THEN 2 ELSE 3
  IN IF t = <<>> THEN <<>>
     ELSE [k \in 1..n |-> bytes[k] % 256] \o Base64Decode(SubSeq(t, 5, Len(t)))

-----------------------------------------------------------------------------
(* Values as bytes, in network order.                                        *)

BigEndian(v, n) == [k \in 1..n |-> (v \div Radix ^ (n - k)) % Radix]
Unsigned(b) == FoldLeft(LAMBDA acc, x : acc * Radix + x, 0, b)
Signed(b) == Unsigned(<<IF b[1] < Radix \div 2 THEN b[1] ELSE b[1] - Radix>> \o Tail(b))

\* prv_encodeInt and prv_encodeUInt: the narrowest of 1, 2, 4 and 8 bytes.
EncodeInt(v) ==
  LET Fits(n) == -(Radix ^ n \div 2) <= v /\ v < Radix ^ n \div 2
  IN BigEndian(v, IF Fits(1) THEN 1 ELSE IF Fits(2) THEN 2 ELSE IF Fits(4) THEN 4 ELSE 8)

EncodeUInt(v) ==
  BigEndian(v, IF v < Radix THEN 1 ELSE IF v < Radix ^ 2 THEN 2
               ELSE IF v < Radix ^ 4 THEN 4 ELSE 8)

\* prv_encodeFloat: 4 bytes up to the largest single-precision number, else 8.
\* The first byte stands for the value, the others are not interpreted.
SingleMax == Radix ^ 2
EncodeFloat(r) ==
  [k \in 1..(IF -SingleMax <= r /\ r <= SingleMax THEN 4 ELSE 8) |-> IF k = 1 THEN r ELSE 0]

\* The value of a resource in TLV (tlv_serialize's cases).
TlvValue(node) ==
  CASE node.type \in Buffers -> node.buffer
    [] node.type = "int"   -> EncodeInt(node.number)
    [] node.type = "uint"  -> EncodeUInt(node.number)
    [] node.type = "float" -> EncodeFloat(node.real)
    [] node.type = "bool"  -> <<IF node.flag THEN 1 ELSE 0>>
    [] node.type = "link"  -> BigEndian(node.link[1], 2) \o BigEndian(node.link[2], 2)

\* lwm2m_data_decode_int, _uint, _float and _bool: what the application reads
\* from a node of any type.
DecodeInt(node) ==
  CASE node.type \in {"int", "uint"} -> Done(node.number)
    [] node.type = "string" -> TextToInt(node.buffer)
    [] node.type = "opaque" /\ Len(node.buffer) \in {1, 2, 4, 8} -> Done(Signed(node.buffer))
    [] OTHER -> Failed

DecodeUInt(node) ==
  CASE node.type = "uint" \/ (node.type = "int" /\ node.number >= 0) -> Done(node.number)
    [] node.type = "string" -> TextToUInt(node.buffer)
    [] node.type = "opaque" /\ Len(node.buffer) \in {1, 2, 4, 8} -> Done(Unsigned(node.buffer))
    [] OTHER -> Failed

DecodeFloat(node) ==
  CASE node.type = "float" -> Done(node.real)
    [] node.type \in {"int", "uint"} -> Done(10 * node.number)
    [] node.type = "string" -> TextToReal(node.buffer)
    [] node.type = "opaque" /\ Len(node.buffer) \in {4, 8} -> Done(node.buffer[1])
    [] OTHER -> Failed

DecodeBool(node) ==
  CASE node.type = "bool" -> Done(node.flag)
    [] node.type = "string" /\ node.buffer \in {<<Zero>>, <<Zero + 1>>} ->
         Done(node.buffer = <<Zero + 1>>)
    [] node.type = "opaque" /\ node.buffer \in {<<0>>, <<1>>} -> Done(node.buffer = <<1>>)
    [] OTHER -> Failed

-----------------------------------------------------------------------------
(* TLV.                                                                      *)

\* prv_getHeaderLength.
HeaderLength(id, len) ==
  2 + (IF id >= Radix THEN 1 ELSE 0)
    + (IF len >= Radix ^ 2 THEN 3 ELSE IF len >= Radix THEN 2 ELSE IF len > 7 THEN 1 ELSE 0)

\* prv_getHeaderType, the two bits that remain of it under the mask; a
\* resource inside a multiple resource is an instance.
HeaderType(type, isInstance) ==
  CASE isInstance -> 1
    [] type = "instance" -> 0
    [] type = "multiple" -> 2
    [] OTHER -> 3

\* prv_createHeader: the type, the width of the id and of the length in the
\* first byte; a length of at most 7 is in that byte too.
CreateHeader(isInstance, type, id, len) ==
  LET lenField == IF len <= 7 THEN 0 ELSE IF len < Radix THEN 1 ELSE IF len < Radix ^ 2 THEN 2 ELSE 3
      wide == IF id >= Radix THEN 1 ELSE 0
  IN <<HeaderType(type, isInstance) * 64 + wide * 32 + lenField * 8
        + (IF lenField = 0 THEN len ELSE 0)>>
     \o BigEndian(id, 1 + wide) \o BigEndian(len, lenField)

\* prv_getLength: -1 when a node has no encoding.
RECURSIVE TlvLength(_)
TlvLength(nodes) ==
  LET Size(node) ==
        IF node.type \in {"instance", "multiple"} THEN TlvLength(node.children)
        ELSE IF node.type \in {"object", "undefined"} THEN -1 ELSE Len(TlvValue(node))
      Add(acc, node) ==
        IF acc = -1 \/ Size(node) = -1 THEN -1
        ELSE acc + HeaderLength(node.id, Size(node)) + Size(node)
  IN FoldLeft(Add, 0, nodes)

\* tlv_serialize: what it writes into the buffer of that length.
RECURSIVE TlvSerialize(_, _)
TlvSerialize(isInstance, nodes) ==
  LET Value(node) ==
        CASE node.type = "multiple" -> TlvSerialize(TRUE, node.children)
          [] node.type = "instance" -> TlvSerialize(isInstance, node.children)
          [] OTHER -> TlvValue(node)
      Item(node) ==
        CreateHeader(isInstance /\ node.type \notin Containers, node.type, node.id, Len(Value(node)))
        \o Value(node)
  IN IF TlvLength(nodes) <= 0 THEN <<>> ELSE FlattenSeq([k \in DOMAIN nodes |-> Item(nodes[k])])

\* lwm2m_decode_TLV when the id is taken from the byte after the type only.
DecodeTlvNarrow(b) ==
  IF Len(b) < 2 THEN Failed
  ELSE LET wide == (b[1] \div 32) % 2
           lenField == (b[1] \div 8) % 4
           index == 2 + lenField
           len == IF lenField = 0 THEN b[1] % 8 ELSE Unsigned(SubSeq(b, 3, index))
       IN IF Len(b) < index \/ Len(b) < index + len THEN Failed
          ELSE [ok |-> TRUE, type |-> b[1] \div 64, id |-> b[2],
                value |-> SubSeq(b, index + 1, index + len),
                rest |-> SubSeq(b, index + len + 1, Len(b))]

\* lwm2m_decode_TLV: the first item of a buffer.
DecodeTlv(b) ==
  IF Len(b) < 2 THEN Failed
  ELSE LET wide == (b[1] \div 32) % 2
           lenField == (b[1] \div 8) % 4
           index == 2 + wide + lenField
           len == IF lenField = 0 THEN b[1] % 8 ELSE Unsigned(SubSeq(b, 3 + wide, index))
       IN IF Len(b) < index THEN Failed
          ELSE IF Len(b) < index + len THEN Failed
          ELSE [ok |-> TRUE, type |-> b[1] \div 64, id |-> Unsigned(SubSeq(b, 2, 2 + wide)),
                value |-> SubSeq(b, index + 1, index + len),
                rest |-> SubSeq(b, index + len + 1, Len(b))]

\* tlv_parse: it ends at the first item it cannot decode and keeps the ones
\* before; an instance or a multiple resource without items refuses them all.
RECURSIVE TlvParse(_)
TlvParse(b) ==
  LET item == DecodeTlv(b)
      rest == TlvParse(item.rest)
      children == TlvParse(item.value)
      node == IF item.type \in {0, 2}
              THEN [type |-> IF item.type = 0 THEN "instance" ELSE "multiple", id |-> item.id,
                    children |-> children.value]
              ELSE [type |-> "opaque", id |-> item.id, buffer |-> item.value]
  IN IF ~item.ok THEN Done(<<>>)
     ELSE IF item.type \in {0, 2} /\ (~children.ok \/ children.value = <<>>) THEN Failed
     ELSE IF ~rest.ok THEN Failed ELSE Done(<<node>> \o rest.value)

-----------------------------------------------------------------------------
(* Text and opaque.                                                          *)

\* prv_textSerialize. The separator of an object link goes to the sixth byte,
\* whatever the length of the first number: elsewhere its NUL is sent.
TextSerialize(node) ==
  CASE node.type \in {"string", "corelink"} -> Done(node.buffer)
    [] node.type \in {"int", "uint"} -> Done(IntToText(node.number))
    [] node.type = "float" -> Done(RealToText(node.real))
    [] node.type = "bool" -> Done(<<IF node.flag THEN Zero + 1 ELSE Zero>>)
    [] node.type = "link" ->
         LET first == UintToText(node.link[1])
         IN Done(first \o <<IF Len(first) = 5 THEN Colon ELSE 0>> \o UintToText(node.link[2]))
    [] node.type = "opaque" -> Done(Base64Encode(node.buffer))
    [] OTHER -> Failed
=============================================================================
