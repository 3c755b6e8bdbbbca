------------------------------ MODULE CoapPdu ------------------------------
(* The bytes of a CoAP message and the operations that change them in place  *)
(* (pdu.c, option.c). An option is written with the difference between its   *)
(* number and the one before, in one to three bytes, so whatever is put in   *)
(* or taken out in the middle changes the header of the option that follows. *)
(*                                                                           *)
(* A PDU is the record of its bytes from the token on (used_size is their    *)
(* number), alloc_size, token_length, max_opt, and the offset of its payload, *)
(* 0 when there is none. ByteRange is the number of values of a byte in the   *)
(* extended fields, 256 in the code: a smaller one brings their limits near.  *)
EXTENDS Naturals, Integers, Sequences, SequencesExt, FiniteSets, FiniteSetsExt

CONSTANTS
  ByteRange,
  OptionNumbers, OptionLengths,   \* of the options that are put in
  TokenLengths, DataLengths, Codes,
  MaxOptions,                     \* bound on the options of a PDU
  AllocUnit, MaxSize              \* 256 in the code; max_size

ASSUME PduAssumption ==
  /\ ByteRange \in 1..256 /\ AllocUnit \in Nat \ {0} /\ MaxSize \in Nat
  /\ OptionNumbers \subseteq Nat /\ OptionLengths \subseteq Nat /\ DataLengths \subseteq Nat
  /\ TokenLengths \subseteq Nat /\ Codes \subseteq 1..255

VARIABLES
  pdu,     \* the message as bytes
  asked    \* the token, the options and the payload that were put in

pduvars == <<pdu, asked>>

COAP_PAYLOAD_START == 255
COAP_MAX_OPT == 65535
COAP_OPTION_HOP_LIMIT == 16
COAP_OPTION_PROXY_URI == 35
COAP_OPTION_PROXY_SCHEME == 39
COAP_OPT_FILTER_SHORT == 6
COAP_OPT_FILTER_LONG == 2

IsRequest(code) == code < 32
IsSignaling(code) == code \div 32 = 7

\* The first value that takes two extended bytes: 269.
Wide == 13 + ByteRange

-----------------------------------------------------------------------------
(* Options.                                                                  *)

Nibble(v) == IF v < 13 THEN v ELSE IF v < Wide THEN 13 ELSE 14

High(v) == ((v - Wide) \div ByteRange) % ByteRange
Low(v) == (v - Wide) % ByteRange
Extended(v) ==
  IF v < 13 THEN <<>> ELSE IF v < Wide THEN <<v - 13>> ELSE <<High(v), Low(v)>>

\* coap_opt_setheader with room enough.
SetHeader(delta, length) ==
  <<Nibble(delta) * 16 + Nibble(length)>> \o Extended(delta) \o Extended(length)

\* coap_opt_encode_size.
EncodeSize(delta, length) ==
  1 + (IF delta < 13 THEN 0 ELSE IF delta < Wide THEN 1 ELSE 2)
    + (IF length < 13 THEN 0 ELSE IF length < Wide THEN 1 ELSE 2) + length

\* coap_opt_parse of the bytes b: the size of its header, its delta and its
\* length; not ok for the payload marker or when the bytes do not suffice.
OptParse(b) ==
  IF b = <<>> THEN [ok |-> FALSE]
  ELSE LET Width(n) == IF n = 14 THEN 2 ELSE IF n = 13 THEN 1 ELSE 0
           Value(n, at) == IF n = 14 THEN Wide + b[at] * ByteRange + b[at + 1]
                           ELSE IF n = 13 THEN 13 + b[at] ELSE n
           d == b[1] \div 16
           l == b[1] % 16
           header == 1 + Width(d) + Width(l)
       IN IF d = 15 \/ l = 15 \/ Len(b) < header THEN [ok |-> FALSE]
          ELSE LET length == Value(l, 2 + Width(d))
               IN IF Len(b) < header + length THEN [ok |-> FALSE]
                  ELSE [ok |-> TRUE, header |-> header, delta |-> Value(d, 2), length |-> length]

\* coap_option_next until the end, the payload marker or a malformed option:
\* where each option begins, its number, and what OptParse tells of it.
RECURSIVE OptionsFrom(_, _, _), OptionThenRest(_, _, _, _)
OptionsFrom(bytes, at, number) ==
  IF at > Len(bytes) \/ (at <= Len(bytes) /\ bytes[at] = COAP_PAYLOAD_START) THEN <<>>
  ELSE OptionThenRest(OptParse(SubSeq(bytes, at, Len(bytes))), bytes, at, number)

OptionThenRest(o, bytes, at, number) ==
  IF ~o.ok THEN <<>>
  ELSE <<[at |-> at, number |-> number + o.delta, delta |-> o.delta,
          header |-> o.header, length |-> o.length]>>
       \o OptionsFrom(bytes, at + o.header + o.length, number + o.delta)

\* The options an iterator meets (coap_option_iterator_init).
OptionsOf(p) == OptionsFrom(p.bytes, p.token_length + 1, 0)

\* coap_opt_value, with coap_opt_length.
OptValue(bytes, o) == SubSeq(bytes, o.at + o.header, o.at + o.header + o.length - 1)

\* The first option with a number (coap_check_option); 0 for none.
CheckOption(opts, number) ==
  LET found == { k \in DOMAIN opts : opts[k].number = number }
  IN IF found = {} THEN 0 ELSE Min(found)

\* coap_option_filter_op(FILTER_SET): at most so many numbers of each kind.
FilterSet(f, number) ==
  LET long == number > 255
      same == { n \in f : (n > 255) = long }
  IN IF Cardinality(same) >= (IF long THEN COAP_OPT_FILTER_LONG ELSE COAP_OPT_FILTER_SHORT)
     THEN f ELSE f \cup {number}

-----------------------------------------------------------------------------
(* Changing a PDU. Each operation gives the PDU and whether it succeeded.     *)

Success(p) == [ok |-> TRUE, pdu |-> p]
NoChange(p) == [ok |-> FALSE, pdu |-> p]

\* One operation after another, unless the first was refused.
Then(r, Op(_)) == IF r.ok THEN Op(r.pdu) ELSE r

\* coap_pdu_resize: a smaller size is only noted.
Resize(p, size) ==
  IF size > p.alloc_size /\ MaxSize # 0 /\ size > MaxSize THEN NoChange(p)
  ELSE Success([p EXCEPT !.alloc_size = size])

\* coap_pdu_check_resize: the size doubles until it suffices.
CheckResize(p, size) ==
  LET first == Max({AllocUnit, 2 * p.alloc_size})
      doubled == Min({ first * 2 ^ i : i \in 0..9 } \ 0..(size - 1))
  IN IF size <= p.alloc_size THEN Success(p)
     ELSE IF MaxSize # 0 /\ doubled > MaxSize
     THEN IF MaxSize < size THEN NoChange(p) ELSE Resize(p, MaxSize)
     ELSE Resize(p, doubled)

\* Bytes replaced by others before the payload, from the index `at' on.
Splice(p, at, rest) ==
  [p EXCEPT !.bytes = SubSeq(p.bytes, 1, at - 1) \o rest,
            !.data = IF @ = 0 THEN 0 ELSE @ + (at - 1 + Len(rest)) - Len(p.bytes)]

From(p, at) == SubSeq(p.bytes, at, Len(p.bytes))

\* coap_add_token.
AddToken(p, token) ==
  IF Len(token) > 8 \/ p.bytes # <<>> THEN NoChange(p)
  ELSE Then(CheckResize(p, Len(token)), LAMBDA q :
         Success([q EXCEPT !.bytes = token, !.token_length = Len(token), !.max_opt = 0, !.data = 0]))

\* coap_update_token.
UpdateToken(p, token) ==
  LET more == Len(token) - p.token_length
  IN IF Len(token) > 8 THEN NoChange(p)
     ELSE IF p.bytes = <<>> THEN AddToken(p, token)
     ELSE Then(IF more > 0 THEN CheckResize(p, Len(p.bytes) + more) ELSE Success(p), LAMBDA q :
            Success([q EXCEPT !.bytes = token \o SubSeq(@, p.token_length + 1, Len(@)),
                              !.token_length = Len(token),
                              !.data = IF @ = 0 THEN 0 ELSE @ + more]))

\* The header of the option that follows one taken out, with the new delta d:
\* the bytes t from that option on, moved to begin earlier where it grows.
Widened(t, delta, d) ==
  LET low == t[1] % 16
      Rest(n) == SubSeq(t, n, Len(t))
  IN CASE d <= 12 -> <<low + d * 16>> \o Rest(2)
       [] d \in 13..Wide /\ delta <= 12 -> <<low + 13 * 16, (d - 13) % ByteRange>> \o Rest(2)
       [] d \in 13..Wide /\ delta > 12 -> <<t[1], (d - 13) % ByteRange>> \o Rest(3)
       [] d > Wide /\ delta <= 12 -> <<low + 14 * 16, High(d), Low(d)>> \o Rest(2)
       [] d > Wide /\ delta \in 13..Wide -> <<low + 14 * 16, High(d), Low(d)>> \o Rest(3)
       [] d > Wide /\ delta > Wide -> <<t[1], High(d), Low(d)>> \o Rest(4)

\* RemoveFrom if the option that follows kept its delta.
RemoveAtPlain(p, opts, k) ==
  IF k < Len(opts) THEN Splice(p, opts[k].at, From(p, opts[k + 1].at))
  ELSE [Splice(p, opts[k].at, From(p, opts[k].at + EncodeSize(opts[k].delta, opts[k].length)))
          EXCEPT !.max_opt = @ - opts[k].delta]

\* The k-th of the options opts is taken out: the last one lowers max_opt,
\* another one changes the header of the next.
RemoveFrom(p, opts, k) ==
  IF k < Len(opts)
  THEN Splice(p, opts[k].at, Widened(From(p, opts[k + 1].at), opts[k + 1].delta,
                                     opts[k].delta + opts[k + 1].delta))
  ELSE [Splice(p, opts[k].at, From(p, opts[k].at + EncodeSize(opts[k].delta, opts[k].length)))
          EXCEPT !.max_opt = @ - opts[k].delta]

\* coap_remove_option.
RemoveOption(p, number) ==
  LET k == CheckOption(OptionsOf(p), number)
  IN IF k = 0 THEN NoChange(p) ELSE Success(RemoveFrom(p, OptionsOf(p), k))

\* The header of the option that follows one put in, with the new delta d.
Narrowed(t, delta, d) ==
  LET low == t[1] % 16
      Rest(n) == SubSeq(t, n, Len(t))
  IN CASE delta <= 12 -> <<low + d * 16>> \o Rest(2)
       [] delta \in 13..Wide /\ d <= 12 -> <<low + d * 16>> \o Rest(3)
       [] delta \in 13..Wide /\ d \in 13..Wide -> <<t[1], (d - 13) % ByteRange>> \o Rest(3)
       [] delta > Wide /\ d <= 12 -> <<low + d * 16>> \o Rest(4)
       [] delta > Wide /\ d \in 13..Wide -> <<low + 13 * 16, (d - 13) % ByteRange>> \o Rest(4)
       [] delta > Wide /\ d > Wide -> <<t[1], High(d), Low(d)>> \o Rest(4)

\* coap_add_option's end: an option after all the others.
AppendOption(p, number, value) ==
  LET delta == number - p.max_opt
      at == IF p.data = 0 THEN Len(p.bytes) + 1 ELSE p.data
  IN Then(CheckResize(p, Len(p.bytes) + EncodeSize(delta, Len(value))), LAMBDA q :
       Success([Splice(q, at, SetHeader(delta, Len(value)) \o value \o From(p, at))
                  EXCEPT !.max_opt = number]))

\* An option put in before the option `next' and after the number `previous'.
\* The next one is parsed with the length of what follows it and five bytes
\* more, so the operation is refused when it is longer than that.
InsertBetween(p, previous, next, number, value) ==
  LET follows == Len(p.bytes) - (next.at + next.header + next.length - 1)
  IN IF next.header + next.length > follows + 5 THEN NoChange(p)
     ELSE Then(CheckResize(p, Len(p.bytes) + EncodeSize(number - previous, Len(value))), LAMBDA q :
            Success(Splice(q, next.at, SetHeader(number - previous, Len(value)) \o value
                             \o Narrowed(From(p, next.at), next.delta, next.number - number))))

\* coap_insert_option before the first of the options with a larger number.
InsertBefore(p, opts, number, value) ==
  LET k == Min({ j \in DOMAIN opts : opts[j].number > number })
  IN InsertBetween(p, IF k = 1 THEN 0 ELSE opts[k - 1].number, opts[k], number, value)

\* coap_add_option but for the Hop-Limit.
PutOption(p, number, value) ==
  IF number >= p.max_opt THEN AppendOption(p, number, value)
  ELSE InsertBefore(p, OptionsOf(p), number, value)

\* coap_add_option puts a Hop-Limit in a request before the first option that
\* is for a proxy; it goes on whether or not that succeeds.
HopLimited(p, number) ==
  IF /\ IsRequest(p.code) /\ number \in {COAP_OPTION_PROXY_URI, COAP_OPTION_PROXY_SCHEME}
     /\ CheckOption(OptionsOf(p), COAP_OPTION_HOP_LIMIT) = 0
  THEN PutOption(p, COAP_OPTION_HOP_LIMIT, <<COAP_OPTION_HOP_LIMIT>>) ELSE NoChange(p)

AfterHopLimit(h, number, value) == [hop |-> h.ok] @@ PutOption(h.pdu, number, value)

AddOption(p, number, value) == AfterHopLimit(HopLimited(p, number), number, value)

\* coap_insert_option.
InsertOption(p, number, value) ==
  IF number >= p.max_opt THEN AddOption(p, number, value)
  ELSE InsertBefore(p, OptionsOf(p), number, value)

\* coap_update_option: another value for the option o, or a new option.
ReplaceValue(p, o, value) ==
  LET old == o.header + o.length
      new == EncodeSize(o.delta, Len(value))
  IN Then(IF new > old THEN CheckResize(p, Len(p.bytes) + new - old) ELSE Success(p), LAMBDA q :
       Success(Splice(q, o.at, SetHeader(o.delta, Len(value)) \o value \o From(p, o.at + old))))

UpdateOption(p, number, value) ==
  LET k == CheckOption(OptionsOf(p), number)
  IN IF k = 0 THEN InsertOption(p, number, value) ELSE ReplaceValue(p, OptionsOf(p)[k], value)

\* coap_add_data: nothing to do without data.
AddData(p, data) ==
  IF data = <<>> THEN Success(p)
  ELSE Then(Resize(p, Len(p.bytes) + Len(data) + 1), LAMBDA q :
         Success([q EXCEPT !.bytes = @ \o <<COAP_PAYLOAD_START>> \o data, !.data = Len(p.bytes) + 1]))

\* coap_pdu_init with coap_pdu_clear.
NewPdu(code) ==
  [bytes |-> <<>>, alloc_size |-> IF MaxSize = 0 THEN AllocUnit ELSE Min({MaxSize, AllocUnit}),
   token_length |-> 0, max_opt |-> 0, data |-> 0, code |-> code]

\* coap_pdu_duplicate without options to drop: they are copied as they are,
\* without the payload and under another token. The size it makes room for
\* counts the header, where there is one already, and not the token.
CopyPdu(p, token, hdr_size) ==
  LET end == IF p.data = 0 THEN Len(p.bytes) ELSE p.data - 1
  IN Then(AddToken(NewPdu(p.code), token), LAMBDA fresh :
       Then(Resize(fresh, end - p.token_length + hdr_size), LAMBDA q :
         Success([q EXCEPT !.bytes = @ \o SubSeq(p.bytes, p.token_length + 1, end),
                           !.max_opt = p.max_opt])))

-----------------------------------------------------------------------------
(* The wire.                                                                 *)

Protocols == {"udp", "tcp"}

\* coap_pdu_encode_header; a length of 65805 or more is out of reach here.
EncodeHeader(p, proto) ==
  LET length == Len(p.bytes) - p.token_length
  IN IF proto = "udp" THEN <<64 + p.token_length, p.code, 0, 0>>
     ELSE <<Nibble(length) * 16 + p.token_length>> \o Extended(length) \o <<p.code>>

\* coap_pdu_parse_header_size.
HeaderSize(proto, first) ==
  LET len == first \div 16
  IN IF proto = "udp" THEN 4
     ELSE IF len < 13 THEN 2 ELSE IF len = 13 THEN 3 ELSE IF len = 14 THEN 4 ELSE 6

\* coap_pdu_parse_size: the bytes that follow the header of a stream's message.
ParseSize(wire) ==
  LET len == wire[1] \div 16
  IN (IF len < 13 THEN len ELSE IF len = 13 THEN 13 + wire[2]
      ELSE Wide + wire[2] * ByteRange + wire[3]) + (wire[1] % 16)

\* coap_pdu_parse_opt_base: the length of an option the library knows.
BaseLengthOK(number, length) ==
  LET most == [n \in {1, 3, 4, 5, 6, 7, 8, 9, 11, 12, 14, 15, 16, 17, 20, 23, 27, 28, 35, 39, 60, 258} |->
                 CASE n \in {1, 4} -> 8 [] n = 5 -> 0 [] n \in {6, 23, 27} -> 3
                   [] n \in {7, 12, 17} -> 2 [] n \in {14, 28, 60} -> 4 [] n \in {16, 258} -> 1
                   [] n = 35 -> 1034 [] OTHER -> 255]
  IN number \in DOMAIN most =>
       length <= most[number] /\ (number \in {3, 4, 15, 16, 35, 39} => length >= 1)

\* coap_pdu_parse_opt_csm, for the options of each signalling code.
CsmLengthOK(code, number, length) ==
  CASE code = 225 -> (number = 2 => length <= 4) /\ (number = 4 => length = 0)
    [] code \in {226, 227} -> number = 2 => length = 0
    [] code = 228 -> (number = 2 => length \in 1..255) /\ (number = 4 => length <= 3)
    [] code = 229 -> number = 2 => length <= 2
    [] OTHER -> TRUE

\* coap_pdu_parse_header: over UDP the code follows the first byte, on a stream
\* it ends the header.
ParseHeader(proto, wire) ==
  LET size == HeaderSize(proto, wire[1])
  IN [size |-> size, token_length |-> wire[1] % 16,
      code |-> IF proto = "udp" THEN wire[2] ELSE wire[size]]

\* coap_pdu_parse, with coap_pdu_parse_opt: every option must be well formed and
\* of a length that is allowed, and a payload marker be followed by something.
PduParse(proto, wire) ==
  LET header == ParseHeader(proto, wire)
      body == SubSeq(wire, header.size + 1, Len(wire))
      token_length == header.token_length
      code == header.code
      opts == OptionsFrom(body, token_length + 1, 0)
      end == IF opts = <<>> THEN token_length
             ELSE Last(opts).at + Last(opts).header + Last(opts).length - 1
      good == /\ header.size <= Len(wire) /\ token_length <= 8 /\ token_length <= Len(body)
              /\ end = Len(body) \/ (body[end + 1] = COAP_PAYLOAD_START /\ end + 1 < Len(body))
              /\ \A k \in DOMAIN opts :
                   /\ opts[k].number <= COAP_MAX_OPT
                   /\ IF IsSignaling(code) THEN CsmLengthOK(code, opts[k].number, opts[k].length)
                      ELSE BaseLengthOK(opts[k].number, opts[k].length)
  IN IF ~good THEN [ok |-> FALSE]
     ELSE [ok |-> TRUE, code |-> code, token |-> SubSeq(body, 1, token_length),
           options |-> [k \in DOMAIN opts |->
                          [number |-> opts[k].number, value |-> OptValue(body, opts[k])]],
           data |-> SubSeq(body, end + 2, Len(body))]

-----------------------------------------------------------------------------
(* What the application asks for.                                            *)

\* The bytes of a value are those of the payload marker.
Blob(n) == [k \in 1..n |-> COAP_PAYLOAD_START]
TokenOf(n) == [k \in 1..n |-> 100 + n]

\* An option after those with a number that is not larger.
Placed(options, number, value) ==
  LET before == Cardinality({ k \in DOMAIN options : options[k].number <= number })
  IN InsertAt(options, before + 1, [number |-> number, value |-> value])

\* The options wanted after an option was added with the result r: a Hop-Limit
\* may have come along.
Added(options, r, number, value) ==
  LET before == IF r.hop THEN Placed(options, COAP_OPTION_HOP_LIMIT, <<COAP_OPTION_HOP_LIMIT>>)
                ELSE options
  IN [ok |-> r.ok, pdu |-> r.pdu,
      options |-> IF r.ok THEN Placed(before, number, value) ELSE before]

Adding(s, number, value) == Added(s.options, AddOption(s.pdu, number, value), number, value)

PduInit ==
  /\ \E c \in Codes : pdu = NewPdu(c)
  /\ asked = [token |-> <<>>, options |-> <<>>, data |-> <<>>]

\* What an operation did, and what is wanted from now on if it succeeded.
Applied(r, wanted) == pdu' = r.pdu /\ asked' = IF r.ok THEN wanted ELSE asked

DoAddToken ==
  \E n \in TokenLengths : Applied(AddToken(pdu, TokenOf(n)), [asked EXCEPT !.token = TokenOf(n)])

DoUpdateToken ==
  \E n \in TokenLengths : Applied(UpdateToken(pdu, TokenOf(n)), [asked EXCEPT !.token = TokenOf(n)])

AnOption(A(_, _)) ==
  /\ Len(asked.options) < MaxOptions
  /\ \E n \in OptionNumbers, l \in OptionLengths : A(n, Blob(l))

\* A message and its options take the place of those there are.
Taken(s, token, data) ==
  pdu' = s.pdu /\ asked' = [token |-> token, data |-> data, options |-> s.options]

\* coap_add_option, also for each option of a sorted list (coap_add_optlist_pdu).
DoAddOption ==
  AnOption(LAMBDA n, v :
    Taken(Adding([pdu |-> pdu, options |-> asked.options], n, v), asked.token, asked.data))

DoInsertOption ==
  AnOption(LAMBDA n, v :
    /\ n < pdu.max_opt
    /\ Applied(InsertOption(pdu, n, v), [asked EXCEPT !.options = Placed(@, n, v)]))

DoUpdateOption ==
  \E n \in OptionNumbers, l \in OptionLengths :
    LET k == CheckOption(asked.options, n)
    IN /\ k # 0
       /\ Applied(UpdateOption(pdu, n, Blob(l)), [asked EXCEPT !.options[k].value = Blob(l)])

DoRemoveOption ==
  \E n \in OptionNumbers :
    Applied(RemoveOption(pdu, n),
            [asked EXCEPT !.options = RemoveAt(@, CheckOption(asked.options, n))])

DoAddData ==
  \E n \in DataLengths :
    pdu.data = 0 /\ Applied(AddData(pdu, Blob(n)), [asked EXCEPT !.data = Blob(n)])

\* coap_pdu_duplicate: the copy takes the place of the PDU. With options to
\* drop, the others are added one by one.
Copied(r, token) == r.ok /\ Taken([pdu |-> r.pdu, options |-> asked.options], token, <<>>)

DoDuplicate ==
  \E n \in TokenLengths \cap 0..8, hdr_size \in {0, 4} :
    Copied(CopyPdu(pdu, TokenOf(n), hdr_size), TokenOf(n))

CopiedOptions(s, token) == s.ok /\ Taken(s, token, <<>>)

DoDuplicateDropping ==
  \E n \in TokenLengths \cap 0..8, dropped \in {OptionNumbers} \cup { {o} : o \in OptionNumbers } :
    LET drop == FoldSet(LAMBDA o, f : FilterSet(f, o), {}, dropped)
    IN CopiedOptions(
         FoldLeft(LAMBDA s, o : IF s.ok THEN Adding(s, o.number, o.value) ELSE s,
                  [ok |-> TRUE, pdu |-> AddToken(NewPdu(pdu.code), TokenOf(n)).pdu, options |-> <<>>],
                  SelectSeq(asked.options, LAMBDA o : o.number \notin drop)),
         TokenOf(n))

PduNext ==
  DoAddToken \/ DoUpdateToken \/ DoAddOption \/ DoInsertOption \/ DoUpdateOption
  \/ DoRemoveOption \/ DoAddData \/ DoDuplicate \/ DoDuplicateDropping

PduSpec == PduInit /\ [][PduNext]_pduvars

-----------------------------------------------------------------------------
(* Properties.                                                               *)

\* Whatever was put in, changed in place and taken out, the receiver parses the
\* token, the options in their order and the payload that were wanted, over
\* either transport, and refuses the message only for an option's length. (No
\* two numbers used differ by 269.)
PduExact ==
  LET LengthOK(o) == IF IsSignaling(pdu.code) THEN CsmLengthOK(pdu.code, o.number, Len(o.value))
                     ELSE BaseLengthOK(o.number, Len(o.value))
  IN \A proto \in Protocols :
       LET wire == EncodeHeader(pdu, proto) \o pdu.bytes
           read == PduParse(proto, wire)
       IN /\ proto = "tcp" => HeaderSize(proto, wire[1]) + ParseSize(wire) = Len(wire)
          /\ IF \A k \in DOMAIN asked.options : LengthOK(asked.options[k])
             THEN read = [ok |-> TRUE, code |-> pdu.code] @@ asked
             ELSE ~read.ok

=============================================================================
