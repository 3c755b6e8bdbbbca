------------------------------- MODULE LwJson -------------------------------
(* The same trees as JSON and SenML JSON documents (json.c, senml_json.c,    *)
(* json_common.c) and the choice of the format (data.c).                     *)
(*                                                                           *)
(* A document is the sequence of its records after the lexer: the names as   *)
(* sequences of numbers with the slashes that matter, the values with the    *)
(* key they are written under. Documents that outgrow the buffer of 1024     *)
(* characters, and times, are left out.                                      *)
EXTENDS LwData

URI_MAX_STRING_LEN == 24

-----------------------------------------------------------------------------
(* What both have in common.                                                 *)

\* json_escapeString: each character with its escape; a control character
\* without a short form takes six characters, kept here as one with its width.
Newline == 10
Quote == 34
Backslash == 92
JsonEscape(s) ==
  [k \in DOMAIN s |->
     [char |-> s[k],
      width |-> IF s[k] \in {Newline, Quote, Backslash} THEN 2 ELSE IF s[k] < 32 THEN 6 ELSE 1]]

\* json_unescapeString: 0 where a six-character escape ends the string, since
\* the test for its four digits is one short.
JsonUnescape(t) ==
  IF t # <<>> /\ Last(t).width = 6 THEN <<>> ELSE [k \in DOMAIN t |-> t[k].char]

\* json_convertNumeric.
ConvertNumeric(t) ==
  IF Contains(t, Dot)
  THEN LET r == TextToReal(t) IN IF r.ok THEN Done([type |-> "float", real |-> r.value]) ELSE Failed
  ELSE IF t[1] = Minus
  THEN LET r == TextToInt(t) IN IF r.ok THEN Done([type |-> "int", number |-> r.value]) ELSE Failed
  ELSE LET r == TextToUInt(t) IN IF r.ok THEN Done([type |-> "uint", number |-> r.value]) ELSE Failed

\* json_findAndCheckData: the nodes to write for a URI, from a list that may
\* start higher up; all of one kind.
RECURSIVE FindAndCheckData(_, _, _)
FindAndCheckData(uri, level, nodes) ==
  LET upper == {"object", "instance"}
      Below(k) ==
        LET found == { j \in DOMAIN nodes : nodes[j].id = uri[k] }
        IN IF found = {} \/ k > Len(uri) THEN Failed
           ELSE FindAndCheckData(uri, level, nodes[CHOOSE j \in found : \A i \in found : j <= i].children)
      type == nodes[1].type
  IN IF nodes = <<>> THEN Done(<<>>)
     ELSE IF \E k \in DOMAIN nodes :
               IF type \in upper THEN nodes[k].type # type ELSE nodes[k].type \in upper
     THEN Failed
     ELSE CASE type = "object" -> IF level = 1 THEN Done(nodes) ELSE Below(1)
            [] type = "instance" ->
                 IF level = 1 THEN Failed ELSE IF level = 2 THEN Done(nodes) ELSE Below(2)
            [] type = "multiple" ->
                 IF level <= 2 THEN Failed ELSE IF level = 3 THEN Done(nodes) ELSE Below(3)
            [] OTHER -> IF level <= 2 THEN Failed ELSE Done(nodes)

\* json_decreaseLevel, on the depth of a URI.
LevelBelow(uri) == IF Len(uri) = 4 THEN 4 ELSE Len(uri) + 1

\* The type of a node made for one number of a name (utils_depthToDatatype,
\* and the multiple resource once an instance is found below).
ContainerAt(level) == IF level = 1 THEN "object" ELSE IF level = 2 THEN "instance" ELSE "multiple"

\* One record of prv_convertRecord put in the tree: the node of each number is
\* looked for (json_findDataItem) and added when missing (json_extendData); an
\* instance of a resource is always added.
RECURSIVE Insert(_, _, _, _)
Insert(nodes, level, path, leaf) ==
  LET found == { k \in DOMAIN nodes : nodes[k].id = path[1] }
      at == IF found = {} THEN Len(nodes) + 1 ELSE CHOOSE k \in found : \A j \in found : k <= j
      old == IF found = {} THEN <<>> ELSE nodes[at].children
      node == IF Len(path) = 1 THEN [id |-> path[1]] @@ leaf
              ELSE [id |-> path[1], type |-> ContainerAt(level),
                    children |-> Insert(old, level + 1, Tail(path), leaf)]
  IN IF found = {} \/ (level = 4 /\ Len(path) = 1) THEN Append(nodes, node)
     ELSE [nodes EXCEPT ![at] = node]

\* json_dataStrip: containers without children are left out; the count that is
\* returned is not reduced, so as many empty nodes follow.
RECURSIVE DataStrip(_)
DataStrip(nodes) ==
  LET kept == SelectSeq(nodes, LAMBDA n : n.type \notin Containers \/ n.children # <<>>)
      empty == [k \in 1..(Len(nodes) - Len(kept)) |-> [type |-> "undefined", id |-> 0]]
  IN [k \in DOMAIN kept |->
        IF kept[k].type \in Containers
        THEN [kept[k] EXCEPT !.children = DataStrip(@)] ELSE kept[k]] \o empty

\* The children of the first node with an id.
ChildrenOf(nodes, id) ==
  LET found == { k \in DOMAIN nodes : nodes[k].id = id }
  IN IF found = {} THEN Failed
     ELSE Done(nodes[CHOOSE k \in found : \A j \in found : k <= j].children)

\* The part of a parsed tree that the request's URI is about, as both parsers
\* select it; unwrap tells whether the instances of a resource come alone.
SelectByUri(tree, uri, unwrap) ==
  IF tree[1].type # "object" \/ tree[1].id # uri[1] THEN Failed
  ELSE IF Len(uri) = 1 THEN Done(DataStrip(tree[1].children))
  ELSE LET resources == ChildrenOf(tree[1].children, uri[2])
       IN IF ~resources.ok THEN Failed
          ELSE IF Len(uri) = 2 THEN Done(DataStrip(resources.value))
          ELSE LET found == SelectSeq(resources.value, LAMBDA n : n.id = uri[3])
               IN IF found = <<>> THEN Failed
                  ELSE IF found[1].type = "multiple" /\ unwrap
                  THEN Done(DataStrip(found[1].children)) ELSE Done(DataStrip(<<found[1]>>))

-----------------------------------------------------------------------------
(* JSON.                                                                     *)

\* prv_serializeValue: the key, with the text. Nothing is written for an empty
\* string: the escape returns 0, which is taken for an error.
JsonValue(node) ==
  CASE node.type \in {"string", "corelink"} ->
         IF node.buffer = <<>> THEN Failed ELSE Done([key |-> "sv", text |-> JsonEscape(node.buffer)])
    [] node.type \in {"int", "uint"} -> Done([key |-> "v", digits |-> IntToText(node.number)])
    [] node.type = "float" -> Done([key |-> "v", digits |-> RealToText(node.real)])
    [] node.type = "bool" -> Done([key |-> "bv", flag |-> node.flag])
    [] node.type = "opaque" ->
         Done([key |-> "sv", text |-> JsonEscape(Base64Encode(node.buffer))])
    [] node.type = "link" -> Done([key |-> "ov", digits |-> ObjLinkToText(node.link)])
    [] OTHER -> Failed

\* prv_serializeData: one record for each value below a node, its name made of
\* the numbers on the way.
RECURSIVE JsonRecords(_, _)
JsonRecords(nodes, parent) ==
  FlattenSeq([k \in DOMAIN nodes |->
    IF nodes[k].type \in Containers
    THEN JsonRecords(nodes[k].children, Append(parent, nodes[k].id))
    ELSE <<[n |-> Append(parent, nodes[k].id), v |-> JsonValue(nodes[k])]>>])

\* The loop of json_serialize that moves single containers into the base name.
RECURSIVE IntoBase(_, _)
IntoBase(base, nodes) ==
  IF Len(nodes) = 1 /\ nodes[1].type \in Containers
  THEN IntoBase(Append(base, nodes[1].id), nodes[1].children)
  ELSE [bn |-> base, nodes |-> nodes]

\* json_serialize.
JsonSerialize(uri, nodes) ==
  LET target == FindAndCheckData(uri, LevelBelow(uri), nodes)
      head == IntoBase(uri, target.value)
      records == JsonRecords(head.nodes, <<>>)
  IN IF ~target.ok THEN Failed
     ELSE IF \E k \in DOMAIN records : ~records[k].v.ok THEN Failed
     ELSE Done([bn |-> head.bn,
                e |-> [k \in DOMAIN records |-> [n |-> records[k].n, v |-> records[k].v.value]]])

\* prv_convertValue. Nothing decodes Base64 here.
JsonLeaf(v) ==
  CASE v.key = "v"  -> ConvertNumeric(v.digits)
    [] v.key = "bv" -> Done([type |-> "bool", flag |-> v.flag])
    [] v.key = "ov" -> LET r == TextToObjLink(v.digits)
                       IN IF r.ok THEN Done([type |-> "link", link |-> r.value]) ELSE Failed
    [] v.key = "sv" -> IF v.text # <<>> /\ JsonUnescape(v.text) = <<>> THEN Failed
                       ELSE Done([type |-> "string", buffer |-> JsonUnescape(v.text)])

\* prv_parseItem: a name of at most four numbers, and one value.
JsonItem(r) == Len(r.n) <= 4 /\ r.v.key \in {"v", "bv", "ov", "sv"}

\* prv_convertRecord of json.c: the names are relative to the base, which is at
\* most a resource; each reaches down to a resource or one of its instances.
JsonTree(base, records) ==
  LET root == Len(base) + 1
      Add(acc, r) ==
        IF ~acc.ok \/ ~JsonItem(r) \/ Len(r.n) < 4 - root \/ Len(r.n) < 1 \/ Len(r.n) > 5 - root
           \/ ~JsonLeaf(r.v).ok THEN Failed
        ELSE Done(Insert(acc.value, root, r.n, JsonLeaf(r.v).value))
      below == FoldLeft(Add, Done(<<>>), records)
      Wrap(tree, k) == <<[id |-> base[k], type |-> ContainerAt(k), children |-> tree]>>
  IN IF ~below.ok THEN Failed
     ELSE Done(FoldLeft(LAMBDA tree, k : Wrap(tree, Len(base) + 1 - k), below.value,
                        [k \in DOMAIN base |-> k]))

\* json_parse: a base name takes the place of the request's URI.
JsonParse(uri, doc) ==
  IF doc.e = <<>> THEN Failed
  ELSE LET tree == JsonTree(doc.bn, doc.e)
       IN IF ~tree.ok THEN Failed ELSE SelectByUri(tree.value, uri, TRUE)

-----------------------------------------------------------------------------
(* SenML JSON.                                                               *)

\* prv_serializeValue of senml_json.c.
SenmlValue(node) ==
  CASE node.type \in {"string", "corelink"} ->
         IF node.buffer = <<>> THEN Failed ELSE Done([key |-> "vs", text |-> JsonEscape(node.buffer)])
    [] node.type \in {"int", "uint"} -> Done([key |-> "v", digits |-> IntToText(node.number)])
    [] node.type = "float" -> Done([key |-> "v", digits |-> RealToText(node.real)])
    [] node.type = "bool" -> Done([key |-> "vb", flag |-> node.flag])
    [] node.type = "opaque" -> Done([key |-> "vd", text |-> Base64Encode(node.buffer)])
    [] node.type = "link" -> Done([key |-> "vlo", digits |-> ObjLinkToText(node.link)])
    [] OTHER -> Failed

\* A name: its numbers and the slashes at its ends.
Name(lead, path, trail) == [lead |-> lead, path |-> path, trail |-> trail]
NoName == Name(FALSE, <<>>, FALSE)

\* prv_serializeData of senml_json.c: the base name comes with the first
\* record, a name only where the value is below the base.
RECURSIVE SenmlRecords(_, _, _, _, _)
SenmlRecords(nodes, baseLevel, lead, parent, level) ==
  FlattenSeq([k \in DOMAIN nodes |->
    LET here == CASE nodes[k].type = "multiple" -> 3 [] nodes[k].type = "object" -> 1
                  [] nodes[k].type = "instance" -> 2 [] OTHER -> level
    IN IF nodes[k].type \in Containers
       THEN SenmlRecords(nodes[k].children, baseLevel, lead, Append(parent, nodes[k].id), here)
       ELSE <<[n |-> IF level > baseLevel THEN Name(lead, Append(parent, nodes[k].id), FALSE)
                     ELSE NoName,
               v |-> SenmlValue(nodes[k])]>>])

\* Whether senml_json_serialize ends the base name with a slash: values
\* below it will be named.
SenmlSlash(uri, nodes) == Len(uri) < 3 \/ nodes[1].type = "multiple"

\* senml_json_serialize.
SenmlSerialize(uri, nodes) ==
  LET target == FindAndCheckData(uri, LevelBelow(uri), nodes)
      root == CASE nodes[1].type = "object" -> 1 [] nodes[1].type = "instance" -> 2
                [] nodes[1].type = "multiple" -> 4 [] OTHER -> IF Len(uri) = 4 THEN 4 ELSE 3
      slash == SenmlSlash(uri, nodes)
      records == SenmlRecords(target.value, Len(uri), ~slash, <<>>, root)
  IN IF ~target.ok THEN Failed
     ELSE IF \E k \in DOMAIN records : ~records[k].v.ok THEN Failed
     ELSE Done([k \in DOMAIN records |->
                 [bn |-> IF k = 1 THEN Name(TRUE, uri, slash) ELSE NoName,
                  n |-> records[k].n, v |-> records[k].v.value]])

\* The text of a name has as many characters.
NameLength(n) ==
  FoldLeft(LAMBDA acc, i : acc + 1 + Len(UintToText(i)), (IF n.lead THEN 1 ELSE 0)
           + (IF n.trail THEN 1 ELSE 0) - (IF n.path = <<>> THEN 0 ELSE 1), n.path)

\* The base and the name are put together as texts and read as a URI
\* (lwm2m_stringToUri): without a slash between them two numbers become one,
\* with two of them the URI is refused.
JoinNames(base, n) ==
  IF n = NoName THEN Done(base.path)
  ELSE IF base.trail /\ n.lead THEN Failed
  ELSE IF base.trail \/ n.lead THEN Done(base.path \o n.path)
  ELSE Done(Front(base.path)
            \o <<Last(base.path) * 10 ^ Len(UintToText(n.path[1])) + n.path[1]>> \o Tail(n.path))

\* prv_convertValue of senml_json.c.
SenmlLeaf(v) ==
  CASE v.key = "v"  -> ConvertNumeric(v.digits)
    [] v.key = "vb" -> Done([type |-> "bool", flag |-> v.flag])
    [] v.key = "vlo" -> LET r == TextToObjLink(v.digits)
                        IN IF r.ok THEN Done([type |-> "link", link |-> r.value]) ELSE Failed
    [] v.key = "vs" -> IF v.text # <<>> /\ JsonUnescape(v.text) = <<>> THEN Failed
                       ELSE Done([type |-> "string", buffer |-> JsonUnescape(v.text)])
    [] v.key = "vd" -> Done([type |-> "opaque", buffer |-> Base64Decode(v.text)])

\* prv_parseItem and prv_convertRecord of senml_json.c on one record: a base
\* name stays in force until the next one.
SenmlAdd(acc, r) ==
  LET base == IF r.bn = NoName THEN acc.base ELSE r.bn
      path == JoinNames(base, r.n)
  IN IF ~acc.ok \/ NameLength(base) + 2 > URI_MAX_STRING_LEN THEN Failed
     ELSE IF NameLength(base) + NameLength(r.n) > URI_MAX_STRING_LEN \/ ~path.ok \/ ~SenmlLeaf(r.v).ok
     THEN Failed
     ELSE [ok |-> TRUE, base |-> base,
           value |-> Insert(acc.value, 1, path.value, SenmlLeaf(r.v).value)]

\* senml_json_parse.
SenmlParse(uri, records) ==
  LET tree == FoldLeft(SenmlAdd, [ok |-> TRUE, base |-> NoName, value |-> <<>>], records)
  IN IF records = <<>> \/ ~tree.ok THEN Failed ELSE SelectByUri(tree.value, uri, FALSE)

-----------------------------------------------------------------------------
(* The choice of the format and the transfer.                                *)

CONSTANTS Uris,     \* the URIs read: object, instance or resource
          Trees(_)  \* the answers to the read of a URI

VARIABLE transfer   \* one Read: its URI and format, the data, the wire, what is parsed

\* lwm2m_data_serialize: text and opaque are for one resource, other data is
\* sent in the richest format there is.
FinalFormat(uri, format, nodes) ==
  IF /\ format \in {"text", "opaque"}
     /\ Len(nodes) # 1 \/ Len(uri) < 3 \/ nodes[1].type \in Containers
  THEN "senml" ELSE format

DataSerialize(uri, format, nodes) ==
  CASE format = "text"   -> TextSerialize(nodes[1])
    [] format = "opaque" -> IF nodes[1].type = "opaque" THEN Done(nodes[1].buffer) ELSE Failed
    [] format = "tlv"    -> IF TlvLength(nodes) = -1 THEN Failed
                            ELSE Done(TlvSerialize(Len(uri) = 3 /\ (Len(nodes) # 1 \/ nodes[1].id # uri[3]), nodes))
    [] format = "json"   -> JsonSerialize(uri, nodes)
    [] format = "senml"  -> SenmlSerialize(uri, nodes)

\* lwm2m_data_parse.
DataParse(uri, format, wire) ==
  CASE format \in {"text", "opaque"} ->
         IF Len(uri) # 3 THEN Failed
         ELSE Done(<<[type |-> IF format = "text" THEN "string" ELSE "opaque",
                      id |-> uri[3], buffer |-> wire]>>)
    [] format = "tlv"   -> TlvParse(wire)
    [] format = "json"  -> JsonParse(uri, wire)
    [] format = "senml" -> SenmlParse(uri, wire)

Formats == {"text", "opaque", "tlv", "json", "senml"}

DataInit ==
  transfer \in UNION { [step : {"asked"}, uri : {u}, format : Formats, nodes : Trees(u)] : u \in Uris }

\* The client answers (object_read).
WriteData ==
  /\ transfer.step = "asked"
  /\ LET f == FinalFormat(transfer.uri, transfer.format, transfer.nodes)
     IN transfer' = [transfer EXCEPT !.step = "sent", !.format = f]
                    @@ [wire |-> DataSerialize(transfer.uri, f, transfer.nodes)]

\* The server's application parses the answer.
ReadData ==
  /\ transfer.step = "sent" /\ transfer.wire.ok
  /\ transfer' = [transfer EXCEPT !.step = "parsed"]
                 @@ [read |-> DataParse(transfer.uri, transfer.format, transfer.wire.value)]

DataNext == WriteData \/ ReadData

DataSpec == DataInit /\ [][DataNext]_transfer

-----------------------------------------------------------------------------
(* Properties.                                                               *)

\* The values of a tree's leaves.
RECURSIVE Leaves(_)
Leaves(nodes) ==
  UNION { IF nodes[k].type \in Containers THEN Leaves(nodes[k].children) ELSE {nodes[k]} :
          k \in DOMAIN nodes }

\* b is what the reader makes of the value a: the same value, through the
\* decode function of its type. Three readings are weaker, as the code's are:
\* Base64 is left to the reader in text and JSON; in SenML every third byte of an
\* opaque value may come back changed (utils.c:768); and of an object link in
\* text only the length is right, for its colon is put at the sixth character
\* whatever the length of the number before it (data.c:102).
SameValue(format, a, b) ==
  CASE a.type \in {"string", "corelink"} -> b.buffer = a.buffer
    [] a.type = "opaque" ->
         CASE format \in {"text", "json"} -> b.buffer = Base64Encode(a.buffer)
           [] format = "senml" -> /\ Len(b.buffer) = Len(a.buffer)
                                  /\ \A k \in DOMAIN a.buffer : k % 3 # 0 => b.buffer[k] = a.buffer[k]
           [] OTHER -> b.buffer = a.buffer
    [] a.type = "int"   -> DecodeInt(b) = Done(a.number)
    [] a.type = "uint"  -> DecodeUInt(b) = Done(a.number)
    [] a.type = "float" -> DecodeFloat(b) = Done(a.real)
    [] a.type = "bool"  -> DecodeBool(b) = Done(a.flag)
    [] a.type = "link"  -> CASE format = "tlv"  -> b.buffer = TlvValue(a)
                             [] format = "text" -> Len(b.buffer) = 1 + Len(UintToText(a.link[1]))
                                                                     + Len(UintToText(a.link[2]))
                             [] OTHER -> b.type = "link" /\ b.link = a.link

RECURSIVE SameTree(_, _, _)
SameTree(format, a, b) ==
  /\ Len(a) = Len(b)
  /\ \A k \in DOMAIN a :
       /\ a[k].id = b[k].id
       /\ IF a[k].type \in Containers
          THEN b[k].type = a[k].type /\ SameTree(format, a[k].children, b[k].children)
          ELSE b[k].type \notin Containers /\ SameValue(format, a[k], b[k])

\* A string that ends with a control character cannot be read back from JSON.
EndsInControl(node) ==
  node.type = "string" /\ node.buffer # <<>> /\ Last(node.buffer) < 32 /\ Last(node.buffer) # Newline

\* Whatever the format, the reader finds the nodes and the values that were
\* written, the instances of a resource alone when JSON answers for it; only a
\* string that ends with a control character makes it refuse a document.
DataRead ==
  transfer.step = "parsed" =>
    LET expected == IF transfer.format = "json" /\ Len(transfer.uri) = 3
                       /\ transfer.nodes[1].type = "multiple"
                    THEN transfer.nodes[1].children ELSE transfer.nodes
    IN IF transfer.format \in {"json", "senml"} /\ \E l \in Leaves(transfer.nodes) : EndsInControl(l)
       THEN ~transfer.read.ok
       ELSE transfer.read.ok /\ SameTree(transfer.format, expected, transfer.read.value)

\* The TLV encoder writes exactly the bytes that were allocated for it.
TlvFits ==
  transfer.step \in {"sent", "parsed"} /\ transfer.format = "tlv" /\ transfer.wire.ok =>
    Len(transfer.wire.value) = TlvLength(transfer.nodes)

\* Values survive the way from writer to reader in every format, in the buffers
\* computed for them (data.c, tlv.c, json.c, senml_json.c).
DataExact == DataRead /\ TlvFits
=============================================================================
