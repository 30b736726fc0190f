--------------------------- MODULE OpenFlowWire ---------------------------
(***************************************************************************)
(* How the classes of lib/openflow turn an object into bytes and back.  A  *)
(* class is described by a layout, the sequence of the items its to_bytes  *)
(* packs and its from_bytes unpacks, in the order of its struct format.  A *)
(* library (OpenFlow10, OpenFlow13) is a record of its layouts, its        *)
(* enumerations and the helpers its functions can reach.                   *)
(***************************************************************************)
EXTENDS Bytes, FiniteSetsExt, TLC

---------------------------------------------------------------------------
(* The items of a layout.  Values that only travel are tuples of strings,  *)
(* flags are sets of member names, lengths are numbers, data are fields.   *)
Item(a, w, enc, of) == [a |-> a, w |-> w, enc |-> enc, of |-> of]
B(a) == Item(a, 1, "plain", "")
H(a) == Item(a, 2, "plain", "")
I(a) == Item(a, 4, "plain", "")
Q(a) == Item(a, 8, "plain", "")
S(n, a) == Item(a, n, "plain", "")
X(n) == Item("pad", n, "pad", "")
Text(n, a) == Item(a, n, "text", "")
Flags(w, a, enum) == Item(a, w, "flags", enum)
Wild(a, all) == Item(a, 4, "wild", all)
Port(a, default) == Item(a, 2, "port", default)
OutPort(a) == Item(a, 2, "plain", "any")
Must(w, a) == Item(a, w, "plain", "must")
Count(w, a) == Item(a, w, "count", "")
Const(w, a, c) == Item(a, w, "const", c)
Sub(a, cls) == Item(a, 0, "sub", cls)
Subs(a, cls) == Item(a, 0, "subs", cls)
Sliced(a, cls) == Item(a, 0, "sliced", cls)
Actions(a) == Item(a, 0, "actions", "")
ActionsUpTo(a, n) == Item(a, 0, "actions", n)
Data(a) == Item(a, 0, "data", "")
MustData(a) == Item(a, 0, "data", "must")
End == Item("end", 0, "end", "")

Fixed == {"plain", "pad", "text", "flags", "wild", "port", "count", "const"}
(* The attributes an application can set and read.                         *)
Carried(lay) == {j \in DOMAIN lay : lay[j].enc \notin {"pad", "count", "const", "end"}}

Default == <<"default">>
Zero == <<"0">>
Missing == <<"missing">>
(* The largest port number of OpenFlow 1.3 needs four bytes.               *)
AnyPort == <<"Any">>
Object(cls, at) == [cls |-> cls, at |-> at]

(* The least number of bytes of an object: calcsize of its formats.        *)
RECURSIVE MinSize(_, _)
MinSize(lib, lay) ==
  FoldLeft(LAMBDA n, it :
             n + IF it.enc = "sub" THEN MinSize(lib, lib.layout[it.of]) ELSE it.w, 0, lay)

(* What the constructor puts into an attribute.                            *)
RECURSIVE Fresh(_, _)
FreshItem(lib, cls, it) ==
  CASE it.of = "must" -> IF it.enc = "data" THEN <<Field(0, Missing)>> ELSE Missing
    [] it.of = "any" -> lib.anyPort
    [] it.enc \in {"flags", "wild"} -> {}
    [] it.enc = "text" -> <<>>
    [] it.enc = "sub" -> Fresh(lib, it.of)
    [] it.enc \in {"subs", "sliced", "actions", "data"} -> <<>>
    [] it.a = "type" /\ cls \in DOMAIN lib.typeOf -> <<lib.typeOf[cls]>>
    [] it.a = "len" -> MinSize(lib, lib.layout[cls])
    [] OTHER -> Default
Fresh(lib, cls) ==
  LET lay == lib.layout[cls]
      at == [a \in {lay[j].a : j \in Carried(lay)} |->
               FreshItem(lib, cls, lay[CHOOSE j \in DOMAIN lay : lay[j].a = a])]
  IN  Object(cls, IF cls = "Match"
                  THEN [nw_src_wildcard |-> 0, nw_dst_wildcard |-> 0] @@ at ELSE at)

(* Python strings come back from the wire with the NULs struct filled in.  *)
Padded(t) == IF t # <<>> /\ Last(t) = "NUL" THEN t ELSE Append(t, "NUL")

---------------------------------------------------------------------------
(* The property setters that do more than store the value.                 *)
PadTo8(data) == (8 - (Size(data) % 8)) % 8
Store(lib, obj, a, v) ==
  CASE obj.cls = "PortStatsReply" /\ a = "rx_crc_errors" ->
         [obj EXCEPT !.at["rx_over_errors"] = v]
    [] obj.cls = "ActionVendorHeader" /\ a = "data" ->
         [obj EXCEPT !.at[a] = v, !.at.len = 8 + Size(v) + PadTo8(v)]
    [] OTHER -> [obj EXCEPT !.at[a] = v]

(* IntEnum members whose every bit is in the bitmap; those that are 0      *)
(* always are.                                                             *)
Members(enum, bits) == {e \in DOMAIN enum : enum[e] \subseteq bits}
Bitmap(enum, set) == UNION {enum[e] : e \in set}

(* The prefix length read out of six bits of the wildcard word.            *)
PrefixBits(bits, low) ==
  LET n == FoldSet(LAMBDA b, sum : sum + 2^(b - low), 0, bits \cap low..(low + 5))
  IN  IF n > 32 THEN 32 ELSE n

(* from_bytes of the two classes that carry a wildcard word: the single    *)
(* wildcards by name, the address prefixes as numbers.  Only the match     *)
(* recognizes the word with every bit set: the table statistics compare    *)
(* its name with that word.                                                *)
StoreWild(lib, obj, it, bits) ==
  LET enum == lib.enums.Wildcard
      named == Members(enum, bits) \ {"All", "NwSrcAll", "NwDstAll", "NwSrcMask", "NwDstMask"}
      all == it.of = "all" /\ bits = enum.All
  IN  IF obj.cls # "Match" THEN [obj EXCEPT !.at[it.a] = named]
      ELSE [obj EXCEPT !.at[it.a] = IF all THEN {"All"} ELSE named,
                       !.at.nw_src_wildcard = IF all THEN 32 ELSE PrefixBits(bits, 8),
                       !.at.nw_dst_wildcard = IF all THEN 32 ELSE PrefixBits(bits, 14)]

---------------------------------------------------------------------------
(* to_bytes of an object.                                                  *)
RECURSIVE Encode(_, _)
EncodeAll(lib, objs) == FoldLeft(LAMBDA raw, o : raw \o Encode(lib, o), <<>>, objs)

(* The lengths to_bytes works out from the parts of variable size.         *)
CountOf(lib, obj) ==
  CASE obj.cls = "PacketQueue" -> 8 + Size(EncodeAll(lib, obj.at.properties))
    [] obj.cls = "PacketOut" -> Size(EncodeAll(lib, obj.at.actions))
    [] obj.cls = "PacketIn" -> 10 + Size(obj.at.packet)
    [] obj.cls = "IndividualFlowStatsReply" ->
         MinSize(lib, lib.layout[obj.cls]) + Size(EncodeAll(lib, obj.at.actions))

EncodeItem(lib, obj, it) ==
  CASE it.enc \in {"plain", "port"} -> <<Field(it.w, obj.at[it.a])>>
    [] it.enc = "pad" -> <<Field(it.w, Zero)>>
    [] it.enc = "text" -> <<Field(it.w, Padded(obj.at[it.a]))>>
    [] it.enc = "flags" -> <<Field(it.w, Bitmap(lib.enums[it.of], obj.at[it.a]))>>
    [] it.enc = "wild" -> <<Field(it.w, Bitmap(lib.enums.Wildcard, obj.at[it.a]))>>
    [] it.enc = "const" -> <<Field(it.w, <<it.of>>)>>
    [] it.enc = "count" -> <<Field(it.w, CountOf(lib, obj))>>
    [] it.enc = "sub" -> Encode(lib, obj.at[it.a])
    [] it.enc \in {"subs", "sliced", "actions"} -> EncodeAll(lib, obj.at[it.a])
    [] it.enc = "data" ->
         LET data == obj.at[it.a] IN
         IF obj.cls = "ActionVendorHeader" /\ PadTo8(data) > 0
         THEN Append(data, Field(PadTo8(data), Zero)) ELSE data
    [] OTHER -> <<>>
Encode(lib, obj) ==
  FoldLeft(LAMBDA raw, it : raw \o EncodeItem(lib, obj, it), <<>>, lib.layout[obj.cls])

(* to_bytes raises nothing: every attribute it reads exists and fits its   *)
(* format, and the functions it calls can be found.                        *)
RECURSIVE Packable(_, _)
PackableItem(lib, obj, it) ==
  CASE it.enc \in {"plain", "port"} ->
         /\ it.of = "must" => obj.at[it.a] # Missing
         /\ it.of = "any" => ~(obj.at[it.a] = AnyPort /\ it.w < 4)
    [] it.enc \in {"flags", "wild"} -> lib.helpers
    [] it.enc = "data" -> obj.at[it.a] # <<Field(0, Missing)>>
    [] it.enc = "sub" -> Packable(lib, obj.at[it.a])
    [] it.enc \in {"subs", "sliced", "actions"} ->
         \A j \in DOMAIN obj.at[it.a] : Packable(lib, obj.at[it.a][j])
    [] OTHER -> TRUE
Packable(lib, obj) ==
  \A j \in DOMAIN lib.layout[obj.cls] : PackableItem(lib, obj, lib.layout[obj.cls][j])

---------------------------------------------------------------------------
(* from_bytes of a new object: whether it has raised nothing so far, the   *)
(* object, the bytes it has not read yet, and the last length it read.     *)
From(obj, raw) == [ok |-> TRUE, obj |-> obj, rest |-> raw, count |-> 0]
Fail(d) == [d EXCEPT !.ok = FALSE]

RECURSIVE Decode(_, _, _)

(* The class of the element at the front of a list, and its length; actions *)
(* are told apart by their type.                                           *)
ElementClass(lib, of, raw) ==
  IF of # "action" THEN of
  ELSE IF Len(raw) >= 2 /\ raw[1].v[1] \in DOMAIN lib.actionClass
       THEN lib.actionClass[raw[1].v[1]] ELSE "none"
ElementSize(of, raw) == IF of = "MinRateProperty" THEN 16 ELSE raw[2].v

Appended(d, one, rest) ==
  IF one.ok THEN [d EXCEPT !.obj = Append(@, one.obj), !.rest = rest] ELSE Fail(d)
Element(lib, cls, d, n) ==
  IF cls = "none" THEN Fail(d)
  ELSE Appended(d, Decode(lib, cls, Take(d.rest, n)), Drop(d.rest, n))

(* A list whose every element says its own length: the loop of             *)
(* _unpack_actions, of the queues of a reply and of a queue's properties.  *)
RECURSIVE Unpack(_, _, _)
Unpack(lib, of, d) ==
  IF ~d.ok \/ d.rest = <<>> THEN d
  ELSE Unpack(lib, of, Element(lib, ElementClass(lib, of, d.rest), d, ElementSize(of, d.rest)))

(* A list of elements of one size, as many as the bytes have room for.     *)
RECURSIVE UnpackSubs(_, _, _)
UnpackSubs(lib, cls, d) ==
  IF ~d.ok \/ Size(d.rest) < MinSize(lib, lib.layout[cls]) THEN d
  ELSE UnpackSubs(lib, cls,
         Element(lib, cls, d, MinSize(lib, lib.layout[cls])))

(* The setter of an error's code looks for it among the codes of the       *)
(* error's type.                                                           *)
HasCode(lib, type, code) == code[2] < lib.errorCodes[type[1]]

Accepts(lib, obj, it, v) ==
  /\ it.a = "errorcode" => HasCode(lib, obj.at.errortype, v)
  /\ it.enc \in {"flags", "port"} => lib.helpers
  /\ it.enc = "const" => v = <<it.of>> \/ it.a = "unread"
Assigned(lib, obj, it, v) ==
  CASE it.enc = "flags" -> [obj EXCEPT !.at[it.a] = Members(lib.enums[it.of], v)]
    [] it.enc = "wild" -> StoreWild(lib, obj, it, v)
    [] it.enc \in {"plain", "text", "port"} -> Store(lib, obj, it.a, v)
    [] OTHER -> obj
DecodeFixed(lib, d, it) ==
  IF d.rest = <<>> THEN Fail(d)
  ELSE IF Head(d.rest).w # it.w \/ ~Accepts(lib, d.obj, it, Head(d.rest).v) THEN Fail(d)
  ELSE [d EXCEPT !.obj = Assigned(lib, @, it, Head(d.rest).v), !.rest = Tail(@),
                 !.count = IF it.enc = "count" THEN Head(d.rest).v ELSE @]

(* The value of an item that has no place of its own in a struct format.   *)
Part(lib, it, raw) ==
  CASE it.enc = "sub" -> Decode(lib, it.of, raw)
    [] it.enc = "subs" -> UnpackSubs(lib, it.of, From(<<>>, raw))
    [] it.enc = "actions" -> Unpack(lib, "action", From(<<>>, raw))
    [] it.enc = "sliced" -> Unpack(lib, it.of, From(<<>>, raw))
    [] it.enc = "data" -> From(raw, <<>>)
Joined(lib, d, it, part, rest) ==
  IF part.ok THEN [d EXCEPT !.obj = Store(lib, @, it.a, part.obj), !.rest = part.rest \o rest]
  ELSE Fail(d)
DecodeVariable(lib, d, it) ==
  CASE it.enc = "end" -> IF d.rest = <<>> THEN d ELSE Fail(d)
    [] it.of = "count" ->
         Joined(lib, d, it, Part(lib, it, Take(d.rest, d.count)), Drop(d.rest, d.count))
    [] OTHER -> Joined(lib, d, it, Part(lib, it, d.rest), <<>>)

DecodeItem(lib, d, it) ==
  IF ~d.ok THEN d
  ELSE IF it.enc \in Fixed THEN DecodeFixed(lib, d, it) ELSE DecodeVariable(lib, d, it)
Decode(lib, cls, raw) ==
  FoldLeft(LAMBDA d, it : DecodeItem(lib, d, it), From(Fresh(lib, cls), raw), lib.layout[cls])
===========================================================================
