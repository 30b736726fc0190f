------------------------- MODULE OpenFlowExchange -------------------------
(***************************************************************************)
(* An application builds an OpenFlow object or message, sets its           *)
(* attributes one by one and serializes it whenever it likes; a relay      *)
(* parses the bytes and serializes what it got once more.                  *)
(***************************************************************************)
EXTENDS Integers, Sequences, SequencesExt, FiniteSets

LOCAL INSTANCE OpenFlowWire
V10 == INSTANCE OpenFlow10
V13 == INSTANCE OpenFlow13

LibOf == [v \in {"1.0", "1.3"} |-> IF v = "1.0" THEN V10!Lib ELSE V13!Lib]

VARIABLES
  version,   \* the library in use
  kind,      \* type of the message, or "bare" for a structure on its own
  obj,       \* the application's object, of class "none" when there is no body
  next,      \* position in the layout of the attribute to be set next
  fault,     \* an exception ended the exchange: "none", "set", "pack", "parse"
  sent,      \* the object as it was when it was last serialized
  wire,      \* its bytes
  got,       \* the object the relay parsed
  again      \* the bytes the relay serialized it into

vars == <<version, kind, obj, next, fault, sent, wire, got, again>>

Lib == LibOf[version]
NoBody == Object("none", <<>>)

---------------------------------------------------------------------------
(* The message header: packed in front of the body with the length of      *)
(* both, parsed from the first eight bytes.                                *)
EncodeMessage(lib, type, body) ==
  LET raw == IF body = NoBody THEN <<>> ELSE Encode(lib, body)
  IN  IF type = "bare" THEN raw
      ELSE <<Field(1, <<lib.version>>), Field(1, <<type>>), Field(2, 8 + Size(raw)),
             Field(4, <<"xid">>)>> \o raw

(* The class next_header_class finds: by the statistics type when there is *)
(* one, which names no class when nothing set it.                          *)
StatsClass(classes, stats) == IF stats \in DOMAIN classes THEN classes[stats] ELSE "unknown"
ClassOf(lib, type, raw) ==
  IF type \in DOMAIN lib.statsClass THEN StatsClass(lib.statsClass[type], raw[5].v[1])
  ELSE lib.bodyClass[type]

DecodeBody(lib, cls, raw) ==
  CASE cls = "none" -> From(NoBody, raw)
    [] cls = "unknown" -> Fail(From(NoBody, raw))
    [] OTHER -> Decode(lib, cls, raw)
DecodeMessage(lib, raw) ==
  IF lib.parses THEN DecodeBody(lib, ClassOf(lib, raw[2].v[1], raw), Drop(raw, 8))
  ELSE Fail(From(NoBody, raw))

---------------------------------------------------------------------------
(* The values an application tries, per attribute.                         *)
Sample(lib, cls) ==
  FoldLeft(LAMBDA o, it : IF it.enc \in {"plain", "text"} /\ it.a \notin {"type", "len"}
                          THEN Store(lib, o, it.a, <<it.a>>) ELSE o,
           Fresh(lib, cls), lib.layout[cls])
Retyped(o, type) == [o EXCEPT !.at.type = <<type>>]

FlagChoices ==
  [PortState |-> {{"LinkDown"}, {"StpBlock"}}, PortConfig |-> {{"Down", "NoPacketIn"}},
   PortFeatures |-> {{"Copper"}}, Capabilities |-> {{"FlowStats", "QueueStats"}},
   ActionType |-> {{"SetDlSrc"}, {"SetVlanVid", "SetVlanPcp"}},
   FlowModFlags |-> {{"SendFlowRemove", "CheckOverlap"}}]
WildChoices == {{"InPort", "DlSrc"}, {"All"}, {"NwSrcAll"}}

Matches(lib) ==
  LET m == Sample(lib, "Match")
  IN  {[m EXCEPT !.at.wildcards = {"InPort"}], [m EXCEPT !.at.nw_src_wildcard = 8],
       [m EXCEPT !.at.wildcards = {"All"}, !.at.nw_src_wildcard = 32,
                 !.at.nw_dst_wildcard = 32]}
Vendored(lib, n) ==
  Store(lib, Sample(lib, "ActionVendorHeader"), "data", <<Field(n, <<"data">>)>>)
ActionLists(lib) ==
  LET one(cls) == <<Sample(lib, cls)>>
  IN  {one(lib.actionClass[t]) : t \in DOMAIN lib.actionClass}
      \cup {<<Retyped(Sample(lib, "ActionDlAddr"), "SetDlDst"), Sample(lib, "ActionOutput")>>,
            <<Sample(lib, "ActionStripVlan"), Vendored(lib, 8), Sample(lib, "ActionTpPort")>>,
            <<Vendored(lib, 3), Sample(lib, "ActionEnqueue")>>}
Queues(lib) ==
  LET q(n) == Store(lib, Sample(lib, "PacketQueue"), "properties",
                    [j \in 1..n |-> Sample(lib, "MinRateProperty")])
  IN  {<<q(0)>>, <<q(2), q(1)>>}

ValuesOf(lib, o, it) ==
  CASE it.enc = "flags" -> FlagChoices[it.of]
    [] it.enc = "wild" -> WildChoices
    [] it.enc = "sub" -> IF it.of = "Match" THEN Matches(lib) ELSE {Sample(lib, it.of)}
    [] it.enc = "subs" -> {<<Sample(lib, it.of)>>, <<Sample(lib, it.of), Fresh(lib, it.of)>>}
    [] it.enc = "sliced" -> IF it.of = "PacketQueue" THEN Queues(lib)
                            ELSE {<<Sample(lib, it.of), Sample(lib, it.of)>>}
    [] it.enc = "actions" -> ActionLists(lib)
    [] it.enc = "data" -> {<<Field(5, <<it.a>>)>>}
    [] it.a = "errortype" -> {<<t>> : t \in DOMAIN lib.errorCodes}
    [] it.a = "errorcode" -> {<<"code", 0>>, <<"code", lib.errorCodes[o.at.errortype[1]] - 1>>}
    [] it.a = "type" /\ o.cls = "ActionDlAddr" -> {<<"SetDlDst">>}
    [] it.a \in {"type", "len"} -> {}
    [] OTHER -> {<<it.a>>}

---------------------------------------------------------------------------
(* Bodies of messages, and everything that is sent bare in the tests.      *)
Bodies(lib, type) ==
  IF type \in DOMAIN lib.statsClass
  THEN {lib.statsClass[type][t] : t \in DOMAIN lib.statsClass[type]} \cup {"StatsHeader"}
  ELSE {lib.bodyClass[type]}

Init ==
  /\ version \in DOMAIN LibOf
  /\ \/ /\ kind = "bare"
        /\ \E cls \in DOMAIN Lib.layout : obj = Fresh(Lib, cls)
     \/ /\ kind \in DOMAIN Lib.bodyClass
        /\ \E cls \in Bodies(Lib, kind) :
             obj = IF cls = "none" THEN NoBody ELSE Fresh(Lib, cls)
  /\ next = 1 /\ fault = "none" /\ sent = NoBody /\ wire = <<>> /\ got = <<>> /\ again = <<>>

Layout == IF obj = NoBody THEN <<>> ELSE Lib.layout[obj.cls]

(* One property setter or one append to a list; the layout's items that    *)
(* are no attributes are passed over.                                      *)
SetAttribute ==
  /\ fault = "none" /\ next <= Len(Layout)
  /\ next' = next + 1
  /\ LET it == Layout[next]
         values == IF next \in Carried(Layout) THEN ValuesOf(Lib, obj, it) ELSE {}
     IN  IF values = {} THEN UNCHANGED <<obj, fault>>
         ELSE IF it.enc = "port" /\ ~Lib.helpers THEN fault' = "set" /\ UNCHANGED obj
         ELSE \E v \in values : obj' = Store(Lib, obj, it.a, v) /\ UNCHANGED fault
  /\ wire' = <<>> /\ got' = <<>> /\ again' = <<>> /\ UNCHANGED <<version, kind, sent>>

(* The prefix wildcards of a match are attributes without an item.         *)
SetPrefix ==
  /\ fault = "none" /\ obj.cls = "Match"
  /\ obj.at.nw_src_wildcard = 0
  /\ obj' = [obj EXCEPT !.at.nw_src_wildcard = 24, !.at.nw_dst_wildcard = 16]
  /\ wire' = <<>> /\ got' = <<>> /\ again' = <<>>
  /\ UNCHANGED <<version, kind, next, fault, sent>>

(* The type of an error is set again: its code stays what it was.          *)
SetErrorType ==
  /\ fault = "none" /\ obj.cls = "Error" /\ next = 3
  /\ \E t \in DOMAIN Lib.errorCodes : obj' = [obj EXCEPT !.at.errortype = <<t>>]
  /\ wire' = <<>> /\ got' = <<>> /\ again' = <<>>
  /\ UNCHANGED <<version, kind, next, fault, sent>>

Serialize ==
  /\ fault = "none" /\ wire = <<>>
  /\ IF obj = NoBody \/ Packable(Lib, obj)
     THEN /\ wire' = EncodeMessage(Lib, kind, obj)
          /\ sent' = obj /\ UNCHANGED fault
     ELSE fault' = "pack" /\ UNCHANGED <<wire, sent>>
  /\ UNCHANGED <<version, kind, obj, next, got, again>>

Arrives(d) ==
  IF d.ok THEN got' = <<d.obj, d.rest>> /\ UNCHANGED fault
  ELSE fault' = "parse" /\ UNCHANGED got

Parse ==
  /\ fault = "none" /\ wire # <<>> /\ got = <<>>
  /\ Arrives(IF kind = "bare" THEN Decode(Lib, obj.cls, wire) ELSE DecodeMessage(Lib, wire))
  /\ UNCHANGED <<version, kind, obj, next, sent, wire, again>>

Forward ==
  /\ fault = "none" /\ got # <<>> /\ again = <<>>
  /\ again' = EncodeMessage(Lib, kind, got[1])
  /\ UNCHANGED <<version, kind, obj, next, fault, sent, wire, got>>

Next == SetAttribute \/ SetPrefix \/ SetErrorType \/ Serialize \/ Parse \/ Forward
Spec == Init /\ [][Next]_vars

---------------------------------------------------------------------------
(* What does not survive the way from one object to the next: the prefix   *)
(* wildcards of a match, which to_bytes never packs; the two counters      *)
(* whose setters share a variable; states and actions that are numbers     *)
(* although they are or-ed as bits; the padding of vendor data; the All of *)
(* a table's wildcards, which comes back as the single ones.               *)
Lost ==
  {<<"Match", "nw_src_wildcard">>, <<"Match", "nw_dst_wildcard">>,
   <<"PortStatsReply", "rx_over_errors">>, <<"PortStatsReply", "rx_crc_errors">>,
   <<"PhysicalPort", "state">>, <<"SwitchFeaturesReply", "actions">>,
   <<"ActionVendorHeader", "data">>}
NotSingle == {"All", "NwSrcAll", "NwDstAll", "NwSrcMask", "NwDstMask"}

RECURSIVE Same(_, _, _)
SameItem(lib, it, a, b) ==
  CASE it.enc = "text" -> b = Padded(a)
    [] it.enc = "flags" -> a \subseteq b /\ \A e \in b \ a : lib.enums[it.of][e] = {}
    [] it.enc = "wild" -> \/ a \ NotSingle = b \ NotSingle
                          \/ it.of = "never" /\ "All" \in a
    [] it.enc = "sub" -> Same(lib, a, b)
    [] it.enc \in {"subs", "sliced", "actions"} ->
         Len(a) = Len(b) /\ \A j \in DOMAIN a : Same(lib, a[j], b[j])
    [] OTHER -> a = b
Same(lib, a, b) ==
  /\ \/ a.cls = b.cls
     \/ a.cls = "AggregateFlowStatsRequest" /\ b.cls = "IndividualFlowStatsRequest"
  /\ LET lay == lib.layout[b.cls]
     IN  \A j \in Carried(lay) :
           <<b.cls, lay[j].a>> \in Lost \/ SameItem(lib, lay[j], a.at[lay[j].a], b.at[lay[j].a])

(* The object the relay parses has every attribute the application had set *)
(* when it serialized the message, at any point of its construction, and   *)
(* no byte is left over: whatever is packed with one length is sliced with *)
(* the same one.  Lost lists the attributes for which this fails.          *)
ReceivedAsSent ==
  got # <<>> => /\ got[2] = <<>>
                /\ sent = NoBody \/ Same(Lib, sent, got[1])

(* Passing a message on does not change it: to_bytes of what from_bytes    *)
(* made is the bytes it was made from, except for wildcard words that use  *)
(* the members for whole addresses and for the counters named above.       *)
SameBytesAgain ==
  again # <<>> =>
    \/ again = wire
    \/ sent.cls = "PortStatsReply"
    \/ sent.cls = "Match" /\ sent.at.wildcards \cap {"NwSrcAll", "NwDstAll"} # {}
    \/ sent.cls = "TableStatsReply" /\ sent.at.wildcards \cap NotSingle # {}

(* An OpenFlow 1.0 object can be serialized as soon as it is built and     *)
(* parsed whenever it was serialized; the exceptions are an error without  *)
(* a type, a packet-out without a packet, and the statistics message build *)
(* makes without saying which statistics, and for the parser an error      *)
(* whose code is none of its type's any more.  Under 1.3 no message is     *)
(* ever parsed, and no structure with flags serialized.                    *)
OnlyKnownFailures ==
  /\ fault = "parse" /\ obj.cls = "Error" /\ (version = "1.0" \/ kind = "bare") =>
       ~ HasCode(Lib, sent.at.errortype, sent.at.errorcode)
  /\ fault # "none" /\ version = "1.0" => obj.cls \in {"Error", "PacketOut", "StatsHeader"}
  /\ version = "1.3" /\ got # <<>> => kind = "bare"
===========================================================================
