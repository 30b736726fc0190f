--------------------------- MODULE PacketMatcher ---------------------------
(***************************************************************************)
(* Packets in a test scenario: an input event gives a packet to the user   *)
(* code under test, which may change it and sends it, and the matcher of   *)
(* an output event judges what was sent.  A scenario can be compiled first *)
(* (swyard -c): its packets are then stored as bytes.                      *)
(* _PacketMatcher, PacketInputEvent, PacketOutputEvent and the storing of  *)
(* TestScenario of lib/testing.py, on the packets of PacketExchange.       *)
(***************************************************************************)
EXTENDS PacketExchange

CONSTANT Wildcards      \* sets of pairs of a header class and an attribute

VARIABLES
  stage,      \* "written", "stored", "ready", "received", "judged"
  given,      \* the packet of the input event
  reference,  \* _reference_packet, the packet that the output event expects
  named,      \* the ICMPv6 header of the scenario was made with icmptype=...
  attrs,      \* _comparison_attrs: per header class the attributes compared
  exact, wildcards, predicates,
  compiled,   \* the scenario was compiled and loaded
  changed,    \* user code changed the packet, or copyfromlastout did
  file,       \* the digest and the content of the compiled file
  lastout,    \* the packet of the output event that was matched last
  verdict     \* "none", "passed", "failed", "raised"
matcherVars ==
  <<stage, given, reference, named, attrs, exact, wildcards, predicates, compiled, changed, file,
    lastout, verdict>>
exchangeVars == <<phase, sent, wire, got, plain, hops>>
eventVars == <<given, reference, compiled>>
expectVars == <<named, attrs, exact, wildcards, predicates>>

---------------------------------------------------------------------------
(* _compute_comparison_attrs.  The public attributes of a header but for   *)
(* the checksum; where the model keeps a list of equal-ranking attributes  *)
(* in one, that one stands for them.  What a class keeps to itself is not  *)
(* among them: the length of an IPv6 payload, the lengths of the addresses *)
(* of Arp, the options of an IPv6 option header, the segments left of a    *)
(* route header, the data of a mobility header and the routes of RIPv2.    *)
(* An ICMPv6 header that is made with icmptype=... keeps the argument as   *)
(* icmp6type, which no other has, parsed ones neither, and no wildcard can *)
(* name, because the class does not have it.                               *)
Kept(cls) ==
  CASE cls = "Arp" -> {} [] cls = "IPv6" -> {"payloadlen"}
    [] cls \in {"IPv6HopOption", "IPv6DestinationOption"} -> {"opts"}
    [] cls = "IPv6RouteOption" -> {"optdatalen", "segmentsleft"}
    [] cls = "IPv6Fragment" -> {"optdatalen"}
    [] cls = "IPv6Mobility" -> {"optdatalen", "mhtype", "data", "src", "dst"}
    [] cls = "RIPv2" -> {"routes"} [] cls = "TCP" -> {"len"} [] OTHER -> {}
Argument(h) == IF named /\ h.cls = "ICMPv6" THEN {"icmp6type"} ELSE {}
Public(h) == (DOMAIN h \ ({"cls", "csum"} \cup Kept(h.cls))) \cup Argument(h)
Inexact(h) ==
  CASE h.cls = "Ethernet" -> {"src", "dst", "ethertype"} [] h.cls = "Arp" -> {"at"}
    [] h.cls = "IPv4" -> {"src", "dst", "protocol"} [] h.cls = "IPv6" -> {"src", "dst", "nextheader"}
    [] h.cls \in {"TCP", "UDP"} -> {"src", "dst"}
    [] h.cls \in {"ICMP", "ICMPv6"} -> {"icmptype", "icmpcode"}
    [] h.cls = "Vlan" -> {"vlanid", "ethertype"} [] OTHER -> {}
Classes(p) == {p[j].cls : j \in DOMAIN p}
\* the last header of a class decides for all of them
LastOf(p, cls) == Last(Headers(p, cls))
ComparisonAttrs(p, all, wild) ==
  [cls \in Classes(p) |->
     (IF all THEN Public(LastOf(p, cls)) ELSE Inexact(LastOf(p, cls)))
       \ {w[2] : w \in {w \in wild : w[1] = cls}}]

---------------------------------------------------------------------------
(* _compare_packet_against_reference.  The data of ICMP are equal when     *)
(* their payloads are, whatever their types; an echo also compares its     *)
(* identifier and its sequence number, and raises if the other has none,   *)
(* as getattr does for icmp6type: the packet that was sent has been parsed. *)
(* The pointer of a time stamp is not looked at.                           *)
Echoes == {EchoReply, EchoRequest, 128, 129}
Numbered == Echoes \cup {AddressMaskRequest, AddressMaskReply}
SameData(d, ref) == d.raw = ref.raw /\ (ref.of \in Echoes => SubSeq(d.at, 1, 2) = ref.at)
OptionSeen(o) == IF "entries" \in DOMAIN o THEN <<4, o.flag, o.entries>> ELSE o
SameOptions(opts, others) ==
  Len(opts) = Len(others) /\ \A j \in DOMAIN opts : OptionSeen(opts[j]) = OptionSeen(others[j])
SameAttr(a, h, r) ==
  CASE a = "data" -> SameData(h.data, r.data)
    [] a = "opts" -> SameOptions(h.opts, r.opts)
    [] OTHER -> h[a] = r[a]

\* Mutation: the headers that are missing from the packet are not noticed.
SameTypesUpToTheEnd(p, ref) == Len(p) <= Len(ref) /\ \A j \in DOMAIN p : p[j].cls = ref[j].cls
SameTypes(p, ref) == Len(p) = Len(ref) /\ \A j \in DOMAIN p : p[j].cls = ref[j].cls
Compared(cls) == IF cls \in DOMAIN attrs THEN attrs[cls] ELSE {}
Missing(a, h, r) ==
  a = "icmp6type" \/ (a = "data" /\ r.data.of \in Echoes /\ h.data.of \notin Numbered)
ComparisonRaises(p, ref) ==
  /\ SameTypes(p, ref)
  /\ \E j \in DOMAIN ref : \E a \in Compared(ref[j].cls) : Missing(a, p[j], ref[j])
SameAttrs(p, ref) ==
  \A j \in DOMAIN ref \cap DOMAIN p : \A a \in Compared(ref[j].cls) : SameAttr(a, p[j], ref[j])
\* A predicate asks for a header of a class.
Holds(predicate, p) == predicate \in Classes(p)

(* match: to_bytes runs on both packets first, for the sake of the lengths *)
(* that pre_serialize stores.                                              *)
AsSent(parts) == [j \in DOMAIN parts |-> parts[j].h]
Matches(p, ref) ==
  /\ SameTypes(p, ref) /\ SameAttrs(p, ref)
  /\ \A f \in predicates : Holds(f, p)

---------------------------------------------------------------------------
(* The scenario is written for user code that sends the packet as it is, a *)
(* hub, or with a smaller time to live, a router.                          *)
Lowered(h) == IF h.cls \in {"IPv4", "IPv6"} THEN SetTtl(h, h.ttl - 1) ELSE h
MatcherInit ==
  /\ given \in Built
  /\ reference \in {given, [j \in DOMAIN given |-> Lowered(given[j])]}
  /\ exact \in BOOLEAN
  /\ wildcards \in Wildcards
  /\ predicates \in {{}, {"UDP"}}
  /\ named \in {n \in BOOLEAN : n => "ICMPv6" \in Classes(given)}
  /\ attrs = ComparisonAttrs(reference, exact, wildcards)
  /\ stage = "written" /\ compiled = FALSE /\ changed = FALSE
  /\ file = <<>> /\ lastout = <<>> /\ verdict = "none"
  /\ phase = "built" /\ pkt = <<>> /\ sent = <<>> /\ wire = <<>> /\ got = <<>> /\ plain = FALSE
  /\ hops = 0 /\ edits = 0 /\ why = ""

(* A packet that cannot be packed or parsed ends the test.                 *)
Ends(reason) == stage' = "judged" /\ why' = reason

(* compile_scenario: __getstate__ of the events stores bytes, of the       *)
(* matcher also the attributes, worked out already.                        *)
Stored(in, ref) ==
  IF Packable(in) /\ Packable(ref)
  THEN /\ \E content \in {<<AllBytes(in), AllBytes(ref)>>} :
            file' = [digest |-> content, content |-> content]
       /\ stage' = "stored" /\ UNCHANGED why
  ELSE Ends("struct") /\ UNCHANGED file
Store ==
  /\ stage = "written"
  /\ Stored(Serialize(given), Serialize(reference))
  /\ UNCHANGED <<exchangeVars, pkt, edits, eventVars, expectVars, changed, lastout, verdict>>

\* The file is edited.
Tamper ==
  /\ stage = "stored" /\ file.digest # <<>>
  /\ file' = [file EXCEPT !.digest = <<>>]
  /\ UNCHANGED <<exchangeVars, why, pkt, edits, stage, eventVars, expectVars, changed, lastout,
                 verdict>>

(* uncompile_scenario and __setstate__: a file whose digest is another is  *)
(* refused; the packets are parsed from their bytes.                       *)
DigestMatches == file.digest = file.content
Loaded(in, ref) ==
  IF DigestMatches /\ in.why = "" /\ ref.why = ""
  THEN /\ given' = in.pkt /\ reference' = ref.pkt
       /\ stage' = "ready" /\ compiled' = TRUE /\ UNCHANGED why
  ELSE Ends("refused") /\ UNCHANGED eventVars
Load ==
  /\ stage = "stored"
  /\ Loaded(Parse(given[1].cls, file.content[1]), Parse(reference[1].cls, file.content[2]))
  /\ UNCHANGED <<exchangeVars, pkt, edits, expectVars, changed, file, lastout, verdict>>

(* generate_packet: the packet is serialized and parsed before it is       *)
(* delivered.                                                              *)
Delivered(d) ==
  IF d.why = ""
  THEN stage' = "received" /\ pkt' = d.pkt /\ given' = d.pkt /\ UNCHANGED why
  ELSE Ends(d.why) /\ UNCHANGED <<pkt, given>>
Generated(in) ==
  IF Packable(in) THEN Delivered(Parse(given[1].cls, AllBytes(in)))
  ELSE Ends("struct") /\ UNCHANGED <<pkt, given>>
Deliver ==
  /\ stage \in {"written", "ready"}
  /\ Generated(Serialize(given))
  /\ UNCHANGED <<exchangeVars, edits, reference, expectVars, compiled, changed, file, lastout,
                 verdict>>

(* copyfromlastout: the next input event answers the packet that was       *)
(* matched, its destination is the source of that one.                     *)
FirstOf(p, cls) == Headers(p, cls)[1]
Copied(p) ==
  [j \in DOMAIN p |-> IF p[j].cls = "Ethernet"
                      THEN [p[j] EXCEPT !.dst = FirstOf(lastout, "Ethernet").src] ELSE p[j]]
DeliverReply ==
  /\ verdict = "passed" /\ hops = 1
  /\ Headers(lastout, "Ethernet") # <<>>
  /\ \E d \in {Parse(given[1].cls, AllBytes(Serialize(given)))} :
       d.why = "" /\ pkt' = Copied(d.pkt) /\ given' = Copied(d.pkt)
  /\ stage' = "received" /\ verdict' = "none" /\ changed' = TRUE
  /\ UNCHANGED <<exchangeVars, why, edits, reference, expectVars, compiled, file, lastout>>

(* What the user code does to the packet: what the applications of         *)
(* PacketExchange do, or a change of what an ICMP message says.            *)
Written(h) ==
  DOMAIN h.data.at \ (IF h.cls = "ICMP" THEN ICMPUnwritten(h.data.of) ELSE ICMPv6Unwritten(h.data.of))
SetIcmpData ==
  \E j \in DOMAIN pkt :
    /\ pkt[j].cls \in {"ICMP", "ICMPv6"} /\ Written(pkt[j]) # {}
    /\ Change([pkt EXCEPT ![j].data.at[Max(Written(pkt[j]))] = @ + 1])
DropPayload == pkt # <<>> /\ Last(pkt).cls = "Raw" /\ Change(Front(pkt))
RewritePayload ==
  /\ pkt # <<>> /\ Last(pkt).cls = "Raw" /\ "v" \in DOMAIN Last(pkt).raw[1]
  /\ Change([pkt EXCEPT ![Len(pkt)].raw[1].v = @ + 1])
Edit ==
  /\ stage = "received"
  /\ \/ DecrementTtl \/ SetAddresses \/ SetType \/ AddPayload
     \/ SetIcmpData \/ DropPayload \/ RewritePayload
  /\ changed' = TRUE
  /\ UNCHANGED <<stage, eventVars, expectVars, file, lastout, verdict>>

(* send_packet: PacketOutputEvent.match on the port that was expected.     *)
Judged(parts, refParts) ==
  /\ sent' = parts /\ wire' = AllBytes(parts)
  /\ reference' = AsSent(refParts)
  /\ CASE ComparisonRaises(AsSent(parts), AsSent(refParts)) ->
              verdict' = "raised" /\ UNCHANGED lastout
       [] Matches(AsSent(parts), AsSent(refParts)) ->
              verdict' = "passed" /\ lastout' = AsSent(parts)
       [] OTHER -> verdict' = "failed" /\ UNCHANGED lastout
SendToTest ==
  /\ stage = "received"
  /\ Judged(Serialize(pkt), Serialize(reference))
  /\ stage' = "judged" /\ hops' = hops + 1
  /\ UNCHANGED <<phase, pkt, got, plain, edits, why, given, expectVars, compiled, changed, file>>

MatcherNext ==
  Store \/ Tamper \/ Load \/ Deliver \/ DeliverReply \/ Edit \/ SendToTest

---------------------------------------------------------------------------
(* "exact determines whether a byte-by-byte comparison is done" (line 66): *)
(* an exact matcher without wildcards accepts a packet only if its bytes   *)
(* are those that were expected.  The exceptions are what Kept hides, what *)
(* ICMP messages other than echoes say before their payload, and, in a     *)
(* compiled scenario, headers of a class that the written packet did not   *)
(* have: RIPv2 comes back as bytes, which are not compared then.           *)
Hidden(h) ==
  \/ Kept(h.cls) \ {"payloadlen", "len", "optdatalen"} # {}
  \/ h.cls \in {"ICMP", "ICMPv6"} /\ h.data.of \notin Echoes
  \/ h.cls \notin DOMAIN attrs
ExactMeansSameBytes ==
  verdict = "passed" /\ exact /\ wildcards = {} =>
    wire = AllBytes(Serialize(reference)) \/ \E j \in DOMAIN reference : Hidden(reference[j])

(* User code that sends the packet it got passes a test that expects the   *)
(* packet it was given.  The exceptions are packets with IPv4 options,     *)
(* which grow at every hop, unless the scenario is compiled, the packets   *)
(* that are not parsed into the headers they were built from, and, when    *)
(* all attributes are compared, ICMPv6 headers made with icmptype=...: the *)
(* comparison raises AttributeError, compiled or not (icmpv6.py:25,        *)
(* testing.py:207).                                                        *)
ExpectsTheSame ==
  \A j \in DOMAIN reference : reference[j].cls \in {"IPv4", "IPv6"} => reference[j].ttl = 2
HasOptions(p) == \E j \in DOMAIN p : p[j].cls = "IPv4" /\ p[j].opts # <<>>
HubPasses ==
  /\ ~changed /\ ExpectsTheSame /\ predicates = {} /\ ~HasOptions(reference)
  /\ compiled \/ Plain(reference)
  /\ ~(exact /\ named)
  => verdict \notin {"failed", "raised"}
=============================================================================
