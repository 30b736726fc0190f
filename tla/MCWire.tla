------------------------------- MODULE MCWire -------------------------------
(* Both formats of the wire, OpenFlow messages or packets, and the matches   *)
(* of the one with the other.                                                *)
EXTENDS Integers, Sequences, OpenFlowMatch

CONSTANTS MaxHops, MaxEdits, Wildcards

VARIABLES
  part,                                          \* "message", "packet", "match", "test"
  version, kind, obj, next, fault, msgSent, msgWire, msgGot, msgAgain,
  phase, pkt, sent, wire, got, plain, hops, edits, why,
  stage, given, reference, named, attrs, exact, wildcards, predicates, compiled, changed, file,
  lastout, verdict

Message == INSTANCE OpenFlowExchange WITH
             sent <- msgSent, wire <- msgWire, got <- msgGot, again <- msgAgain
Packet == INSTANCE PacketMatcher

messageVars == <<version, kind, obj, next, fault, msgSent, msgWire, msgGot, msgAgain>>
packetVars == <<phase, pkt, sent, wire, got, plain, hops, edits, why>>
testVars ==
  <<stage, given, reference, named, attrs, exact, wildcards, predicates, compiled, changed, file,
    lastout, verdict>>
vars == <<part, messageVars, packetVars, matchVars, testVars>>

Ethernet(type) == [dl_src |-> 1, dl_dst |-> 2, dl_type |-> type]
Ip(proto) == [nw_proto |-> proto, nw_tos |-> 0, nw_src |-> 1, nw_dst |-> 2]
Ports(src, dst) == [tp_src |-> src, tp_dst |-> dst]

\* 1 is IP and ICMP, 2 the protocol of TCP, 3 that of UDP; 8 is a value that is
\* not an IPv4 protocol or address.
MCPackets ==
  { [Ethernet |-> Ethernet(1), IPv4 |-> Ip(2), TCP |-> Ports(1, 2)],
    [Ethernet |-> Ethernet(1), IPv4 |-> Ip(3), UDP |-> Ports(1, 2)],
    [Ethernet |-> Ethernet(1), IPv4 |-> Ip(1), ICMP |-> Ports(2, 0)],
    [Ethernet |-> Ethernet(2), Arp |-> [nw_proto |-> 8, nw_src |-> 1, nw_dst |-> 2]],
    [Ethernet |-> Ethernet(3),
     IPv6 |-> [nw_proto |-> 2, nw_tos |-> 0, nw_src |-> 8, nw_dst |-> 8], TCP |-> Ports(1, 2)],
    [Ethernet |-> Ethernet(0), Vlan |-> [dl_vlan_pcp |-> 1, dl_type |-> 1],
     IPv4 |-> Ip(2), TCP |-> Ports(1, 2)] }

NoMessage ==
  /\ version = "1.0" /\ kind = "bare" /\ obj = Message!NoBody /\ next = 1 /\ fault = "none"
  /\ msgSent = Message!NoBody /\ msgWire = <<>> /\ msgGot = <<>> /\ msgAgain = <<>>

NoPacket ==
  /\ phase = "none" /\ pkt = <<>> /\ sent = <<>> /\ wire = <<>> /\ got = <<>>
  /\ plain = FALSE /\ hops = 0 /\ edits = 0 /\ why = ""

NoMatch == match = DefaultMatch /\ changes = 0

NoTest ==
  /\ stage = "none" /\ given = <<>> /\ reference = <<>> /\ named = FALSE /\ attrs = <<>>
  /\ exact = TRUE /\ wildcards = {} /\ predicates = {} /\ compiled = FALSE /\ changed = FALSE /\ file = <<>>
  /\ lastout = <<>> /\ verdict = "none"

\* What a test of a switch, of a router and of a host does not compare.
MCWildcards ==
  {{}, {<<"Ethernet", "src">>, <<"Ethernet", "dst">>}, {<<"IPv4", "ttl">>, <<"Raw", "raw">>},
   {<<"ICMP", "icmptype">>}}

Init ==
  \/ part = "message" /\ Message!Init /\ NoPacket /\ NoMatch /\ NoTest
  \/ part = "packet" /\ Packet!Init /\ NoMessage /\ NoMatch /\ NoTest
  \/ part = "match" /\ MatchInit /\ NoMessage /\ NoPacket /\ NoTest
  \/ /\ part = "test" /\ Packet!MatcherInit /\ NoMessage /\ NoMatch
     /\ predicates # {} => wildcards = {}

Next ==
  \/ part = "message" /\ Message!Next /\ UNCHANGED <<part, packetVars, matchVars, testVars>>
  \/ part = "packet" /\ Packet!Next /\ UNCHANGED <<part, messageVars, matchVars, testVars>>
  \/ part = "match" /\ MatchNext /\ UNCHANGED <<part, messageVars, packetVars, testVars>>
  \/ part = "test" /\ Packet!MatcherNext /\ UNCHANGED <<part, messageVars, matchVars>>

Spec == Init /\ [][Next]_vars

-----------------------------------------------------------------------------
\* from_bytes and to_bytes undo each other: a message or a plain packet is parsed
\* into what was serialized, attribute by attribute, with nothing left over, and
\* passing it on without a change does not change its bytes, checksums and
\* wildcard words included.
SurvivesTheWire ==
  /\ Message!ReceivedAsSent /\ Packet!ReceivedAsSent
  /\ Message!SameBytesAgain /\ Packet!ForwardedAsReceived

\* Every length a header stores in pre_serialize is that of the bytes that
\* follow it when the packet is sent, and the checksums of a packet are those
\* of the bytes that are sent with it.
HeadersDescribeTheBytes ==
  Packet!LengthsDescribeTheBytes /\ Packet!ChecksumsCoverWhatIsSent

\* Serializing and parsing raise exceptions for the listed kinds of messages and
\* packets only.
OnlyKnownFailures == Message!OnlyKnownFailures /\ Packet!OnlyKnownFailures

\* A test that compares exactly passes what it expects and nothing else, but for
\* what the matcher does not look at and for packets that do not survive parsing.
TestsAreExact == Packet!ExactMeansSameBytes /\ Packet!HubPasses
=============================================================================
