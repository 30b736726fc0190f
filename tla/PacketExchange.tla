-------------------------- MODULE PacketExchange --------------------------
(***************************************************************************)
(* A packet on its way: an application builds it or a host that does not   *)
(* use this library sends it, network devices written with the library     *)
(* parse it, may change it, and serialize it again for the next hop.       *)
(* Packet.to_bytes, Packet._parse and the operations of an application.    *)
(***************************************************************************)
EXTENDS PacketHeaders

CONSTANTS MaxHops,   \* how often a packet is serialized
          MaxEdits   \* how many changes the applications make
VARIABLES
  phase,   \* "built", "sent", "received" or "failed"
  pkt,     \* the packet in the hands of an application
  sent,    \* the headers and their bytes as Packet.to_bytes left them
  wire,    \* the frame
  got,     \* the frame pkt was parsed from, <<>> once pkt was changed
  plain,   \* nothing sent so far is of a kind that is known not to survive
  hops, edits,
  why      \* what was raised
vars == <<phase, pkt, sent, wire, got, plain, hops, edits, why>>

---------------------------------------------------------------------------
(* The methods of a header, by its class.                                  *)
Headers(p, cls) == SelectSeq(p, LAMBDA h : h.cls = cls)
PreSerialize(h, tail, p) ==
  CASE h.cls = "IPv4" -> IPv4PreSerialize(h, tail)
    [] h.cls = "IPv6" -> IPv6PreSerialize(h, tail)
    [] h.cls = "UDP" -> UDPPreSerialize(h, Headers(p, "IPv4"), tail)
    [] h.cls = "TCP" -> TCPPreSerialize(h, Headers(p, "IPv4"), tail)
    [] h.cls = "ICMPv6" -> ICMPv6PreSerialize(h, Headers(p, "IPv6")[1])
    [] h.cls = "IPv6Mobility" -> MobilityPreSerialize(h, Headers(p, "IPv6")[1])
    [] OTHER -> h
ToBytes(h) ==
  CASE h.cls = "Ethernet" -> EthernetTo(h) [] h.cls = "Vlan" -> VlanTo(h)
    [] h.cls = "Null" -> NullTo(h) [] h.cls = "Arp" -> ArpTo(h)
    [] h.cls = "IPv4" -> IPv4To(h) [] h.cls = "IPv6" -> IPv6To(h)
    [] h.cls = "UDP" -> UDPTo(h) [] h.cls = "TCP" -> TCPTo(h)
    [] h.cls = "ICMP" -> ICMPTo(h) [] h.cls = "ICMPv6" -> ICMPv6To(h)
    [] h.cls = "IPv6RouteOption" -> RouteOptionTo(h)
    [] h.cls = "IPv6Fragment" -> FragmentTo(h)
    [] h.cls \in {"IPv6HopOption", "IPv6DestinationOption"} -> HopOptionTo(h)
    [] h.cls = "IPv6Mobility" -> MobilityTo(h)
    [] h.cls = "RIPv2" -> RIPv2To(h) [] h.cls = "Raw" -> h.raw
FromBytes(cls, raw) ==
  CASE cls = "Ethernet" -> EthernetFrom(raw) [] cls = "Vlan" -> VlanFrom(raw)
    [] cls = "Null" -> NullFrom(raw) [] cls = "Arp" -> ArpFrom(raw)
    [] cls = "IPv4" -> IPv4From(raw) [] cls = "IPv6" -> IPv6From(raw)
    [] cls = "UDP" -> UDPFrom(raw) [] cls = "TCP" -> TCPFrom(raw)
    [] cls = "ICMP" -> ICMPFrom(raw) [] cls = "ICMPv6" -> ICMPv6From(raw)
    [] cls = "IPv6RouteOption" -> RouteOptionFrom(raw)
    [] cls = "IPv6Fragment" -> FragmentFrom(raw)
    [] cls \in {"IPv6HopOption", "IPv6DestinationOption"} -> HopOptionFrom(cls, raw)
    [] cls = "IPv6Mobility" -> MobilityFrom(raw)

(* next_header_class.                                                      *)
ByEtherType(type) ==
  CASE type = IP -> "IPv4" [] type = ARP -> "Arp" [] type = IPv6Type -> "IPv6" [] OTHER -> "none"
AfterIPv4(proto) ==
  CASE proto = 1 -> "ICMP" [] proto = 6 -> "TCP" [] proto = 17 -> "UDP" [] OTHER -> "none"
AfterIPv6(next) ==
  CASE next = 6 -> "TCP" [] next = 17 -> "UDP" [] next = ICMPv6Proto -> "ICMPv6"
    [] next = HopOptionProto -> "IPv6HopOption" [] next = RouteProto -> "IPv6RouteOption"
    [] next = FragmentProto -> "IPv6Fragment" [] next = DestinationProto -> "IPv6DestinationOption"
    [] next = MobilityProto -> "IPv6Mobility" [] OTHER -> "none"
NextClass(h) ==
  CASE h.cls = "Ethernet" -> IF h.ethertype = x8021Q THEN "Vlan" ELSE ByEtherType(h.ethertype)
    [] h.cls = "Vlan" -> ByEtherType(h.ethertype)
    [] h.cls = "Null" -> IF h.af = AfInet THEN "IPv4" ELSE "IPv6"
    [] h.cls = "IPv4" -> AfterIPv4(h.protocol)
    [] "nextheader" \in DOMAIN h -> AfterIPv6(h.nextheader)
    [] OTHER -> "none"

---------------------------------------------------------------------------
(* Packet.to_bytes, from the last header to the first, and Packet._parse.  *)
AllBytes(parts) == FoldLeft(LAMBDA raw, p : raw \o p.raw, <<>>, parts)
Part(h) == <<[h |-> h, raw |-> ToBytes(h)]>>
Serialize(p) ==
  FoldRight(LAMBDA h, parts : Part(PreSerialize(h, AllBytes(parts), p)) \o parts, p, <<>>)

Parsed(done, rest, reason) ==
  [pkt |-> IF rest = <<>> THEN done ELSE Append(done, Raw(rest)), why |-> reason]
RECURSIVE ParseRest(_, _, _)
ParseNext(cls, done, rest) ==
  IF cls = "none" THEN Parsed(done, rest, "") ELSE ParseRest(cls, done, rest)
ParsedHeader(d, done) ==
  IF d.why # "" THEN Parsed(done, <<>>, d.why)
  ELSE ParseNext(NextClass(d.h), Append(done, d.h), d.rest)
ParseRest(cls, done, rest) == ParsedHeader(FromBytes(cls, rest), done)
Parse(first, raw) == ParseRest(first, <<>>, raw)

(* What struct.pack refuses: a number that does not fit its bytes.         *)
Packs(f) == "v" \in DOMAIN f /\ f.w \in {1, 2, 4} => f.v >= 0 /\ (f.w = 4 \/ f.v < 256 ^ f.w)
AllWritable(parts) == \A j \in DOMAIN parts : \A k \in DOMAIN parts[j].raw : Writable(parts[j].raw[k])
Packable(parts) ==
  AllWritable(parts) /\ \A j \in DOMAIN parts : \A k \in DOMAIN parts[j].raw : Packs(parts[j].raw[k])

---------------------------------------------------------------------------
(* The packets applications build, as in tests/test_packet.py, test_ipv4,  *)
(* test_ipv6, test_icmp and test_ripv2 and in the routers of the labs.     *)
Payload == Raw(<<S(30, 7)>>)
Icmp4 == {ICMP(t, 0, Data(t, [j \in DOMAIN ICMPFormat(t) |->
                                IF j \in ICMPUnwritten(t) THEN 0 ELSE 5],
                          IF t \in {EchoRequest, TimeExceeded} THEN Payload.raw ELSE <<>>)) :
            t \in ICMPTypes}
Icmp6 == {ICMPv6(t, Data(t, [j \in DOMAIN ICMPv6Format(t) |->
                               IF j \in ICMPv6Unwritten(t) THEN 0 ELSE 96], <<>>)) :
            t \in ICMPv6Types}
Options4 == {<<Routing(7, 4, <<3, 4>>), NoOperation>>, <<Routing(3, 8, <<0, 0, 0, 0, 0, 0, 0, 0, 0>>)>>,
             <<FourBytes(RouterAlertNum, 0)>>, <<Timestamp(5, 1, <<3, 9, 4, 9>>), FourBytes(11, 1500)>>}
V4(proto, opts, upper) == <<[IPv4(proto, 2, opts) EXCEPT !.flags = 2, !.offset = 3]>> \o upper
OverV4 ==
  {V4(1, <<>>, <<h>>) : h \in Icmp4}
    \cup {V4(17, o, <<UDP(1, 2), Payload>>) : o \in Options4 \cup {<<>>}}
    \cup {V4(17, <<>>, <<UDP(520, 520), RIPv2(2, <<Route(5, 1, 3), Route(4, 0, 16)>>)>>),
          V4(6, <<>>, <<TCP(1, 2, 18), Payload>>),
          V4(1, <<>>, <<ICMP(EchoRequest, 0, NewData(EchoRequest)), Payload>>)}
Extensions(next) ==
  {<<RouteProto, IPv6RouteOption(next, 4)>>, <<FragmentProto, IPv6Fragment(next, 8, 3, TRUE)>>,
   <<HopOptionProto, Options("IPv6HopOption", next, <<TLV(5, 1), Pad1, Pad1>>)>>,
   <<HopOptionProto, Options("IPv6HopOption", next, <<TLV(194, 6)>>)>>,
   <<HopOptionProto, Options("IPv6HopOption", next, <<>>)>>,
   <<DestinationProto, Options("IPv6DestinationOption", next, <<TLV(201, 2), PadN(4)>>)>>,
   <<DestinationProto, Options("IPv6DestinationOption", next, <<TLV(4, 2), PadN(3)>>)>>}
V6(next, upper) == <<[IPv6(next, 2) EXCEPT !.trafficclass = 35, !.flowlabel = 65540]>> \o upper
OverV6 ==
  {V6(ICMPv6Proto, <<h>>) : h \in Icmp6}
    \cup {V6(17, <<UDP(1, 2), Payload>>), V6(6, <<TCP(1, 2, 18), Payload>>),
          V6(MobilityProto, <<IPv6Mobility(NoNext, 0, <<0>>)>>)}
    \cup {V6(x[1], <<x[2], UDP(1, 2), Payload>>) : x \in Extensions(17)}
Request == <<Arp(1, <<1, 2, 3, 4>>)>>
Built ==
  {<<Ethernet(1, 2, IP)>> \o p : p \in OverV4}
    \cup {<<Ethernet(1, 2, IPv6Type)>> \o p : p \in OverV6}
    \cup {<<Ethernet(1, 2, ARP)>> \o Request, <<Ethernet(1, 2, NoType), Payload>>,
          <<Ethernet(1, 2, 1500), Payload>>,
          <<Ethernet(1, 2, x8021Q), Vlan(4, 3, ARP)>> \o Request,
          <<Ethernet(1, 2, x8021Q), Vlan(4095, 1, IP)>> \o V4(17, <<>>, <<UDP(1, 2), Payload>>),
          <<Null(AfInet)>> \o V4(17, <<>>, <<UDP(1, 2), Payload>>),
          <<Null(AfInet6)>> \o V6(17, <<UDP(1, 2), Payload>>)}

(* What other hosts send that this library would not.                      *)
Frame(p) == AllBytes(Serialize(p))
Datagram(opts) == Frame(<<Ethernet(1, 2, IP)>> \o V4(17, opts, <<UDP(1, 2), Payload>>))
Segment == Frame(<<Ethernet(1, 2, IP)>> \o V4(6, <<>>, <<TCP(1, 2, 2)>>))
Tagged == Frame(<<Ethernet(1, 2, x8021Q), Vlan(4, 0, ARP)>> \o Request)
Mobile == <<[IPv6Mobility(NoNext, 3, <<5, 6, 7>>) EXCEPT !.optdatalen = 2]>>
Foreign ==
  {[Tagged EXCEPT ![4].v = 5 * 8192 + 4],                         \* priority 5
   [Datagram(<<>>) EXCEPT ![3].v = 46],                           \* IEEE 802.3
   [Datagram(<<>>) EXCEPT ![3].v = 2114],                         \* unknown type
   [Datagram(<<>>) EXCEPT ![8].v = 8192],                         \* more fragments
   [Datagram(<<>>) EXCEPT ![10].v = 200],                         \* unknown protocol
   [Datagram(<<Routing(3, 4, <<5>>)>>) EXCEPT ![14].v = 131],     \* copied on fragmentation
   [Datagram(<<Routing(7, 4, <<5>>)>>) EXCEPT ![16].v = 8],       \* a full record
   Append([Segment EXCEPT ![18].v = 6 * 4096 + 2], I(11)),        \* TCP with an option
   [Frame(<<Ethernet(1, 2, IP)>> \o
            V4(1, <<>>, <<ICMP(TimeExceeded, 0, NewData(TimeExceeded))>>)) EXCEPT ![19].v = 9],
   Frame(<<Ethernet(1, 2, IPv6Type)>> \o
           V6(ICMPv6Proto, <<ICMPv6(NeighborSolicitation, NewData6(NeighborSolicitation))>>))
     \o <<B(1), B(1), S(6, 4)>>,                                  \* with its link-layer address
   [Frame(<<Ethernet(1, 2, IPv6Type)>> \o V6(17, <<UDP(1, 2), Payload>>)) EXCEPT
      ![15] = SumOf(<<S(16, 1)>>)],                               \* UDP with a checksum
   Frame(<<Ethernet(1, 2, IPv6Type)>> \o V6(MobilityProto, Mobile))}

---------------------------------------------------------------------------
(* The kinds of packets that do not come out of the next hop as they went  *)
(* in: IPv4 options grow by padding, an ICMP header swallows what follows  *)
(* it and a neighbor message refuses it, a mobility header leaves its end  *)
(* behind, an 802.3 length is forgotten, empty option headers and options  *)
(* of neighbor messages cannot be packed.  RIPv2 comes back as bytes.      *)
Swallows == {"ICMP", "ICMPv6"}
PlainHeader(p, j) ==
  LET h == p[j] IN
  /\ h.cls = "IPv4" => h.opts = <<>>
  /\ h.cls \in Swallows => j = Len(p)
  /\ h.cls \in {"IPv6HopOption", "IPv6DestinationOption"} => h.opts # <<>>
  /\ h.cls = "IPv6" /\ h.nextheader = NoNext => \A k \in j + 1 .. Len(p) : p[k].cls = "Raw"
  /\ h.cls = "ICMPv6" => \A k \in DOMAIN h.data.raw : Writable(h.data.raw[k])
  /\ h.cls \notin {"IPv6Mobility", "RIPv2"}
  /\ h.cls = "Ethernet" => h.ethertype # 1500
Plain(p) == \A j \in DOMAIN p : PlainHeader(p, j)

Init ==
  /\ \/ /\ pkt \in Built
        /\ phase = "built" /\ wire = <<>> /\ plain = Plain(pkt)
     \/ /\ wire \in Foreign
        /\ phase = "sent" /\ pkt = <<>> /\ plain = FALSE
  /\ sent = <<>> /\ got = <<>> /\ hops = 0 /\ edits = 0 /\ why = ""

(* Packet.to_bytes, called by send_packet.                                 *)
Fails(reason) == phase' = "failed" /\ why' = reason /\ UNCHANGED <<sent, wire>>
Sent(parts) ==
  IF Packable(parts)
  THEN phase' = "sent" /\ sent' = parts /\ wire' = AllBytes(parts) /\ UNCHANGED why
  ELSE Fails(IF AllWritable(parts) THEN "struct" ELSE "option")
Send ==
  /\ phase \in {"built", "received"} /\ hops < MaxHops
  /\ Sent(Serialize(pkt))
  /\ plain' = (plain /\ Plain(pkt))
  /\ hops' = hops + 1
  /\ UNCHANGED <<pkt, got, edits>>

(* The localhost interface has a raw socket of the kernel's: the header of *)
(* the link is taken out of the packet of the application, whatever        *)
(* follows, and only IPv4 is sent; the kernel puts a header of its own in  *)
(* front of it.                                                            *)
LocalLink == Ethernet(0, 0, IP)
WithoutLink(p) == IF p[1].cls \in {"Null", "Ethernet"} THEN Tail(p) ELSE p
SentRaw(parts) ==
  IF Packable(parts) /\ parts[1].raw[1].v \div 16 # 4 THEN Fails("only IPv4")
  ELSE Sent(Part(LocalLink) \o parts)
SendLocal ==
  /\ phase \in {"built", "received"} /\ hops < MaxHops /\ pkt # <<>>
  /\ pkt' = WithoutLink(pkt)
  /\ IF pkt' = <<>> \/ pkt'[1].cls \notin {"IPv4", "IPv6"} THEN Fails("no IP header")
     ELSE SentRaw(Serialize(pkt'))
  /\ plain' = (plain /\ Plain(pkt))
  /\ got' = IF pkt' = pkt THEN got ELSE <<>>
  /\ hops' = hops + 1
  /\ UNCHANGED edits

(* A network card fills an Ethernet frame up to 60 bytes.  The IP lengths  *)
(* are not looked at when it is parsed: the padding becomes payload.       *)
Pad ==
  /\ phase = "sent" /\ sent # <<>> /\ sent[1].h.cls = "Ethernet" /\ sent[1].h # LocalLink
  /\ Size(wire) < 60
  /\ wire' = Append(wire, S(60 - Size(wire), 0))
  /\ plain' = (plain /\ \A j \in DOMAIN sent : sent[j].h.cls \notin {"IPv4", "IPv6"})
  /\ UNCHANGED <<phase, pkt, sent, got, hops, edits, why>>

(* The device of the next hop knows the type of its link.                  *)
Received(d) ==
  /\ pkt' = d.pkt /\ why' = d.why
  /\ phase' = IF d.why = "" THEN "received" ELSE "failed"
Receive ==
  /\ phase = "sent"
  /\ Received(Parse(IF sent = <<>> THEN "Ethernet" ELSE sent[1].h.cls, wire))
  /\ got' = wire
  /\ UNCHANGED <<sent, wire, plain, hops, edits>>

(* What applications do to a packet.                                       *)
Change(p) ==
  /\ phase \in {"built", "received"} /\ edits < MaxEdits
  /\ pkt' = p /\ got' = <<>> /\ edits' = edits + 1
  /\ UNCHANGED <<phase, sent, wire, plain, hops, why>>
DecrementTtl ==
  \E j \in DOMAIN pkt :
    /\ pkt[j].cls \in {"IPv4", "IPv6"} /\ pkt[j].ttl > 0
    /\ Change([pkt EXCEPT ![j] = SetTtl(@, @.ttl - 1)])
SetAddresses ==
  \E j \in DOMAIN pkt :
    /\ pkt[j].cls = "Ethernet"
    /\ Change([pkt EXCEPT ![j].dst = 8, ![j].src = 9])
SetType ==
  \E j \in DOMAIN pkt :
    \/ /\ pkt[j].cls = "ICMP"
       /\ \E t \in {EchoReply, AddressMaskReply} : Change([pkt EXCEPT ![j] = SetIcmpType(@, t)])
    \/ /\ pkt[j].cls = "ICMPv6"
       /\ Change([pkt EXCEPT ![j] = SetIcmp6Type(@, NeighborAdvertisement)])
AddPayload == pkt # <<>> /\ Change(Append(pkt, Raw(<<S(3, 6)>>)))
SetTcpFlag ==
  \E j \in DOMAIN pkt, flag \in TCPFlags, value \in BOOLEAN :
    pkt[j].cls = "TCP" /\ Change([pkt EXCEPT ![j] = SetFlag(@, flag, value)])
\* options.append, options[i] = ..., del options[i], tests/test_ipv4.py:101
ChangeOptions ==
  \E j \in DOMAIN pkt :
    \/ /\ pkt[j].cls = "IPv4"
       /\ \/ Change([pkt EXCEPT ![j].opts = Append(@, NoOperation)])
          \/ \E i \in {-1, 0, 1} :
               /\ HasItem(pkt[j].opts, i)
               /\ \/ Change([pkt EXCEPT ![j].opts = SetItem(@, i, NoOperation)])
                  \/ Change([pkt EXCEPT ![j].opts = DeleteItem(@, i)])
    \/ /\ pkt[j].cls = "ICMPv6" /\ TakesOptions(pkt[j].data)
       /\ Change([pkt EXCEPT ![j].data = AppendOption6(@)])
\* insert_header after get_header_index, and del, tests/test_ipv6.py:69
InsertExtension ==
  \E j \in DOMAIN pkt :
    /\ pkt[j].cls = "IPv6"
    /\ \E x \in Extensions(pkt[j].nextheader) :
         Change(InsertAt([pkt EXCEPT ![j].nextheader = x[1]], j + 1, x[2]))
DeleteUpper ==
  \E j \in DOMAIN pkt :
    /\ pkt[j].cls = "IPv6" /\ HasItem(pkt, j)
    /\ Change(DeleteItem([pkt EXCEPT ![j].nextheader = NoNext], j))
(* pkt[-1] = RIPv2(pkt[-1]), tests/test_ripv2.py:19                        *)
RipRead(d) == d.why = "" /\ Change(Append(Front(pkt), d.h))
ReadRip ==
  /\ Len(pkt) > 1 /\ Last(pkt).cls = "Raw" /\ pkt[Len(pkt) - 1].cls = "UDP"
  /\ pkt[Len(pkt) - 1].dst = 520
  /\ RipRead(RIPv2From(Last(pkt).raw))

Next ==
  \/ Send \/ SendLocal \/ Pad \/ Receive
  \/ DecrementTtl \/ SetAddresses \/ SetType \/ SetTcpFlag \/ ChangeOptions
  \/ InsertExtension \/ DeleteUpper \/ AddPayload \/ ReadRip
Spec == Init /\ [][Next]_vars

---------------------------------------------------------------------------
(* What an application can read of a packet: checksums and the remembered  *)
(* length of a TCP segment are of no interest, bytes are bytes.            *)
Visible(h) ==
  CASE "data" \in DOMAIN h /\ h.cls # "IPv6Mobility" ->
         <<h.cls, h.icmptype, h.icmpcode, h.data.at, h.data.raw>>
    [] h.cls = "TCP" -> [h EXCEPT !.csum = ZeroSum, !.len = 0]
    [] "csum" \in DOMAIN h -> [h EXCEPT !.csum = ZeroSum]
    [] OTHER -> h
RawOf(p) == FoldLeft(LAMBDA raw, h : IF h.cls = "Raw" THEN raw \o h.raw ELSE raw, <<>>, p)
HeadersOf(p) == SelectSeq(p, LAMBDA h : h.cls # "Raw")
AsSeen(p) == <<[j \in DOMAIN HeadersOf(p) |-> Visible(HeadersOf(p)[j])], RawOf(p)>>
SentPacket == [j \in DOMAIN sent |-> sent[j].h]

(* A packet of the plain kinds is parsed into what was serialized: every   *)
(* header in its place with the attributes the application set, and the    *)
(* payload.  Only the padding of a short frame is added to it.  The        *)
(* from_bytes of every class must undo the to_bytes of that class, and     *)
(* next_header_class find the class that was there.                        *)
ReceivedAsSent ==
  plain /\ phase = "received" /\ got # <<>> =>
    /\ AsSeen(pkt)[1] = AsSeen(SentPacket)[1]
    /\ IsPrefix(AsSeen(SentPacket)[2], AsSeen(pkt)[2])

(* A device that passes a plain frame on without a change sends the bytes  *)
(* it received, checksums included: to_bytes must undo from_bytes.         *)
ForwardedAsReceived ==
  plain /\ phase = "sent" /\ got # <<>> /\ sent # <<>> /\ got # wire =>
    Size(AllBytes(sent)) < 60 /\ AllBytes(sent) = Front(wire)

(* pre_serialize runs from the last header to the first, so that every     *)
(* length it stores is that of the bytes that really follow: the total     *)
(* length and the header length of IPv4, the payload length of IPv6, the   *)
(* length of UDP and of an option header.  Options of IPv4 that outgrow    *)
(* 40 bytes are left out: the four bits of the header length overflow.     *)
After(j) == Size(AllBytes(SubSeq(sent, j, Len(sent))))
LengthsDescribeTheBytes ==
  \A j \in DOMAIN sent :
    LET h == sent[j].h  raw == sent[j].raw IN
    /\ h.cls = "IPv4" /\ Size(raw) <= 60 =>
         raw[3].v = After(j) /\ 4 * (raw[1].v % 16) = Size(raw)
    /\ h.cls = "IPv6" => raw[4].v + 40 = After(j)
    /\ h.cls = "UDP" => raw[3].v = After(j)
    /\ h.cls \in {"IPv6HopOption", "IPv6DestinationOption"} => 8 * (raw[2].v + 1) = Size(raw)

(* A receiver that follows the RFCs accepts the checksums of a frame: that *)
(* of IPv4 covers its header and options, those of UDP and TCP over IPv4   *)
(* and of ICMPv6 the pseudo-header and everything up to the end of the     *)
(* packet, that of ICMP its message.  The values must be those of the      *)
(* packet as it is sent, not as it was received or before it was changed.  *)
(* UDP and TCP over IPv6 are left out, they are sent with 0, and so are    *)
(* the bytes that an application puts after an ICMP message.               *)
Cleared(raw, k) == [raw EXCEPT ![k] = ZeroSum]
Pseudo(ip, proto, n) ==
  IF ip.cls = "IPv4" THEN <<I(ip.src), I(ip.dst), B(proto), H(n)>>
  ELSE <<S(16, ip.src), S(16, ip.dst), I(n), B(proto)>>
ChecksumsCoverWhatIsSent ==
  \A j \in DOMAIN sent :
    LET raw == sent[j].raw
        whole == AllBytes(SubSeq(sent, j, Len(sent)))
    IN  CASE sent[j].h.cls = "IPv4" -> raw[8] = SumOf(Cleared(raw, 8))
          [] sent[j].h.cls = "UDP" /\ sent[j - 1].h.cls = "IPv4" ->
               raw[4] = SumOf(Pseudo(sent[j - 1].h, 17, Size(whole)) \o Cleared(whole, 4))
          [] sent[j].h.cls = "TCP" /\ sent[j - 1].h.cls = "IPv4" ->
               raw[7] = SumOf(Pseudo(sent[j - 1].h, 6, Size(whole)) \o Cleared(whole, 7))
          [] sent[j].h.cls = "ICMP" -> raw[3] = SumOf(Cleared(raw, 3))
          [] sent[j].h.cls = "ICMPv6" ->
               raw[3] = SumOf(Pseudo(Headers(SentPacket, "IPv6")[1], 58, Size(raw)) \o Cleared(raw, 3))
          [] OTHER -> TRUE

(* Nothing that is plain raises an exception on its way, but for what is   *)
(* not IPv4 on the localhost interface.  Otherwise, an IPv6 option header  *)
(* without options cannot be packed; the version of an IPv4 header is      *)
(* spoiled by options of more than 40 bytes; a full record of routes, an   *)
(* unknown number and a neighbor message with options are refused.  The    *)
(* bytes of a packet never get out of step with the formats they are read  *)
(* with.                                                                   *)
StartsWith(cls) == pkt # <<>> /\ pkt[1].cls = cls
NotForLocalhost == why = "no IP header" \/ (why = "only IPv4" /\ StartsWith("IPv6"))
OnlyKnownFailures ==
  phase = "failed" =>
    /\ ~plain \/ NotForLocalhost
    /\ CASE why = "no IP header" -> ~StartsWith("IPv4") /\ ~StartsWith("IPv6")
         [] why = "only IPv4" -> StartsWith("IPv4") => Size(IPv4To(pkt[1])) > 60
         [] why = "struct" -> \E j \in DOMAIN pkt :
              pkt[j].cls \in {"IPv6HopOption", "IPv6DestinationOption"} /\ pkt[j].opts = <<>>
         [] why = "version" -> \E j \in DOMAIN sent : sent[j].h.cls = "IPv4" /\ Size(sent[j].raw) > 60
         [] why = "option" -> \E j \in DOMAIN pkt : pkt[j].cls = "IPv6"
         [] OTHER -> why \in {"pointer", "unknown value"} /\ sent = <<>>
=============================================================================
