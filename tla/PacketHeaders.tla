--------------------------- MODULE PacketHeaders ---------------------------
(***************************************************************************)
(* The headers of lib/packet: what to_bytes packs, what pre_serialize      *)
(* works out first, and what from_bytes makes of the bytes.  A header is a *)
(* record of its class and its attributes.                                 *)
(* Numbers are the numbers of the protocols; addresses, ports and payloads *)
(* are small numbers that are only carried.  A checksum is the sequence of *)
(* the fields it sums up, without those that are zero.                     *)
(***************************************************************************)
EXTENDS Bytes, FiniteSetsExt, TLC

B(v) == Field(1, v)
H(v) == Field(2, v)
I(v) == Field(4, v)
S(n, v) == Field(n, v)

ZeroSum == H(0)
SumOf(fields) == [w |-> 2, sum |-> SelectSeq(fields, LAMBDA f : "sum" \in DOMAIN f \/ f.v # 0)]
Zeros(n) == [j \in 1..n |-> B(0)]

(* What from_bytes answers: a header and the bytes that follow it, or an   *)
(* exception.                                                              *)
Ok(h, rest) == [why |-> "", h |-> h, rest |-> rest]
Raise(why) == [why |-> why, h |-> <<>>, rest |-> <<>>]
Bits(widths) == FoldLeft(LAMBDA n, w : n + w, 0, widths)
Aligned(widths, raw) ==
  Len(raw) >= Len(widths) /\ \A j \in DOMAIN widths : raw[j].w = widths[j]
(* struct.unpack of the first fields of raw, and the checks of the setters. *)
Reads(widths, raw, valid, h) ==
  IF Size(raw) < Bits(widths) THEN Raise("not enough data")
  ELSE IF ~Aligned(widths, raw) THEN Raise("misaligned")
  ELSE IF ~valid THEN Raise("unknown value")
  ELSE Ok(h, SubSeq(raw, Len(widths) + 1, Len(raw)))

---------------------------------------------------------------------------
(* EtherType and IPProtocol of common.py.                                  *)
IP == 2048
ARP == 2054
x8021Q == 33024
IPv6Type == 34525
NoType == 65535
EtherTypes == {NoType, IP, ARP, x8021Q, IPv6Type, 34825, 34887, 34984, 35020, 35047, 1500}
IPProtocols == {0, 1, 2, 4, 6, 17, 41, 43, 44, 46, 47, 50, 51, 55, 56, 58, 59, 60, 88, 89,
                94, 97, 132, 135, 137, 140}

Ethernet(dst, src, type) == [cls |-> "Ethernet", dst |-> dst, src |-> src, ethertype |-> type]
EthernetTo(h) == <<S(6, h.dst), S(6, h.src), H(h.ethertype)>>
(* A length instead of a type, IEEE 802.3, becomes NoType.                 *)
EthernetFrom(raw) ==
  Reads(<<6, 6, 2>>, raw, raw[3].v <= 1500 \/ raw[3].v \in EtherTypes,
        Ethernet(raw[1].v, raw[2].v, IF raw[3].v <= 1500 THEN NoType ELSE raw[3].v))

(* The setter of the priority clips it to 0..3, and the priority is shifted *)
(* by 12 bits: foreign priorities do not survive.                          *)
Vlan(vlanid, pcp, type) == [cls |-> "Vlan", vlanid |-> vlanid, pcp |-> pcp, ethertype |-> type]
VlanTo(h) == <<H(h.pcp * 4096 + h.vlanid), H(h.ethertype)>>
VlanFrom(raw) ==
  Reads(<<2, 2>>, raw, raw[2].v \in EtherTypes,
        Vlan(raw[1].v % 4096, Min({raw[1].v \div 4096, 3}), raw[2].v))

AfInet == 2
AfInet6 == 10
Null(af) == [cls |-> "Null", af |-> af]
NullTo(h) == <<I(h.af)>>
NullFrom(raw) == Reads(<<4>>, raw, TRUE, Null(raw[1].v))

(* The hardware type, the protocol type and the lengths of addresses are   *)
(* written as they were read.                                              *)
Arp(op, at) == [cls |-> "Arp", operation |-> op, at |-> at,
                types |-> <<1, IP, 6, 4>>]
ArpTo(h) == <<H(h.types[1]), H(h.types[2]), B(h.types[3]), B(h.types[4]), H(h.operation),
              S(6, h.at[1]), I(h.at[2]), S(6, h.at[3]), I(h.at[4])>>
ArpFrom(raw) ==
  Reads(<<2, 2, 1, 1, 2, 6, 4, 6, 4>>, raw,
        raw[1].v = 1 /\ raw[2].v \in EtherTypes /\ raw[5].v \in 1..4,
        [Arp(raw[5].v, <<raw[6].v, raw[7].v, raw[8].v, raw[9].v>>)
           EXCEPT !.types = <<raw[1].v, raw[2].v, raw[3].v, raw[4].v>>])

---------------------------------------------------------------------------
(* IPv4 options.                                                           *)
EndOfOptionList == [num |-> 0]
NoOperation == [num |-> 1]
Routing(num, ptr, addrs) == [num |-> num, ptr |-> ptr, addrs |-> addrs]
Timestamp(ptr, flag, entries) == [num |-> 4, ptr |-> ptr, flag |-> flag, entries |-> entries]
FourBytes(num, value) == [num |-> num, value |-> value]
RouterAlertNum == 20

(* Only the router alert is written with the bit that says "copy me into   *)
(* fragments"; a time stamp gets the bit of its class.                     *)
OptionTo(o) ==
  CASE o.num \in {0, 1} -> <<B(o.num)>>
    [] o.num \in {3, 7, 9} ->
         <<B(o.num), B(3 + 4 * Len(o.addrs)), B(o.ptr)>> \o [j \in DOMAIN o.addrs |-> I(o.addrs[j])]
    [] o.num = 4 ->
         <<B(64 + o.num), B(4 + 4 * Len(o.entries)), B(o.ptr), B(o.flag)>>
           \o [j \in DOMAIN o.entries |-> I(o.entries[j])]
    [] OTHER -> <<B(IF o.num = RouterAlertNum THEN 128 + o.num ELSE o.num), B(4), H(o.value)>>

(* The pointer of a routing option must point into its addresses: that of  *)
(* a full record does not.                                                 *)
RoutingFrom(num, n, raw) ==
  IF raw[3].v \div 4 - 1 \in 0..n - 1
  THEN Ok(Routing(num, raw[3].v, [j \in 1..n |-> raw[3 + j].v]), Drop(raw, 3 + 4 * n))
  ELSE Raise("pointer")
TimestampFrom(raw) ==
  IF raw[2].v > Size(raw) THEN Raise("not enough data")
  ELSE Ok(Timestamp(raw[3].v, raw[4].v % 16,
                    [j \in 1..(raw[2].v - 4) \div 4 |-> raw[4 + j].v]), Drop(raw, raw[2].v))
OptionFrom(raw) ==
  LET num == raw[1].v % 32 IN
  CASE num \in {0, 1} -> Ok([num |-> num], Tail(raw))
    [] num \in {3, 7, 9} -> RoutingFrom(num, (raw[2].v - 3) \div 4, raw)
    [] num = 4 -> TimestampFrom(raw)
    [] num \in {11, 12, 20} -> Ok(FourBytes(num, raw[3].v), Drop(raw, 4))
    [] OTHER -> Raise("unknown value")

RECURSIVE OptionsFrom(_, _)
OptionsFrom(opts, d) ==
  IF d.why # "" \/ d.rest = <<>> THEN [d EXCEPT !.h = opts]
  ELSE LET one == OptionFrom(d.rest) IN OptionsFrom(Append(opts, one.h), one)

(* Options that end at a boundary of four bytes are padded all the same.   *)
PaddingBy(n) == n % 4
Padding(n) == 4 - (n % 4)
OptionsTo(opts) ==
  LET raw == FoldLeft(LAMBDA done, o : done \o OptionTo(o), <<>>, opts)
  IN  IF opts = <<>> THEN <<>> ELSE raw \o Zeros(Padding(Size(raw)))

(* A list of options, of IPv4 or of ICMPv6, in the hands of an application. *)
(* An index below zero counts from the end; one that is not there raises    *)
(* IndexError and changes nothing.                                          *)
ItemAt(i, n) == IF i < 0 THEN n + i + 1 ELSE i + 1
HasItem(items, i) == ItemAt(i, Len(items)) \in DOMAIN items
SetItem(items, i, item) == [items EXCEPT ![ItemAt(i, Len(items))] = item]
DeleteItem(items, i) == RemoveAt(items, ItemAt(i, Len(items)))

(* IPv4 itself.  The length is what pre_serialize stored last; the header  *)
(* length and the checksum are worked out by to_bytes.                     *)
IPv4(proto, ttl, opts) ==
  [cls |-> "IPv4", tos |-> 0, totallen |-> 20, ipid |-> 0, flags |-> 0, offset |-> 0, ttl |-> ttl,
   protocol |-> proto, csum |-> ZeroSum, src |-> 1, dst |-> 2, opts |-> opts]
HeaderLength(h) == (20 + Size(OptionsTo(h.opts))) \div 4
IPv4Fields(h, csum) ==
  <<B(64 + HeaderLength(h)), B(h.tos), H(h.totallen), H(h.ipid), H(h.flags * 8192 + h.offset),
    B(h.ttl), B(h.protocol), csum, I(h.src), I(h.dst)>> \o OptionsTo(h.opts)
IPv4Checksum(h) == SumOf(IPv4Fields(h, ZeroSum))
IPv4To(h) == IPv4Fields(h, IPv4Checksum(h))
IPv4PreSerialize(h, tail) == [h EXCEPT !.totallen = 4 * HeaderLength(h) + Size(tail)]

IPv4With(raw, opts, rest) ==
  IF opts.why # "" THEN opts
  ELSE Ok([IPv4(raw[7].v, raw[6].v, opts.h) EXCEPT
             !.tos = raw[2].v, !.totallen = raw[3].v, !.ipid = raw[4].v,
             !.flags = raw[5].v \div 8192, !.offset = raw[5].v % 8192,
             !.csum = raw[8], !.src = raw[9].v, !.dst = raw[10].v], rest)
(* IPFragmentFlag has 4 for "more fragments", where the wire has 1.        *)
IPv4From(raw) ==
  LET fixed == Reads(<<1, 1, 2, 2, 2, 1, 1, 2, 4, 4>>, raw,
                     raw[5].v \div 8192 \in {0, 2, 4} /\ raw[7].v \in IPProtocols, <<>>)
      hl == (raw[1].v % 16) * 4
  IN  CASE Size(raw) >= 20 /\ raw[1].v \div 16 # 4 -> Raise("version")
        [] fixed.why # "" -> fixed
        [] Size(raw) < hl -> Raise("not enough data")
        [] OTHER -> IPv4With(raw, OptionsFrom(<<>>, Ok(<<>>, Drop(Take(raw, hl), 20))), Drop(raw, hl))
SetTtl(h, ttl) == [h EXCEPT !.ttl = ttl]

---------------------------------------------------------------------------
(* UDP and TCP: their checksums cover the first IPv4 header of the packet, *)
(* and are 0 if it has none.                                               *)
UDP(src, dst) == [cls |-> "UDP", src |-> src, dst |-> dst, len |-> 8, csum |-> ZeroSum]
UDPFields(h, csum) == <<H(h.src), H(h.dst), H(h.len), csum>>
UDPTo(h) == UDPFields(h, h.csum)
UDPFrom(raw) ==
  Reads(<<2, 2, 2, 2>>, raw, TRUE, [UDP(raw[1].v, raw[2].v) EXCEPT !.len = raw[3].v, !.csum = raw[4]])

TCP(src, dst, flags) ==
  [cls |-> "TCP", src |-> src, dst |-> dst, seq |-> 1, ack |-> 2, flags |-> flags, window |-> 3,
   urg |-> 0, csum |-> ZeroSum, len |-> 0]
TCPFields(h, csum) ==
  <<H(h.src), H(h.dst), I(h.seq), I(h.ack), H(5 * 4096 + h.flags), H(h.window), csum, H(h.urg)>>
TCPTo(h) == TCPFields(h, h.csum)
(* Options are skipped, and the checksum is not kept.                      *)
TCPFrom(raw) ==
  LET d == Reads(<<2, 2, 4, 4, 2, 2, 2, 2>>, raw, TRUE,
                 [TCP(raw[1].v, raw[2].v, raw[5].v % 512) EXCEPT
                    !.seq = raw[3].v, !.ack = raw[4].v, !.window = raw[6].v, !.urg = raw[8].v])
  IN  IF d.why # "" THEN d ELSE [d EXCEPT !.rest = Drop(raw, (raw[5].v \div 4096) * 4)]

(* The properties FIN to NS are bits of the flags, by their number in       *)
(* TCPFlags.                                                                *)
TCPFlags == 0..8
IsSet(h, flag) == (h.flags \div 2 ^ flag) % 2 = 1
SetFlag(h, flag, value) ==
  [h EXCEPT !.flags = CASE IsSet(h, flag) = value -> @
                        [] value /\ ~IsSet(h, flag) -> @ + 2 ^ flag
                        [] OTHER -> @ - 2 ^ flag]

PseudoHeader(ip, len) == <<I(ip.src), I(ip.dst), B(ip.protocol), H(len)>>
UDPChecksum(h, ip, tail) == SumOf(PseudoHeader(ip, h.len) \o UDPFields(h, ZeroSum) \o tail)
TCPChecksum(h, ip, tail) == SumOf(PseudoHeader(ip, h.len) \o TCPFields(h, ZeroSum) \o tail)
UDPPreSerializeUnsized(h, ip, tail) ==
  [h EXCEPT !.len = 8 + Size(tail),
            !.csum = IF ip = <<>> THEN ZeroSum ELSE UDPChecksum(h, ip[1], tail)]
UDPPreSerialize(h, ip, tail) ==
  LET sized == [h EXCEPT !.len = 8 + Size(tail)]
  IN  [sized EXCEPT !.csum = IF ip = <<>> THEN ZeroSum ELSE UDPChecksum(sized, ip[1], tail)]
TCPPreSerialize(h, ip, tail) ==
  LET sized == [h EXCEPT !.len = 20 + Size(tail)]
  IN  [sized EXCEPT !.csum = IF ip = <<>> THEN ZeroSum ELSE TCPChecksum(sized, ip[1], tail)]

---------------------------------------------------------------------------
(* ICMP: a type, a code and an object of the class of the type.  The       *)
(* object is the values of its struct format and the bytes that follow.    *)
EchoReply == 0
DestinationUnreachable == 3
EchoRequest == 8
TimeExceeded == 11
AddressMaskRequest == 17
AddressMaskReply == 18
ICMPTypes == {0, 3, 4, 5} \cup 8..18
ICMPCodes(type) ==
  CASE type = DestinationUnreachable -> 0..15
    [] type = 5 -> 0..3
    [] type = TimeExceeded -> 0..1
    [] type = 12 -> 0..2
    [] OTHER -> {0}
(* The formats: source quench and the reserved bytes of an error are       *)
(* written as zeros.                                                       *)
ICMPFormat(type) ==
  CASE type \in {EchoRequest, EchoReply} -> <<2, 2>>
    [] type \in {DestinationUnreachable, TimeExceeded} -> <<1, 1, 2>>
    [] type \in {4, 5} -> <<4>>
    [] type \in {AddressMaskRequest, AddressMaskReply} -> <<2, 2, 4>>
    [] OTHER -> <<>>
ICMPUnwritten(type) ==
  CASE type = 4 -> {1}
    [] type = DestinationUnreachable -> {1}
    [] type = TimeExceeded -> {1, 3}
    [] OTHER -> {}

(* A data object knows its own class, by the type of that class.           *)
Data(type, at, raw) == [of |-> type, at |-> at, raw |-> raw]
NewData(type) == Data(type, [j \in DOMAIN ICMPFormat(type) |-> 0], <<>>)
DataTo(d) == [j \in DOMAIN d.at |-> Field(ICMPFormat(d.of)[j], d.at[j])] \o d.raw
DataFrom(type, raw) ==
  LET fmt == ICMPFormat(type)
      at == [j \in DOMAIN fmt |-> IF j \in ICMPUnwritten(type) THEN 0 ELSE raw[j].v]
      mask == type \in {AddressMaskRequest, AddressMaskReply}
  IN  Reads(fmt, raw, TRUE,
            Data(type, at, IF mask THEN <<>> ELSE SubSeq(raw, Len(fmt) + 1, Len(raw))))

ICMP(type, code, data) ==
  [cls |-> "ICMP", icmptype |-> type, icmpcode |-> code, csum |-> ZeroSum, data |-> data]
ICMPFields(h, csum) == <<B(h.icmptype), B(h.icmpcode), csum>> \o DataTo(h.data)
ICMPChecksum(h) == SumOf(ICMPFields(h, ZeroSum))
ICMPTo(h) == ICMPFields(h, ICMPChecksum(h))
(* from_bytes takes as much as to_bytes would write: all, but for the      *)
(* address masks.                                                          *)
ICMPFrom(raw) ==
  LET head == Reads(<<1, 1, 2>>, raw,
                    raw[1].v \in ICMPTypes /\ raw[2].v \in ICMPCodes(raw[1].v), <<>>)
      data == DataFrom(raw[1].v, head.rest)
  IN  CASE head.why # "" -> head
        [] data.why # "" -> data
        [] OTHER -> Ok([ICMP(raw[1].v, raw[2].v, data.h) EXCEPT !.csum = raw[3]],
                       Drop(head.rest, Size(DataTo(data.h))))

(* The icmptype setter replaces the data unless its class is that of the   *)
(* type or derived from it: a reply's is derived from the request's.       *)
DerivedFrom(type) ==
  CASE type = EchoRequest -> {EchoRequest, EchoReply}
    [] type = AddressMaskRequest -> {AddressMaskRequest, AddressMaskReply}
    [] OTHER -> {type}
SetIcmpType(h, type) ==
  [h EXCEPT !.icmptype = type, !.icmpcode = 0,
            !.data = IF @.of \in DerivedFrom(type) THEN @ ELSE NewData(type)]

---------------------------------------------------------------------------
(* RIPv2 and what is left as bytes.  A route's address loses its host part: *)
(* the lowest bit under a mask, everything without one.                    *)
Route(addr, mask, metric) ==
  [family |-> 2, tag |-> 0, addr |-> IF mask = 0 THEN 0 ELSE addr - (addr % 2), mask |-> mask,
   nexthop |-> 0, metric |-> metric]
RouteTo(r) == <<H(r.family), H(r.tag), I(r.addr), I(r.mask), I(r.nexthop), I(r.metric)>>
RouteFrom(raw) ==
  [Route(raw[3].v, raw[4].v, raw[6].v) EXCEPT !.family = raw[1].v, !.tag = raw[2].v,
                                              !.nexthop = raw[5].v]
RIPv2(command, routes) == [cls |-> "RIPv2", command |-> command, routes |-> routes]
RIPv2To(h) == FoldLeft(LAMBDA raw, r : raw \o RouteTo(r), <<B(h.command), B(2), H(0)>>, h.routes)
(* Bytes that do not fill a route entry are dropped.                       *)
RIPv2From(raw) ==
  LET d == Reads(<<1, 1, 2>>, raw, raw[1].v \in {1, 2} /\ raw[2].v = 2, <<>>)
      routes == [k \in 1..Size(d.rest) \div 20 |->
                   RouteFrom(SubSeq(d.rest, 6 * (k - 1) + 1, 6 * k))]
  IN  IF d.why # "" THEN d ELSE Ok(RIPv2(raw[1].v, routes), <<>>)

Raw(raw) == [cls |-> "Raw", raw |-> raw]

---------------------------------------------------------------------------
(* The headers of an IPv6 packet.                                          *)

(* IPProtocol of common.py, as far as an IPv6 packet names its parts.      *)
HopOptionProto == 0
RouteProto == 43
FragmentProto == 44
ICMPv6Proto == 58
NoNext == 59
DestinationProto == 60
MobilityProto == 135

IPv6(next, ttl) ==
  [cls |-> "IPv6", trafficclass |-> 0, flowlabel |-> 0, payloadlen |-> 0, nextheader |-> next,
   ttl |-> ttl, src |-> 1, dst |-> 2]
IPv6To(h) ==
  <<B(96 + h.trafficclass \div 16), B((h.trafficclass % 16) * 16 + h.flowlabel \div 65536),
    H(h.flowlabel % 65536), H(h.payloadlen), B(h.nextheader), B(h.ttl), S(16, h.src), S(16, h.dst)>>
IPv6From(raw) ==
  LET d == Reads(<<1, 1, 2, 2, 1, 1, 16, 16>>, raw, raw[5].v \in IPProtocols,
             [IPv6(raw[5].v, raw[6].v) EXCEPT
                !.trafficclass = (raw[1].v % 16) * 16 + raw[2].v \div 16,
                !.flowlabel = (raw[2].v % 16) * 65536 + raw[3].v,
                !.payloadlen = raw[4].v, !.src = raw[7].v, !.dst = raw[8].v])
  IN  IF Size(raw) >= 40 /\ raw[1].v \div 16 # 6 THEN Raise("version") ELSE d
IPv6PreSerialize(h, tail) == [h EXCEPT !.payloadlen = Size(tail)]

---------------------------------------------------------------------------
(* Extension headers.  All begin with the next header and a length, which  *)
(* the base class checks against the bytes at hand in units of 1 or 8.     *)
ExtensionFrom(raw, unit, widths, valid, h) ==
  IF Size(raw) >= 2 /\ (raw[1].v \notin IPProtocols \/ Size(raw) < raw[2].v * unit)
  THEN Raise("not enough data")
  ELSE Reads(<<1, 1>> \o widths, raw, valid, h)

(* The constructor means to set the length to 2; its base class resets it. *)
IPv6RouteOption(next, address) ==
  [cls |-> "IPv6RouteOption", nextheader |-> next, optdatalen |-> 0, segmentsleft |-> 1,
   address |-> address]
RouteOptionTo(h) ==
  <<B(h.nextheader), B(h.optdatalen), B(2), B(h.segmentsleft), I(0), S(16, h.address)>>
RouteOptionFrom(raw) ==
  ExtensionFrom(raw, 8, <<1, 1, 4, 16>>, raw[3].v = 2,
    [IPv6RouteOption(raw[1].v, raw[6].v) EXCEPT !.optdatalen = raw[2].v, !.segmentsleft = raw[4].v])

IPv6Fragment(next, id, offset, mf) ==
  [cls |-> "IPv6Fragment", nextheader |-> next, optdatalen |-> 0, id |-> id, offset |-> offset,
   mf |-> mf]
FragmentTo(h) ==
  <<B(h.nextheader), B(h.optdatalen), H(h.offset * 8 + (IF h.mf THEN 1 ELSE 0)), I(h.id)>>
FragmentFromInBytes(raw) ==
  ExtensionFrom(raw, 1, <<2, 4>>, TRUE,
    [IPv6Fragment(raw[1].v, raw[4].v, raw[3].v, raw[3].v % 2 = 1) EXCEPT !.optdatalen = raw[2].v])
FragmentFrom(raw) ==
  ExtensionFrom(raw, 1, <<2, 4>>, TRUE,
    [IPv6Fragment(raw[1].v, raw[4].v, raw[3].v \div 8, raw[3].v % 2 = 1)
       EXCEPT !.optdatalen = raw[2].v])

(* Options of the hop-by-hop and the destination header: Pad1 is a single  *)
(* byte, PadN a number of zero bytes, the others one value of fixed width. *)
Pad1 == [type |-> 0]
PadN(n) == [type |-> 1, n |-> n - 2]
TLV(type, v) == [type |-> type, v |-> v]
TLVWidth(type) ==
  CASE type = 194 -> 4 [] type = 4 -> 1 [] type = 5 -> 2 [] type = 201 -> 16
TLVTo(o) ==
  CASE o.type = 0 -> <<B(0)>>
    [] o.type = 1 -> <<B(1), B(o.n)>> \o Zeros(o.n)
    [] OTHER -> <<B(o.type), B(TLVWidth(o.type)), Field(TLVWidth(o.type), o.v)>>
TLVFrom(raw) ==
  CASE raw[1].v = 0 -> Ok(Pad1, Tail(raw))
    [] Size(raw) < 2 \/ Size(raw) < 2 + raw[2].v -> Raise("not enough data")
    [] raw[1].v = 1 -> Ok(PadN(raw[2].v + 2), Drop(raw, 2 + raw[2].v))
    [] raw[1].v \in {194, 4, 5, 201} /\ raw[2].v = TLVWidth(raw[1].v) ->
         Ok(TLV(raw[1].v, raw[3].v), Drop(raw, 2 + raw[2].v))
    [] OTHER -> Raise("unknown value")
RECURSIVE TLVsFrom(_, _)
TLVsFrom(opts, d) ==
  IF d.why # "" \/ d.rest = <<>> THEN [d EXCEPT !.h = opts]
  ELSE LET one == TLVFrom(d.rest) IN TLVsFrom(Append(opts, one.h), one)

(* cls is IPv6HopOption or IPv6DestinationOption, which adds nothing.      *)
Options(cls, next, opts) == [cls |-> cls, nextheader |-> next, opts |-> opts]
TLVsTo(opts) == FoldLeft(LAMBDA raw, o : raw \o TLVTo(o), <<>>, opts)
OptionsLength(opts) == (2 + Size(TLVsTo(opts))) \div 8 - 1
HopOptionTo(h) == <<B(h.nextheader), B(OptionsLength(h.opts))>> \o TLVsTo(h.opts)
OptionsWith(cls, next, opts, rest) ==
  IF opts.why # "" THEN opts ELSE Ok(Options(cls, next, opts.h), rest)
HopOptionFrom(cls, raw) ==
  LET d == ExtensionFrom(raw, 8, <<>>, TRUE, <<>>)
      n == (raw[2].v + 1) * 8 - 2
  IN  IF d.why # "" THEN d
      ELSE OptionsWith(cls, raw[1].v, TLVsFrom(<<>>, Ok(<<>>, Take(d.rest, n))), Drop(d.rest, n))

(* Mobility: the format of the data depends on the type of the header.     *)
MobilityFormat(mhtype) ==
  CASE mhtype = 0 -> <<2>>
    [] mhtype \in {1, 2} -> <<2, 8>>
    [] mhtype \in {3, 4} -> <<2, 8, 8>>
    [] mhtype = 5 -> <<2, 1, 1, 1, 1>>
    [] mhtype = 6 -> <<1, 1, 2, 2>>
    [] mhtype = 7 -> <<1, 1, 16>>
    [] OTHER -> <<>>
IPv6Mobility(next, mhtype, data) ==
  [cls |-> "IPv6Mobility", nextheader |-> next, optdatalen |-> 0, mhtype |-> mhtype, data |-> data,
   src |-> 0, dst |-> 0, csum |-> ZeroSum]
MobilityFields(h, csum) ==
  <<B(h.nextheader), B(h.optdatalen), B(h.mhtype), B(0), csum>>
    \o [j \in DOMAIN h.data |-> Field(MobilityFormat(h.mhtype)[j], h.data[j])]
MobilityChecksum(h) ==
  LET fields == MobilityFields(h, ZeroSum)
  IN  SumOf(<<S(16, h.src), S(16, h.dst), I(Size(fields)), B(MobilityProto)>> \o fields)
MobilityTo(h) == MobilityFields(h, MobilityChecksum(h))
(* What from_bytes leaves begins two bytes before the end of the header.   *)
MobilityFrom(raw) ==
  LET fmt == MobilityFormat(raw[3].v)
      d == ExtensionFrom(raw, 8, <<1, 1, 2>> \o fmt, raw[3].v \in 0..7,
             [IPv6Mobility(raw[1].v, raw[3].v, [j \in DOMAIN fmt |-> raw[5 + j].v])
                EXCEPT !.optdatalen = raw[2].v])
  IN  IF d.why # "" THEN d ELSE Ok(d.h, Drop(raw, 4 + Bits(fmt)))
MobilityPreSerialize(h, ip) == [h EXCEPT !.src = ip.src, !.dst = ip.dst]

---------------------------------------------------------------------------
(* ICMPv6, with the classes and code maps that exist.  The checksum is     *)
(* worked out by pre_serialize and needs an IPv6 header.                   *)
NeighborSolicitation == 135
NeighborAdvertisement == 136
RedirectMessage == 137
ICMPv6Types == 128..137
ICMPv6Format(type) ==
  CASE type \in {128, 129} -> <<2, 2>>
    [] type = NeighborSolicitation -> <<4, 16>>
    [] type = NeighborAdvertisement -> <<1, 1, 2, 16>>
    [] type = RedirectMessage -> <<4, 16, 16>>
    [] OTHER -> <<>>
ICMPv6Unwritten(type) ==
  CASE type \in {NeighborSolicitation, RedirectMessage} -> {1}
    [] type = NeighborAdvertisement -> {2, 3}
    [] OTHER -> {}
(* Three flags in the upper bits of their byte.                            *)
ReadFlags(type, j, v) == IF type = NeighborAdvertisement /\ j = 1 THEN v - (v % 32) ELSE v

NewData6(type) == Data(type, [j \in DOMAIN ICMPv6Format(type) |-> 0], <<>>)
Data6To(d) == [j \in DOMAIN d.at |-> Field(ICMPv6Format(d.of)[j], d.at[j])] \o d.raw
(* What follows a neighbor or a redirect message is read as options: an    *)
(* unknown one, one without a constructor of no arguments and one of the   *)
(* wrong length raise at once, a link-layer address and a redirected       *)
(* header as soon as the size of the message is asked for.                 *)
Data6From(type, raw) ==
  LET fmt == ICMPv6Format(type)
      at == [j \in DOMAIN fmt |->
               IF j \in ICMPv6Unwritten(type) THEN 0 ELSE ReadFlags(type, j, raw[j].v)]
      d == Reads(fmt, raw, TRUE, Data(type, at, SubSeq(raw, Len(fmt) + 1, Len(raw))))
  IN  IF d.why = "" /\ type >= NeighborSolicitation /\ d.rest # <<>> THEN Raise("option") ELSE d

(* An option that an application appends to one of these messages cannot   *)
(* be written: to_bytes of the link-layer address and of the redirected    *)
(* header name a variable that does not exist.                             *)
Option6 == [w |-> 8, v |-> 1, option |-> TRUE]
Writable(f) == "option" \notin DOMAIN f
TakesOptions(d) == d.of >= NeighborSolicitation
AppendOption6(d) == [d EXCEPT !.raw = <<Option6>> \o @]

ICMPv6(type, data) ==
  [cls |-> "ICMPv6", icmptype |-> type, icmpcode |-> 0, csum |-> ZeroSum, data |-> data]
ICMPv6Fields(h, csum) == <<B(h.icmptype), B(h.icmpcode), csum>> \o Data6To(h.data)
ICMPv6To(h) == ICMPv6Fields(h, h.csum)
ICMPv6Checksum(h, ip) ==
  SumOf(<<S(16, ip.src), S(16, ip.dst), I(4 + Size(Data6To(h.data))), B(ICMPv6Proto)>>
          \o ICMPv6Fields(h, ZeroSum))
ICMPv6PreSerialize(h, ip) == [h EXCEPT !.csum = ICMPv6Checksum(h, ip)]
ICMPv6From(raw) ==
  LET head == Reads(<<1, 1, 2>>, raw, raw[1].v \in ICMPv6Types /\ raw[2].v = 0, <<>>)
      data == Data6From(raw[1].v, head.rest)
  IN  CASE head.why # "" -> head
        [] data.why # "" -> data
        [] OTHER -> Ok([ICMPv6(raw[1].v, data.h) EXCEPT !.csum = raw[3]], <<>>)
(* No class of ICMPv6 data is derived from another.                        *)
SetIcmp6Type(h, type) ==
  [h EXCEPT !.icmptype = type, !.icmpcode = 0,
            !.data = IF @.of = type THEN @ ELSE NewData6(type)]
=============================================================================
