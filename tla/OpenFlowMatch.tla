---------------------------- MODULE OpenFlowMatch ----------------------------
(***************************************************************************)
(* OpenflowMatch of switchyard/lib/openflow: a match is built attribute by *)
(* attribute or from a packet, and compared with packets and with the      *)
(* matches of flow table entries.  The class is the same in openflow10.py  *)
(* and openflow13.py, but matches_packet works only in the former: the     *)
(* latter does not import _make_bitmap.                                    *)
(*                                                                         *)
(* A packet is a function from its headers to what a match reads of them;  *)
(* IPv4 addresses have AddrBits bits.                                      *)
(***************************************************************************)
EXTENDS Integers

CONSTANTS
  MatchPacket,   \* packets looked at
  MatchValue,    \* values attributes are set to
  Protocols,     \* numbers of IPProtocol
  AddrBits,      \* 32 in the code
  MaxChanges     \* bound of the model: changes of a match

ASSUME MatchAssumption == AddrBits \in Nat \ {0} /\ MatchValue \subseteq Nat /\ MaxChanges \in Nat

VARIABLES
  match,     \* the match
  changes    \* how often it was changed

matchVars == <<match, changes>>

Field == {"in_port", "dl_src", "dl_dst", "dl_vlan", "dl_vlan_pcp", "dl_type",
          "nw_tos", "nw_proto", "nw_src", "nw_dst", "tp_src", "tp_dst"}
Address == {"nw_src", "nw_dst"}
IP == 1      \* EtherType.IP
ICMP == 1    \* IPProtocol.ICMP

Addresses == 0 .. 2 ^ AddrBits - 1

\* wild is the set of wildcarded attributes or of "All", prefix the number of
\* bits of an address that are ignored.
DefaultMatch ==
  [value |-> [f \in Field |-> IF f = "dl_type" THEN IP ELSE IF f = "nw_proto" THEN ICMP ELSE 0],
   wild |-> {},
   prefix |-> [a \in Address |-> 0]]

-----------------------------------------------------------------------------
(***************************************************************************)
(* Packets                                                                 *)
(***************************************************************************)

\* _match_field_to_packet: the headers an attribute is read from.  tp_dst names
\* TCP twice and not UDP, in_port is not in the packet.
HeadersOf(f) ==
  CASE f \in {"dl_src", "dl_dst"} -> {"Ethernet"}
    [] f \in {"dl_vlan", "dl_vlan_pcp"} -> {"Vlan"}
    [] f = "dl_type" -> {"Vlan", "Ethernet"}
    [] f = "nw_tos" -> {"IPv4", "IPv6"}
    [] f \in {"nw_proto"} \cup Address -> {"IPv4", "IPv6", "Arp"}
    [] f = "tp_src" -> {"TCP", "UDP", "ICMP", "ICMPv6"}
    [] f = "tp_dst" -> {"TCP", "ICMP", "ICMPv6"}
    [] f = "in_port" -> {}

Read(p, f) == { h \in HeadersOf(f) : h \in DOMAIN p }

\* A Vlan header has no attribute vlan, as dl_vlan wants it.
Unreadable(p, f) == f = "dl_vlan" /\ "Vlan" \in DOMAIN p

\* The values the setters of a match raise ValueError for.
Settable(f, v) ==
  CASE f = "nw_proto" -> v \in Protocols
    [] f \in Address -> v \in Addresses
    [] OTHER -> TRUE

CanBuild(p) ==
  \A f \in Field : ~ Unreadable(p, f) /\ \A h \in Read(p, f) : Settable(f, p[h][f])

\* build_from_packet: of an attribute with two headers the one named last.
Built(p) ==
  [DefaultMatch EXCEPT !.value =
     [f \in Field |->
        IF Read(p, f) = {} THEN DefaultMatch.value[f]
        ELSE p[CHOOSE h \in Read(p, f) : f = "dl_type" => h = "Ethernet"][f]]]

\* ip_network("{}/{}".format(net, bits), strict=False): v is in net when they
\* agree but for the ignored bits
InNetwork(v, net, ignored) ==
  v \in Addresses /\ v \div 2 ^ ignored = net \div 2 ^ ignored

\* matches_packet.  A packet whose header lacks the attribute raises an
\* exception, unless the attribute is wildcarded.
Ignored(m, f) == f \in m.wild \/ ("All" \in m.wild /\ f \notin Address)

RaisesFor(m, p) == \E f \in Field : Unreadable(p, f) /\ ~ Ignored(m, f)

MatchesPacket(m, p) ==
  \A f \in Field : \A h \in Read(p, f) :
    IF f \in Address /\ m.prefix[f] > 0
    THEN InNetwork(p[h][f], m.value[f], m.prefix[f])
    ELSE Ignored(m, f) \/ p[h][f] = m.value[f]

-----------------------------------------------------------------------------
(***************************************************************************)
(* Entries                                                                 *)
(***************************************************************************)

\* Mutation: the bits this match ignores count, not those of the entry.
MatchesEntryOwnPrefix(m, entry) ==
  \A f \in Field :
    \/ m.value[f] = entry.value[f]
    \/ f \in Address /\ InNetwork(m.value[f], entry.value[f], m.prefix[f])
    \/ f \notin Address /\ f \in entry.wild

\* matches_entry without strict: "All" is the name of no attribute and counts
\* for nothing.
MatchesEntry(m, entry) ==
  \A f \in Field :
    \/ m.value[f] = entry.value[f]
    \/ f \in Address /\ InNetwork(m.value[f], entry.value[f], entry.prefix[f])
    \/ f \notin Address /\ f \in entry.wild

-----------------------------------------------------------------------------
(***************************************************************************)
(* Changes                                                                 *)
(***************************************************************************)

MatchInit ==
  /\ match \in {DefaultMatch} \cup {Built(p) : p \in {q \in MatchPacket : CanBuild(q)}}
  /\ changes = 0

Becomes(m) ==
  /\ changes < MaxChanges
  /\ changes' = changes + 1
  /\ match' = m

SetField ==
  \E f \in Field, v \in MatchValue :
    Settable(f, v) /\ Becomes([match EXCEPT !.value[f] = v])

AddWildcard ==
  \E f \in (Field \ Address) \cup {"All"} : Becomes([match EXCEPT !.wild = @ \cup {f}])

RemoveWildcard == \E f \in match.wild : Becomes([match EXCEPT !.wild = @ \ {f}])

ResetWildcards ==
  Becomes([match EXCEPT !.wild = {}, !.prefix = [a \in Address |-> 0]])

WildcardAll ==
  Becomes([match EXCEPT !.wild = {"All"}, !.prefix = [a \in Address |-> AddrBits]])

\* nwsrc_wildcard and nwdst_wildcard, which clip what they are given
SetPrefix ==
  \E a \in Address, bits \in 0 .. AddrBits + 1 :
    Becomes([match EXCEPT !.prefix[a] = IF bits > AddrBits THEN AddrBits ELSE bits])

MatchNext ==
  SetField \/ AddWildcard \/ RemoveWildcard \/ ResetWildcards \/ WildcardAll \/ SetPrefix

MatchSpec == MatchInit /\ [][MatchNext]_matchVars
-----------------------------------------------------------------------------
\* No tunnel: an attribute is read from one header, or from none.
OneHeaderEach(p) == \A f \in Field : \A g, h \in Read(p, f) : g = h

\* what a match of this packet alone says and the packet does not
Unsaid(p) == {f \in Field : Read(p, f) = {}}

\* A packet's own match and the packet itself are judged alike: if the match
\* that build_from_packet makes of a packet matches an entry, so does the
\* packet; and if the packet matches, so does its match, provided that the
\* entry does not use All and agrees on, or wildcards, what is not read from
\* the packet: in_port, the attributes of absent headers, a UDP destination.  A tunnel is
\* another matter: of its two headers the match knows one, and the packet has both
\* compared (OpenflowMatch.matches_packet, matches_entry).
MatchesAgree ==
  \A p \in MatchPacket :
    CanBuild(p) /\ OneHeaderEach(p) =>
      /\ ~ RaisesFor(match, p)
      /\ MatchesEntry(Built(p), match) => MatchesPacket(match, p)
      /\ (MatchesPacket(match, p) /\ "All" \notin match.wild
           /\ \A f \in Unsaid(p) : f \in match.wild \/ match.value[f] = Built(p).value[f])
         => MatchesEntry(Built(p), match)
=============================================================================
