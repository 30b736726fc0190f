------------------------------ MODULE Firewall ------------------------------
(***************************************************************************)
(* switchyard-master/lab_7/firewall.py: a bump in the wire that looks up   *)
(* each packet in a list of rules and limits the rate of some of them with *)
(* token buckets.                                                          *)
(*                                                                         *)
(* An address is the set of its bits that are 1; "any" is a model value.   *)
(* Time is counted in ticks, of which Period make half a second.           *)
(***************************************************************************)
EXTENDS Integers, Sequences, FiniteSets

CONSTANTS
  Anything,        \* "any"
  Rules,      \* the rules: [permit, proto, src, dst, srcport, dstport,
              \*             rate (0 for None), impair]
  Packets,    \* packets that may come: [ip, proto, src, dst, srcport, dstport, size]
  Period,     \* ticks in half a second
  MaxTime     \* bound of the model: ticks

FirewallRule ==
  [permit : BOOLEAN, proto : {"ip", "udp", "tcp", "icmp"},
   src : SUBSET Nat \cup {Anything}, dst : SUBSET Nat \cup {Anything},
   srcport : Nat \cup {Anything}, dstport : Nat \cup {Anything},
   rate : Nat, impair : BOOLEAN]

\* the rates are even: half a second is worth a whole number of tokens
ASSUME RulesAssumption ==
  Rules \in Seq(FirewallRule) /\ \A i \in DOMAIN Rules : Rules[i].rate % 2 = 0
ASSUME PacketsAssumption == \A p \in Packets : p.size \in Nat
ASSUME PeriodAssumption == Period \in Nat \ {0} /\ MaxTime \in Nat

VARIABLES
  tokens,    \* token_bucket
  setTime,   \* set_time
  now,       \* time.time()
  passed     \* history: bytes that each rule's bucket has let through

fwVars == <<tokens, setTime, now, passed>>

Limited == {i \in DOMAIN Rules : Rules[i].rate # 0}

FwTypeOK ==
  /\ tokens \in [Limited -> Nat]
  /\ now \in 0 .. MaxTime /\ setTime \in 0 .. now
  /\ passed \in [Limited -> Nat]

FwInit ==
  /\ tokens = [i \in Limited |-> 0]
  /\ setTime = 0
  /\ now = 0
  /\ passed = [i \in Limited |-> 0]

-----------------------------------------------------------------------------
\* "int(net1.network_address) & int(packet[IPv4].src) != int(net1.network_address)":
\* the address of the network is its own mask, so a network takes in every
\* address that has all of its bits.
InNet(net, addr) == net = Anything \/ net \subseteq addr

PortIs(port, p) == port = Anything \/ port = p

MatchIp(rule, p) == p.ip /\ InNet(rule.src, p.src) /\ InNet(rule.dst, p.dst)

MatchUdp(rule, p) ==
  /\ MatchIp(rule, p)
  /\ p.proto = "udp" /\ PortIs(rule.srcport, p.srcport) /\ PortIs(rule.dstport, p.dstport)

MatchTcp(rule, p) ==
  /\ MatchIp(rule, p)
  /\ p.proto = "tcp" /\ PortIs(rule.srcport, p.srcport) /\ PortIs(rule.dstport, p.dstport)

MatchIcmp(rule, p) == MatchIp(rule, p) /\ p.proto = "icmp"

MatchRule(rule, p) ==
  CASE rule.proto = "ip"   -> MatchIp(rule, p)
    [] rule.proto = "udp"  -> MatchUdp(rule, p)
    [] rule.proto = "tcp"  -> MatchTcp(rule, p)
    [] rule.proto = "icmp" -> MatchIcmp(rule, p)

Matching(p) == {i \in DOMAIN Rules : MatchRule(Rules[i], p)}

\* the first rule that matches, 0 without one
FirstMatch(p) ==
  IF Matching(p) = {} THEN 0
  ELSE CHOOSE i \in Matching(p) : \A j \in Matching(p) : i <= j

-----------------------------------------------------------------------------
\* Mutation: a late refill adds what every elapsed tick is worth.
RefilledEachTick ==
  IF now - setTime > Period
  THEN [i \in Limited |-> tokens[i] + (Rules[i].rate \div 2) * (now - setTime)]
  ELSE tokens

\* more than half a second after the last refill: half a second's tokens for
\* every bucket with less than two seconds' worth
Refilled ==
  IF now - setTime > Period
  THEN [i \in Limited |->
          IF tokens[i] < 2 * Rules[i].rate
          THEN tokens[i] + Rules[i].rate \div 2 ELSE tokens[i]]
  ELSE tokens

\* every round of main's loop, with a packet or without
Round ==
  setTime' = IF now - setTime > Period THEN now ELSE setTime

\* no packet within half a second
NoPacketRound ==
  /\ Round
  /\ tokens' = Refilled
  /\ UNCHANGED <<now, passed>>

\* A packet of a rule with a rate takes its size out of the bucket and goes on,
\* or is dropped if the bucket does not hold as much.
LimitedRound(p) ==
  /\ Round
  /\ LET i == FirstMatch(p)
     IN  /\ i \in Limited /\ Rules[i].permit
         /\ IF p.size <= Refilled[i]
            THEN /\ tokens' = [Refilled EXCEPT ![i] = @ - p.size]
                 /\ passed' = [passed EXCEPT ![i] = @ + p.size]
            ELSE tokens' = Refilled /\ passed' = passed
  /\ now' = now

\* Every other packet is sent or dropped without a trace: a denied one, one
\* that an impaired rule drops at random, one of no rule.
OtherRound(p) ==
  /\ Round
  /\ FirstMatch(p) \in Limited =>
       ~ Rules[FirstMatch(p)].permit \/ Rules[FirstMatch(p)].impair
  /\ tokens' = Refilled
  /\ UNCHANGED <<now, passed>>

Main ==
  \/ NoPacketRound
  \/ \E p \in Packets : LimitedRound(p) \/ OtherRound(p)

FwTick ==
  /\ now < MaxTime
  /\ now' = now + 1
  /\ UNCHANGED <<tokens, setTime, passed>>

FwNext == Main \/ FwTick

FwSpec == FwInit /\ [][FwNext]_fwVars
-----------------------------------------------------------------------------
\* A rule with a rate lets through no more than that rate on average since the
\* start, however the packets and the rounds of the loop fall, and never more
\* than two and a half seconds' worth at once.
RateHolds ==
  \A i \in Limited :
    /\ 2 * Period * (passed[i] + tokens[i]) <= Rules[i].rate * now
    /\ 2 * tokens[i] < 5 * Rules[i].rate
=============================================================================
