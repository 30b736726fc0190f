----------------------------- MODULE NjuRouter ------------------------------
(***************************************************************************)
(* The IPv4 routers of nju-computer_network-master, lab4/myrouter.py and   *)
(* lab5/myrouter.py: longest prefix forwarding and the queue of packets    *)
(* that wait for an ARP reply; ICMP answers in lab 5, where lab 4 throws   *)
(* the packet away.                                                        *)
(*                                                                         *)
(* An address is a model value, a network is the set of its addresses with *)
(* a prefix length.  A frame's MAC addresses are left out: arp_table is the*)
(* set of its keys.  The age of a queue entry is min(time() - send_time,   *)
(* RetryAge) in ticks; a new entry has send_time 0, so it is due at once.  *)
(*                                                                         *)
(* The addresses, the interfaces and the bounds are those of LabRouters;   *)
(* ArpTries is the remain_times of a new entry.                            *)
(***************************************************************************)
EXTENDS LabRouters

CONSTANTS
  Labs,         \* the routers looked at, of {4, 5}
  Zero,         \* 0.0.0.0
  Table,        \* the forwarding table, interfaces first: a sequence of
                \* [net, len, hop, intf]
  NjuInputs     \* packets hosts may send: [kind, src, dst, ttl]

ASSUME TableAssumption ==
  Zero \in Addr /\ Table \in Seq(Row) /\ \A i \in DOMAIN Table : Table[i].hop # NoAddr
ASSUME NjuInputsAssumption ==
  NjuInputs \subseteq [kind : {"data", "echo"}, src : Addr, dst : Addr, ttl : 1 .. 64]

VARIABLES
  lab,        \* the router that runs
  arpKnown,   \* arp_table: addresses whose MAC address is known
  arpSend,    \* arp_send, oldest entry first
  unreach,    \* wait_packs of the entry given up, during the loop over it
  where,      \* where start() is: "resend", "unreach", "recv", "crashed"
  accepted,   \* number of IP packets received
  left,       \* history: how often each packet, or an answer to it, left
  answerable, \* history: packets whose way back was resolved when they came
  thrown      \* history: packets lab 4 threw away

njuVars == <<lab, arpKnown, arpSend, unreach, where, accepted, left, answerable, thrown>>

NjuPacket ==
  [id : Id, kind : {"data", "echo", "reply", "error"},
   src : Addr, dst : Addr, ttl : 0 .. 65]

NjuEntry ==
  [key : Addr, age : 0 .. RetryAge, remain : 0 .. ArpTries,
   packs : Seq(NjuPacket), intf : Intf]

NjuTypeOK ==
  /\ lab \in Labs
  /\ arpKnown \subseteq Addr
  /\ arpSend \in Seq(NjuEntry)
  /\ unreach \in Seq(NjuPacket)
  /\ where \in {"resend", "unreach", "recv", "crashed"}
  /\ accepted \in 0 .. MaxPackets
  /\ left \in [Id -> Nat]
  /\ answerable \subseteq Id /\ thrown \subseteq Id

NjuInit ==
  /\ lab \in Labs
  /\ arpKnown = {}
  /\ arpSend = << >>
  /\ unreach = << >>
  /\ where = "resend"
  /\ accepted = 0
  /\ left = [i \in Id |-> 0]
  /\ answerable = {}
  /\ thrown = {}

-----------------------------------------------------------------------------
(***************************************************************************)
(* ForwardTable.search: the first of the entries with the longest prefix   *)
(***************************************************************************)
Matches(dst) == {i \in DOMAIN Table : dst \in Table[i].net}

\* Mutation: the first match wins.
BestFirst(dst) == CHOOSE i \in Matches(dst) : \A j \in Matches(dst) : i <= j

\* the first of the longest
Best(dst) ==
  CHOOSE i \in Matches(dst) :
    \A j \in Matches(dst) :
      Table[j].len < Table[i].len \/ (Table[j].len = Table[i].len /\ i <= j)

Routable(dst) == Matches(dst) # {}

Route(dst) == Table[Best(dst)]

NextHop(dst) == IF Route(dst).hop = Zero THEN dst ELSE Route(dst).hop

-----------------------------------------------------------------------------
(***************************************************************************)
(* send_ip                                                                 *)
(***************************************************************************)

\* make_icmp_error, and the echo reply of handle_ip
Error(p) == [id |-> p.id, kind |-> "error", src |-> Zero, dst |-> p.src, ttl |-> 65]

Reply(p) == [id |-> p.id, kind |-> "reply", src |-> p.dst, dst |-> p.src, ttl |-> 65]

\* send_ip calls itself with an ICMP error until it has a packet it can route.
\* The error about an error goes to 0.0.0.0; without a route for that address
\* the recursion never ends.
Forwardable(p) == Routable(p.dst) /\ p.ttl # 1

RecursionEnds(p) == Forwardable(p) \/ Routable(p.src) \/ Routable(Zero)

ToForward(p) ==
  IF Forwardable(p) THEN p
  ELSE IF Routable(p.src) THEN Error(p) ELSE Error(Error(p))

\* the packet as it leaves: ttl decremented, an empty source filled in
Leaving(p) ==
  [p EXCEPT !.ttl = @ - 1,
            !.src = IF @ = Zero THEN IntfAddr[Route(p.dst).intf] ELSE @]

KeyAt(hop) == {i \in DOMAIN arpSend : arpSend[i].key = hop}

\* The packet joins the entry of its next hop, or becomes a new entry.
Pend(hop, p, waiting) ==
  IF \E i \in DOMAIN waiting : waiting[i].key = hop
  THEN [i \in DOMAIN waiting |->
          IF waiting[i].key = hop
          THEN [waiting[i] EXCEPT !.packs = Append(@, p)] ELSE waiting[i]]
  ELSE Append(waiting, [key |-> hop, age |-> RetryAge, remain |-> ArpTries,
                        packs |-> <<p>>, intf |-> Route(p.dst).intf])

CountSent(p) == left' = [left EXCEPT ![p.id] = @ + 1]

\* It leaves if the MAC address is known, and waits if not.
SendOrPend(p) ==
  LET hop == NextHop(p.dst)
  IN  IF hop \in arpKnown
      THEN CountSent(p) /\ UNCHANGED arpSend
      ELSE arpSend' = Pend(hop, Leaving(p), arpSend) /\ UNCHANGED left

\* send_ip(packet), then control at next
SendIp(packet, next) ==
  IF RecursionEnds(packet)
  THEN SendOrPend(ToForward(packet)) /\ where' = next
  ELSE where' = "crashed" /\ UNCHANGED <<arpSend, left>>

Throw(ids) == thrown' = thrown \cup ids

\* handle_ip of lab 4: nothing is answered, and the ttl is not looked at.
Lab4Handle(p) ==
  /\ where' = "resend"
  /\ IF p.dst \in RouterAddrs \/ ~ Routable(p.dst)
     THEN Throw({p.id}) /\ UNCHANGED <<arpSend, left>>
     ELSE SendOrPend(p) /\ UNCHANGED thrown

\* handle_ip of lab 5
Lab5Handle(p) ==
  /\ SendIp(IF p.dst \notin RouterAddrs THEN p
            ELSE IF p.kind = "echo" THEN Reply(p) ELSE Error(p), "resend")
  /\ UNCHANGED thrown

-----------------------------------------------------------------------------
(***************************************************************************)
(* handle_packet                                                           *)
(***************************************************************************)

\* An IP packet arrives.  In lab 5 packets for the router itself are answered: an
\* echo request with a reply, anything else with port unreachable.
NjuHandleIp ==
  /\ where = "recv"
  /\ accepted < MaxPackets
  /\ accepted' = accepted + 1
  /\ \E in \in NjuInputs :
       LET p == [id |-> accepted', kind |-> in.kind, src |-> in.src,
                 dst |-> in.dst, ttl |-> in.ttl]
       IN  /\ answerable' =
                IF Routable(p.src) /\ NextHop(p.src) \in arpKnown
                THEN answerable \cup {p.id} ELSE answerable
           /\ IF lab = 4 THEN Lab4Handle(p) ELSE Lab5Handle(p)
  /\ UNCHANGED <<lab, arpKnown, unreach>>

\* the places of packet i among packs, and how often it waits in the entries at
\* the given positions
Places(i, packs) == {j \in DOMAIN packs : packs[j].id = i}

WaitsAt(i, positions) ==
  Cardinality(UNION {{k} \X Places(i, arpSend[k].packs) : k \in positions})

\* An ARP packet teaches the router its sender, whatever it asks.
ArpLearn(sender) == arpKnown' = arpKnown \cup {sender}

\* An ARP request, or an ARP packet for somebody else: nothing else changes.
HandleArpRequest ==
  /\ where = "recv"
  /\ \E sender \in Addr \ (RouterAddrs \cup {Zero}) : ArpLearn(sender)
  /\ where' = "resend"
  /\ UNCHANGED <<lab, arpSend, unreach, accepted, left, answerable, thrown>>

\* "self.arp_send.remove(arp.senderprotoaddr)"
AfterReply(sender) ==
  IF KeyAt(sender) = {} THEN arpSend
  ELSE RemoveAt(arpSend, CHOOSE k \in KeyAt(sender) : TRUE)

\* A reply to the router releases the packets that wait for its sender.
HandleArpReply ==
  /\ where = "recv"
  /\ \E sender \in Addr \ (RouterAddrs \cup {Zero}) :
       /\ ArpLearn(sender)
       /\ arpSend' = AfterReply(sender)
       /\ left' = [i \in Id |-> left[i] + WaitsAt(i, KeyAt(sender))]
  /\ where' = "resend"
  /\ UNCHANGED <<lab, unreach, accepted, answerable, thrown>>

\* recv_packet raises NoPackets
NjuNoPackets ==
  /\ where = "recv"
  /\ where' = "resend"
  /\ UNCHANGED <<lab, arpKnown, arpSend, unreach, accepted, left, answerable, thrown>>

-----------------------------------------------------------------------------
(***************************************************************************)
(* resend_arp: one action per round of its loops                           *)
(***************************************************************************)

\* Mutation: the other end of the queue is looked at.
LastDue == arpSend # << >> /\ arpSend[Len(arpSend)].age >= RetryAge

\* "time.time() - self.arp_send.peek().value.send_time >= 1"
HeadDue == arpSend # << >> /\ Head(arpSend).age >= RetryAge

\* pop, and push of the same key
Requeue(e) == Append(Tail(arpSend), e)

\* "if value.remain_times > 0"
MayRetry(e) == e.remain > 0

ResendArp ==
  /\ where = "resend"
  /\ HeadDue
  /\ MayRetry(Head(arpSend))
  /\ arpSend' = Requeue([Head(arpSend) EXCEPT !.age = 0, !.remain = @ - 1])
  /\ UNCHANGED <<lab, arpKnown, unreach, where, accepted, left, answerable, thrown>>

\* the packets to answer with host unreachable
GivenUp(e) == e.packs

GiveUp ==
  /\ lab = 5
  /\ where = "resend"
  /\ HeadDue
  /\ ~ MayRetry(Head(arpSend))
  /\ arpSend' = Tail(arpSend)
  /\ unreach' = GivenUp(Head(arpSend))
  /\ where' = "unreach"
  /\ UNCHANGED <<lab, arpKnown, accepted, left, answerable, thrown>>

\* lab 4: the entry is gone, and its packets with it
Lab4GiveUp ==
  /\ lab = 4
  /\ where = "resend"
  /\ HeadDue
  /\ ~ MayRetry(Head(arpSend))
  /\ arpSend' = Tail(arpSend)
  /\ Throw({p.id : p \in ToSet(Head(arpSend).packs)})
  /\ UNCHANGED <<lab, arpKnown, unreach, where, accepted, left, answerable>>

HostUnreachable ==
  /\ where = "unreach"
  /\ IF unreach = << >>
     THEN where' = "resend" /\ UNCHANGED <<arpSend, unreach, left>>
     ELSE SendIp(Error(Head(unreach)), "unreach") /\ unreach' = Tail(unreach)
  /\ UNCHANGED <<lab, arpKnown, accepted, answerable, thrown>>

ResendDone ==
  /\ where = "resend"
  /\ ~ HeadDue
  /\ where' = "recv"
  /\ UNCHANGED <<lab, arpKnown, arpSend, unreach, accepted, left, answerable, thrown>>

NjuTick ==
  /\ \E i \in DOMAIN arpSend : arpSend[i].age < RetryAge
  /\ arpSend' = [i \in DOMAIN arpSend |->
                   [arpSend[i] EXCEPT !.age = IF @ < RetryAge THEN @ + 1 ELSE @]]
  /\ UNCHANGED <<lab, arpKnown, unreach, where, accepted, left, answerable, thrown>>

NjuStep ==
  \/ NjuHandleIp
  \/ HandleArpRequest
  \/ HandleArpReply
  \/ NjuNoPackets
  \/ ResendArp
  \/ GiveUp
  \/ Lab4GiveUp
  \/ HostUnreachable
  \/ ResendDone

NjuNext == NjuStep \/ NjuTick

NjuSpec == NjuInit /\ [][NjuNext]_njuVars

\* The router's loop keeps running and time passes.
NjuFairSpec == NjuSpec /\ WF_njuVars(NjuStep) /\ WF_njuVars(NjuTick)
-----------------------------------------------------------------------------
\* how often packet i waits in the queue or in the loop over a given-up entry
NjuWaits(i) == WaitsAt(i, DOMAIN arpSend) + Cardinality(Places(i, unreach))

\* No packet is lost, forwarded twice, or both forwarded and answered: each one
\* received either waits once or left once, as itself or as its answer, or lab 4
\* threw it away.
NothingLostOrDoubled ==
  /\ where # "crashed" =>
       \A i \in Id : NjuWaits(i) + left[i] + Cardinality({i} \cap thrown)
                       = IF i <= accepted THEN 1 ELSE 0
  /\ lab = 5 => thrown = {}

\* The queue has one entry per next hop, and what waits in it goes to that
\* next hop through that interface.
QueueMatchesRoutes ==
  /\ \A i, j \in DOMAIN arpSend : arpSend[i].key = arpSend[j].key => i = j
  /\ \A i \in DOMAIN arpSend : \A k \in DOMAIN arpSend[i].packs :
       LET p == arpSend[i].packs[k]
       IN  NextHop(p.dst) = arpSend[i].key /\ Route(p.dst).intf = arpSend[i].intf

\* Although resend_arp looks at the head only, it leaves no entry unserved
\* whose last request is a second old.
NoRetryOverlooked ==
  [][ResendDone => \A i \in DOMAIN arpSend :
        arpSend[i].remain = ArpTries \/ arpSend[i].age < RetryAge]_njuVars

\* The most specific of the routes is used, and the interfaces' own networks
\* before the configured ones.
MostSpecificRoute ==
  \A i \in DOMAIN arpSend : \A k \in DOMAIN arpSend[i].packs :
    LET dst == arpSend[i].packs[k].dst
    IN  \E m \in Matches(dst) :
          /\ arpSend[i].key = IF Table[m].hop = Zero THEN dst ELSE Table[m].hop
          /\ \A j \in Matches(dst) : Table[j].len <= Table[m].len

NjuPending(i) == accepted >= i /\ i \in answerable

NjuSettled(i) == left[i] > 0 \/ i \in thrown \/ where = "crashed"

\* A packet leaves in the end, as itself or as an ICMP answer to its source, if
\* the router knew the way back to its source when it came: whatever else
\* waits, also errors that answer each other for ever.
EveryPacketLeaves == \A i \in Id : NjuPending(i) ~> NjuSettled(i)
=============================================================================
