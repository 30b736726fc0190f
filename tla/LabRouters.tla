----------------------------- MODULE LabRouters -----------------------------
(***************************************************************************)
(* The routers of labs 3, 4 and 5 of the collections lab-hh and            *)
(* switchyard-master, and of lab 3 of nju-computer_network-master (its     *)
(* lab 5 is NjuRouter).  They do the same task with the same state: a      *)
(* table of known MAC addresses and a list of packets that wait for one.   *)
(* A behaviour runs one of them:                                           *)
(*                                                                         *)
(*   hh5, m5   forwarding with ICMP answers                                *)
(*   hh4, m4   forwarding only                                             *)
(*   hh3, hh3t, m3, nju3   ARP only (hh3t is hh3's testarptable.py)        *)
(*                                                                         *)
(* An address is a model value, a network is the set of its addresses with *)
(* a prefix length, and the MAC addresses are left out.  The age of an     *)
(* entry is min(time() - time, RetryAge) in ticks.                         *)
(***************************************************************************)
EXTENDS Integers, Sequences, FiniteSets, SequencesExt

CONSTANTS
  Program,      \* the programs looked at
  Addr,         \* the addresses of the model
  NoAddr,       \* None
  Intf,         \* interfaces
  IntfAddr,     \* the address of each interface
  IntfRoutes,   \* the networks of the interfaces: [net, len, hop, intf]
  FileRoutes,   \* forwarding_table.txt: the tables to try
  Inputs,       \* packets hosts may send: [kind, src, dst, ttl, dev]
  ArpSenders,   \* hosts that take part in ARP, and what they ask for or
  ArpTargets,   \* answer to
  MaxPackets,   \* bound of the model: packets received
  ArpTries,     \* requests before a packet is given up (5 in the code)
  RetryAge      \* one second, in ticks

ASSUME ProgramAssumption == Program \subseteq {"hh5", "hh4", "hh3", "hh3t", "m5", "m4", "m3", "nju3"}
ASSUME AddrAssumption == NoAddr \notin Addr /\ IntfAddr \in [Intf -> Addr]
ASSUME BoundsAssumption ==
  MaxPackets \in Nat /\ ArpTries \in Nat \ {0} /\ RetryAge \in Nat \ {0}

\* a row of a forwarding table
Row == [net : SUBSET Addr, len : 0 .. 32, hop : Addr \cup {NoAddr}, intf : Intf]

\* A router has an interface, and every interface a network.
ASSUME RoutesAssumption ==
  IntfRoutes \in Seq(Row) /\ IntfRoutes # << >> /\ FileRoutes \subseteq Seq(Row)
ASSUME InputsAssumption ==
  /\ Inputs \subseteq [kind : {"data", "echo"}, src : Addr, dst : Addr, ttl : 1 .. 64, dev : Intf]
  /\ ArpSenders \subseteq Addr /\ ArpTargets \subseteq Addr

VARIABLES
  program,    \* the program that runs
  table,      \* its forwarding table
  arpTable,   \* addresses whose MAC address is known
  queue,      \* packets that wait, oldest first
  at,         \* index of hh4's loop over the queue
  pc,         \* "serve", "recv" or "crashed"
  answer,     \* the address the last packet's ARP reply speaks for
  received,   \* number of IP packets received
  sent,       \* history: how often each packet, or an answer to it, left
  dropped     \* history: packets thrown away

vars == <<program, table, arpTable, queue, at, pc, answer, received, sent, dropped>>

RouterAddrs == {IntfAddr[i] : i \in Intf}

Id == 1 .. MaxPackets

Packet ==
  [id : Id, kind : {"data", "echo", "reply", "error"},
   src : Addr, dst : Addr, ttl : 0 .. 64]

\* asked is history: requests for hop that were sent while the packet waited
Entry ==
  [p : Packet, hop : Addr, intf : Intf, dev : Intf, tries : 0 .. ArpTries,
   age : 0 .. RetryAge, arpSent : BOOLEAN, asked : Nat]

TypeOK ==
  /\ program \in Program
  /\ table \in Seq(Row)
  /\ arpTable \subseteq Addr
  /\ queue \in Seq(Entry) /\ at \in Nat \ {0}
  /\ pc \in {"serve", "recv", "crashed"}
  /\ answer \in Addr \cup {NoAddr}
  /\ received \in 0 .. MaxPackets
  /\ sent \in [Id -> Nat] /\ dropped \subseteq Id

\* generateTable and __init__: lab-hh reads the file first, switchyard-master
\* takes the interfaces first.
HhTable(file) == file \o IntfRoutes

MTable(file) == IntfRoutes \o file

Init ==
  /\ program \in Program
  /\ \E file \in FileRoutes :
       table = IF program \in {"hh5", "hh4"} THEN HhTable(file)
               ELSE IF program \in {"m5", "m4"} THEN MTable(file) ELSE << >>
  /\ arpTable = IF program \in {"hh4", "hh3t"} THEN RouterAddrs ELSE {}
  /\ queue = << >>
  /\ at = 1
  /\ pc = IF program \in {"m4", "m5"} THEN "serve" ELSE "recv"
  /\ answer = NoAddr
  /\ received = 0
  /\ sent = [i \in Id |-> 0]
  /\ dropped = {}

-----------------------------------------------------------------------------
(***************************************************************************)
(* The forwarding table                                                    *)
(***************************************************************************)

\* The rows dst may use.  lab-hh starts with maxMask = 0 and asks for more, so
\* a default route is never taken.
HhMatches(dst) == {i \in DOMAIN table : dst \in table[i].net /\ table[i].len > 0}

MMatches(dst) == {i \in DOMAIN table : dst \in table[i].net}

\* the first of the longest
FirstLongest(matches) ==
  CHOOSE i \in matches :
    \A j \in matches :
      table[j].len < table[i].len \/ (table[j].len = table[i].len /\ i <= j)

HhRow(dst) == table[FirstLongest(HhMatches(dst))]

\* "self.forward_table[pos]" with pos still -1 is the last row
MRow(dst) ==
  IF MMatches(dst) = {} THEN Last(table)
  ELSE table[FirstLongest(MMatches(dst))]

HopOf(row, dst) == IF row.hop = NoAddr THEN dst ELSE row.hop

Waiting(p, row, dev) ==
  [p |-> p, hop |-> HopOf(row, p.dst), intf |-> row.intf, dev |-> dev,
   tries |-> 0, age |-> 0, arpSent |-> FALSE, asked |-> 0]

-----------------------------------------------------------------------------
(***************************************************************************)
(* What is made of a packet                                                *)
(***************************************************************************)

EchoReply(p) == [id |-> p.id, kind |-> "reply", src |-> p.dst, dst |-> p.src, ttl |-> 64]

\* lab-hh: an error has the destination's address, until it is sent
HhError(p) == [id |-> p.id, kind |-> "error", src |-> p.dst, dst |-> p.src, ttl |-> 64]

\* switchyard-master: the address of the interface the packet came by
MError(p, dev) ==
  [id |-> p.id, kind |-> "error", src |-> IntfAddr[dev], dst |-> p.src, ttl |-> 64]

\* What a handler makes of the queue: the queue, the packets that left it, those
\* thrown away, and whether the recursion ended.
Result(q, out, lost, ends) == [queue |-> q, out |-> out, lost |-> lost, ends |-> ends]

\* A request for hop was sent: everything that waits for hop profits from it.
Asked(q, hop) ==
  [i \in DOMAIN q |-> [q[i] EXCEPT !.asked = IF q[i].hop = hop THEN @ + 1 ELSE @]]

Apply(r) ==
  /\ queue' = r.queue
  /\ sent' = [i \in Id |-> IF \E k \in r.out : k.id = i THEN sent[i] + 1 ELSE sent[i]]
  /\ dropped' = dropped \cup {k.id : k \in r.lost}

-----------------------------------------------------------------------------
(***************************************************************************)
(* lab-hh/lab_5/myrouter.py                                                *)
(***************************************************************************)

Hh5Forwardable(p) == HhMatches(p.dst) # {} /\ p.ttl > 1

\* forward_packet calls itself with errors, to and fro between the two ends,
\* until one can be routed: the packet that can, if there is one.
Hh5Ends(p) == Hh5Forwardable(p) \/ HhMatches(p.src) # {} \/ HhMatches(p.dst) # {}

Hh5ToForward(p) ==
  IF Hh5Forwardable(p) THEN p
  ELSE IF HhMatches(p.src) # {} THEN HhError(p) ELSE HhError(HhError(p))

Hh5Leaving(p) ==
  [p EXCEPT !.ttl = @ - 1,
            !.src = IF p.kind = "error" THEN IntfAddr[HhRow(p.dst).intf] ELSE @]

\* forward_packet; an error takes its source address when it is sent
Hh5Forward(packet, q, known) ==
  LET p == Hh5ToForward(packet)
      e == Waiting([p EXCEPT !.ttl = @ - 1], HhRow(p.dst), CHOOSE i \in Intf : TRUE)
  IN  IF ~ Hh5Ends(packet) THEN Result(q, {}, {}, FALSE)
      ELSE IF e.hop \in known THEN Result(q, {Hh5Leaving(p)}, {}, TRUE)
      ELSE Result(Append(q, e), {}, {}, TRUE)

\* the request, and the later packets for the same hop that count it as theirs
Hh5Request(q) ==
  [i \in DOMAIN q |->
     IF i = 1 THEN [q[i] EXCEPT !.tries = @ + 1, !.age = 0, !.arpSent = FALSE]
     ELSE IF q[i].hop = q[1].hop /\ ~ q[i].arpSent
     THEN [q[i] EXCEPT !.tries = @ + 1, !.age = 0, !.arpSent = TRUE]
     ELSE q[i]]

\* Mutation: with the head, everything for its hop is given up.
Hh5GiveUpHop(q, known) ==
  LET r == Hh5Forward(HhError(q[1].p), q, known)
  IN  [r EXCEPT !.queue = SelectSeq(r.queue, LAMBDA e : e.hop # q[1].hop)]

\* the head is answered with host unreachable, then taken out
Hh5GiveUp(q, known) ==
  LET r == Hh5Forward(HhError(q[1].p), q, known)
  IN  [r EXCEPT !.queue = Tail(@)]

\* Mutation: the mark stays.
Hh5StillMarked(q) == q

\* the head sits out one round if the request was another's
Hh5Unmarked(q) == [q EXCEPT ![1].arpSent = FALSE]

\* handle_queue: only the head is looked at
Hh5Queue(q, known) ==
  IF q = << >> THEN Result(q, {}, {}, TRUE)
  ELSE IF q[1].hop \in known THEN Result(Tail(q), {q[1].p}, {}, TRUE)
  ELSE IF q[1].tries >= ArpTries THEN Hh5GiveUp(q, known)
  ELSE IF (q[1].age >= RetryAge \/ q[1].tries = 0) /\ ~ q[1].arpSent
  THEN Result(Asked(Hh5Request(q), q[1].hop), {}, {}, TRUE)
  ELSE Result(Hh5Unmarked(q), {}, {}, TRUE)

\* handle_packet: what an IP packet is turned into
Hh5Answer(p) ==
  IF p.dst \notin RouterAddrs THEN p
  ELSE IF p.kind = "echo" THEN EchoReply(p) ELSE HhError(p)

Hh5Do(r, next) ==
  /\ Apply(r)
  /\ pc' = IF r.ends THEN next ELSE "crashed"

\* handle_queue after a second without a packet
Hh5NoPackets ==
  /\ Hh5Do(Hh5Queue(queue, arpTable), "recv")
  /\ UNCHANGED <<arpTable, at, received>>
  /\ answer' = NoAddr

-----------------------------------------------------------------------------
(***************************************************************************)
(* lab-hh/lab_4/myrouter.py                                                *)
(***************************************************************************)

\* handle_packet: without a route nothing happens; the ttl is not looked at
Hh4Handle(p) ==
  LET e == Waiting([p EXCEPT !.ttl = @ - 1], HhRow(p.dst), CHOOSE i \in Intf : TRUE)
  IN  IF HhMatches(p.dst) = {} THEN Result(queue, {}, {p}, TRUE)
      ELSE IF e.hop \in arpTable THEN Result(queue, {p}, {}, TRUE)
      ELSE Result(Append(queue, e), {}, {}, TRUE)

Hh4Remove(i) == RemoveAt(queue, i)

\* sendArpPktRequest, and the entry it was sent for
Hh4Request(i) ==
  Asked([queue EXCEPT ![i].tries = @ + 1, ![i].age = 0], queue[i].hop)

\* handle_queue, one round of its loop.  For a packet that is not due the loop
\* goes round without a step forward: no round is possible until it is.
Hh4Round ==
  /\ program = "hh4"
  /\ pc = "serve"
  /\ at <= Len(queue)
  /\ LET e == queue[at]
     IN  \/ /\ e.hop \in arpTable
            /\ Apply(Result(Hh4Remove(at), {e.p}, {}, TRUE))
            /\ at' = at
         \/ /\ e.hop \notin arpTable /\ e.tries >= ArpTries
            /\ Apply(Result(Hh4Remove(at), {}, {e.p}, TRUE))
            /\ at' = at
         \/ /\ e.hop \notin arpTable /\ e.tries < ArpTries
            /\ e.age >= RetryAge \/ e.tries = 0
            /\ Apply(Result(Hh4Request(at), {}, {}, TRUE))
            /\ at' = at + 1
  /\ UNCHANGED <<program, table, arpTable, pc, answer, received>>

Hh4RoundsDone ==
  /\ program = "hh4"
  /\ pc = "serve"
  /\ at > Len(queue)
  /\ pc' = "recv"
  /\ at' = 1
  /\ UNCHANGED <<program, table, arpTable, queue, answer, received, sent, dropped>>

-----------------------------------------------------------------------------
(***************************************************************************)
(* switchyard-master/lab_4 and lab_5: every packet goes through the queue, *)
(* whose head is looked at once between two packets received.              *)
(***************************************************************************)

\* the request for the head, and its resending after a second
MRequest(q) ==
  IF q[1].tries = 0 \/ q[1].age >= RetryAge
  THEN Asked([q EXCEPT ![1].tries = @ + 1, ![1].age = 0], q[1].hop) ELSE q

M4Serve(q) ==
  IF q[1].hop \in arpTable THEN Result(Tail(q), {q[1].p}, {}, TRUE)
  ELSE IF q[1].tries >= ArpTries THEN Result(Tail(q), {}, {q[1].p}, TRUE)
  ELSE Result(MRequest(q), {}, {}, TRUE)

\* The head of lab 5 is answered with host unreachable.  The answer is sent at
\* once, or asked for a first time and queued as if it had not been.
M5GiveUp(q) ==
  LET err == MError(q[1].p, q[1].dev)
      e   == Waiting(err, MRow(err.dst), q[1].dev)
  IN  IF e.hop \in arpTable THEN Result(Tail(q), {err}, {}, TRUE)
      ELSE Result(Asked(Append(Tail(q), e), e.hop), {}, {}, TRUE)

M5Serve(q) ==
  IF q[1].hop \in arpTable THEN Result(Tail(q), {q[1].p}, {}, TRUE)
  ELSE IF q[1].tries >= ArpTries THEN M5GiveUp(q)
  ELSE Result(MRequest(q), {}, {}, TRUE)

\* the top of the loop
MTop ==
  /\ program \in {"m4", "m5"}
  /\ pc = "serve"
  /\ pc' = "recv"
  /\ IF queue = << >> THEN UNCHANGED <<queue, sent, dropped>>
     ELSE Apply(IF program = "m4" THEN M4Serve(queue) ELSE M5Serve(queue))
  /\ UNCHANGED <<program, table, arpTable, at, answer, received>>

\* lab 4: the ttl is decremented and not looked at
M4Handle(p) ==
  IF MMatches(p.dst) = {} THEN Result(queue, {}, {p}, TRUE)
  ELSE Result(Append(queue, Waiting([p EXCEPT !.ttl = @ - 1], MRow(p.dst),
                                    CHOOSE i \in Intf : TRUE)), {}, {}, TRUE)

\* lab 5, one step after the other: for the router, out of time, no route
M5Answer(p, dev) ==
  IF p.dst \notin RouterAddrs THEN p
  ELSE IF p.kind = "echo" THEN EchoReply(p) ELSE MError(p, dev)

M5InTime(p, dev) == IF p.ttl <= 1 THEN MError(p, dev) ELSE [p EXCEPT !.ttl = @ - 1]

M5Routed(p, dev) == IF MMatches(p.dst) = {} THEN MError(p, dev) ELSE p

M5Handle(p, dev) ==
  LET out == M5Routed(M5InTime(M5Answer(p, dev), dev), dev)
  IN  Result(Append(queue, Waiting(out, MRow(out.dst), dev)), {}, {}, TRUE)

-----------------------------------------------------------------------------
(***************************************************************************)
(* Packets received                                                        *)
(***************************************************************************)

HandleIp ==
  /\ pc = "recv"
  /\ program \in {"hh5", "hh4", "m5", "m4"}
  /\ received < MaxPackets
  /\ received' = received + 1
  /\ \E in \in Inputs :
       LET p == [id |-> received', kind |-> in.kind, src |-> in.src,
                 dst |-> in.dst, ttl |-> in.ttl]
       IN  \/ program = "hh5" /\ Hh5Do(Hh5Forward(Hh5Answer(p), queue, arpTable), "recv")
           \/ program = "hh4" /\ Apply(Hh4Handle(p)) /\ pc' = "serve"
           \/ program = "m5" /\ Apply(M5Handle(p, in.dev)) /\ pc' = "serve"
           \/ program = "m4" /\ Apply(M4Handle(p)) /\ pc' = "serve"
  /\ answer' = NoAddr
  /\ UNCHANGED <<program, table, arpTable, at>>

\* An ARP reply teaches its target besides its sender.
Learned(op, sender, target) ==
  arpTable \cup {sender} \cup (IF op = "reply" THEN {target} ELSE {})

\* the ARP reply to a request for an address the program speaks for
ArpReply(op, target, own) ==
  IF op = "request" /\ target \in own THEN target ELSE NoAddr

\* hh3's table is a local variable, and it answers replies like requests.
Hh3Arp(op, sender, target) ==
  /\ arpTable' = {}
  /\ answer' = IF target \in RouterAddrs THEN target ELSE NoAddr
  /\ pc' = "recv"
  /\ UNCHANGED <<queue, sent, dropped>>

\* testarptable.py answers for every address it knows, replies like requests; any
\* other is a KeyError.
Hh3TestArp(op, sender, target) ==
  LET known == arpTable \cup {sender}
  IN  /\ arpTable' = known
      /\ answer' = IF target \in known THEN target ELSE NoAddr
      /\ pc' = IF target \in known THEN "recv" ELSE "crashed"
      /\ UNCHANGED <<queue, sent, dropped>>

\* nju3 learns the sender only.
Nju3Arp(op, sender, target) ==
  /\ arpTable' = arpTable \cup {sender}
  /\ answer' = ArpReply(op, target, RouterAddrs)
  /\ pc' = "recv"
  /\ UNCHANGED <<queue, sent, dropped>>

M3Arp(op, sender, target) ==
  /\ arpTable' = Learned(op, sender, target)
  /\ answer' = ArpReply(op, target, RouterAddrs)
  /\ pc' = "recv"
  /\ UNCHANGED <<queue, sent, dropped>>

\* switchyard-master's labs 4 and 5
MArp(op, sender, target) ==
  /\ arpTable' = Learned(op, sender, target)
  /\ answer' = ArpReply(op, target, RouterAddrs)
  /\ pc' = "serve"
  /\ UNCHANGED <<queue, sent, dropped>>

\* hh4 answers for every address it knows.
Hh4ArpReply(op, sender, target) == ArpReply(op, target, arpTable \cup {sender})

Hh4Arp(op, sender, target) ==
  /\ arpTable' = Learned(op, sender, target)
  /\ answer' = Hh4ArpReply(op, sender, target)
  /\ pc' = "serve"
  /\ UNCHANGED <<queue, sent, dropped>>

\* hh5 looks at its queue after each ARP packet.
Hh5Arp(op, sender, target) ==
  /\ arpTable' = Learned(op, sender, target)
  /\ answer' = ArpReply(op, target, RouterAddrs)
  /\ Hh5Do(Hh5Queue(queue, Learned(op, sender, target)), "recv")

\* An ARP packet of a host.  hh5 throws away one that is sent to another
\* station; that changes nothing.
HandleArp ==
  /\ pc = "recv"
  /\ \E op \in {"request", "reply"}, sender \in ArpSenders, target \in ArpTargets :
       \/ program = "hh5" /\ Hh5Arp(op, sender, target)
       \/ program = "hh4" /\ Hh4Arp(op, sender, target)
       \/ program \in {"m5", "m4"} /\ MArp(op, sender, target)
       \/ program = "hh3" /\ Hh3Arp(op, sender, target)
       \/ program = "hh3t" /\ Hh3TestArp(op, sender, target)
       \/ program = "m3" /\ M3Arp(op, sender, target)
       \/ program = "nju3" /\ Nju3Arp(op, sender, target)
  /\ UNCHANGED <<program, table, at, received>>

\* recv_packet raises NoPackets after a second; that the second may be a little
\* short for the comparison with time, and Tick be missing, is allowed for
NoPackets ==
  /\ pc = "recv"
  /\ \/ program = "hh5" /\ Hh5NoPackets
     \/ /\ program \in {"hh4", "m5", "m4"}
        /\ pc' = "serve"
        /\ answer' = NoAddr
        /\ UNCHANGED <<arpTable, queue, at, received, sent, dropped>>
  /\ UNCHANGED <<program, table>>

Tick ==
  /\ \E i \in DOMAIN queue : queue[i].age < RetryAge
  /\ queue' = [i \in DOMAIN queue |->
                 [queue[i] EXCEPT !.age = IF @ < RetryAge THEN @ + 1 ELSE @]]
  /\ UNCHANGED <<program, table, arpTable, at, pc, answer, received, sent, dropped>>

Serve == Hh4Round \/ Hh4RoundsDone \/ MTop

Next == HandleIp \/ HandleArp \/ NoPackets \/ Serve \/ Tick

Spec == Init /\ [][Next]_vars

\* The loop goes on, time passes, and now and then the links are silent for a
\* second: without that hh5 never looks at its queue.
FairSpec == Spec /\ WF_vars(Serve) /\ WF_vars(NoPackets) /\ WF_vars(Tick)
-----------------------------------------------------------------------------
Waits(i) == Cardinality({k \in DOMAIN queue : queue[k].p.id = i})

\* Whatever a packet is turned into on its way through the recursion, the queue
\* and the errors about errors, there is one of it: it waits once, it left once,
\* or it was thrown away, which the routers of lab 5 never do.
OneOfEach ==
  /\ \A i \in Id :
       pc = "crashed" \/ Waits(i) + sent[i] + Cardinality({i} \cap dropped)
                           = IF i <= received THEN 1 ELSE 0
  /\ program \in {"hh5", "m5"} => dropped = {}

\* A packet is given up, that is, it leaves the queue while its next hop is not
\* known, only after all the requests the program makes; in hh5 some of them
\* were made for a packet before it, whose count it shares.
AllRequestsMade ==
  [][\A k \in DOMAIN queue :
       LET e == queue[k]
       IN  \/ \E j \in DOMAIN queue' : queue'[j].p = e.p
           \/ e.hop \in arpTable'
           \/ e.asked >= ArpTries]_vars

Pending(i) == \E k \in DOMAIN queue : queue[k].p.id = i /\ queue[k].p.kind # "error"

Settled(i) ==
  \/ pc = "crashed"
  \/ \A k \in DOMAIN queue : queue[k].p.id = i => queue[k].p.kind = "error"

\* No packet waits for ever, whatever waits before it, also errors that answer
\* each other without end: it leaves, is given up, or an error takes its place.
NothingWaitsForEver == \A i \in Id : Pending(i) ~> Settled(i)
=============================================================================
