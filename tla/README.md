# switchLab in TLA+

switchLab is the Switchyard framework (`src/switchyard`), in which a Python
program plays a network device, together with three collections of solutions to
its networking labs: `src/lab-hh`, `src/nju-computer_network-master` and
`src/switchyard-master` (the last also holds a second copy of the framework).
This directory models nearly all of the lab programs, and of the framework the
parts that keep state or turn one representation into another: threads, test
mode, socket emulation, start-up, simulator, OpenFlow switch and the two codecs.

Contents: 1 the system, 2 the modules, 3 how state and actions correspond to
the code, 4 runs, 5 fairness, 6 proofs, 7 what the code does wrong, 8 what is
left out, 9 what could come next.

## 1. The system

| component | state it keeps | operations | what is hard | what makes it correct |
|---|---|---|---|---|
| live network object: `llnetreal.py` | `running`, the packet queue, threads, open devices | receiver threads, `recv_packet`, `send_packet`, SIGINT handler, `shutdown` from two threads | five kinds of threads and a signal handler over one queue | no frame lost, shutdown reaches every thread, a device is not closed under its reader |
| test mode: `llnettest.py`, `lib/testing.py` | pending and completed events of each scenario, the alarm of the process | `recv_packet`, `send_packet` of user code, `SIGALRM`, `run_tests`; packet matching, compiled scenarios | one alarm for many expectations; what a match does not look at | an alarm fails only the expectation it was set for, the run ends, an exact match means the same packet |
| start-up and host firewall: `syinit.py`, `hostfirewall.py`, `pcapffi.py` | rules, sysctls and filters of the host | block, unblock, save, restore; the barrier between main and application thread | two threads; an exception or Ctrl-C in or between any two commands | what of the host is as it was before, however it ended; sockets get their traffic, the process ends |
| socket emulation: `lib/socket/socketemu.py` | the registry of queues by protocol, address and port; each socket's own name, peer and timeout | create, bind, connect, send, receive, close, `send_to_app` | the lock covers single lookups only | the registry is exactly the open sockets; answers reach who asked |
| simulator: `sim/*.py`, `lib/topo` | topology, running nodes, link emulators, monitors | the commands of the command line, threads of nodes and links | rebuilding a network with packets on their way, threads that wait for each other | what runs is the topology; a link keeps the order of packets; commands end |
| OpenFlow switch: `lib/openflow/ofswitch.py` | packet buffers, controller connections | packet in, handlers of a controller's messages, shutdown | buffer ids are lengths, one thread per controller | an id names the packet it was announced for |
| packet headers: `lib/packet` | the attributes of each header | build, serialize with lengths and checksums, parse, change | order of `pre_serialize`, lengths that count padding, options | what is parsed is what was built; lengths and checksums describe the bytes |
| OpenFlow messages: `lib/openflow/openflow10.py`, `openflow13.py` | attributes of each structure | set, serialize, parse, match | two libraries that share helpers by `import *` | the same; failures are the known ones |
| sender, middlebox, receiver of lab 6 (three collections) | window, acknowledgements or queue, resend cursor, timer | send, resend, handle acknowledgement, drop, forward, record | loss, timeouts in the middle of rounds, a receiver that stops answering | the transfer completes and the window invariants hold |
| routers of labs 3 to 5 (three collections) | forwarding table, ARP table, packets waiting for an ARP reply | receive, resend, give up, ICMP errors | the retry loop, errors that wait for ARP themselves, the head of the queue blocking it | no packet lost or doubled; the queue agrees with the routes; every packet moves on |
| learning switches of lab 2, hubs of lab 1 | table from addresses to ports with ages or traffic counts | learn, look up, evict, age out | eviction order, ties, expiry only on arrival | a frame goes to one port only where its destination was heard; LRU is LRU |
| firewall, switchyard-master lab 7 | token buckets | match, refill, permit, drop, impair | refill and cap, late refills | the rate limit |
| caching server, NJU lab 7 | cached headers and bodies with time stamps | GET, HEAD, fetch, expire | the body is cached while it is streamed | what is served is what the main server has, or damage that heals |
| DNS server, NJU lab 7 | record table | look up, match wildcards, choose an address; its client: ask, take an answer, give up | wildcards, unknown locations, datagrams lost or late, ports given out again | the nearest address of the name asked for |

The programs reach the framework through `recv_packet` and `send_packet`; in
live mode behind them is the live network object, in test mode the scenario
being run, in the simulator a node's queue. An application started with `-a`
talks to the user program, which then plays the protocol stack, through the
socket emulation. The lab 6 programs meet over links; every other lab program is
on its own.

`PROJECT.json` lists every component with its files, and under "hazards" the 40
places where the code is hard to test, each with the properties about it.

## 2. The modules

| module | models |
|---|---|
| `Lab6Links` | the four FIFO links between the programs of lab 6, with a capacity |
| `NjuBlaster`, `NjuPath`, `NjuReliable` | NJU lab 6: the sender; middlebox and receiver; their composition with its properties and inductive invariant |
| `ReliableDelivery` | abstract: packets are delivered, then confirmed, until all are |
| `HhPath`, `HhBlaster`, `MasterBlaster` | lab 6 of lab-hh and of switchyard-master: the path both share, the two senders |
| `NjuRouter`, `LabRouters` | the routers of NJU labs 4 and 5; the eight others of labs 3, 4 and 5, two of them stages of lab-hh's lab 3 |
| `LearningSwitches`, `LruTable` | fourteen switches and hubs; abstract: a least-recently-used table |
| `Firewall` | the firewall of lab 7 |
| `CachingServer`, `DnsServer` | NJU lab 7 |
| `NetThreads` | the live network object and the start of its threads |
| `ScenarioRun`, `PacketMatcher` | test mode: events, verdicts, alarm; packets and matchers |
| `HostNetwork` | what a run of `swyard` does to its host |
| `SocketEmulation`, `SocketCalls` | the registry step by step; the calls on sockets with their queues |
| `Topology`, `Simulator` | topologies and their files; the simulator |
| `Bytes` | byte strings as sequences of fields |
| `PacketHeaders`, `PacketExchange` | the header classes; a packet built, sent, changed and passed on |
| `OpenFlowWire`, `OpenFlow10`, `OpenFlow13`, `OpenFlowExchange` | layouts and how they become bytes; the layouts of the two libraries; a message built and relayed |
| `OpenFlowMatch`, `OpenFlowSwitch` | matches; the switch |
| `MCHhBlaster`, `MCRouters`, `MCForwarders`, `MCRuntime`, `MCSimulator`, `MCHosts`, `MCWire` | the modules TLC runs (`NjuReliable` and `SocketEmulation` are run themselves) |
| `NjuReliable_proofs`, `HhBlaster_proofs`, `Routers_proofs`, `Forwarders_proofs`, `Runtime_proofs`, `Sockets_proofs`, `Hosts_proofs` | theorems and their proofs: of the transfers of lab 6; of `NjuRouter` and `LabRouters`; of `Firewall`, `LearningSwitches`, `OpenFlowSwitch` and `OpenFlowMatch`; of `NetThreads`, `ScenarioRun` and `Simulator`; of `SocketEmulation` and `SocketCalls`; of `HostNetwork`, `CachingServer` and `DnsServer` |

`NjuReliable` composes by conjunction: an action of one program leaves the
variables of the others alone and shares the links. It implements
`ReliableDelivery` under `delivered <- revData`, `confirmed <- acked` and
`over <- (blaster = "done")`. So do the programs of `MCHhBlaster`, where what is
confirmed is what `statusList` marks, or what lies below the queue or is flagged
in it, and the program that crashes or idles merely stops. The LRU switches implement `LruTable`, whose
table is a set of addresses with an order of use, under the mapping that reads
this order off the ages, or the places, of their entries.

A module TLC runs that extends several components runs one of them per
behaviour, chosen in the initial state (`runs`, `part` or `program`), while the
others rest: their state spaces add up and do not multiply. Components that
really interact (the programs of lab 6; user threads, receivers, signal and
application; application and stack; command line, nodes and links) are always
composed.

Definitions introduced by a comment "Mutation:" are deliberate faults. No
specification uses them; each stands for a plausible mistake in the definition
that follows it and shows that some property would notice.

## 3. Correspondence

**NJU lab 6.** The variables carry the names of the fields of `Blaster` and
`Blastee`. `Start`, `HandleAck` and `HandleNoPacket` are one iteration of the
receive loop each, including `try_to_send`; a frame is its sequence number. Two
details of the code matter. The sender spins in an endless loop after the last
acknowledgement, and so does the blastee once it has written its file (state
`done`): it stops answering, and the transfer completes only because
acknowledgements are never dropped, which is what `AckNeverLost` is about. And
a resend round leaves its cursor behind while acknowledgements move `lhs`.
`Interrupt` stops a program at any time. `elapsed` is the time since `timer`,
saturated: the code only compares it with the timeout.

**Lab 6 of lab-hh and switchyard-master.** `TrySend` is split into the branches
of `try_send`; the `IndexError` of `blaster.py:70` is the state `crashed`. The
sender of switchyard-master keeps a queue of records, `q`. Neither middlebox nor
blastee has a state, so `HhPath` has only a history of what was answered.

**Routers.** An address is a model value and a network is a set of addresses
with a prefix length. In `NjuRouter`, `NjuHandleIp`, `HandleArpRequest`,
`HandleArpReply` and `NjuNoPackets` are one reception each; `ResendArp`, `GiveUp`,
`HostUnreachable` and `ResendDone` are the turns of the loop in `resend_arp`
that precedes every reception. `send_ip` is the operator `SendIp`, with its
recursion into ICMP errors resolved by `ToForward`; the recursion that never ends
is the state `crashed`. `LabRouters` has one action for each turn of the loop all
eight programs share, and operators of each program where they differ;
but for lab-hh's lab 4, only the head of a queue is served.

**Switches and hubs.** `SwNext` is one frame; a table is a sequence in the order
of the program's dict or list, so that ties are decided as the code decides them.
Which host was heard where is history.

**Firewall.** `FwNext` is a packet or the passing of time; the refill at the top
of the loop is part of the handling of each packet. An address is the set of its
one bits, because the code masks a network with itself.

**Live network object.** Each thread has a position and each step is what
happens between two points at which another thread can interfere: the sections
under the queue's lock, the tests and assignments of `running`, the joins and
the closing of devices. The constructor is four steps, because the signal handler
is there from the first: `InstallHandler`, `MakeQueue`, `StartRunning` and one
`Spawn` per device. SIGINT, in the main thread, is `InterruptConstruction` as long
as it raises (no handler yet, or no queue for the handler to look at), then
`HandleSigint` at any point; `HandleSigintInGet` is the case that the main thread
holds the queue's lock. `early` records that it came before `running` was set,
which undoes it.

**Test mode.** User code is any sequence of calls: `RecvExpected`,
`SendMatching`, `SendUnexpected`, `Return`. `SetTimer`, `CancelTimer` and
`AlarmRings` are the signal handling of `testpass`, `cancel_timer` and
`_timer_expiry`. User code is taken not to catch the exception of a failed test,
and the debugger is off. `PacketMatcher` is one test of the codec's packets:
an input event, what user code does with the packet, and the output event's
matcher, with the pickling of a compiled scenario in between. What is compared of a header
are its public attributes; `named` says that an ICMPv6 header was made with
`icmptype=...`, which adds one (`Argument`). A comparison that reads an attribute
the other header lacks raises (`ComparisonRaises`), which is a verdict of its own.

**Host.** `HostNetwork` has the two threads of `start_framework` at their
positions: `MainStep` goes through the start, the user code and the end,
`AppCodeEnds` and `AppThreadEnds` through the application's, with the barrier
between them. A rule, a sysctl or a filter is an element of a set. The way in and
out is a sequence of parts (`Following`): the commands of `__init__`, those of
`block` in two parts, and those of `unblock` in three. `todo` holds the commands
(`LinuxCommands`, `MacCommands`) that are left of the current part; `RunCommand` runs
one, with the effect `After`, and `Proceed` goes to the next part. `CutShort` is an
exception or Ctrl-C in one of them or between two: the main thread exits and leaves
everything as it is, because `with` protects only what comes after `block`. Exceptions
are real here: the handler of an `OSError` reads `e.stderror`, which no exception has.
`cut` remembers where it was. `InterruptStart` is Ctrl-C before the firewall and at the
barrier.

**Socket emulation.** The registry maps names to the socket whose queue it is;
the protocol is always UDP and is left out. `Create` and `Register`, and
`BindCheck`, `BindFilters` and `BindMove`, are the parts of the constructor and
of `bind` between which the stack's thread can run; `FirstLookup`,
`SecondLookup` and `Put` are those of `send_to_app`. `deserted` and `reached`
record what was true during the call of `send_to_app`. There is one application
thread, which is what the framework starts. `SocketCalls` has a whole call as one
step and adds what a call returns, the queues, timeouts and remote hosts.

**Simulator.** A command is edited into the topology, then `stop` and the
rebuilding are steps of the command line's thread (`MainStep`), between which
the threads of the nodes (`NodeStep`) and links (`LinkemStep`) run. An exception
that nobody catches ends the thread it occurs in, the command line's included.
The loop of a link emulator is cut where its thread can be overtaken:
`LinkemLoops` takes the time, `LinkemDelivers` puts one packet that had expired
by then into the queue of the other end, `LinkemTimeout` takes the time again,
`LinkemGets` moves one packet into the heap. `due` is the first of these times,
as the number of packets that had expired. A packet in the heap has the ticks it
has `left`, and `SimTick` takes one from all.

**Switch.** A handler of a controller's message is one step of that controller's
thread; `BufferAdd` and `SendPacketIn` are the two halves of the main thread's
turn, between which the handlers run. Names that do not exist (`self._table`,
`host`, `port`) raise, as they do in the code, and end the thread.

**Codecs.** A byte string is the sequence of its fields with their widths, so
that lengths are added up and slices cut as in the code, while the characters of
a name or a payload are not spelled out. An OpenFlow class is its layout, with
one `Encode` and one `Decode` for all; a packet header is a record with the three
methods `to_bytes`, `pre_serialize` and `from_bytes`. A checksum is the sequence
of the fields it sums, which tells apart what a sum would only almost. `Change`
is what an application may do to a packet it built or received: a smaller TTL,
other addresses, types, flags and options, an extension header inserted, a header
deleted, bytes appended, a payload read as RIPv2. `SendLocal` is the raw socket
that stands in for the loopback device: it takes the header of the link out of
the application's packet before it looks at what follows, and the kernel puts
another one in front.

**Caching server, DNS server.** The handler of a request is cut at every write to
the client and every read from the main server, since either may fail there;
time passes in between. A name is the sequence of its labels. Requests of the DNS
client and their answers are datagrams: sets of messages that are taken in any order
or never. An answer reaches whoever has the port it was sent to (`TakeAnswer`); the
client compares neither id nor name. It gives up after ten seconds
(`NoAnswerCame`), and a later request may get the same port. An alias ends in
`AttributeError`: the client puts dnslib's object into the next question.

## 4. Runs

| run | configuration | size | checks | shows |
|---|---|---|---|---|
| `nju_reliable` | `NjuReliable.cfg`: 4 packets, window 3, links of 1 frame, timeout of 2 ticks | 65,896 states | `AckNeverLost`, `DoneIsComplete`, `SendsOnlyUnacked`, `ImplementsFairDelivery` | the transfer is safe under loss, timeouts and interrupts; it implements the abstract delivery, and one that nobody interrupts ends |
| `hh_blaster` | `MCHhBlaster.cfg`: 4 packets, window 3, either sender | 4,948 | `WindowsAgree`, `SendsOnlyOutstanding`, `SentIsDelivered` | each sender's bookkeeping agrees with its window; with either, the programs implement the abstract delivery; what was sent is acknowledged unless the one crashes or the other idles |
| `hh_blaster_stall` | `MCHhBlasterAllPacketsSent.cfg`: 3 packets | violation | `AllPacketsSent` | see section 7 |
| `routers` | `MCRouters.cfg`: ten programs, 2 packets of up to 7 kinds, with and without a default route, 2 ARP tries | 133,626 | `PacketsConserved`, `QueueFollowsRoutes`, `RequestsMade`, `PacketsMoveOn` | no packet is lost, doubled or misrouted, none is given up before its requests were made, none waits for ever |
| `forwarders` | `MCForwarders.cfg`: 14 switches with 3 hosts, 4 frames; 4 firewall rules, 9 ticks; 2 controllers, 3 packets, 2 messages | 211,472 | `SentWhereHeard`, `ImplementsLru`, `RateHolds`, `BufferedPacketsKept`, `ShutdownCompletes` | tables forget and evict as they should; the rate limit holds; when a buffer id is wrong, and that shutdown of the switch ends its threads |
| `runtime` | `MCRuntime.cfg`: a user thread, 2 devices, an application, SIGINT anywhere since the barrier; or 2 scenarios of 6 and 4 events | 44,615 | `NoFrameLost`, `SigintWakesUser`, `NoReceiveAfterClose`, `ReceiversExit`, `AlarmIsForExpectedOutput`, `EveryScenarioJudged` | the threads are safe with each other and end; verdicts are right and the run ends |
| `scenario_stale_alarm` | `MCRuntimeStaleAlarm.cfg`: the scenarios | violation | `AlarmEndsWithScenario` | see section 7 |
| `simulator` | `MCSimulator.cfg`: 2 commands, 2 packets of 2 sizes, up to 3 interfaces, an empty topology or 2 hosts | 576,762 | `RunsTheTopology`, `LinksKeepOrder`, `CommandsEnd` | what runs is the topology, and how a command may fail to end |
| `hosts` | `MCHosts.cfg`: see below | 636,491 | `RegistryExact`, `FalseMeansUnreachable`, `TrueMeansReachable`, `AnswersReachAsker`, `HostRestored`, `SocketsServed`, `ProcessEnds`, `CacheAnswersExplained`, `DamageHeals`, `ResolvesToNearest` | sockets, host, caching server and DNS server |
| `socket_close_again` | `MCSocketEmulationCloseAgain.cfg`: the sockets, with second closes | violation | `OpenIsRegistered` | see section 7 |
| `cache_head_then_get` | `MCHostsHeadThenGet.cfg`: the caching server | violation | `StoredForFutureUsage` | see section 7 |
| `wire` | `MCWire.cfg`: every class of both codecs, 3 hops, 1 change | 119,685 | `SurvivesTheWire`, `HeadersDescribeTheBytes`, `MatchesAgree`, `OnlyKnownFailures`, `TestsAreExact` | what is parsed is what was set, except where listed |

Some properties hold with exceptions. Each exception is a definition of its own
that names the state in which the code departs (`OnlyKnownFailures` lists the
messages and packets that raise; `ProcessEnds` excludes the hanging barrier, the
network object nobody shuts down and user code that does not heed a shutdown;
`HostRestored` says by the place where the commands were cut short what is restored
all the same; `CommandsEnd` excludes the stop that waits for a waiting node,
`ReceiversExit` the signal inside the queue, `SigintWakesUser` the signal before
`running` is set, `BufferedPacketsKept` a packet taken that was not the newest,
`ResolvesToNearest` a port whose last request was given up, `HubPasses`, a part of
`TestsAreExact`, exact tests of ICMPv6 headers made with `icmptype=...`), so that the
run shows these to be the only ones. Section 7 lists them.

Why the bounds are enough:

- *Transfers.* With four packets and a window of three, acknowledgements come
  out of order, `lhs` moves by several packets at once, a round is overtaken by
  acknowledgements, and `rhs` reaches the end with packets outstanding. A
  longer transfer repeats these windows at other offsets. Links of one frame,
  with a frame in each of four links, already give every order the FIFO links
  allow; a longer link only delays. With fewer than three packets no round ends
  with everything acknowledged and a packet left to send, the case `PollsInTime`
  (section 5) is about.
- *Routers.* Two packets make an entry with two packets, two entries, an entry
  that times out while another is added, a head of the queue that blocks the
  rest, and errors about errors. Two tries are the least with a retry and a
  give-up; the code has five. The forwarding table has overlapping prefixes in
  the wrong order, so that order and prefix length disagree.
- *Switches.* The code's five entries are two here; three hosts then evict, tie
  and come back, and four frames are enough for a host to move and be looked up.
- *Firewall.* Nine ticks of half a second are long enough for the cap to take
  effect and to be used up; the packets have sizes at and above a refill.
- *OpenFlow switch.* Two controllers and three packets in a buffer of two are the
  least in which an id is used again while its first packet is known to another.
- *Threads.* Two devices, of which one has a header the framework does not
  decode, a frame on each. More user threads and frames are covered by the
  theorems.
- *Test mode.* The two scenarios contain each kind of event in each context the
  timer distinguishes: an output after an input, after an output, after a
  timeout, on two devices, and last.
- *Simulator.* Two commands are the least in which one meets what another left
  behind (a removed node, a renumbered interface, a monitor); two packets, the
  least that can change order; three interfaces, so that a link is added beside
  another and a node linked to itself.
- *Hosts.* Two sockets are the least that compete for a name; ephemeral and bound
  ports overlap in one port, and one bound port has no filter. Rules: five lists
  from none to several, with a device that does not exist; four devices, among them
  the loopback and one without an interface; three platforms. `MCCommandLine` leaves
  out command lines that differ only in what is not looked at. Cache:
  a file of two chunks, so that a transfer can break between them, a file that is
  not there, a timeout of two ticks. DNS: two requests on two ports (`MaxAsks`,
  `DnsPorts`), the least with a late answer to a port that has a new owner; names with
  addresses, with aliases, wildcards in either place, addresses without a location.
- *Wire.* Every layout and header class is built with values on both sides of
  each condition of the code; three hops are serialize, parse, serialize again
  and parse; nested structures are one or two deep. Addresses of two bits
  have a prefix between the two trivial ones.

Deadlock is not checked: each of these systems may stop. The programs of lab 6
end or are interrupted, the inputs of routers, switches and servers and the
captured frames are bounded, a test run finishes, an application may close all
its sockets, and a packet or message has a last hop.

## 5. Fairness

Weak fairness stands for a thread or program that keeps running its loop, and
for time that passes (`Tick` and its likes). The other assumptions are:

- *Middlebox (`SF` of `Delivers`).* The middlebox drops a data frame with a
  probability below one, independently; a frame sent again and again gets
  through. Acknowledgements are never dropped, which is what the code does.
- *Polling (`PollsInTime`, NJU lab 6).* The blaster cannot find its timer expired
  every time nothing arrives, if it often finds nothing before that: the timeout
  (300 ms) is longer than the time `recv_packet` waits (100 ms). This is needed.
  A resend round that ends because acknowledgements came sends nothing, and with
  a timeout not longer than the wait every further look at the timer starts
  another round without packets; no new packet is ever sent.
- *Routers.* The links are silent now and then for a second, so that the loop
  gets to its retries.
- *Queue lock (`NetThreads`).* `EnterGet`, `WakeUp`, `TimeOut` and `PutFrame`
  are strongly fair: the lock is granted to whoever asks for it again and again.
  Nothing forces the application to end, a frame to be captured, or the user to
  press Ctrl-C.
- *User code (`ScenarioRun`).* It keeps calling `recv_packet`; nothing else is
  assumed of it.
- *OpenFlow switch.* Its threads run; nothing forces a frame, a message or the
  call of `shutdown`.
- *Simulator.* The threads of the command line, nodes and links run; nothing
  forces the user to type.
- *Host.* The framework's threads run, the application's code ends some time, and
  user code that heeds a shutdown (`given.heeds`: it gives `recv_packet` a timeout, or
  its scenario comes to an end) ends when the network is down. Nothing forces other
  user code to end, or this to end before: `shutdown` puts nothing into the queue.
  Nothing forces an exception or Ctrl-C.
- *Caching server (`DamageHeals`).* Time passes; nothing is assumed of clients.
- *Interrupts.* The fair specification of `NjuReliable` has none.

The sockets' registry, the calls, the DNS server, the switches and the codecs
have no liveness property and no fairness.

## 6. Proofs

Seven modules prove, for every value of the constants allowed by the named
assumptions in the modules that declare them:

| module | theorem | states |
|---|---|---|
| `NjuReliable_proofs` | `TransferInvariant`, `TypeCorrect`, `WindowBounded`, `AckedReceived`, `NothingAhead` | the inductive invariant `TransferInv` and what follows from it |
| | `AcksNeverLost`, `FinishIsComplete`, `OnlyUnackedSent` | `AckNeverLost`, `DoneIsComplete`, `SendsOnlyUnacked` |
| | `DeliveryImplemented` | `NjuReliable` implements `ReliableDelivery` |
| `HhBlaster_proofs` | `SendersAgree`, `SendersSendOutstanding` | `WindowsAgree`, `SendsOnlyOutstanding` |
| | `SendersDeliver` | `ImplementsDelivery`, the first part of `SentIsDelivered`: with either sender, `ReliableDelivery` is implemented |
| `Routers_proofs` | `PacketsAreConserved`, `RequestsAreMade` | `PacketsConserved`, `RequestsMade` |
| | `RoutesAreFollowed` | `QueueFollowsRoutes`, for a table that leads to each next hop by one interface |
| `Forwarders_proofs` | `RateIsKept`, `BufferIsKept` | `RateHolds`, `BufferedPacketsKept` |
| | `FramesFollowTheHosts` | `SentWhereHeard` |
| | `MatchesAreConsistent` | `MatchesAgree` |
| | `LruIsImplemented` | `ImplementsLru`: the three programs implement `LruTable` |
| `Runtime_proofs` | `FramesKept`, `SigintIsNoticed`, `ClosedAfterUse` | `NoFrameLost`, `SigintWakesUser`, `NoReceiveAfterClose` |
| | `AlarmSafe`, `PassedIsComplete` | `AlarmIsForExpectedOutput`; a passed scenario has had all its events; for a list with at least one scenario |
| | `TheTopologyRuns`, `OrderIsKept` | `RunsTheTopology`, `LinksKeepOrder` |
| `Sockets_proofs` | `RegistryIsExact`, `FalseIsJustified`, `TrueIsJustified` | `RegistryExact`, `FalseMeansUnreachable`, `TrueMeansReachable`, for an application that closes a socket once |
| | `AnswersAreReceived` | `AnswersReachAsker` |
| `Hosts_proofs` | `HostIsRestored`, `SocketsAreServed` | `HostRestored`, `SocketsServed` |
| | `ShortIsExplained`, `CacheAnswersAreExplained` | `ShortBodiesExplained`, `CacheAnswersExplained` |
| | `NearestIsResolved` | `ResolvesToNearest` |

Three theorems are narrower than one might wish. `MatchesAgree`, in the run and in
the theorem, is about packets that are not in a tunnel. `RoutesAreFollowed`
assumes `OneIntfPerHop`: the router files a packet under its next hop alone, so
two routes to one next hop by different interfaces would send the packets of both
by the interface of the first. No table of the labs has this, and none of the
runs', but the program reads its table from a file and does not check it. `TheTopologyRuns`
assumes that a file has a topology in which links have interfaces, MAC and
assigned addresses of their own (`FileAssumption`): the simulator writes such
files, unless a link was added to what it had read from one.

No property about an interleaving is inductive as it stands. What each invariant
adds, and why it is needed:

- *`TransferInv`* adds what links and ends may hold: data on a link was sent, an
  acknowledgement on a link is of a packet the blastee holds, the cursor is
  below `rhs`, and the states `done` mean what they should. Without the links, an
  acknowledgement that arrives could be of a packet the blastee never got;
  without the cursor's bound, a resend could be of a packet never sent. The proof
  goes through an intermediate description of a step of the blaster
  (`BlasterEffect`): every branch is shown to have that effect, and the effect to
  keep the invariant. `SkipAckedStops` says where the loop "while i in acked"
  stops.
- *`BothInv`* (lab 6 of the other two) has a part for each sender. For lab-hh:
  statuses agree with the window, the packet at the right end is unsent unless it
  is the last (`NextIsUnsent`), acknowledgements on the links were answered, and
  nothing travels that was not sent (`SentTravels`); the last two connect a
  sender's list with a receiver that keeps none. For switchyard-master: the queue
  is the window, in order and without gaps, and the next number is one past it.
  The same invariant carries the step by step refinement (`SendersDeliver`): an
  acknowledgement on a link names a packet that was delivered, and the first
  packet of a window is not confirmed, so that the sender finishes exactly when
  all are. `MovedKnown` says that deleting from the front of the queue forgets
  nothing, `TrySendConfirmsNothing` that sending touches no confirmed packet.
- *`NjuInv`* says of each packet that it is in exactly one place (queue, list of
  unreachable ones, left, thrown away), numbers them in the order of arrival, and
  of the queue that it has one entry per next hop, with the interface of a route
  to it, and requests made in the order of age: the loop that resends stops at the
  first young entry, and only this order makes that sound. A packet may become an
  ICMP error on its way and be sent in a recursion; `SendIp` is described once, by
  what it does to the places, and the handlers compose it.
- *`LabInv`* is the same balance for the other eight, where a queue holds packets or
  lists of them, with the number of tries of an entry and the requests on record.
  A handler is a function from the packet to what becomes of it; that each
  program's result is one of the possible ones is one lemma per program, and one
  more lemma shows that every such result keeps the invariant.
- *`SwInv`* (switches): every entry has the port its host was heard by last, or the
  entry is of the switch that learns for good. Evicting, reordering and aging only
  take entries away or move them, which is one lemma per kind of table.
- *`LruInv`* says of the same tables that an address has one entry and that they are
  not longer than their size. The rest of the refinement is a step: for each of the
  three programs, what it does to its list (deleting, inserting in front, counting
  ages) is shown to be `Put` and `Touch` of the abstract table. The order of use is
  a relation there, so nothing has to be sorted.
- *`MatchInv`*: a match is built of attributes that are in range; each attribute is
  then compared on its own.
- *`CallsInv`* (sockets): no two open sockets have a name in common, what is under
  way to the stack carries the name of the one that asked, and an answer in a queue
  is in that of its asker, as long as the asker has not changed its name since.
- *`SimInv`* (simulator) has two parts. `TopologyOK`: a topology is well formed, and
  while it was not read from a file its counters are ahead of every number in use
  (`Counted`), which is why a new link takes interfaces and MAC addresses nobody
  has; after a file was loaded this is lost, and the first link added gives up
  `Owned`. `OrderInv`: `LinksKeepOrder` speaks of what has arrived, and a packet
  arrives in order because it left the heap in order. So of two packets to one node
  in the heap or before it, the earlier and no longer one has no more time left
  (all pipes to a node have one delay, `Steady`), the heap keeps those in order
  (`Ordered`), and what has arrived is ahead of what is on its way (`Behind`).
  Commands, stops and rebuildings leave this alone or start with empty queues.
- *`RegistryInv`*: between the check of a port and the change of the registry it
  must be known that nobody else takes that port; so one call at a time is under
  way and the port it is about to name is in no entry. Only steps of the
  application touch the registry; those of the stack share one lemma. *`StackInv`*
  is about the moment between the two lookups of `send_to_app`: the first did not
  find the destination, so either no socket was reachable at some moment of the
  call, or `0.0.0.0` with the same port is registered now. A step of the
  application keeps this because it cannot change the name under which a port is
  registered (`PortKeepsName`).
- *`CoreInv`* (threads) says in which order the process starts and ends: how far
  the constructor is when the network runs and the threads are there (`Phases`), so
  that a signal either ends the construction, or is early, or leaves the network
  down with something in the queue before user code starts; and which
  positions of the receivers go with which positions of the callers of
  `shutdown` (`Closing`). *`FrameInv`* adds a balance: the frames captured on a device are
  those in its receiver's hand, in the queue, in a user thread's hand, given to
  user code and discarded, so that a frame is in one of these places only.
- *`TestInv`* is stronger than the property about timers: the flag of the current
  scenario is set only while an output is expected, and that of one to come is not.
- *`HostInv`* says who touches the host when: until the barrier the main thread
  alone (`Begins`), then the application with one rule at a time, so that what is
  missing of a socket's rules is in the firewall object (`Served`). Of every part of
  the way in and out it says which commands can be left (`OnItsWay`) and what of the
  host is then already, or still, as it was (`InForce`, `Dropped`, `Settings`): a
  device with `arp_ignore` 8 is one the firewall object knows, and while it is being
  reset there is a command left for it. With these the exits, the regular one and
  every `CutShort`, are read off the part they leave. What one command may change is
  one lemma (`CommandsChange`). Beside an application there are no rules of the command
  line, hence no device is left out (`Everywhere`).
- *`CacheInv`*: while the body of an entry is being fetched, what it has and what is
  left make up the length it announces; every other entry is complete, or the
  history says what cut it short (`EntriesExplained`). What the client has got
  follows the entry (`AnswerFollows`): without that, a complete entry would say
  nothing about the answer that was streamed past it. *`CallsRecorded`* is which calls
  have been recorded at which point of a request; how the test compares them with
  its templates then is a finite question for each (`TemplatesJudge`).
- *`DnsInv`*: a request is on its way once, as a question or as an answer, and of
  those whose port was not given up only the one the client waits for (`OnTheWay`):
  without that, the answer that arrives could be to an earlier question. An answer is
  the table's for the name it was asked for (`Answers`). That of several addresses the
  nearest is chosen rests on the existence of a least element.
- *`FwInv`* compares what a rule let through with the time of the last refill,
  because a refill may come late; the property compares with the clock. Rates are
  assumed even, as the code adds half of one.
- *`BufferInv`*: as long as only the newest packet is taken, and none while another
  is being added, the ids in use are `1 .. n`, which is what makes "length plus
  one" a free id.

Only model-checked are

- all liveness, that of `ImplementsFairDelivery` included, which is out of the
  prover's reach;
- the codecs (`SurvivesTheWire`, `HeadersDescribeTheBytes`, `OnlyKnownFailures`,
  `TestsAreExact`): messages are sequences taken apart by folds and nested in each
  other, and what they compute for every input needs induction over data.

## 7. What the code does wrong

Four runs end in a violation of what the repository says.

- `hh_blaster_stall`: `lab-hh/lab_6/blaster.py:107` promises to send `num`
  packets. If the timeout is found expired while nothing is outstanding, the
  retransmission pointer becomes 0 with the timeout still expired; only an
  acknowledgement would reset it, and none is on its way.
- `scenario_stale_alarm`: the comment at `switchyard/llnettest.py:187` says a
  pending alarm is turned off after a scenario; the statement is commented out.
  The alarm of a failed scenario rings in the next one, which fails or ends the
  process.
- `socket_close_again`: the comment at
  `switchyard/lib/socket/socketemu.py:310` says a second `close` is ignored. It
  removes the queue of the socket that owns the name by then.
- `cache_head_then_get`: the docstring at `cachingServer.py:11` says what is
  fetched is stored for future usage. A HEAD stores an empty body
  (`cachingServer.py:201`), and a GET within the timeout is answered with it.

Other behaviours the models have, where no document promises otherwise:

- *Threads.* The handler of SIGINT may take the queue's lock its own thread holds;
  `shutdown()` after SIGINT closes nothing; the dummy item wakes one of several
  user threads. SIGINT while the devices are opened is lost, as `running = True`
  follows: once the dummy is taken, an untimed `recv_packet` waits as if nothing had
  happened. Before the queue is made the handler raises `AttributeError`.
- *Test mode.* An exact match compares public attributes without checksums:
  options of IPv6 option headers, remaining segments of a route header, mobility
  data, RIPv2 routes, ICMP data other than echoes and the pointer of a time stamp
  are not compared. A compiled scenario compares packets parsed later.
  An ICMPv6 header made with `icmptype=...` keeps the public attribute `icmp6type`,
  which a parsed one does not have: an exact test that expects it ends in
  `AttributeError`.
- *Start-up.* The barrier is never reached when compiling, without user code, or
  when a firewall constructor raises: the process hangs. An application that
  outlives the main thread adds a rule after the restore; `unblock` flushes before
  it restores, so a failed save loses the host's rules. Documentation
  (`live_execution.rst:55`) says the saved settings are restored when Switchyard
  exits; that is so only if no command before `with`, or in `unblock`, was cut short
  by Ctrl-C or an `OSError`, whose handler raises (`hostfirewall.py:41`). When the
  application shuts the network down, user code in `recv_packet` without a timeout is
  not told and waits on. `pfctl -f` replaces
  earlier rules; each socket's filter replaces those of the others.
- *Simulator.* `--topology` raises an exception. A name added twice ends the
  command line's thread. `set node … ethernet` does nothing. A monitor with the
  debugger makes `stop` wait for ever. A file does not keep the interface
  counters, so a link added after loading overwrites `eth0`. `union(rename=True)`
  changes both topologies.
- *Lab 6 of switchyard-master.* A window of one never sends; with a late timeout
  and an empty queue the sender idles for ever.
- *Routers.* A packet whose two ends have no route recurses without end;
  unanswered errors about errors go on for ever; in lab-hh's lab 5 and
  switchyard-master's labs 4 and 5 the head of the queue blocks the rest; the
  default route of lab-hh's lab 5 is never taken.
- *Switches, firewall.* The basic switch of switchyard-master learns one address
  for each port. lab-hh's aging uses 5 s where its comment says 10. The firewall's
  network addresses are their own masks, and a late refill adds one period only.
- *OpenFlow.* Prefix wildcards never reach the wire, and the getter of the
  destination's returns the source's; no message of 1.3 can be parsed; an error
  whose type is set after its code cannot be either. The switch's handlers with
  missing names end their thread; a `PacketIn` under 1.3 or a full buffer ends the
  main thread; an id that is the length plus one overwrites a buffered packet when
  one that was not the newest has left.
- *Packets.* The padding of IPv4 options grows the header at every hop; a separate
  raw payload is not in an ICMP checksum; UDP and TCP over IPv6 carry checksum 0.
- *Lab 7.* A truncated body is cached, until the cache times out. The DNS client
  fails at the first alias (`network.py:70`), and takes the late answer to another
  request if its socket has got the port of that one.

## 8. What is left out

Abstractions inside the models: frames are reduced to what the programs branch
on; printed text and logging are nowhere. Random choices (dropping, ephemeral
ports) are nondeterministic. Real time is ticks. `NetThreads` leaves out the
debugger after an exception and the device callbacks nothing calls; `SocketEmulation`, the protocol (always UDP); the
simulator, user code on nodes (never passed to them), units of capacity and
delay, and the comparison of two packets with equal expiry times, which raises a
`TypeError`; `LabRouters`, the packet an error of switchyard-master quotes;
`OpenFlowSwitch`, `FlowTable` and `TableEntry`, which no handler that works
reaches, and partial writes to a socket. Deep recursion is a state of its own,
not a limit.

Not modelled:

- *Mininet scripts*: build fixed topologies; no logic of their own.
- *Base class of the network object, addresses and interfaces*: value types and
  lookups in a fixed table.
- *pcap bindings* but for the filters: calls into libpcap.
- *Command line, loading of user code, output*: sequential start-up code and
  formatting.
- *Main server and start-up of NJU lab 7*: the file server of the standard library
  and process control; how its tests judge traced calls is modelled.
- *The second copy of the framework* in `switchyard-master/switchyard`: the same
  code with other line ends, except that `llnettest.py:79` raises
  `TestScenarioFailure` where `src/switchyard` raises `NoPackets`. The models of
  `src/switchyard` hold for it.

Two application threads could take the same port
between its check and its use (`socketemu.py:324`); no property is about that. The framework starts one such
thread, and the model has one.

## 9. What could come next

Two application threads in `SocketEmulation`, where
`RegistryExact` is expected to fail; the flow table of the OpenFlow switch, once a
handler fills it.
