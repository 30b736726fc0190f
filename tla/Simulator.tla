----------------------------- MODULE Simulator ------------------------------
(***************************************************************************)
(* The simulator of switchyard/sim: the command line (cli.py) edits a      *)
(* topology and rebuilds the simulated network after every change; each    *)
(* node has a thread (nodeexec.py) and a link emulator with a thread of    *)
(* its own (linkem.py) that holds packets back for the delay of their      *)
(* link; monitors (monitor.py) see what a node receives, and one of them   *)
(* hands the packet to the command line and waits for it.                  *)
(*                                                                         *)
(* Nodes run the idle loop: no user code is ever passed to them.  Packets  *)
(* enter with the commands replay and sendeth.                             *)
(***************************************************************************)
EXTENDS Topology

CONSTANTS
  Name,         \* names of nodes
  Ends,         \* pairs of nodes of the link commands
  Start,        \* topologies the command line may be in the middle of
  File,         \* topologies in files, as load_from_file returns them
  Delay,        \* transmission plus propagation on a link, in ticks
  Sizes,        \* what the size of a packet adds to it
  MaxCommands,  \* number of commands
  MaxPackets,   \* number of packets sent on links
  MaxIfs        \* number of interfaces of a node
VARIABLES
  topology,     \* Cli.topology
  reloaded,     \* it was read from a file
  main,         \* the thread of the command line
  toStop,       \* nodes stop() has yet to stop; the first one is being stopped
  continue,     \* what follows stop()
  pipes,        \* per node, __egress_pipes
  thread,       \* per node, how far run() has got
  linkem,       \* per node, its link emulator
  done,         \* per node, __done
  linkShut,     \* per node, __shutdown of its link emulator
  ingress,      \* per node, the queue of received packets
  tolinkem,     \* per node, the queue to its link emulator
  heap,         \* per node, expiryheap
  due,          \* per node, packets that had expired at the head of run()'s loop
  monitor,      \* per node and interface, the monitor when it is not a NullMonitor
  halfMade,     \* MonitorManager holds a CodeMonitor whose constructor raised
  debug,        \* MonitorManager._queue: nodes waiting at a barrier
  commands, sentPackets

ASSUME TimesAssumption == Delay \in Nat /\ Sizes \subseteq Nat
ASSUME StartAssumption == \A t \in Start : IsTopology(t) /\ Counted(t) /\ Owned(t)
ASSUME FileAssumption == \A t \in File : IsTopology(t) /\ Owned(t)

nodeVars == <<pipes, thread, linkem, done, linkShut, ingress, tolinkem, heap, due,
              monitor>>
mainVars == <<topology, reloaded, main, toStop, continue, halfMade, debug, commands>>
simVars == <<mainVars, nodeVars, sentPackets>>

Nodes == DOMAIN thread
HostDevice == -1   \* "host": what the command line sends to the node itself

Other(l, n) == IF l = {n} THEN n ELSE CHOOSE m \in l : m # n
\* __addNode, __addLink
PipesOf(t, n) ==
  LET mine == {l \in Links(t) : n \in l} IN
  [i \in {t.links[l].at[n] : l \in mine} |->
     LET l == CHOOSE m \in mine : t.links[m].at[n] = i IN
     [to |-> Other(l, n), dev |-> t.links[l].at[Other(l, n)], delay |-> t.links[l].delay]]

(* run_simulation has built the network of a topology that was made with   *)
(* earlier commands, or of the empty one, and its threads have started.    *)
(* Debug monitors may have been set up.                                    *)
SimInit ==
  \E t \in Start :
    LET New(x) == [n \in NodeNames(t) |-> x] IN
    /\ topology = t /\ reloaded = FALSE
    /\ main = "prompt" /\ toStop = <<>> /\ continue = "none"
    /\ pipes = [n \in NodeNames(t) |-> PipesOf(t, n)]
    /\ thread = New("loop") /\ linkem = New("run") /\ done = New(FALSE) /\ linkShut = New(FALSE)
    /\ ingress = New(<<>>) /\ tolinkem = New(<<>>) /\ heap = New(<<>>)
    /\ due = New(0)
    /\ \/ monitor = New(<<>>)
       \/ monitor = [n \in NodeNames(t) |-> [i \in DOMAIN PipesOf(t, n) |-> "debug"]]
    /\ halfMade = FALSE /\ debug = <<>>
    /\ commands = 0 /\ sentPackets = 0

---------------------------------------------------------------------------
(* The command line.  An exception that is not caught ends its thread; the *)
(* others go on.                                                           *)
Dies == main' = "died" /\ UNCHANGED <<toStop, continue, halfMade, debug>>

\* a node waits at its barrier until the debugger has shown its packet
AddToDebugQueue(n) ==
  debug' = Append(debug, n) /\ thread' = [thread EXCEPT ![n] = "barrier"]
LeavesBarrier(n) == thread' = [thread EXCEPT ![n] = "loop"]
GetFromDebugQueue == debug # <<>> /\ debug' = Tail(debug)
\* precmd and postcmd: one waiting packet is shown, and its node goes on
DebugOne ==
  \/ GetFromDebugQueue /\ LeavesBarrier(Head(debug))
  \/ debug = <<>> /\ UNCHANGED <<debug, thread>>

Precmd ==
  /\ main = "prompt" /\ commands < MaxCommands
  /\ main' = "command" /\ commands' = commands + 1
  /\ DebugOne
  /\ UNCHANGED <<topology, reloaded, toStop, continue, pipes, linkem, done, linkShut, ingress,
                 tolinkem, heap, due, monitor, halfMade, sentPackets>>
Postcmd ==
  /\ main = "after" /\ main' = "prompt"
  /\ DebugOne
  /\ UNCHANGED <<topology, reloaded, toStop, continue, commands, pipes, linkem, done, linkShut,
                 ingress, tolinkem, heap, due, monitor, halfMade, sentPackets>>

\* SyssGlue.stop(): the nodes one after the other
StopThen(next) ==
  /\ continue' = next
  /\ IF Nodes = {} THEN main' = "stopped" /\ toStop' = <<>>
     ELSE main' = "linkem" /\ toStop' = SetToSeq(Nodes)
Command == main = "command"
Edits(t) ==
  /\ Command
  /\ topology' = t
  /\ StopThen("rebuild")
  /\ UNCHANGED <<reloaded, halfMade, debug, commands, nodeVars, sentPackets>>

\* a name that is taken is not caught
Add(n) ==
  IF n \in NodeNames(topology)
  THEN Command /\ Dies /\ UNCHANGED <<topology, reloaded, commands, nodeVars, sentPackets>>
  ELSE Edits(AddNode(topology, n, "Host"))
\* set node ... inet, set link: what runs is not told
Sets(t) ==
  /\ topology' = t /\ main' = "after"
  /\ UNCHANGED <<reloaded, toStop, continue, halfMade, debug, commands, nodeVars, sentPackets>>
SetAddress(n, i) ==
  /\ Command /\ i \in DOMAIN topology.nodes[n].intfs
  /\ Sets(SetInterfaceAddresses(topology, n, i, Typed))
SetLink(l) ==
  /\ Command /\ l \in Links(topology)
  /\ Sets(SetLinkCharacteristics(topology, l, 0))

Fits(u, v) == \A n \in {u, v} : topology.nodes[n].ifnum + (IF u = v THEN 2 ELSE 1) <= MaxIfs
\* a node that does not exist is reported, and everything is rebuilt
AddLinkCommand(u, v) ==
  IF {u, v} \subseteq NodeNames(topology)
  THEN Fits(u, v) /\ Edits(AddLink(topology, u, v, Delay))
  ELSE Edits(topology)
RemoveNodeCommand(n) ==
  Edits(IF n \in NodeNames(topology) THEN RemoveNode(topology, n) ELSE topology)
RemoveLinkCommand(l) ==
  Edits(IF l \in Links(topology) THEN RemoveLink(topology, l) ELSE topology)

\* stop(), then rebuildGlue(), which calls stop() again
Load ==
  /\ Command
  /\ \E t \in File : topology' = Unserialize(t)
  /\ reloaded' = TRUE
  /\ StopThen("rebuildGlue")
  /\ UNCHANGED <<halfMade, debug, commands, nodeVars, sentPackets>>
Exec ==
  /\ Command
  /\ StopThen("rebuildGlue")
  /\ UNCHANGED <<topology, reloaded, halfMade, debug, commands, nodeVars, sentPackets>>
Exit ==
  /\ Command
  /\ StopThen("exit")
  /\ UNCHANGED <<topology, reloaded, halfMade, debug, commands, nodeVars, sentPackets>>

\* NodeExecutor.send_packet, in the thread of the command line.  An interface
\* that lost its link is still one of the node's, but has no pipe.
Item(n, i, size) ==
  [left |-> pipes[n][i].delay + size, to |-> pipes[n][i].to, dev |-> pipes[n][i].dev,
   from |-> n, size |-> size, nr |-> sentPackets + 1]
Replay(n, i, size) ==
  /\ Command
  /\ i \in DOMAIN topology.nodes[n].intfs
  /\ sentPackets < MaxPackets
  /\ IF i \notin DOMAIN pipes[n] \/ thread[n] = "new"
     THEN Dies /\ UNCHANGED <<tolinkem, sentPackets>>
     ELSE /\ tolinkem' = [tolinkem EXCEPT ![n] = Append(@, Item(n, i, size))]
          /\ sentPackets' = sentPackets + 1
          /\ main' = "after" /\ UNCHANGED <<toStop, continue, halfMade, debug>>
  /\ UNCHANGED <<topology, reloaded, commands, pipes, thread, linkem, done, linkShut, ingress,
                 heap, due, monitor>>

\* sendeth: the packet goes to the node, not out of it
SendEth(n) ==
  /\ Command
  /\ Len(ingress[n]) < MaxPackets
  /\ ingress' = [ingress EXCEPT ![n] = Append(@, [dev |-> HostDevice])]
  /\ main' = "after"
  /\ UNCHANGED <<topology, reloaded, toStop, continue, halfMade, debug, commands, pipes, thread,
                 linkem, done, linkShut, tolinkem, heap, due, monitor, sentPackets>>

\* The constructor of CodeMonitor raises, after the monitor has been added to
\* those of MonitorManager; its stop() needs what the rest would have made.
Constructs(how) == how # "code"
StopsMonitors == ~halfMade
\* addMonitor and removeMonitor
SetMonitor(n, i, how) ==
  /\ Command
  /\ i \in DOMAIN topology.nodes[n].intfs
  /\ monitor' = IF Constructs(how) THEN [monitor EXCEPT ![n] = With(@, i, how)] ELSE monitor
  /\ halfMade' = (halfMade \/ ~Constructs(how))
  /\ main' = "after"
  /\ UNCHANGED <<topology, reloaded, toStop, continue, debug, commands, pipes, thread, linkem,
                 done, linkShut, ingress, tolinkem, heap, due, sentPackets>>

---------------------------------------------------------------------------
(* stop(): NodeExecutor.shutdown() of each node, and join of its thread.   *)
(* The attributes it uses are made by the thread of the node, and deleted  *)
(* by it when its loop ends.                                               *)
HasLinkem(n) == thread[n] \in {"linkem", "loop", "barrier", "join"}
HasT(n) == thread[n] \in {"loop", "barrier", "join"}
Now == Head(toStop)
To(state) == main' = state /\ UNCHANGED <<toStop, continue, halfMade, debug>>

ShutLinkem ==
  /\ main = "linkem"
  /\ IF HasLinkem(Now) THEN linkShut' = [linkShut EXCEPT ![Now] = TRUE] /\ To("done")
     ELSE Dies /\ UNCHANGED linkShut
  /\ UNCHANGED <<topology, reloaded, commands, pipes, thread, linkem, done, ingress, tolinkem,
                 heap, due, monitor, sentPackets>>
SetDone ==
  /\ main = "done"
  /\ done' = [done EXCEPT ![Now] = TRUE]
  /\ To("name")
  /\ UNCHANGED <<topology, reloaded, commands, pipes, thread, linkem, linkShut, ingress, tolinkem,
                 heap, due, monitor, sentPackets>>
ReadName ==
  /\ main = "name"
  /\ IF HasT(Now) THEN To("joinLinkem") ELSE Dies
  /\ UNCHANGED <<topology, reloaded, commands, nodeVars, sentPackets>>
JoinLinkem ==
  /\ main = "joinLinkem"
  /\ IF HasT(Now) THEN To("linkemEnd") ELSE Dies
  /\ UNCHANGED <<topology, reloaded, commands, nodeVars, sentPackets>>
LinkemJoined ==
  /\ main = "linkemEnd" /\ linkem[Now] \in {"ended", "dead"}
  /\ To("joinNode")
  /\ UNCHANGED <<topology, reloaded, commands, nodeVars, sentPackets>>
NodeJoined ==
  /\ main = "joinNode" /\ thread[Now] = "ended"
  /\ toStop' = Tail(toStop)
  /\ main' = IF Tail(toStop) = <<>> THEN "stopped" ELSE "linkem"
  /\ UNCHANGED <<topology, reloaded, continue, halfMade, debug, commands, nodeVars, sentPackets>>

\* the nodes that stop() stopped are still in xnode when it is called again
StopsAgain ==
  /\ main = "stopped" /\ continue = "rebuildGlue"
  /\ StopThen("rebuild")
  /\ UNCHANGED <<topology, reloaded, halfMade, debug, commands, nodeVars, sentPackets>>
Exited ==
  /\ main = "stopped" /\ continue = "exit"
  /\ To("exited")
  /\ UNCHANGED <<topology, reloaded, commands, nodeVars, sentPackets>>

\* rebuildGlue after stop(); MonitorManager.reset() at its end stops every
\* monitor ever made
Rebuild ==
  LET New(x) == [n \in NodeNames(topology) |-> x] IN
  /\ main = "stopped" /\ continue = "rebuild"
  /\ pipes' = [n \in NodeNames(topology) |-> PipesOf(topology, n)]
  /\ thread' = New("new") /\ linkem' = New("none")
  /\ done' = New(FALSE) /\ linkShut' = New(FALSE)
  /\ ingress' = New(<<>>) /\ tolinkem' = New(<<>>) /\ heap' = New(<<>>) /\ due' = New(0)
  /\ monitor' = New(<<>>)
  /\ IF StopsMonitors
     THEN main' = "after" /\ debug' = <<>> /\ continue' = "none" /\ UNCHANGED <<toStop, halfMade>>
     ELSE Dies
  /\ UNCHANGED <<topology, reloaded, commands, sentPackets>>

---------------------------------------------------------------------------
(* The thread of a node: NodeExecutor.run and its idle loop.               *)
Goes(n, from, to) == thread[n] = from /\ thread' = [thread EXCEPT ![n] = to]
nodeRest == <<mainVars, pipes, done, linkShut, tolinkem, heap, due, monitor, sentPackets>>
NodeStarts(n) ==
  /\ \/ Goes(n, "new", "linkem") /\ UNCHANGED linkem
     \/ Goes(n, "linkem", "loop") /\ linkem' = [linkem EXCEPT ![n] = "run"]
  /\ UNCHANGED <<nodeRest, ingress>>

\* recv_packet calls the monitor of the interface; it looks at __done only when
\* nothing arrives in time, and the loop does after every packet
Debugs(n, dev) == dev \in DOMAIN monitor[n] /\ monitor[n][dev] = "debug"
NodeReceives(n) ==
  /\ thread[n] = "loop" /\ ingress[n] # <<>>
  /\ LET pkt == Head(ingress[n])
         dev == pkt.dev
     IN  IF dev # HostDevice /\ Debugs(n, dev)
         THEN AddToDebugQueue(n)
         ELSE UNCHANGED <<debug, thread>>
  /\ ingress' = [ingress EXCEPT ![n] = Tail(@)]
  /\ UNCHANGED <<topology, reloaded, main, toStop, continue, halfMade, commands, pipes, linkem,
                 done, linkShut, tolinkem, heap, due, monitor, sentPackets>>
NodeEnds(n) ==
  /\ \/ done[n] /\ Goes(n, "loop", "join")
     \/ linkem[n] \in {"ended", "dead"} /\ Goes(n, "join", "ended")
  /\ UNCHANGED <<nodeRest, linkem, ingress>>

(* The thread of its link emulator.                                        *)
linkemRest == <<mainVars, pipes, thread, done, linkShut, monitor, sentPackets>>
LinkemTo(n, state) == linkem' = [linkem EXCEPT ![n] = state]

\* Mutation: "while True".
LinkemStopsNever(n) == FALSE
\* "while not self.__shutdown"
LinkemStops(n) == linkShut[n]
\* the head of the loop, where "now" is taken
LinkemLoops(n) ==
  /\ linkem[n] = "run"
  /\ IF LinkemStops(n) THEN LinkemTo(n, "ended") /\ UNCHANGED due
     ELSE /\ LinkemTo(n, "deliver")
          /\ due' = [due EXCEPT ![n] = Cardinality({k \in DOMAIN heap[n] : heap[n][k].left <= 0})]
  /\ UNCHANGED <<linkemRest, heap, ingress, tolinkem>>
\* what has expired is delivered, one packet after the other
LinkemDelivers(n) ==
  /\ linkem[n] = "deliver"
  /\ IF heap[n] # <<>> /\ due[n] > 0
     THEN LET pkt == Head(heap[n]) IN
          /\ heap' = [heap EXCEPT ![n] = Tail(@)]
          /\ ingress' = [ingress EXCEPT ![pkt.to] = Append(@, pkt)]
          /\ due' = [due EXCEPT ![n] = @ - 1]
          /\ UNCHANGED linkem
     ELSE LinkemTo(n, "timeout") /\ UNCHANGED <<heap, ingress, due>>
  /\ UNCHANGED <<linkemRest, tolinkem>>
\* the timeout is computed with the time of now: what has expired since then
\* makes it negative, and get() refuses it
LinkemTimeout(n) ==
  /\ linkem[n] = "timeout"
  /\ LinkemTo(n, IF heap[n] # <<>> /\ heap[n][1].left < 0 THEN "dead" ELSE "get")
  /\ UNCHANGED <<linkemRest, heap, due, ingress, tolinkem>>
\* Mutation: of packets that expire together the last one comes first.
PlaceFirst(h, pkt, i) == \A k \in DOMAIN h : k < i <=> h[k].left < pkt.left
\* heappush: the heap is kept in the order of expiry
Place(h, pkt, i) == \A k \in DOMAIN h : k < i <=> h[k].left <= pkt.left
LinkemGets(n) ==
  /\ linkem[n] = "get"
  /\ IF tolinkem[n] # <<>>
     THEN /\ \E i \in 1 .. Len(heap[n]) + 1 :
               /\ Place(heap[n], Head(tolinkem[n]), i)
               /\ heap' = [heap EXCEPT ![n] = InsertAt(@, i, Head(tolinkem[n]))]
          /\ tolinkem' = [tolinkem EXCEPT ![n] = Tail(@)]
     ELSE /\ ~(heap[n] # <<>> /\ heap[n][1].left > 0)
          /\ UNCHANGED <<heap, tolinkem>>
  /\ LinkemTo(n, "run")
  /\ UNCHANGED <<linkemRest, due, ingress>>

\* time passes for every packet on its way
Older(items) == [k \in DOMAIN items |-> [items[k] EXCEPT !.left = IF @ < 0 THEN @ ELSE @ - 1]]
SimTick ==
  /\ \E n \in Nodes : \E k \in DOMAIN (heap[n] \o tolinkem[n]) : (heap[n] \o tolinkem[n])[k].left >= 0
  /\ heap' = [n \in Nodes |-> Older(heap[n])]
  /\ tolinkem' = [n \in Nodes |-> Older(tolinkem[n])]
  /\ UNCHANGED <<linkemRest, linkem, due, ingress>>

---------------------------------------------------------------------------
CommandStep ==
  \/ \E n \in Name : Add(n) \/ RemoveNodeCommand(n)
  \/ \E e \in Ends : AddLinkCommand(e[1], e[2]) \/ RemoveLinkCommand({e[1], e[2]}) \/ SetLink({e[1], e[2]})
  \/ Load \/ Exec \/ Exit
  \/ \E n \in Nodes : \/ \E i \in 0 .. MaxIfs - 1 : \E size \in Sizes : Replay(n, i, size)
                      \/ \E i \in 0 .. MaxIfs - 1 : \E how \in {"debug", "code", "null"} :
                           SetMonitor(n, i, how)
                      \/ \E i \in 0 .. MaxIfs - 1 : SetAddress(n, i)
                      \/ SendEth(n)
MainStep ==
  \/ ShutLinkem \/ SetDone \/ ReadName \/ JoinLinkem \/ LinkemJoined \/ NodeJoined
  \/ StopsAgain \/ Exited \/ Rebuild \/ Postcmd
NodeStep(n) == NodeStarts(n) \/ NodeReceives(n) \/ NodeEnds(n)
LinkemStep(n) == LinkemLoops(n) \/ LinkemDelivers(n) \/ LinkemTimeout(n) \/ LinkemGets(n)
SimNext ==
  \/ Precmd \/ CommandStep \/ MainStep \/ SimTick
  \/ \E n \in Nodes : NodeStep(n) \/ LinkemStep(n)

SimSpec == SimInit /\ [][SimNext]_simVars

(* Every thread that can go on does, and time passes; nobody has to type a *)
(* command.                                                                *)
SimFairness ==
  /\ WF_simVars(MainStep) /\ WF_simVars(SimTick)
  /\ \A n \in Name : WF_simVars(n \in Nodes /\ NodeStep(n)) /\ WF_simVars(n \in Nodes /\ LinkemStep(n))

---------------------------------------------------------------------------
(* At the prompt the network that runs is the topology: every link can be  *)
(* used from both ends, on interfaces and with addresses that no other     *)
(* link has.  A topology read from a file is left out once a link is added *)
(* to it: its counters have started anew, so that the link takes the place *)
(* of interfaces there are, and MAC addresses repeat.                      *)
RunsTheTopology ==
  main \in {"prompt", "command", "after"} =>
    /\ Nodes = NodeNames(topology)
    /\ (reloaded => topology.ifnum = 1) =>
         /\ Owned(topology)
         /\ \A e \in LinkEnds(topology) :
              LET far == Other(e[1], e[2]) at == topology.links[e[1]].at IN
              /\ pipes[e[2]][at[e[2]]].to = far
              /\ pipes[e[2]][at[e[2]]].dev = at[far]

(* A link does not let a packet overtake an earlier one that is no longer  *)
(* than itself.  What arrives at an interface comes over a link from the   *)
(* node that sent it; only where a link has taken another's interface do   *)
(* two nodes send to the same one.                                         *)
LinksKeepOrder ==
  \A n \in Nodes : \A j, k \in DOMAIN ingress[n] :
    LET p == ingress[n][j] q == ingress[n][k] IN
    j < k /\ p.dev # HostDevice /\ p.dev = q.dev /\ p.from = q.from /\ p.size >= q.size => p.nr < q.nr

(* Every command comes to an end: stop() waits for ever only for a node    *)
(* whose debug monitor waits for the command line.                         *)
CommandsEnd ==
  main = "linkem" ~> main \in {"prompt", "died", "exited"} \/ \E n \in Nodes : thread[n] = "barrier"
=============================================================================
