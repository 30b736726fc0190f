---------------------------- MODULE SocketCalls ----------------------------
(***************************************************************************)
(* switchyard/lib/socket/socketemu.py: the calls on a socket, the queues   *)
(* behind them, and the protocol stack between the sockets and the remote  *)
(* hosts.  A call is one step, one that fails changes nothing; the         *)
(* registry is what SocketEmulation shows it to be: the open sockets, each *)
(* under its own name.                                                     *)
(***************************************************************************)
EXTENDS Integers, Sequences

CONSTANTS
  Endpoint,    \* the sockets
  LocalPort,   \* ports they may get
  Remote,      \* remote addresses
  Unset,       \* None
  MaxCalls     \* bound of the model: calls that change something

VARIABLES
  sock,      \* of each socket: [local, remote, block, timeout, open]
  fromApp,   \* _from_app: messages on their way to the stack
  asked,     \* messages the stack has sent and that are not answered yet
  toApp,     \* of each socket: its queue of data from the stack
  made,      \* calls so far that have changed something
  unsent     \* history: answers for which send_to_app returned False

callVars == <<sock, fromApp, asked, toApp, made, unsent>>

\* ports of open sockets
Taken == {sock[s].local : s \in {t \in Endpoint : sock[t].open}}

\* Each socket has been made, with an ephemeral port.
CallsInit ==
  /\ sock \in [Endpoint -> [local : LocalPort, remote : {Unset}, block : {TRUE},
                            timeout : {Unset}, open : {TRUE}]]
  /\ \A s, t \in Endpoint : s # t => sock[s].local # sock[t].local
  /\ fromApp = << >>
  /\ asked = {}
  /\ toApp = [s \in Endpoint |-> << >>]
  /\ made = 0
  /\ unsent = {}

CallMade == made < MaxCalls /\ made' = made + 1

-----------------------------------------------------------------------------
\* What was asked under a name the socket no longer has is marked.
Stale(msgs, s) == {[m EXCEPT !.current = @ /\ m.asker # s] : m \in msgs}
StaleQueue(q, s) == [i \in DOMAIN q |-> [q[i] EXCEPT !.current = @ /\ q[i].asker # s]]

NameChanges(s) ==
  /\ CallMade
  /\ fromApp' = StaleQueue(fromApp, s)
  /\ asked' = Stale(asked, s)
  /\ UNCHANGED <<toApp, unsent>>

\* bind returns -1 for a port in use, the socket's own included.
BindTo(s, port) ==
  /\ sock[s].open
  /\ IF port \in Taken
     THEN UNCHANGED callVars
     ELSE sock' = [sock EXCEPT ![s].local = port] /\ NameChanges(s)

\* close, and shutdown; the queues stay, and so do the other calls.
CloseOrShutdown(s) ==
  /\ sock[s].open
  /\ sock' = [sock EXCEPT ![s].open = FALSE]
  /\ NameChanges(s)

\* connect, connect_ex
Connect(s, r) ==
  /\ CallMade
  /\ sock' = [sock EXCEPT ![s].remote = r]
  /\ UNCHANGED <<fromApp, asked, toApp, unsent>>

\* settimeout: neither None nor 0 touches the timeout that was set before.
SetTimeout(s, t) ==
  /\ CallMade
  /\ sock' = [sock EXCEPT ![s].block = (t # 0),
                          ![s].timeout = IF t \in {Unset, 0} THEN @ ELSE t]
  /\ UNCHANGED <<fromApp, asked, toApp, unsent>>

SetBlocking(s, flag) ==
  /\ CallMade
  /\ sock' = [sock EXCEPT ![s].block = flag]
  /\ UNCHANGED <<fromApp, asked, toApp, unsent>>

-----------------------------------------------------------------------------
\* Mutation: all messages go out under one port.
FlowAddrShared(s, r) ==
  [asker |-> s, local |-> CHOOSE p \in LocalPort : TRUE, remote |-> r,
   current |-> sock[s].open]

\* _flowaddr, taken when the message is sent
FlowAddr(s, r) ==
  [asker |-> s, local |-> sock[s].local, remote |-> r, current |-> sock[s].open]

PutDown(s, r) ==
  /\ CallMade
  /\ fromApp' = Append(fromApp, FlowAddr(s, r))
  /\ UNCHANGED <<sock, asked, toApp, unsent>>

SendTo(s, r) == PutDown(s, r)

\* send raises ENOTCONN for a socket that is not connected.
Send(s) ==
  IF sock[s].remote = Unset
  THEN UNCHANGED callVars
  ELSE PutDown(s, sock[s].remote)

\* recv, recvfrom
Recv(s) ==
  /\ toApp[s] # << >>
  /\ toApp' = [toApp EXCEPT ![s] = Tail(@)]
  /\ UNCHANGED <<sock, fromApp, asked, made, unsent>>

\* An empty queue: at once if the socket does not block, after the timeout if it
\* has one.
RecvRaises(s) ==
  /\ toApp[s] = << >>
  /\ ~ (sock[s].block /\ sock[s].timeout = Unset)
  /\ UNCHANGED callVars

-----------------------------------------------------------------------------
\* The stack: recv_from_app, and the message goes out.
RecvFromApp ==
  /\ fromApp # << >>
  /\ asked' = asked \cup {Head(fromApp)}
  /\ fromApp' = Tail(fromApp)
  /\ UNCHANGED <<sock, toApp, made, unsent>>

\* An answer comes in and is given to send_to_app; or the message gets lost.
Answer(m) ==
  /\ m \in asked /\ asked' = asked \ {m}
  /\ LET open == {s \in Endpoint : sock[s].open /\ sock[s].local = m.local} IN
     IF open = {} THEN unsent' = unsent \cup {m} /\ UNCHANGED toApp
     ELSE /\ \E s \in open : toApp' = [toApp EXCEPT ![s] = Append(@, m)]
          /\ UNCHANGED unsent
  /\ UNCHANGED <<sock, fromApp, made>>

NoAnswer(m) ==
  /\ m \in asked /\ asked' = asked \ {m}
  /\ UNCHANGED <<sock, fromApp, toApp, made, unsent>>

CallsNext ==
  \/ \E s \in Endpoint :
       \/ \E port \in LocalPort : BindTo(s, port)
       \/ CloseOrShutdown(s)
       \/ \E r \in Remote : Connect(s, r) \/ SendTo(s, r)
       \/ \E t \in {Unset, 0, 1} : SetTimeout(s, t)
       \/ \E flag \in BOOLEAN : SetBlocking(s, flag)
       \/ Send(s) \/ Recv(s) \/ RecvRaises(s)
  \/ RecvFromApp
  \/ \E m \in asked : Answer(m) \/ NoAnswer(m)

CallsSpec == CallsInit /\ [][CallsNext]_callVars

-----------------------------------------------------------------------------
\* An answer comes back to the socket that asked, whatever was bound or closed in
\* between, unless that socket has given its name up: then nobody gets it, or the
\* socket that has taken the name over (socketemu.py:141, 431).
AnswersReachAsker ==
  /\ \A m \in unsent : ~ m.current
  /\ \A s \in Endpoint : \A i \in DOMAIN toApp[s] :
       toApp[s][i].asker # s => ~ toApp[s][i].current
=============================================================================
