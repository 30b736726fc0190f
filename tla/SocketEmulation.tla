--------------------------- MODULE SocketEmulation ---------------------------
(***************************************************************************)
(* switchyard/lib/socket/socketemu.py: the sockets of an application and   *)
(* the registry through which the network stack hands data to them.        *)
(*                                                                         *)
(* The application runs in the one thread the framework starts for it, the *)
(* stack in another; the registry's lock is held for single lookups and    *)
(* updates only, and those are the steps.  A queue is named by the socket  *)
(* it was made for, data by its destination.                               *)
(***************************************************************************)
EXTENDS Naturals, FiniteSets, Functions

CONSTANTS Sockets,      \* the sockets the application may create
          HostAddrs,    \* addresses of the host, as packets carry them
          AnyAddr,      \* 0.0.0.0
          Ephemeral,    \* ports _get_ephemeral_port draws from
          BindPorts,    \* ports the application asks for in bind
          BadPorts,     \* those for which no filter can be installed
          HostPorts,    \* ports netstat shows in use
          ClosesAgain   \* does the application close a socket twice?

ASSUME PortsAssumption == BadPorts \subseteq BindPorts /\ Ephemeral \cap BadPorts = {}
ASSUME AddrAssumption == AnyAddr \notin HostAddrs
ASSUME ClosesAgainAssumption == ClosesAgain \in BOOLEAN

Name(addrs, ports) == addrs \X ports
Names == Name(HostAddrs \cup {AnyAddr}, Ephemeral \cup BindPorts)
Dests == Name(HostAddrs, (Ephemeral \cup BindPorts) \ BadPorts)

VARIABLES
  registry,    \* _to_app: from names to sockets
  status,      \* "new", "open", "closed", or "broken" after an exception
  call,        \* where the application is in a call on the socket
  local,       \* _local_addr
  oldid,       \* bind's variable oldid
  stack,       \* where the stack is in send_to_app: step, destination, queue
  deserted,    \* history: no socket was reachable at some point of that call
  reached      \* history: sockets that were reachable during that call

appVars == <<status, call, local, oldid>>
vars == <<registry, appVars, stack, deserted, reached>>

NoName == <<"none", "none">>

TypeOK ==
  /\ DOMAIN registry \subseteq Names
  /\ \A n \in DOMAIN registry : registry[n] \in Sockets
  /\ Cardinality(DOMAIN registry) <= Cardinality(Sockets)
  /\ status \in [Sockets -> {"new", "open", "closed", "broken"}]
  /\ call \in [Sockets -> {"idle", "named", "checked", "renamed"}]
  /\ local \in [Sockets -> Names \cup {NoName}]
  /\ oldid \in [Sockets -> Names \cup {NoName}]
  /\ stack.step \in {"idle", "called", "missed", "found", "true", "false"}
  /\ stack.dst \in Dests \cup {NoName}
  /\ stack.queue \subseteq Sockets
  /\ Cardinality(stack.queue) = IF stack.step \in {"found", "true"} THEN 1 ELSE 0
  /\ deserted \in BOOLEAN
  /\ reached \subseteq Sockets

Init ==
  /\ registry = << >>
  /\ status = [s \in Sockets |-> "new"]
  /\ call = [s \in Sockets |-> "idle"]
  /\ local = [s \in Sockets |-> NoName]
  /\ oldid = [s \in Sockets |-> NoName]
  /\ stack = [step |-> "idle", dst |-> NoName, queue |-> {}]
  /\ deserted = FALSE
  /\ reached = {}

-----------------------------------------------------------------------------
(***************************************************************************)
(* The application                                                         *)
(***************************************************************************)
AppIdle == \A s \in Sockets : call[s] = "idle"

EmuPorts == {n[2] : n \in DOMAIN registry}

\* Mutation: only the host's ports are looked at.
InUseByHost == HostPorts

\* the union bind compares the port with; _get_ephemeral_port does the same
InUse == HostPorts \cup EmuPorts

\* _to_app.pop(name)
Without(name) == Restrict(registry, DOMAIN registry \ {name})

\* The constructor takes a free port under the lock and gives the lock back,
Create(s, port) ==
  /\ AppIdle
  /\ status[s] = "new"
  /\ port \in Ephemeral \ InUse
  /\ local' = [local EXCEPT ![s] = <<AnyAddr, port>>]
  /\ call' = [call EXCEPT ![s] = "named"]
  /\ UNCHANGED <<registry, status, oldid, stack>>

\* and registers the new queue under the lock later.
Register(s) ==
  /\ call[s] = "named"
  /\ registry' = [n \in DOMAIN registry \cup {local[s]} |->
                    IF n = local[s] THEN s ELSE registry[n]]
  /\ status' = [status EXCEPT ![s] = "open"]
  /\ call' = [call EXCEPT ![s] = "idle"]
  /\ UNCHANGED <<local, oldid, stack>>

\* bind first compares the port with those in use, the socket's own included,
\* and keeps its old name (the call that returns -1 changes nothing);
BindCheck(s, name) ==
  /\ AppIdle
  /\ status[s] = "open"
  /\ name[2] \notin InUse
  /\ oldid' = [oldid EXCEPT ![s] = local[s]]
  /\ local' = [local EXCEPT ![s] = name]
  /\ call' = [call EXCEPT ![s] = "checked"]
  /\ UNCHANGED <<registry, status, stack>>

\* then it changes the filters, which fails for some ports: the exception
\* leaves the socket with its new name and its old registration, and the
\* application makes no further call on it;
BindFilters(s) ==
  /\ call[s] = "checked"
  /\ IF local[s][2] \in BadPorts
     THEN /\ status' = [status EXCEPT ![s] = "broken"]
          /\ call' = [call EXCEPT ![s] = "idle"]
     ELSE /\ call' = [call EXCEPT ![s] = "renamed"]
          /\ UNCHANGED status
  /\ UNCHANGED <<registry, local, oldid, stack>>

\* _registry_update: the queue under the old name goes under the new one
Moved(s) ==
  [n \in (DOMAIN registry \ {oldid[s]}) \cup {local[s]} |->
     IF n = local[s] THEN registry[oldid[s]] ELSE registry[n]]

\* last, under the lock, it moves the registration.  Without an entry under
\* the old name that is a KeyError.
BindMove(s) ==
  /\ call[s] = "renamed"
  /\ IF oldid[s] \in DOMAIN registry
     THEN registry' = Moved(s) /\ UNCHANGED status
     ELSE status' = [status EXCEPT ![s] = "broken"] /\ UNCHANGED registry
  /\ oldid' = [oldid EXCEPT ![s] = NoName]
  /\ call' = [call EXCEPT ![s] = "idle"]
  /\ UNCHANGED <<local, stack>>

\* Mutation: the queue stays registered.
UnregisteredNever(s) == registry

\* _unregister_socket; close ignores that there may be no entry
Unregistered(s) == Without(local[s])

\* close() removes whatever is registered under the socket's name.
Close(s) ==
  /\ AppIdle
  /\ status[s] \in {"open"} \cup (IF ClosesAgain THEN {"closed"} ELSE {})
  /\ registry' = Unregistered(s)
  /\ status' = [status EXCEPT ![s] = "closed"]
  /\ UNCHANGED <<call, local, oldid, stack>>

AppStep ==
  \E s \in Sockets :
    \/ \E port \in Ephemeral : Create(s, port)
    \/ Register(s)
    \/ \E name \in Name(HostAddrs \cup {AnyAddr}, BindPorts) : BindCheck(s, name)
    \/ BindFilters(s)
    \/ BindMove(s)
    \/ Close(s)

-----------------------------------------------------------------------------
(***************************************************************************)
(* The stack: send_to_app looks for the destination, then for 0.0.0.0 with *)
(* the same port, and puts the data into the queue without the lock.       *)
(***************************************************************************)
Call(dst) ==
  /\ stack.step \in {"idle", "true", "false"}
  /\ stack' = [step |-> "called", dst |-> dst, queue |-> {}]
  /\ UNCHANGED <<registry, appVars>>

\* the outcome of a lookup under the given name, or the next step without one
Found(name, otherwise) ==
  IF name \in DOMAIN registry
  THEN [stack EXCEPT !.step = "found", !.queue = {registry[name]}]
  ELSE [stack EXCEPT !.step = otherwise]

\* Mutation: the lookup of 0.0.0.0 is left out.
FirstLookupOnly == stack.step = "called" /\ stack' = Found(stack.dst, "false")

FirstLookup == stack.step = "called" /\ stack' = Found(stack.dst, "missed")

SecondLookup ==
  /\ stack.step = "missed"
  /\ stack' = Found(<<AnyAddr, stack.dst[2]>>, "false")

Put == stack.step = "found" /\ stack' = [stack EXCEPT !.step = "true"]

StackStep ==
  \/ \E dst \in Dests : Call(dst)
  \/ (FirstLookup \/ SecondLookup \/ Put) /\ UNCHANGED <<registry, appVars>>

-----------------------------------------------------------------------------
\* The name a socket has: a bind under way has not changed it yet.
NameOf(s) == IF call[s] = "idle" THEN local[s] ELSE oldid[s]

\* Open sockets that have the destination's name
Reachable ==
  {s \in Sockets : /\ status[s] = "open"
                   /\ NameOf(s) \in {stack.dst, <<AnyAddr, stack.dst[2]>>}}

\* The history variables look at every state from the call on, until the
\* answer is there.
Observe ==
  LET inCall == stack.step \in {"called", "missed", "found"}
  IN  IF stack.step \in {"idle", "true", "false"} /\ stack' = stack
      THEN UNCHANGED <<deserted, reached>>
      ELSE /\ deserted' = ((inCall /\ deserted) \/ Reachable' = {})
           /\ reached' = (IF inCall THEN reached ELSE {}) \cup Reachable'

Next == (AppStep \/ StackStep) /\ Observe

Spec == Init /\ [][Next]_vars

-----------------------------------------------------------------------------
\* An open socket is registered under its name at any moment, whatever was done
\* to other sockets: data for it can reach its queue.
OpenIsRegistered ==
  \A s \in Sockets :
    status[s] = "open" =>
      NameOf(s) \in DOMAIN registry /\ registry[NameOf(s)] = s

\* The registry holds exactly the open sockets: besides the above no port is
\* held twice, no queue is registered twice, and a closed socket, whatever it
\* was bound to before, has left nothing behind.
RegistryExact ==
  /\ OpenIsRegistered
  /\ \A m, n \in DOMAIN registry :
       m # n => m[2] # n[2] /\ registry[m] # registry[n]
  /\ \A n \in DOMAIN registry : status[registry[n]] \in {"open", "broken"}

\* send_to_app answers False only if there was a moment during the call at
\* which no socket could have taken the data, although it looks twice and the
\* lock is free in between.
FalseMeansUnreachable == stack.step = "false" => deserted

\* send_to_app gives data only to a socket that had the destination's name and
\* was open at some moment of the call: never to one closed or bound elsewhere
\* before it.
TrueMeansReachable ==
  stack.step = "true" =>
    \A s \in stack.queue : s \in reached \/ status[s] = "broken"
=============================================================================
