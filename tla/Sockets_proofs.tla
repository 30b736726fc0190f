---------------------------- MODULE Sockets_proofs ----------------------------
(***************************************************************************)
(* Theorems about the emulated sockets.                                    *)
(*                                                                         *)
(* SocketEmulation, for any number of sockets, addresses and ports and an  *)
(* application that closes a socket once.  The inductive invariant has a   *)
(* part about the registry, which only the application's steps disturb,    *)
(* and a part about the call of send_to_app under way.                     *)
(*                                                                         *)
(* SocketCalls, for any number of sockets, ports and calls.  What is       *)
(* inductive is where a message may be found that its asker still answers  *)
(* to.                                                                     *)
(***************************************************************************)
EXTENDS SocketEmulation, SocketCalls, TLAPS

\* The ranges of the variables, as far as the proofs need them
Shape ==
  /\ registry \in [DOMAIN registry -> Sockets]
  /\ status \in [Sockets -> {"new", "open", "closed", "broken"}]
  /\ call \in [Sockets -> {"idle", "named", "checked", "renamed"}]
  /\ local \in [Sockets -> Names \cup {NoName}]
  /\ oldid \in [Sockets -> Names \cup {NoName}]

\* One call at a time; a socket being named is new, one being bound is open, and
\* nobody takes the port it is about to get.
Calls ==
  /\ \A s, t \in Sockets : call[s] # "idle" /\ call[t] # "idle" => s = t
  /\ \A s \in Sockets :
       /\ call[s] = "named" => status[s] = "new"
       /\ call[s] \in {"checked", "renamed"} => status[s] = "open"
       /\ call[s] # "idle" => \A n \in DOMAIN registry : n[2] # local[s][2]

RegistryInv == Shape /\ Calls /\ RegistryExact

-----------------------------------------------------------------------------
LEMMA RegistryInvInit == Init => RegistryInv
  BY DEF Init, RegistryInv, Shape, Calls, RegistryExact, OpenIsRegistered

LEMMA CreateInv ==
  ASSUME RegistryInv, NEW s \in Sockets, NEW port \in Ephemeral, Create(s, port)
  PROVE  RegistryInv'
  <1>1. Shape'
    BY DEF RegistryInv, Create, Shape, Names, Name
  <1>2. Calls'
    BY DEF RegistryInv, Create, Shape, Calls, AppIdle, InUse, EmuPorts
  <1>3. RegistryExact'
    BY DEF RegistryInv, Create, Shape, AppIdle, RegistryExact, OpenIsRegistered, NameOf
  <1>4. QED
    BY <1>1, <1>2, <1>3 DEF RegistryInv

LEMMA RegisterInv ==
  ASSUME RegistryInv, NEW s \in Sockets, Register(s)
  PROVE  RegistryInv'
  <1>1. Shape'
    BY DEF RegistryInv, Register, Shape
  <1>2. Calls'
    BY DEF RegistryInv, Register, Shape, Calls
  <1>3. RegistryExact'
    BY DEF RegistryInv, Register, Shape, Calls, RegistryExact, OpenIsRegistered, NameOf
  <1>4. QED
    BY <1>1, <1>2, <1>3 DEF RegistryInv

LEMMA BindCheckInv ==
  ASSUME RegistryInv, NEW s \in Sockets,
         NEW name \in Name(HostAddrs \cup {AnyAddr}, BindPorts), BindCheck(s, name)
  PROVE  RegistryInv'
  <1>1. Shape'
    BY DEF RegistryInv, BindCheck, Shape, Names, Name
  <1>2. Calls'
    BY DEF RegistryInv, BindCheck, Shape, Calls, AppIdle, InUse, EmuPorts
  <1>3. RegistryExact'
    BY DEF RegistryInv, BindCheck, Shape, AppIdle, RegistryExact, OpenIsRegistered, NameOf
  <1>4. QED
    BY <1>1, <1>2, <1>3 DEF RegistryInv

LEMMA BindFiltersInv ==
  ASSUME RegistryInv, NEW s \in Sockets, BindFilters(s)
  PROVE  RegistryInv'
  <1>1. Shape'
    BY DEF RegistryInv, BindFilters, Shape
  <1>2. Calls'
    BY DEF RegistryInv, BindFilters, Shape, Calls
  <1>3. RegistryExact'
    BY DEF RegistryInv, BindFilters, Shape, RegistryExact, OpenIsRegistered, NameOf
  <1>4. QED
    BY <1>1, <1>2, <1>3 DEF RegistryInv

LEMMA BindMoveInv ==
  ASSUME RegistryInv, NEW s \in Sockets, BindMove(s)
  PROVE  RegistryInv'
  <1>0. oldid[s] \in DOMAIN registry /\ registry[oldid[s]] = s
    BY DEF RegistryInv, BindMove, Shape, Calls, RegistryExact, OpenIsRegistered, NameOf
  <1>1. Shape'
    BY <1>0 DEF RegistryInv, BindMove, Shape, Moved
  <1>2. Calls'
    BY <1>0 DEF RegistryInv, BindMove, Shape, Calls
  <1>3. RegistryExact'
    BY <1>0 DEF RegistryInv, BindMove, Moved, Shape, Calls, RegistryExact, OpenIsRegistered, NameOf
  <1>4. QED
    BY <1>1, <1>2, <1>3 DEF RegistryInv

LEMMA CloseInv ==
  ASSUME RegistryInv, ~ ClosesAgain, NEW s \in Sockets, Close(s)
  PROVE  RegistryInv'
  <1>0. /\ status[s] = "open"
        /\ local[s] \in DOMAIN registry /\ registry[local[s]] = s
        /\ registry' = [n \in DOMAIN registry \ {local[s]} |-> registry[n]]
    BY DEF RegistryInv, Close, AppIdle, RegistryExact, OpenIsRegistered, NameOf,
           Unregistered, Without, Restrict
  <1>1. Shape'
    BY <1>0 DEF RegistryInv, Close, Shape
  <1>2. Calls'
    BY <1>0 DEF RegistryInv, Close, Shape, Calls, AppIdle
  <1>3. RegistryExact'
    BY <1>0 DEF RegistryInv, Close, Shape, AppIdle, RegistryExact, OpenIsRegistered, NameOf
  <1>4. QED
    BY <1>1, <1>2, <1>3 DEF RegistryInv

\* Steps that leave the registry and the application alone
LEMMA RegistryInvUnchanged ==
  RegistryInv /\ UNCHANGED <<registry, appVars>> => RegistryInv'
  BY DEF RegistryInv, appVars, Shape, Calls, RegistryExact, OpenIsRegistered, NameOf

LEMMA AppStepInv ==
  ASSUME RegistryInv, ~ ClosesAgain, AppStep
  PROVE  RegistryInv'
  <1>1. PICK s \in Sockets :
          \/ \E port \in Ephemeral : Create(s, port)
          \/ Register(s)
          \/ \E name \in Name(HostAddrs \cup {AnyAddr}, BindPorts) : BindCheck(s, name)
          \/ BindFilters(s)
          \/ BindMove(s)
          \/ Close(s)
    BY DEF AppStep
  <1>2. QED
    BY <1>1, CreateInv, RegisterInv, BindCheckInv, BindFiltersInv, BindMoveInv, CloseInv

LEMMA RegistryInvStep ==
  ASSUME RegistryInv, ~ ClosesAgain, [Next]_vars
  PROVE  RegistryInv'
  <1>1. CASE AppStep
    BY <1>1, AppStepInv
  <1>2. CASE StackStep \/ UNCHANGED vars
    BY <1>2, RegistryInvUnchanged DEF StackStep, Call, vars
  <1>3. QED
    BY <1>1, <1>2 DEF Next

\* The registry holds exactly the open sockets, at every moment and however the
\* application creates, binds and closes them (once).
THEOREM RegistryIsExact ==
  ASSUME ~ ClosesAgain
  PROVE  Spec => []RegistryExact
  <1>1. RegistryInv => RegistryExact
    BY DEF RegistryInv
  <1>2. RegistryInv /\ [Next]_vars => RegistryInv'
    BY RegistryInvStep
  <1>3. QED
    BY RegistryInvInit, <1>1, <1>2, PTL DEF Spec

-----------------------------------------------------------------------------
(***************************************************************************)
(* The answers of send_to_app                                              *)
(***************************************************************************)
InCall == stack.step \in {"called", "missed", "found"}

\* During a call the history variables include the present state.  After a first
\* lookup without success the other name is registered, or was deserted once.
StackInv ==
  /\ stack \in [step : {"idle", "called", "missed", "found", "true", "false"},
                dst : Dests \cup {NoName}, queue : SUBSET Sockets]
  /\ deserted \in BOOLEAN
  /\ InCall => Reachable \subseteq reached /\ (deserted \/ Reachable # {})
  /\ stack.step = "missed" => deserted \/ <<AnyAddr, stack.dst[2]>> \in DOMAIN registry
  /\ stack.step = "false" => deserted
  /\ stack.step \in {"found", "true"} =>
       \A s \in stack.queue : s \in reached \/ status[s] = "broken"

LEMMA StackInvInit == Init => StackInv
  <1> SUFFICES ASSUME Init
               PROVE  StackInv
    OBVIOUS
  <1>1. /\ stack = [step |-> "idle", dst |-> NoName, queue |-> {}]
        /\ deserted = FALSE
    BY DEF Init
  <1>2. stack \in [step : {"idle", "called", "missed", "found", "true", "false"},
                   dst : Dests \cup {NoName}, queue : SUBSET Sockets]
    BY <1>1
  <1>3. stack.step = "idle"
    BY <1>1
  <1>4. QED
    BY <1>1, <1>2, <1>3 DEF StackInv, InCall

\* Across a step of the application a port does not change its name.
LEMMA PortKeepsName ==
  ASSUME RegistryInv, ~ ClosesAgain, AppStep,
         NEW m \in DOMAIN registry, NEW n \in DOMAIN registry', m[2] = n[2]
  PROVE  m = n
  <1>1. PICK s \in Sockets :
          \/ \E port \in Ephemeral : Create(s, port)
          \/ Register(s)
          \/ \E name \in Name(HostAddrs \cup {AnyAddr}, BindPorts) : BindCheck(s, name)
          \/ BindFilters(s)
          \/ BindMove(s)
          \/ Close(s)
    BY DEF AppStep
  <1>2. CASE registry' = registry
    BY <1>2 DEF RegistryInv, RegistryExact
  <1>3. CASE Register(s) \/ BindMove(s)
    <2>1. n \in DOMAIN registry \/ n = local[s]
      BY <1>3 DEF Register, BindMove, Moved
    <2>2. n = local[s] => n[2] # m[2]
      BY <1>3 DEF Register, BindMove, RegistryInv, Calls
    <2>3. QED
      BY <2>1, <2>2 DEF RegistryInv, RegistryExact
  <1>4. CASE Close(s)
    BY <1>4 DEF Close, Unregistered, Without, Restrict, RegistryInv, RegistryExact
  <1>5. QED
    BY <1>1, <1>2, <1>3, <1>4 DEF Create, BindCheck, BindFilters

\* A socket whose bind raised stays as it is.
LEMMA BrokenStays ==
  ASSUME RegistryInv, ~ ClosesAgain, AppStep,
         NEW t \in Sockets, status[t] = "broken"
  PROVE  status'[t] = "broken"
  <1>1. PICK s \in Sockets :
          \/ \E port \in Ephemeral : Create(s, port)
          \/ Register(s)
          \/ \E name \in Name(HostAddrs \cup {AnyAddr}, BindPorts) : BindCheck(s, name)
          \/ BindFilters(s)
          \/ BindMove(s)
          \/ Close(s)
    BY DEF AppStep
  <1>2. QED
    BY <1>1 DEF RegistryInv, Shape, Calls, Create, Register, BindCheck, BindFilters,
                BindMove, Close

\* An entry of the registry belongs to a broken socket or to the open one that
\* has its name.
LEMMA EntryIsReachable ==
  ASSUME RegistryInv, NEW n \in DOMAIN registry,
         n \in {stack.dst, <<AnyAddr, stack.dst[2]>>}
  PROVE  registry[n] \in Reachable \/ status[registry[n]] = "broken"
  <1>1. registry[n] \in Sockets /\ status[registry[n]] \in {"open", "broken"}
    BY DEF RegistryInv, Shape, RegistryExact
  <1>2. status[registry[n]] = "open" => NameOf(registry[n]) = n
    BY <1>1 DEF RegistryInv, RegistryExact, OpenIsRegistered
  <1>3. QED
    BY <1>1, <1>2 DEF Reachable

\* Open sockets with the name of the destination are in the registry under it.
LEMMA ReachableIsEntry ==
  ASSUME RegistryInv, NEW s \in Reachable
  PROVE  NameOf(s) \in DOMAIN registry /\ NameOf(s) \in {stack.dst, <<AnyAddr, stack.dst[2]>>}
  BY DEF Reachable, RegistryInv, RegistryExact, OpenIsRegistered

LEMMA StackInvAppStep ==
  ASSUME RegistryInv, RegistryInv', StackInv, ~ ClosesAgain, AppStep, Observe
  PROVE  StackInv'
  <1>1. stack' = stack
    BY DEF AppStep, Create, Register, BindCheck, BindFilters, BindMove, Close
  <1>2. CASE ~ InCall
    <2>1. UNCHANGED <<deserted, reached>>
      BY <1>1, <1>2 DEF Observe, InCall, StackInv
    <2>2. QED
      BY <1>1, <1>2, <2>1, BrokenStays DEF StackInv, InCall
  <1>3. CASE InCall
    <2>1. deserted' = (deserted \/ Reachable' = {}) /\ reached' = reached \cup Reachable'
      BY <1>3 DEF Observe, InCall
    <2>2. stack.step = "missed" => deserted' \/ <<AnyAddr, stack.dst[2]>> \in DOMAIN registry'
      <3> SUFFICES ASSUME stack.step = "missed", ~ deserted'
                   PROVE  <<AnyAddr, stack.dst[2]>> \in DOMAIN registry'
        OBVIOUS
      <3>1. <<AnyAddr, stack.dst[2]>> \in DOMAIN registry
        BY <2>1 DEF StackInv
      <3>2. PICK s : s \in Reachable'
        BY <2>1
      <3>3. /\ NameOf(s)' \in DOMAIN registry'
            /\ NameOf(s)' \in {stack.dst, <<AnyAddr, stack.dst[2]>>}
        BY <1>1, <3>2 DEF Reachable, RegistryInv, RegistryExact, OpenIsRegistered
      <3>4. (NameOf(s)')[2] = stack.dst[2]
        BY <3>3
      <3>5. QED
        BY <3>1, <3>3, <3>4, PortKeepsName
    <2>3. stack.step = "found" =>
            \A s \in stack.queue : s \in reached' \/ status'[s] = "broken"
      BY <2>1, BrokenStays DEF StackInv
    <2>4. QED
      BY <1>1, <1>3, <2>1, <2>2, <2>3 DEF StackInv, InCall
  <1>4. QED
    BY <1>2, <1>3

LEMMA StackInvStackStep ==
  ASSUME RegistryInv, StackInv, StackStep, Observe
  PROVE  StackInv'
  <1>1. CASE \E dst \in Dests : Call(dst)
    <2>1. PICK dst \in Dests : Call(dst)
      BY <1>1
    <2>2. /\ stack.step \in {"idle", "true", "false"}
          /\ stack' = [step |-> "called", dst |-> dst, queue |-> {}]
      BY <2>1 DEF Call
    <2>3. stack'.step = "called"
      BY <2>2
    <2>4. stack' \in [step : {"idle", "called", "missed", "found", "true", "false"},
                      dst : Dests \cup {NoName}, queue : SUBSET Sockets]
      BY <2>2
    <2>5. stack' # stack /\ ~ InCall
      BY <2>2, <2>3 DEF InCall
    <2>6. deserted' = (Reachable' = {}) /\ reached' = Reachable'
      BY <2>5 DEF Observe, InCall
    <2>7. QED
      BY <2>3, <2>4, <2>6 DEF StackInv, InCall
  <1>2. ASSUME UNCHANGED <<registry, appVars>>, stack.step \in {"called", "missed", "found"},
               stack'.dst = stack.dst
        PROVE  /\ Reachable' = Reachable
               /\ deserted' = (deserted \/ Reachable = {})
               /\ reached' = reached
    <2>1. Reachable' = Reachable
      BY <1>2 DEF Reachable, NameOf, appVars
    <2>2. QED
      BY <1>2, <2>1 DEF Observe, StackInv, InCall
  <1>3. CASE FirstLookup /\ UNCHANGED <<registry, appVars>>
    <2>1. stack.step = "called" /\ stack'.dst = stack.dst
      BY <1>3 DEF FirstLookup, Found, StackInv
    <2>2. Reachable' = Reachable /\ deserted' = (deserted \/ Reachable = {}) /\ reached' = reached
      BY <1>2, <1>3, <2>1
    <2>3. CASE stack.dst \in DOMAIN registry
      <3> DEFINE s == registry[stack.dst]
      <3>1. stack' = [stack EXCEPT !.step = "found", !.queue = {s}]
        BY <1>3, <2>3 DEF FirstLookup, Found
      <3>2. s \in Sockets
        BY <2>3 DEF RegistryInv, Shape
      <3>3. /\ stack' \in [step : {"idle", "called", "missed", "found", "true", "false"},
                           dst : Dests \cup {NoName}, queue : SUBSET Sockets]
            /\ stack'.step = "found" /\ stack'.queue = {s}
        BY <3>1, <3>2 DEF StackInv
      <3>4. s \in Reachable \/ status[s] = "broken"
        BY <2>3, EntryIsReachable
      <3>5. Reachable \subseteq reached /\ (deserted \/ Reachable # {}) /\ deserted \in BOOLEAN
        BY <2>1 DEF StackInv, InCall
      <3>6. s \in reached' \/ status'[s] = "broken"
        BY <1>3, <2>2, <3>4, <3>5 DEF appVars
      <3> HIDE DEF s
      <3>7. deserted' \in BOOLEAN /\ Reachable' \subseteq reached'
              /\ (deserted' \/ Reachable' # {})
        BY <2>2, <3>5
      <3>8. QED
        BY <3>3, <3>6, <3>7 DEF StackInv, InCall
    <2>4. CASE stack.dst \notin DOMAIN registry
      <3>1. Reachable # {} => <<AnyAddr, stack.dst[2]>> \in DOMAIN registry
        BY <2>4, ReachableIsEntry
      <3>2. QED
        BY <1>3, <2>1, <2>2, <2>4, <3>1 DEF FirstLookup, Found, StackInv, InCall
    <2>5. QED
      BY <2>3, <2>4
  <1>4. CASE SecondLookup /\ UNCHANGED <<registry, appVars>>
    <2>1. stack.step = "missed" /\ stack'.dst = stack.dst
      BY <1>4 DEF SecondLookup, Found, StackInv
    <2>2. Reachable' = Reachable /\ deserted' = (deserted \/ Reachable = {}) /\ reached' = reached
      BY <1>2, <1>4, <2>1
    <2>3. CASE <<AnyAddr, stack.dst[2]>> \in DOMAIN registry
      <3> DEFINE s == registry[<<AnyAddr, stack.dst[2]>>]
      <3>1. stack' = [stack EXCEPT !.step = "found", !.queue = {s}]
        BY <1>4, <2>3 DEF SecondLookup, Found
      <3>2. s \in Sockets
        BY <2>3 DEF RegistryInv, Shape
      <3>3. /\ stack' \in [step : {"idle", "called", "missed", "found", "true", "false"},
                           dst : Dests \cup {NoName}, queue : SUBSET Sockets]
            /\ stack'.step = "found" /\ stack'.queue = {s}
        BY <3>1, <3>2 DEF StackInv
      <3>4. s \in Reachable \/ status[s] = "broken"
        BY <2>3, EntryIsReachable
      <3>5. Reachable \subseteq reached /\ (deserted \/ Reachable # {}) /\ deserted \in BOOLEAN
        BY <2>1 DEF StackInv, InCall
      <3>6. s \in reached' \/ status'[s] = "broken"
        BY <1>4, <2>2, <3>4, <3>5 DEF appVars
      <3> HIDE DEF s
      <3>7. deserted' \in BOOLEAN /\ Reachable' \subseteq reached'
              /\ (deserted' \/ Reachable' # {})
        BY <2>2, <3>5
      <3>8. QED
        BY <3>3, <3>6, <3>7 DEF StackInv, InCall
    <2>4. CASE <<AnyAddr, stack.dst[2]>> \notin DOMAIN registry
      BY <1>4, <2>1, <2>2, <2>4 DEF SecondLookup, Found, StackInv, InCall
    <2>5. QED
      BY <2>3, <2>4
  <1>5. CASE Put /\ UNCHANGED <<registry, appVars>>
    <2>1. stack.step = "found" /\ stack'.dst = stack.dst
      BY <1>5 DEF Put, StackInv
    <2>2. QED
      BY <1>2, <1>5, <2>1 DEF Put, StackInv, InCall, appVars
  <1>6. QED
    BY <1>1, <1>3, <1>4, <1>5 DEF StackStep

LEMMA StackInvUnchanged == StackInv /\ UNCHANGED vars => StackInv'
  BY DEF vars, appVars, StackInv, InCall, Reachable, NameOf

LEMMA BothInvStep ==
  ASSUME RegistryInv, StackInv, ~ ClosesAgain, [Next]_vars
  PROVE  RegistryInv' /\ StackInv'
  <1>1. RegistryInv'
    BY RegistryInvStep
  <1>2. StackInv'
    BY <1>1, StackInvAppStep, StackInvStackStep, StackInvUnchanged DEF Next
  <1>3. QED
    BY <1>1, <1>2

LEMMA StackInvariant ==
  ASSUME ~ ClosesAgain
  PROVE  Spec => []StackInv
  <1>1. RegistryInv /\ StackInv /\ [Next]_vars => RegistryInv' /\ StackInv'
    BY BothInvStep
  <1>2. QED
    BY RegistryInvInit, StackInvInit, <1>1, PTL DEF Spec

\* False is answered only if at some moment of the call no open socket had the
\* destination's name, although send_to_app looks twice without the lock between.
THEOREM FalseIsJustified ==
  ASSUME ~ ClosesAgain
  PROVE  Spec => []FalseMeansUnreachable
  <1>1. StackInv => FalseMeansUnreachable
    BY DEF StackInv, FalseMeansUnreachable
  <1>2. QED
    BY <1>1, StackInvariant, PTL

\* True is answered only when the data went to a socket that had the name during
\* the call, or to one whose bind raised an exception.
THEOREM TrueIsJustified ==
  ASSUME ~ ClosesAgain
  PROVE  Spec => []TrueMeansReachable
  <1>1. StackInv => TrueMeansReachable
    BY DEF StackInv, TrueMeansReachable
  <1>2. QED
    BY <1>1, StackInvariant, PTL

-----------------------------------------------------------------------------
(***************************************************************************)
(* SocketCalls                                                             *)
(***************************************************************************)
Peer == Remote \cup {Unset}

Message == [asker : Endpoint, local : LocalPort, remote : Peer, current : BOOLEAN]

SocketState == [local : LocalPort, remote : Peer, block : BOOLEAN, timeout : {Unset, 0, 1},
                open : BOOLEAN]

CallsShape ==
  /\ sock \in [Endpoint -> SocketState]
  /\ fromApp \in Seq(Message) /\ asked \subseteq Message
  /\ toApp \in [Endpoint -> Seq(Message)]

\* No two open sockets have the same name.
NamesDiffer ==
  \A s, t \in Endpoint : sock[s].open /\ sock[t].open /\ sock[s].local = sock[t].local => s = t

\* A message that is not marked carries the name its asker has.
OwnName(m) == m.current => sock[m.asker].open /\ sock[m.asker].local = m.local

Underway == (\A i \in DOMAIN fromApp : OwnName(fromApp[i])) /\ (\A m \in asked : OwnName(m))

CallsInv == CallsShape /\ NamesDiffer /\ Underway /\ AnswersReachAsker

LEMMA CallsInvInit == CallsInit => CallsInv
  <1> SUFFICES ASSUME CallsInit PROVE CallsInv
    OBVIOUS
  <1>1. CallsShape
    <2>1. sock \in [Endpoint -> SocketState]
      BY DEF CallsInit, SocketState, Peer
    <2>2. << >> \in Seq(Message)
      OBVIOUS
    <2>3. QED
      BY <2>1, <2>2 DEF CallsInit, CallsShape
  <1>2. NamesDiffer
    BY DEF CallsInit, NamesDiffer
  <1>3. Underway
    BY DEF CallsInit, Underway
  <1>4. AnswersReachAsker
    BY DEF CallsInit, AnswersReachAsker
  <1>5. QED
    BY <1>1, <1>2, <1>3, <1>4 DEF CallsInv

\* A new name, or none: what was asked under the old one is marked.
LEMMA NameChangesInv ==
  ASSUME CallsInv, NEW s \in Endpoint, NameChanges(s), NEW state \in SocketState,
         sock' = [sock EXCEPT ![s] = state],
         state.open => state.local \notin Taken
  PROVE  CallsInv'
  <1>1. CallsShape'
    <2>1. fromApp' \in Seq(Message)
      <3>1. \A m \in Message : [m EXCEPT !.current = @ /\ m.asker # s] \in Message
        BY DEF Message
      <3>2. /\ Len(fromApp) \in Nat /\ DOMAIN fromApp = 1 .. Len(fromApp)
            /\ \A i \in DOMAIN fromApp : fromApp[i] \in Message
        BY DEF CallsInv, CallsShape
      <3>3. fromApp' \in [1 .. Len(fromApp) -> Message]
        BY <3>1, <3>2 DEF NameChanges, StaleQueue
      <3>4. QED
        BY <3>2, <3>3
    <2>2. asked' \subseteq Message
      BY DEF CallsInv, CallsShape, Message, NameChanges, Stale
    <2>3. QED
      BY <2>1, <2>2 DEF CallsInv, CallsShape, NameChanges
  <1>2. NamesDiffer'
    BY DEF CallsInv, CallsShape, NamesDiffer, Taken
  <1>3. Underway'
    <2>1. ASSUME NEW m \in Message, OwnName(m)
          PROVE  OwnName([m EXCEPT !.current = @ /\ m.asker # s])'
      BY <2>1 DEF CallsInv, CallsShape, Message, OwnName
    <2>2. (\A i \in DOMAIN fromApp : OwnName(fromApp[i]))'
      BY <2>1 DEF CallsInv, CallsShape, Underway, NameChanges, StaleQueue
    <2>3. (\A m \in asked : OwnName(m))'
      BY <2>1 DEF CallsInv, CallsShape, Underway, NameChanges, Stale
    <2>4. QED
      BY <2>2, <2>3 DEF Underway
  <1>4. AnswersReachAsker'
    BY DEF CallsInv, AnswersReachAsker, NameChanges
  <1>5. QED
    BY <1>1, <1>2, <1>3, <1>4 DEF CallsInv

LEMMA BindToInv ==
  ASSUME CallsInv, NEW s \in Endpoint, NEW port \in LocalPort, BindTo(s, port)
  PROVE  CallsInv'
  <1>1. CASE port \in Taken
    BY <1>1 DEF BindTo, callVars, CallsInv, CallsShape, NamesDiffer, Underway, OwnName,
                AnswersReachAsker
  <1>2. CASE port \notin Taken
    <2> DEFINE state == [sock[s] EXCEPT !.local = port]
    <2>1. state \in SocketState /\ state.local = port
      BY DEF CallsInv, CallsShape, SocketState
    <2>2. sock' = [sock EXCEPT ![s] = state] /\ NameChanges(s)
      BY <1>2 DEF BindTo
    <2> HIDE DEF state
    <2>3. QED
      BY <1>2, <2>1, <2>2, NameChangesInv
  <1>3. QED
    BY <1>1, <1>2

LEMMA CloseOrShutdownInv ==
  ASSUME CallsInv, NEW s \in Endpoint, CloseOrShutdown(s)
  PROVE  CallsInv'
  <1> DEFINE state == [sock[s] EXCEPT !.open = FALSE]
  <1>1. state \in SocketState /\ ~ state.open
    BY DEF CallsInv, CallsShape, SocketState
  <1>2. sock' = [sock EXCEPT ![s] = state] /\ NameChanges(s)
    BY DEF CloseOrShutdown
  <1> HIDE DEF state
  <1>3. QED
    BY <1>1, <1>2, NameChangesInv

\* Calls that change neither a name nor a message.
LEMMA SameNamesInv ==
  ASSUME CallsInv, NEW s \in Endpoint, NEW state \in SocketState,
         sock' = [sock EXCEPT ![s] = state],
         state.open = sock[s].open, state.local = sock[s].local,
         UNCHANGED <<fromApp, asked, toApp, unsent>>
  PROVE  CallsInv'
  <1>1. \A t \in Endpoint : sock'[t].open = sock[t].open /\ sock'[t].local = sock[t].local
    BY DEF CallsInv, CallsShape
  <1>2. CallsShape'
    BY DEF CallsInv, CallsShape
  <1>3. NamesDiffer'
    BY <1>1 DEF CallsInv, NamesDiffer
  <1>4. Underway'
    BY <1>1 DEF CallsInv, CallsShape, Message, Underway, OwnName
  <1>5. AnswersReachAsker'
    BY DEF CallsInv, AnswersReachAsker
  <1>6. QED
    BY <1>2, <1>3, <1>4, <1>5 DEF CallsInv

LEMMA SettingsInv ==
  ASSUME CallsInv, NEW s \in Endpoint,
         \/ \E r \in Remote : Connect(s, r)
         \/ \E t \in {Unset, 0, 1} : SetTimeout(s, t)
         \/ \E flag \in BOOLEAN : SetBlocking(s, flag)
  PROVE  CallsInv'
  <1> DEFINE state == sock'[s]
  <1>1. /\ sock' = [sock EXCEPT ![s] = state] /\ state \in SocketState
        /\ state.open = sock[s].open /\ state.local = sock[s].local
        /\ UNCHANGED <<fromApp, asked, toApp, unsent>>
    <2>1. CASE \E r \in Remote : Connect(s, r)
      <3>1. PICK r \in Remote : Connect(s, r)
        BY <2>1
      <3>2. sock \in [Endpoint -> SocketState] /\ r \in Peer
        BY DEF CallsInv, CallsShape, Peer
      <3>3. state = [sock[s] EXCEPT !.remote = r]
        BY <3>1, <3>2 DEF Connect
      <3>4. state \in SocketState /\ state.open = sock[s].open /\ state.local = sock[s].local
        BY <3>2, <3>3 DEF SocketState
      <3>5. QED
        BY <3>1, <3>3, <3>4 DEF Connect
    <2>2. CASE \E t \in {Unset, 0, 1} : SetTimeout(s, t)
      <3>1. PICK t \in {Unset, 0, 1} : SetTimeout(s, t)
        BY <2>2
      <3>2. sock[s] \in SocketState
        BY DEF CallsInv, CallsShape
      <3>3. state = [sock[s] EXCEPT !.block = (t # 0),
                                    !.timeout = IF t \in {Unset, 0} THEN @ ELSE t]
        BY <3>1 DEF CallsInv, CallsShape, SetTimeout
      <3>4. state \in SocketState /\ state.open = sock[s].open /\ state.local = sock[s].local
        BY <3>2, <3>3 DEF SocketState
      <3>5. QED
        BY <3>1, <3>3, <3>4 DEF SetTimeout
    <2>3. CASE \E flag \in BOOLEAN : SetBlocking(s, flag)
      <3>1. PICK flag \in BOOLEAN : SetBlocking(s, flag)
        BY <2>3
      <3>2. sock \in [Endpoint -> SocketState]
        BY DEF CallsInv, CallsShape
      <3>3. state = [sock[s] EXCEPT !.block = flag]
        BY <3>1, <3>2 DEF SetBlocking
      <3>4. state \in SocketState /\ state.open = sock[s].open /\ state.local = sock[s].local
        BY <3>2, <3>3 DEF SocketState
      <3>5. QED
        BY <3>1, <3>3, <3>4 DEF SetBlocking
    <2>4. QED
      BY <2>1, <2>2, <2>3
  <1> HIDE DEF state
  <1>2. QED
    BY <1>1, SameNamesInv

\* A message is sent under the name the socket has.
LEMMA PutDownInv ==
  ASSUME CallsInv, NEW s \in Endpoint, NEW r \in Peer, PutDown(s, r)
  PROVE  CallsInv'
  <1>1. FlowAddr(s, r) \in Message /\ OwnName(FlowAddr(s, r))
    BY DEF CallsInv, CallsShape, SocketState, Message, FlowAddr, OwnName
  <1>2. fromApp' = Append(fromApp, FlowAddr(s, r)) /\ UNCHANGED <<sock, asked, toApp, unsent>>
    BY DEF PutDown
  <1>3. CallsShape'
    BY <1>1, <1>2 DEF CallsInv, CallsShape
  <1>4. NamesDiffer' /\ AnswersReachAsker'
    BY <1>2 DEF CallsInv, NamesDiffer, AnswersReachAsker
  <1>5. Underway'
    BY <1>1, <1>2 DEF CallsInv, CallsShape, Underway, OwnName
  <1>6. QED
    BY <1>3, <1>4, <1>5 DEF CallsInv

LEMMA SendInv ==
  ASSUME CallsInv, NEW s \in Endpoint, Send(s)
  PROVE  CallsInv'
  <1>1. CASE sock[s].remote = Unset
    BY <1>1 DEF Send, callVars, CallsInv, CallsShape, NamesDiffer, Underway, OwnName,
                AnswersReachAsker
  <1>2. CASE sock[s].remote # Unset
    BY <1>2, PutDownInv DEF Send, CallsInv, CallsShape, SocketState
  <1>3. QED
    BY <1>1, <1>2

LEMMA RecvInv ==
  ASSUME CallsInv, NEW s \in Endpoint, Recv(s)
  PROVE  CallsInv'
  <1>1. toApp' = [toApp EXCEPT ![s] = Tail(@)] /\ UNCHANGED <<sock, fromApp, asked, unsent>>
    BY DEF Recv
  <1>2. toApp[s] \in Seq(Message) /\ toApp[s] # << >>
    BY DEF CallsInv, CallsShape, Recv
  <1>3. CallsShape'
    BY <1>1, <1>2 DEF CallsInv, CallsShape
  <1>4. NamesDiffer' /\ Underway'
    BY <1>1 DEF CallsInv, NamesDiffer, Underway, OwnName
  <1>5. AnswersReachAsker'
    <2>1. \A t \in Endpoint : \A i \in DOMAIN toApp'[t] :
            \E j \in DOMAIN toApp[t] : toApp'[t][i] = toApp[t][j]
      BY <1>1, <1>2 DEF CallsInv, CallsShape
    <2>2. QED
      BY <1>1, <2>1 DEF CallsInv, AnswersReachAsker
  <1>6. QED
    BY <1>3, <1>4, <1>5 DEF CallsInv

LEMMA RecvFromAppInv ==
  ASSUME CallsInv, RecvFromApp
  PROVE  CallsInv'
  <1>1. /\ Head(fromApp) \in Message /\ OwnName(Head(fromApp))
        /\ \A i \in DOMAIN Tail(fromApp) : OwnName(Tail(fromApp)[i])
        /\ Tail(fromApp) \in Seq(Message)
    BY DEF CallsInv, CallsShape, Underway, RecvFromApp
  <1>2. CallsShape'
    BY <1>1 DEF CallsInv, CallsShape, RecvFromApp
  <1>3. NamesDiffer' /\ AnswersReachAsker'
    BY DEF CallsInv, NamesDiffer, AnswersReachAsker, RecvFromApp
  <1>4. Underway'
    BY <1>1 DEF CallsInv, Underway, OwnName, RecvFromApp
  <1>5. QED
    BY <1>2, <1>3, <1>4 DEF CallsInv

\* The answer to a message that is not marked finds its asker, and no other.
LEMMA AnswerInv ==
  ASSUME CallsInv, NEW m \in asked, Answer(m)
  PROVE  CallsInv'
  <1> DEFINE open == {s \in Endpoint : sock[s].open /\ sock[s].local = m.local}
  <1>1. m \in Message /\ OwnName(m) /\ asked' = asked \ {m} /\ UNCHANGED <<sock, fromApp>>
    BY DEF CallsInv, CallsShape, Underway, Answer
  <1>2. NamesDiffer' /\ Underway'
    BY <1>1 DEF CallsInv, NamesDiffer, Underway, OwnName
  <1>3. CASE open = {}
    <2>1. unsent' = unsent \cup {m} /\ UNCHANGED toApp
      BY <1>3 DEF Answer
    <2>2. ~ m.current
      BY <1>1, <1>3 DEF Message, OwnName
    <2>3. QED
      BY <1>1, <1>2, <2>1, <2>2 DEF CallsInv, CallsShape, AnswersReachAsker
  <1>4. CASE open # {}
    <2>1. PICK s \in open : toApp' = [toApp EXCEPT ![s] = Append(@, m)] /\ UNCHANGED unsent
      BY <1>4 DEF Answer
    <2>2. m.asker # s => ~ m.current
      BY <1>1, <2>1 DEF CallsInv, NamesDiffer, Message, OwnName
    <2>3. CallsShape'
      BY <1>1, <2>1 DEF CallsInv, CallsShape
    <2>4. AnswersReachAsker'
      BY <1>1, <2>1, <2>2 DEF CallsInv, CallsShape, AnswersReachAsker
    <2>5. QED
      BY <1>2, <2>3, <2>4 DEF CallsInv
  <1>5. QED
    BY <1>3, <1>4

LEMMA NoAnswerInv ==
  ASSUME CallsInv, NEW m \in asked, NoAnswer(m)
  PROVE  CallsInv'
  BY DEF NoAnswer, CallsInv, CallsShape, NamesDiffer, Underway, OwnName, AnswersReachAsker

LEMMA CallsInvStep == CallsInv /\ [CallsNext]_callVars => CallsInv'
  <1> SUFFICES ASSUME CallsInv, [CallsNext]_callVars PROVE CallsInv'
    OBVIOUS
  <1>1. ASSUME NEW s \in Endpoint, RecvRaises(s)
        PROVE  UNCHANGED callVars
    BY <1>1 DEF RecvRaises
  <1>2. CASE UNCHANGED callVars
    BY <1>2 DEF callVars, CallsInv, CallsShape, NamesDiffer, Underway, OwnName, AnswersReachAsker
  <1>3. CASE CallsNext
    BY <1>1, <1>2, <1>3, BindToInv, CloseOrShutdownInv, SettingsInv, PutDownInv, SendInv, RecvInv,
       RecvFromAppInv, AnswerInv, NoAnswerInv DEF CallsNext, SendTo, Peer
  <1>4. QED
    BY <1>2, <1>3

\* An answer reaches the socket that asked, as long as that socket has kept its
\* name (ApplicationLayer.send_to_app, socket._flowaddr).
THEOREM AnswersAreReceived == CallsSpec => []AnswersReachAsker
  <1>1. CallsInv => AnswersReachAsker
    BY DEF CallsInv
  <1>2. QED
    BY CallsInvInit, CallsInvStep, <1>1, PTL DEF CallsSpec
=============================================================================
