------------------------------ MODULE Hosts_proofs ------------------------------
(***************************************************************************)
(* Theorems about the programs of end hosts.                               *)
(*                                                                         *)
(* HostNetwork, for any devices, rules and ports.  What is inductive says  *)
(* who touches the host when: until the barrier the main thread alone,     *)
(* then the application with one rule at a time, also after the main       *)
(* thread has undone what it knows of; and what of the main thread's       *)
(* commands is still to come at each of its steps.                         *)
(*                                                                         *)
(* CachingServer, for any paths and lengths.  What is inductive is about   *)
(* the entry whose body is on its way: what it has and what is left make   *)
(* up the length announced for it; and which calls a request has left      *)
(* behind at each of its steps.                                            *)
(*                                                                         *)
(* DnsServer, for any table.  What is inductive is that only a request     *)
(* that was given up leaves anything behind on its port.                   *)
(***************************************************************************)
EXTENDS HostNetwork, CachingServer, DnsServer, SequenceTheorems, WellFoundedInduction,
        TLAPS

\* What is known of an answer of the caching server
Answer == [status : Nat, headers : Nat, body : Nat, waited : BOOLEAN]

\* An answer stays one when its status line and headers are filled in.
LEMMA HeadedAnswer ==
  ASSUME NEW a \in Answer, NEW h \in Nat
  PROVE  [a EXCEPT !.status = 200, !.headers = h] \in Answer
  <1>1. ASSUME NEW b \in Answer, NEW n \in Nat
        PROVE  [b EXCEPT !.status = n] \in Answer /\ [b EXCEPT !.headers = n] \in Answer
    BY DEF Answer
  <1> DEFINE n == 200
             b == [a EXCEPT !.status = n]
  <1>2. b \in Answer
    <2>1. n \in Nat
      OBVIOUS
    <2> HIDE DEF n
    <2> QED
      BY <1>1, <2>1
  <1>3. [b EXCEPT !.headers = h] \in Answer
    <2> HIDE DEF b
    <2> QED
      BY <1>1, <1>2
  <1> QED
    BY <1>3

USE DevicesAssumption, CommandLineAssumption

\* What a rule or a socket can name
Kind == {"all"} \cup Ports \cup UNION {{r[i] : i \in DOMAIN r} : r \in RuleLists}

Drop == Devices \X Kind

CommandLine == [platform : Platforms, mode : Modes, app : BOOLEAN, rules : RuleLists,
                devices : SUBSET Devices, saves : BOOLEAN, raw : BOOLEAN, heeds : BOOLEAN]
HostType == [own : BOOLEAN, drops : SUBSET Drop, arp : SUBSET Devices, pf : BOOLEAN]
DelegateType == [intf : SUBSET Devices, rulecmds : SUBSET Drop,
                 arpignore : SUBSET Devices, adding : SUBSET Drop]

\* The ranges of the variables the proofs look at
HostShape ==
  /\ given \in CommandLine /\ host \in HostType /\ delegate \in DelegateType
  /\ setup_ok \in BOOLEAN
  /\ filter \in [Devices -> {"closed", "any"} \cup Ports]
  /\ sockets \in Seq(Ports)

\* Until the barrier nothing but the main thread touches the host.
Begins ==
  /\ main \in {"starts", "constructing", "flushing", "blocking"} => ~ setup_ok
  /\ main \in {"starts", "constructing", "flushing", "blocking", "blocked"}
       => app \in {"barrier", "none"}
  /\ app \in {"barrier", "none"} => sockets = << >>
  /\ app = "adding" => sockets # << >>

\* The main thread has commands where it belongs, and leaves its way only to exit.
OnItsWay ==
  /\ todo \subseteq Commands(main)
  /\ main # "exited" => cut \in {"none", "blocked"}

\* Until its rules are flushed they are in force, and again after iptables-restore.
InForce ==
  /\ given.platform # "linux" \/ main \in {"starts", "constructing"} => host.own
  /\ given.saves /\ (main = "resetting" \/ (main = "restoring" /\ todo = {})) => host.own
  /\ given.saves /\ main = "exited" /\ cut \notin {"flushing", "blocking", "clearing", "restoring"}
       => host.own

\* What is dropped before block and after the flush of unblock
Dropped ==
  /\ main \in {"starts", "constructing", "flushing"} => host.drops = {}
  /\ Flushed /\ (main = "exited" => cut \notin {"blocking", "clearing"}) => host.drops \subseteq late
  /\ given.platform = "test" =>
       /\ host.drops = {} /\ delegate.intf = {}
       /\ delegate.rulecmds = {} /\ delegate.adding = {}

\* What is to be undone is known, and is done at the end.
Settings ==
  /\ main = "starts" => host.arp = {} /\ ~ host.pf
  /\ main = "constructing" => delegate.arpignore = Quiet
  /\ host.arp \subseteq delegate.arpignore
  /\ host.arp # {} => given.platform = "linux"
  /\ host.pf => given.platform = "darwin"
  /\ main = "resetting" =>
       /\ \A d \in host.arp : [cmd |-> "arp_ignore", on |-> {d}] \in todo
       /\ host.pf => [cmd |-> "pfctl -X", on |-> {}] \in todo
  /\ main = "exited" /\ cut \in {"none", "starts", "blocked"} => host.arp = {} /\ ~ host.pf

\* Beside an application no device is left out of the rules.
Everywhere ==
  /\ app \in {"runs", "adding", "barrier"} => given.app
  /\ main \in {"opening", "running"} => given.platform # "test"
  /\ given.app /\ given.platform # "test" /\ main \notin {"starts", "exited"}
       => delegate.intf = given.devices

\* A socket's rules are in force or about to be; on macOS those of the newest.
Served ==
  main \in {"opening", "running"} /\ app \in {"runs", "adding"} /\ sockets # << >> =>
    LET coming == IF app = "adding" THEN delegate.adding ELSE {} IN
    /\ given.platform = "linux" =>
         \A p \in ToSet(sockets) : given.devices \X {p} \subseteq host.drops \cup coming
    /\ given.platform = "darwin" =>
         IF coming # {} THEN coming = given.devices \X {Last(sockets)}
         ELSE given.devices \X {Last(sockets)} \subseteq host.drops

\* No filter is older than the newest socket.
Admits ==
  app = "runs" /\ sockets # << >> =>
    \A d \in Devices : filter[d] \in {"closed", "any", Last(sockets)}

HostInv ==
  /\ HostShape /\ Begins /\ OnItsWay
  /\ InForce /\ Dropped /\ Settings
  /\ Everywhere /\ Served /\ Admits

-----------------------------------------------------------------------------
\* The rule of a socket names its port on every device.
LEMMA PortDrops ==
  ASSUME NEW p \in Ports, NEW intf \in SUBSET Devices
  PROVE  Parse(p, intf) = intf \X {p} /\ Parse(p, intf) \subseteq Drop
  BY DEF Parse, Drop, Kind

\* What the rules of the command line drop.
LEMMA RuleDrops ==
  ASSUME HostShape
  PROVE  AllDrops(Rules, Interfaces) \subseteq Drop
  <1>1. \A i \in DOMAIN Rules : Rules[i] \in Kind
    <2>1. CASE Rules = given.rules
      BY <2>1 DEF HostShape, CommandLine, Kind
    <2>2. CASE Rules = << >>
      BY <2>2
    <2>3. CASE Rules = <<"all">>
      BY <2>3 DEF Kind
    <2>4. QED
      BY <2>1, <2>2, <2>3 DEF Rules
  <1>2. Interfaces \subseteq Devices
    BY DEF HostShape, CommandLine, Interfaces
  <1>3. \A i \in DOMAIN Rules : Parse(Rules[i], Interfaces) \subseteq Drop
    BY <1>1, <1>2 DEF Parse, Drop
  <1>4. QED
    BY <1>3 DEF AllDrops

\* Beside an application no rule is "all", which would leave out devices.
LEMMA NoRules == given.app => Rules = << >> /\ ~ Contains(Rules, "all")
  BY DEF Rules, Contains

\* The newest socket is the last.
LEMMA LastAppended ==
  ASSUME NEW s \in Seq(Ports), NEW p
  PROVE  Last(Append(s, p)) = p /\ Append(s, p) # << >>
         /\ ToSet(Append(s, p)) = ToSet(s) \cup {p}
  BY DEF Last, ToSet

LEMMA LastInPorts ==
  ASSUME NEW s \in Seq(Ports), s # << >>
  PROVE  Last(s) \in Ports /\ Last(s) \in ToSet(s)
  BY DEF Last, ToSet

-----------------------------------------------------------------------------
LEMMA HostInvInit == HostInit => HostInv
  <1> SUFFICES ASSUME HostInit PROVE HostInv
    OBVIOUS
  <1>1. HostShape
    <2>1. given \in CommandLine
      BY DEF HostInit, CommandLine, MakeDeviceList, DevicesFound
    <2>2. host \in HostType
      BY DEF HostInit, HostType
    <2>3. delegate \in DelegateType
      BY DEF HostInit, DelegateType
    <2>4. filter \in [Devices -> {"closed", "any"} \cup Ports] /\ sockets \in Seq(Ports)
      BY DEF HostInit
    <2>5. QED
      BY <2>1, <2>2, <2>3, <2>4 DEF HostInit, HostShape
  <1>2. Begins
    BY DEF HostInit, Begins
  <1>3. OnItsWay
    BY DEF HostInit, OnItsWay
  <1>4. InForce
    BY DEF HostInit, InForce
  <1>5. Dropped
    BY DEF HostInit, Dropped, Flushed
  <1>6. Settings
    BY DEF HostInit, Settings
  <1>7. Everywhere
    BY DEF HostInit, Everywhere
  <1>8. Served
    BY DEF HostInit, Served
  <1>9. Admits
    BY DEF HostInit, Admits
  <1>10. QED
    BY <1>1, <1>2, <1>3, <1>4, <1>5, <1>6, <1>7, <1>8, <1>9 DEF HostInv

LEMMA EndAtOnceInv ==
  ASSUME HostInv, EndAtOnce
  PROVE  HostInv'
  <1>1. HostShape'
        BY DEF HostInv, HostShape, EndAtOnce, workVars, restVars
  <1>2. Begins'
        BY DEF HostInv, Begins, EndAtOnce, workVars, restVars
  <1>3. OnItsWay'
        BY DEF HostInv, OnItsWay, Commands, LinuxCommands, MacCommands, Quiet, Interfaces,
           Rules, restVars, EndAtOnce,
       workVars
  <1>4. InForce'
        BY DEF HostInv, InForce, EndAtOnce, workVars, restVars
  <1>5. Dropped'
        BY DEF HostInv, Dropped, Flushed, EndAtOnce, workVars, restVars, Begins
  <1>6. Settings'
        BY DEF HostInv, Settings, Quiet, Interfaces, Rules, EndAtOnce, workVars, restVars
  <1>7. Everywhere'
        BY DEF HostInv, Everywhere, EndAtOnce, workVars, restVars
  <1>8. Served'
        BY DEF HostInv, Served, EndAtOnce, workVars, restVars
  <1>9. Admits'
        BY DEF HostInv, Admits, EndAtOnce, workVars, restVars
  <1>10. QED
    BY <1>1, <1>2, <1>3, <1>4, <1>5, <1>6, <1>7, <1>8, <1>9 DEF HostInv

LEMMA NoDevicesInv ==
  ASSUME HostInv, NoDevices
  PROVE  HostInv'
  <1>1. HostShape'
        BY DEF HostInv, HostShape, NoDevices, Meet, AppReleased, workVars, restVars
  <1>2. Begins'
        BY DEF HostInv, Begins, NoDevices, Meet, AppReleased, workVars, restVars
  <1>3. OnItsWay'
        BY DEF HostInv, OnItsWay, Commands, LinuxCommands, MacCommands, Quiet, Interfaces,
           Rules, restVars, NoDevices,
       Meet, AppReleased, workVars
  <1>4. InForce'
        BY DEF HostInv, InForce, NoDevices, Meet, AppReleased, workVars, restVars
  <1>5. Dropped'
        BY DEF HostInv, Dropped, Flushed, NoDevices, Meet, AppReleased, workVars, restVars
  <1>6. Settings'
        BY DEF HostInv, Settings, Quiet, Interfaces, Rules, NoDevices, Meet, AppReleased,
       workVars, restVars
  <1>7. Everywhere'
        BY DEF HostInv, Everywhere, NoDevices, Meet, AppReleased, workVars, restVars
  <1>8. Served'
        BY DEF HostInv, Served, NoDevices, Meet, AppReleased, workVars, restVars
  <1>9. Admits'
        BY DEF HostInv, Admits, NoDevices, Meet, AppReleased, workVars, restVars, Begins
  <1>10. QED
    BY <1>1, <1>2, <1>3, <1>4, <1>5, <1>6, <1>7, <1>8, <1>9 DEF HostInv

LEMMA InterruptStartInv ==
  ASSUME HostInv, InterruptStart
  PROVE  HostInv'
  <1>1. HostShape'
        BY DEF HostInv, HostShape, InterruptStart, workVars, restVars
  <1>2. Begins'
        BY DEF HostInv, Begins, InterruptStart, workVars, restVars
  <1>3. OnItsWay'
        BY DEF HostInv, OnItsWay, Commands, LinuxCommands, MacCommands, Quiet, Interfaces,
           Rules, restVars,
       InterruptStart, workVars
  <1>4. InForce'
        BY DEF HostInv, InForce, InterruptStart, workVars, restVars
  <1>5. Dropped'
        BY DEF HostInv, Dropped, Flushed, InterruptStart, workVars, restVars
  <1>6. Settings'
        BY DEF HostInv, Settings, Quiet, Interfaces, Rules, InterruptStart, workVars,
       restVars
  <1>7. Everywhere'
        BY DEF HostInv, Everywhere, InterruptStart, workVars, restVars
  <1>8. Served'
        BY DEF HostInv, Served, InterruptStart, workVars, restVars
  <1>9. Admits'
        BY DEF HostInv, Admits, InterruptStart, workVars, restVars
  <1>10. QED
    BY <1>1, <1>2, <1>3, <1>4, <1>5, <1>6, <1>7, <1>8, <1>9 DEF HostInv

LEMMA ConstructInv ==
  ASSUME HostInv, Construct
  PROVE  HostInv'
  <1>1. HostShape'
    <2>1. Quiet \subseteq Devices /\ Interfaces \subseteq Devices
      BY DEF HostInv, HostShape, CommandLine, Quiet, Interfaces
    <2>2. AllDrops(Rules, Interfaces) \subseteq Drop
      BY RuleDrops DEF HostInv
    <2>4. delegate' \in DelegateType
      <3>1. CASE ConstructionRaises
        BY <3>1 DEF HostInv, HostShape, Construct
      <3>2. CASE ~ ConstructionRaises
        <4>1. delegate' = [delegate EXCEPT
                !.intf = Interfaces \ (IF Contains(Rules, "all") THEN Unknown ELSE {}),
                !.rulecmds = AllDrops(Rules, Interfaces), !.arpignore = Quiet]
          BY <3>2 DEF Construct
        <4>2. Interfaces \ (IF Contains(Rules, "all") THEN Unknown ELSE {}) \subseteq Devices
          BY <2>1
        <4>3. QED
          BY <2>1, <2>2, <4>1, <4>2 DEF HostInv, HostShape, DelegateType
      <3>3. QED
        BY <3>1, <3>2
    <2>5. QED
      BY <2>4 DEF HostInv, HostShape, Construct, restVars
  <1>2. Begins'
        BY DEF HostInv, Begins, Construct, workVars, restVars
  <1>3. OnItsWay'
    <2>1. CASE ConstructionRaises
      BY <2>1 DEF HostInv, OnItsWay, Construct, Commands, LinuxCommands, MacCommands, restVars
    <2>2. CASE ~ ConstructionRaises
      <3>1. main' = "constructing" /\ todo' = Commands("constructing") /\ given' = given
        BY <2>2 DEF Construct, restVars
      <3>2. Commands("constructing")' = Commands("constructing")
        BY <3>1 DEF Commands, LinuxCommands, MacCommands, Quiet, Interfaces, Rules
      <3>3. QED
        BY <3>1, <3>2 DEF HostInv, OnItsWay, Construct
    <2>3. QED
      BY <2>1, <2>2
  <1>4. InForce'
        BY DEF HostInv, InForce, Construct, workVars, restVars
  <1>5. Dropped'
    <2>1. CASE ConstructionRaises
      BY <2>1 DEF HostInv, Dropped, Flushed, Construct, restVars
    <2>2. CASE ~ ConstructionRaises
      <3>1. given.platform = "test" =>
              /\ delegate'.intf = {} /\ delegate'.rulecmds = {} /\ delegate'.adding = {}
        <4> SUFFICES ASSUME given.platform = "test"
                     PROVE  delegate'.intf = {} /\ delegate'.rulecmds = {} /\ delegate'.adding = {}
          OBVIOUS
        <4>1. Interfaces = {} /\ AllDrops(Rules, Interfaces) = {}
          BY DEF Interfaces, AllDrops, Parse
        <4>2. delegate' = [delegate EXCEPT !.intf = {}, !.rulecmds = {}, !.arpignore = Quiet]
          BY <2>2, <4>1 DEF Construct
        <4>3. QED
          BY <4>2 DEF HostInv, HostShape, DelegateType, Dropped
      <3>2. QED
        BY <2>2, <3>1 DEF HostInv, Dropped, Flushed, Construct, restVars
    <2>3. QED
      BY <2>1, <2>2
  <1>6. Settings'
    <2>1. CASE ConstructionRaises
      BY <2>1 DEF HostInv, Settings, Construct, restVars
    <2>2. CASE ~ ConstructionRaises
      <3>1. delegate'.arpignore = Quiet /\ main' = "constructing" /\ given' = given /\ host' = host
        BY <2>2 DEF HostInv, HostShape, DelegateType, Construct, restVars
      <3>2. Quiet' = Quiet
        BY <3>1 DEF Quiet, Interfaces, Rules
      <3>3. QED
        BY <3>1, <3>2 DEF HostInv, Settings, Construct
    <2>3. QED
      BY <2>1, <2>2
  <1>7. Everywhere'
    <2>1. CASE ConstructionRaises
      BY <2>1 DEF HostInv, Everywhere, Construct, restVars
    <2>2. CASE ~ ConstructionRaises
      <3>1. ASSUME given.app, given.platform # "test"
            PROVE  delegate'.intf = given.devices
        <4>1. delegate'.intf = Interfaces \ (IF Contains(Rules, "all") THEN Unknown ELSE {})
          BY <2>2 DEF HostInv, HostShape, DelegateType, Construct
        <4>2. QED
          BY <3>1, <4>1, NoRules DEF Interfaces
      <3>2. QED
        BY <2>2, <3>1 DEF HostInv, Everywhere, Construct, restVars
    <2>3. QED
      BY <2>1, <2>2
  <1>8. Served'
        BY DEF HostInv, Served, Construct, workVars, restVars
  <1>9. Admits'
        BY DEF HostInv, Admits, Construct, workVars, restVars
  <1>10. QED
    BY <1>1, <1>2, <1>3, <1>4, <1>5, <1>6, <1>7, <1>8, <1>9 DEF HostInv

\* What a command of the main thread is, and what it makes of the host
LEMMA CommandsRun ==
  ASSUME HostInv, NEW c \in todo
  PROVE  \/ /\ main = "constructing" /\ given.platform = "linux"
            /\ \E d \in Quiet : After(c) = [host EXCEPT !.arp = @ \cup {d}]
         \/ /\ main = "constructing" /\ given.platform = "darwin"
            /\ After(c) = [host EXCEPT !.pf = TRUE]
         \/ /\ main \in {"flushing", "clearing"} /\ given.platform = "linux"
            /\ c.cmd = "-F" /\ After(c) = [host EXCEPT !.own = FALSE]
         \/ /\ main \in {"flushing", "clearing"} /\ given.platform = "linux"
            /\ After(c) = [host EXCEPT !.own = FALSE, !.drops = {}]
         \/ /\ main = "blocking" /\ given.platform # "test"
            /\ \E x \in SUBSET delegate.rulecmds :
                 \/ After(c) = [host EXCEPT !.drops = @ \cup x]
                 \/ After(c) = [host EXCEPT !.drops = x]
         \/ /\ main = "clearing" /\ given.platform = "darwin"
            /\ After(c) = [host EXCEPT !.drops = {}]
         \/ /\ main = "restoring" /\ given.platform = "linux"
            /\ todo = {c} /\ \E x \in {{}, host.drops} :
                 After(c) = [host EXCEPT !.own = @ \/ given.saves, !.drops = x]
         \/ /\ main = "resetting" /\ given.platform = "linux"
            /\ \E d \in delegate.arpignore : /\ c = [cmd |-> "arp_ignore", on |-> {d}]
                                            /\ After(c) = [host EXCEPT !.arp = @ \ {d}]
         \/ /\ main = "resetting" /\ given.platform = "darwin"
            /\ After(c) = [host EXCEPT !.pf = FALSE]
  <1>1. c \in Commands(main)
    BY DEF HostInv, OnItsWay
  <1>2. CASE given.platform = "linux"
    <2>1. CASE main = "constructing"
      <3>1. PICK d \in Quiet : c = [cmd |-> "arp_ignore=8", on |-> {d}]
        BY <1>1, <1>2, <2>1 DEF Commands, LinuxCommands
      <3>2. QED
        BY <1>2, <2>1, <3>1 DEF After
    <2>2. CASE main \in {"flushing", "clearing"}
      <3>1. c \in {[cmd |-> "-F", on |-> {}], [cmd |-> "-t raw -F", on |-> {}]}
        BY <1>1, <1>2, <2>2 DEF Commands, LinuxCommands, Command
      <3>2. CASE c.cmd = "-F"
        BY <1>2, <2>2, <3>2 DEF After
      <3>3. CASE c.cmd = "-t raw -F"
        BY <1>2, <2>2, <3>3 DEF After
      <3>4. c.cmd = "-F" \/ c.cmd = "-t raw -F"
        <4>1. c = [cmd |-> "-F", on |-> {}] \/ c = [cmd |-> "-t raw -F", on |-> {}]
          BY <3>1
        <4>2. CASE c = [cmd |-> "-F", on |-> {}]
          BY <4>2
        <4>3. CASE c = [cmd |-> "-t raw -F", on |-> {}]
          BY <4>3
        <4>4. QED
          BY <4>1, <4>2, <4>3
      <3>5. QED
        BY <3>2, <3>3, <3>4
    <2>3. CASE main = "blocking"
      <3>1. PICK x \in delegate.rulecmds : c = [cmd |-> "-A", on |-> {x}]
        BY <1>1, <1>2, <2>3 DEF Commands, LinuxCommands
      <3>2. {x} \in SUBSET delegate.rulecmds /\ After(c) = [host EXCEPT !.drops = @ \cup {x}]
        BY <3>1 DEF After
      <3>3. QED
        BY <1>2, <2>3, <3>2
    <2>4. CASE main = "restoring"
      <3>1. todo \subseteq {[cmd |-> "iptables-restore", on |-> {}]}
        BY <1>2, <2>4 DEF HostInv, OnItsWay, Commands, LinuxCommands, Command
      <3>2. todo = {c} /\ c.cmd = "iptables-restore"
        BY <3>1
      <3>3. After(c) = [host EXCEPT !.own = @ \/ given.saves,
                                    !.drops = IF given.saves /\ given.raw THEN {} ELSE @]
        BY <3>2 DEF After
      <3>4. QED
        BY <1>2, <2>4, <3>2, <3>3
    <2>5. CASE main = "resetting"
      <3>1. PICK d \in delegate.arpignore : c = [cmd |-> "arp_ignore", on |-> {d}]
        BY <1>1, <1>2, <2>5 DEF Commands, LinuxCommands
      <3>2. QED
        BY <1>2, <2>5, <3>1 DEF After
    <2>6. QED
      BY <1>1, <1>2, <2>1, <2>2, <2>3, <2>4, <2>5 DEF Commands, LinuxCommands
  <1>3. CASE given.platform = "darwin"
    <2>1. CASE main = "constructing"
      <3>0. c = [cmd |-> "pfctl -E", on |-> {}]
        BY <1>1, <1>3, <2>1 DEF Commands, MacCommands, Command
      <3>1. c.cmd = "pfctl -E"
        BY <3>0
      <3>2. QED
        BY <1>3, <2>1, <3>1 DEF After
    <2>2. CASE main = "blocking"
      <3>0. c = [cmd |-> "pfctl -f", on |-> delegate.rulecmds]
        BY <1>1, <1>3, <2>2 DEF Commands, MacCommands, Command
      <3>1. c.cmd = "pfctl -f" /\ c.on = delegate.rulecmds
        BY <3>0
      <3>2. After(c) = [host EXCEPT !.drops = delegate.rulecmds]
        BY <3>1 DEF After
      <3>3. QED
        BY <1>3, <2>2, <3>2
    <2>3. CASE main = "clearing"
      <3>0. c = [cmd |-> "pfctl -Fr", on |-> {}]
        BY <1>1, <1>3, <2>3 DEF Commands, MacCommands, Command
      <3>1. c.cmd = "pfctl -Fr"
        BY <3>0
      <3>2. QED
        BY <1>3, <2>3, <3>1 DEF After
    <2>4. CASE main = "resetting"
      <3>0. c = [cmd |-> "pfctl -X", on |-> {}]
        BY <1>1, <1>3, <2>4 DEF Commands, MacCommands, Command
      <3>1. c.cmd = "pfctl -X"
        BY <3>0
      <3>2. QED
        BY <1>3, <2>4, <3>1 DEF After
    <2>5. QED
      BY <1>1, <1>3, <2>1, <2>2, <2>3, <2>4 DEF Commands, MacCommands
  <1>4. QED
    BY <1>1, <1>2, <1>3 DEF Commands, LinuxCommands, MacCommands

\* A command leaves the host a host, and changes of it what its part may.
LEMMA CommandsChange ==
  ASSUME HostInv, NEW c \in todo, NEW h, h = After(c)
  PROVE  /\ h \in HostType
         /\ h.own = host.own \/ main \in {"flushing", "clearing", "restoring"}
         /\ given.platform # "linux" => h.own = host.own
         /\ main = "restoring" /\ given.saves => h.own
         /\ h.drops \in {host.drops, {}} \/ main = "blocking"
         /\ given.platform = "test" => h = host
         /\ h.arp \subseteq delegate.arpignore
         /\ h.arp # {} => given.platform = "linux"
         /\ h.pf => given.platform = "darwin"
  <1>1. host \in HostType /\ delegate \in DelegateType /\ Quiet \subseteq Devices
    BY DEF HostInv, HostShape, CommandLine, Quiet, Interfaces
  <1>2. /\ host.arp \subseteq delegate.arpignore /\ delegate.rulecmds \subseteq Drop
        /\ main = "constructing" => delegate.arpignore = Quiet
        /\ host.arp # {} => given.platform = "linux"
        /\ host.pf => given.platform = "darwin"
    BY <1>1 DEF HostInv, Settings, DelegateType
  <1> DEFINE Changes ==
        /\ h = [own |-> h.own, drops |-> h.drops, arp |-> h.arp, pf |-> h.pf]
        /\ \/ /\ main = "constructing" /\ given.platform = "linux"
              /\ \E d \in Quiet : h.arp = host.arp \cup {d}
              /\ h.own = host.own /\ h.drops = host.drops /\ h.pf = host.pf
           \/ /\ main = "constructing" /\ given.platform = "darwin"
              /\ h.own = host.own /\ h.drops = host.drops /\ h.arp = host.arp /\ h.pf
           \/ /\ main \in {"flushing", "clearing", "restoring"} /\ given.platform = "linux"
              /\ h.arp = host.arp /\ h.pf = host.pf
              /\ main = "restoring" => h.own = (host.own \/ given.saves)
              /\ h.own \in BOOLEAN /\ h.drops \in {host.drops, {}}
           \/ /\ main = "blocking" /\ given.platform # "test"
              /\ h.own = host.own /\ h.arp = host.arp /\ h.pf = host.pf
              /\ h.drops \subseteq host.drops \cup delegate.rulecmds
           \/ /\ main = "clearing" /\ given.platform = "darwin"
              /\ h.own = host.own /\ h.drops = {} /\ h.arp = host.arp /\ h.pf = host.pf
           \/ /\ main = "resetting" /\ given.platform # "test"
              /\ h.own = host.own /\ h.drops = host.drops
              /\ h.arp \subseteq host.arp /\ h.pf \in {host.pf, FALSE}
  <1>3. Changes
    <2>1. CASE main = "constructing" /\ \E d \in Quiet : h = [host EXCEPT !.arp = @ \cup {d}]
               /\ given.platform = "linux"
      <3>1. PICK d \in Quiet : h = [host EXCEPT !.arp = host.arp \cup {d}]
        BY <2>1
      <3> QED
        BY <1>1, <2>1, <3>1 DEF HostType
    <2>2. CASE main = "constructing" /\ given.platform = "darwin"
               /\ h = [host EXCEPT !.pf = TRUE]
      BY <1>1, <2>2 DEF HostType
    <2>3. CASE main \in {"flushing", "clearing"} /\ given.platform = "linux"
               /\ \E x \in {{}, host.drops} : h = [host EXCEPT !.own = FALSE, !.drops = x]
      <3>1. PICK x \in {{}, host.drops} : h = [host EXCEPT !.own = FALSE, !.drops = x]
        BY <2>3
      <3> QED
        BY <1>1, <2>3, <3>1 DEF HostType
    <2>4. CASE main = "blocking" /\ given.platform # "test"
               /\ \E x \in SUBSET (host.drops \cup delegate.rulecmds) :
                    h = [host EXCEPT !.drops = x]
      <3>1. PICK x \in SUBSET (host.drops \cup delegate.rulecmds) : h = [host EXCEPT !.drops = x]
        BY <2>4
      <3> QED
        BY <1>1, <2>4, <3>1 DEF HostType
    <2>5. CASE main = "clearing" /\ given.platform = "darwin"
               /\ h = [host EXCEPT !.drops = {}]
      BY <1>1, <2>5 DEF HostType
    <2>6. CASE main = "restoring" /\ given.platform = "linux"
               /\ \E x \in {{}, host.drops} :
                    h = [host EXCEPT !.own = @ \/ given.saves, !.drops = x]
      <3>1. PICK x \in {{}, host.drops} :
              h = [host EXCEPT !.own = host.own \/ given.saves, !.drops = x]
        BY <2>6
      <3>2. h.own = (host.own \/ given.saves)
        BY <1>1, <3>1 DEF HostType
      <3>3. (host.own \/ given.saves) \in BOOLEAN
        OBVIOUS
      <3> QED
        BY <1>1, <2>6, <3>1, <3>2, <3>3 DEF HostType
    <2>7. CASE main = "resetting" /\ given.platform = "linux"
               /\ \E x \in SUBSET host.arp : h = [host EXCEPT !.arp = x]
      <3>1. PICK x \in SUBSET host.arp : h = [host EXCEPT !.arp = x]
        BY <2>7
      <3> QED
        BY <1>1, <2>7, <3>1 DEF HostType
    <2>8. CASE main = "resetting" /\ given.platform = "darwin"
               /\ h = [host EXCEPT !.pf = FALSE]
      BY <1>1, <2>8 DEF HostType
    <2>9. [host EXCEPT !.own = FALSE] = [host EXCEPT !.own = FALSE, !.drops = host.drops]
      BY <1>1 DEF HostType
    <2>10. h = [host EXCEPT !.own = FALSE] \/ h = [host EXCEPT !.own = FALSE, !.drops = {}]
             => \E x \in {{}, host.drops} : h = [host EXCEPT !.own = FALSE, !.drops = x]
      BY <2>9
    <2>11. ASSUME NEW x \in SUBSET delegate.rulecmds,
                  \/ h = [host EXCEPT !.drops = @ \cup x]
                  \/ h = [host EXCEPT !.drops = x]
           PROVE  \E y \in SUBSET (host.drops \cup delegate.rulecmds) :
                    h = [host EXCEPT !.drops = y]
      <3>1. x \in SUBSET (host.drops \cup delegate.rulecmds)
            /\ host.drops \cup x \in SUBSET (host.drops \cup delegate.rulecmds)
        OBVIOUS
      <3> QED
        BY <2>11, <3>1
    <2>12. ASSUME NEW d, h = [host EXCEPT !.arp = @ \ {d}]
           PROVE  \E x \in SUBSET host.arp : h = [host EXCEPT !.arp = x]
      <3>1. host.arp \ {d} \in SUBSET host.arp
        OBVIOUS
      <3> QED
        BY <2>12, <3>1
    <2> HIDE DEF Changes
    <2> QED
      BY <2>1, <2>2, <2>3, <2>4, <2>5, <2>6, <2>7, <2>8, <2>10, <2>11, <2>12, CommandsRun
  <1>4. QED
    BY <1>1, <1>2, <1>3 DEF HostType

LEMMA FollowingParts ==
  /\ DOMAIN Following = {"constructing", "flushing", "blocking", "over", "clearing", "restoring",
                         "resetting"}
  /\ Following["constructing"] = "flushing" /\ Following["flushing"] = "blocking"
  /\ Following["blocking"] = "blocked" /\ Following["over"] = "clearing"
  /\ Following["clearing"] = "restoring" /\ Following["restoring"] = "resetting"
  /\ Following["resetting"] = "exited"
  BY DEF Following

LEMMA RunCommandInv ==
  ASSUME HostInv, RunCommand
  PROVE  HostInv'
  <1> PICK c \in todo : host' = After(c) /\ todo' = todo \ {c}
    BY DEF RunCommand, Ready
  <1>0. /\ UNCHANGED <<given, delegate, main, cut, app, setup_ok, filter, sockets, late>>
        /\ main \in {"constructing", "flushing", "blocking", "clearing", "restoring", "resetting"}
    BY CommandsRun DEF RunCommand, Ready, restVars
  <1>1. HostShape'
    BY <1>0, CommandsChange DEF HostInv, HostShape
  <1>2. Begins'
    BY <1>0 DEF HostInv, Begins
  <1>3. OnItsWay'
    <2>1. Commands(main)' = Commands(main)
      BY <1>0 DEF Commands, LinuxCommands, MacCommands, Quiet, Interfaces, Rules
    <2>2. QED
      BY <1>0, <2>1 DEF HostInv, OnItsWay
  <1>4. InForce'
    <2>1. /\ host'.own = host.own \/ main \in {"flushing", "clearing", "restoring"}
          /\ given.platform # "linux" => host'.own = host.own
          /\ main = "restoring" /\ given.saves => host'.own
      BY CommandsChange
    <2>2. QED
      BY <1>0, <2>1 DEF HostInv, InForce
  <1>5. Dropped'
    <2>1. /\ host'.drops \in {host.drops, {}} \/ main = "blocking"
          /\ given.platform = "test" => host' = host
      BY CommandsChange
    <2>2. main = "clearing" /\ Flushed' /\ ~ Flushed => host'.drops = {}
      <3> SUFFICES ASSUME main = "clearing", Flushed', ~ Flushed PROVE host'.drops = {}
        OBVIOUS
      <3>1. c.cmd # "-F"
        BY <1>0 DEF Flushed
      <3>2. host \in HostType
        BY DEF HostInv, HostShape
      <3>3. QED
        BY <3>1, <3>2, CommandsRun DEF HostType
    <2>3. Flushed => main \in {"clearing", "restoring", "resetting"}
      BY <1>0 DEF Flushed
    <2>4. Flushed' => main \in {"clearing", "restoring", "resetting"}
      BY <1>0 DEF Flushed
    <2>5. main # "clearing" /\ Flushed' => Flushed
      BY <1>0 DEF Flushed
    <2>6. QED
      BY <1>0, <2>1, <2>2, <2>3, <2>4, <2>5 DEF HostInv, Dropped
  <1>6. Settings'
    <2>1. Quiet' = Quiet
      BY <1>0 DEF Quiet, Interfaces, Rules
    <2>2. /\ host'.arp \subseteq delegate.arpignore
          /\ host'.arp # {} => given.platform = "linux"
          /\ host'.pf => given.platform = "darwin"
      BY CommandsChange
    <2>3. ASSUME main = "resetting"
          PROVE  /\ \A d \in host'.arp : [cmd |-> "arp_ignore", on |-> {d}] \in todo'
                 /\ host'.pf => [cmd |-> "pfctl -X", on |-> {}] \in todo'
      <3>1. /\ \A d \in host.arp : [cmd |-> "arp_ignore", on |-> {d}] \in todo
            /\ host \in HostType
        BY <2>3 DEF HostInv, Settings, HostShape
      <3>2. CASE given.platform = "linux"
        <4>1. PICK d \in delegate.arpignore : /\ c = [cmd |-> "arp_ignore", on |-> {d}]
                                              /\ host' = [host EXCEPT !.arp = @ \ {d}]
          BY <2>3, <3>2, CommandsRun
        <4>2. \A e \in host'.arp : e # d /\ e \in host.arp
          BY <3>1, <4>1 DEF HostType
        <4>3. \A e \in host'.arp : [cmd |-> "arp_ignore", on |-> {e}].on # c.on
          BY <4>1, <4>2
        <4>4. QED
          BY <2>2, <3>1, <3>2, <4>2, <4>3
      <3>3. CASE given.platform # "linux"
        <4>1. host' = [host EXCEPT !.pf = FALSE]
          BY <2>3, <3>3, CommandsRun
        <4>2. QED
          BY <2>2, <3>1, <3>3, <4>1 DEF HostType
      <3>4. QED
        BY <3>2, <3>3
    <2>4. QED
      BY <1>0, <2>1, <2>2, <2>3 DEF HostInv, Settings
  <1>7. Everywhere'
    BY <1>0 DEF HostInv, Everywhere
  <1>8. Served'
    BY <1>0 DEF HostInv, Served
  <1>9. Admits'
    BY <1>0 DEF HostInv, Admits
  <1>10. QED
    BY <1>1, <1>2, <1>3, <1>4, <1>5, <1>6, <1>7, <1>8, <1>9 DEF HostInv

LEMMA ProceedInv ==
  ASSUME HostInv, Proceed
  PROVE  HostInv'
  <1>0. /\ main \in {"constructing", "flushing", "blocking", "over", "clearing", "restoring",
                    "resetting"}
        /\ main = "constructing" => main' = "flushing"
        /\ main = "flushing" => main' = "blocking"
        /\ main = "blocking" => main' = "blocked"
        /\ main = "over" => main' = "clearing"
        /\ main = "clearing" => main' = "restoring"
        /\ main = "restoring" => main' = "resetting"
        /\ main = "resetting" => main' = "exited"
        /\ todo = {} /\ todo' = Commands(main')
        /\ UNCHANGED <<given, host, delegate, cut, app, filter, sockets, late>>
        /\ setup_ok' \in BOOLEAN /\ (main' # "blocked" => setup_ok' = setup_ok)
    BY FollowingParts DEF Proceed, restVars, HostInv, HostShape
  <1>1. HostShape'
    BY <1>0 DEF HostInv, HostShape
  <1>2. Begins'
    BY <1>0 DEF HostInv, Begins
  <1>3. OnItsWay'
    <2>1. Commands(main)' = Commands(main')
      BY <1>0 DEF Commands, LinuxCommands, MacCommands, Quiet, Interfaces, Rules
    <2>2. QED
      BY <1>0, <2>1 DEF HostInv, OnItsWay
  <1>4. InForce'
    <2>1. ASSUME main = "over" \/ main = "clearing" PROVE InForce'
      BY <1>0, <2>1 DEF HostInv, InForce, Commands, LinuxCommands, MacCommands, Command
    <2>2. CASE main = "clearing"
      <3>1. given.platform = "linux" => todo' # {}
        BY <1>0, <2>2 DEF Commands, LinuxCommands, MacCommands, Command
      <3>2. QED
        BY <1>0, <2>2, <3>1 DEF HostInv, InForce
    <2>3. CASE main # "clearing"
      BY <1>0, <2>3 DEF HostInv, InForce, OnItsWay
    <2>4. QED
      BY <2>2, <2>3
  <1>5. Dropped'
    <2>1. CASE main = "over"
      <3>1. given.platform \in {"linux", "darwin"} => ~ Flushed'
        <4>1. given.platform = "linux" => [cmd |-> "-t raw -F", on |-> {}] \in todo'
          BY <1>0, <2>1 DEF Commands, LinuxCommands, MacCommands, Command
        <4>2. given.platform = "darwin" => [cmd |-> "pfctl -Fr", on |-> {}] \in todo'
          BY <1>0, <2>1 DEF Commands, LinuxCommands, MacCommands, Command
        <4>3. main' = "clearing"
          BY <1>0, <2>1
        <4>4. QED
          BY <4>1, <4>2, <4>3 DEF Flushed
      <3>2. given.platform \in {"linux", "darwin", "test"}
        BY DEF HostInv, HostShape, CommandLine
      <3>3. QED
        BY <1>0, <2>1, <3>1, <3>2 DEF HostInv, Dropped
    <2>2. CASE main \in {"clearing", "restoring", "resetting"}
      <3>1. Flushed
        BY <1>0, <2>2 DEF Flushed
      <3>2. QED
        BY <1>0, <2>2, <3>1 DEF HostInv, Dropped
    <2>3. CASE main \in {"constructing", "flushing", "blocking"}
      BY <1>0, <2>3 DEF HostInv, Dropped, Flushed
    <2>4. QED
      BY <1>0, <2>1, <2>2, <2>3
  <1>6. Settings'
    <2>1. CASE main = "restoring"
      <3>1. /\ given.platform = "linux" =>
                 \A d \in delegate.arpignore : [cmd |-> "arp_ignore", on |-> {d}] \in todo'
            /\ given.platform = "darwin" => [cmd |-> "pfctl -X", on |-> {}] \in todo'
        BY <1>0, <2>1 DEF Commands, LinuxCommands, MacCommands, Command
      <3>2. QED
        BY <1>0, <2>1, <3>1 DEF HostInv, Settings
    <2>2. CASE main # "restoring"
      BY <1>0, <2>2 DEF HostInv, Settings
    <2>3. QED
      BY <2>1, <2>2
  <1>7. Everywhere'
    BY <1>0 DEF HostInv, Everywhere
  <1>8. Served'
    BY <1>0 DEF HostInv, Served
  <1>9. Admits'
    BY <1>0 DEF HostInv, Admits
  <1>10. QED
    BY <1>1, <1>2, <1>3, <1>4, <1>5, <1>6, <1>7, <1>8, <1>9 DEF HostInv

LEMMA CutShortInv ==
  ASSUME HostInv, CutShort
  PROVE  HostInv'
  <1>0. /\ main \in {"constructing", "flushing", "blocking", "clearing", "restoring", "resetting"}
        /\ main' = "exited" /\ todo' = {} /\ cut' = main
        /\ UNCHANGED <<given, delegate, app, setup_ok, filter, sockets, late>>
    BY FollowingParts DEF CutShort, Ready, restVars
  <1>1. /\ host' \in HostType
        /\ host'.own = host.own \/ main \in {"flushing", "clearing", "restoring"}
        /\ given.platform # "linux" => host'.own = host.own
        /\ host'.drops \in {host.drops, {}} \/ main = "blocking"
        /\ given.platform = "test" => host' = host
        /\ host'.arp \subseteq delegate.arpignore
        /\ host'.arp # {} => given.platform = "linux"
        /\ host'.pf => given.platform = "darwin"
    <2>1. CASE host' = host
      BY <2>1 DEF HostInv, HostShape, Settings
    <2>2. CASE host' # host
      <3>1. PICK c \in todo : host' = After(c)
        BY <2>2 DEF CutShort, Ready
      <3>2. QED
        BY <3>1, CommandsChange
    <2>3. QED
      BY <2>1, <2>2
  <1>2. HostShape' /\ Begins'
    BY <1>0, <1>1 DEF HostInv, HostShape, Begins
  <1>3. OnItsWay'
    BY <1>0 DEF OnItsWay
  <1>4. InForce'
    BY <1>0, <1>1 DEF HostInv, InForce
  <1>5. Dropped'
    <2>1. main \in {"restoring", "resetting"} => host.drops \subseteq late
      BY DEF HostInv, Dropped, Flushed
    <2>2. main \in {"constructing", "flushing"} => host.drops = {}
      BY DEF HostInv, Dropped
    <2>3. QED
      BY <1>0, <1>1, <2>1, <2>2 DEF HostInv, Dropped
  <1>6. Settings'
    BY <1>0, <1>1 DEF HostInv, Settings
  <1>7. Everywhere'
    BY <1>0 DEF HostInv, Everywhere
  <1>8. Served'
    BY <1>0 DEF HostInv, Served
  <1>9. Admits'
    BY <1>0 DEF HostInv, Admits
  <1>10. QED
    BY <1>2, <1>3, <1>4, <1>5, <1>6, <1>7, <1>8, <1>9 DEF HostInv

LEMMA PassBarrierInv ==
  ASSUME HostInv, PassBarrier
  PROVE  HostInv'
  <1>1. HostShape'
        BY DEF HostInv, HostShape, PassBarrier, Meet, AppReleased, workVars, restVars
  <1>2. Begins'
        BY DEF HostInv, Begins, PassBarrier, Meet, AppReleased, workVars, restVars
  <1>3. OnItsWay'
        BY DEF HostInv, OnItsWay, Commands, LinuxCommands, MacCommands, Quiet, Interfaces,
           Rules, restVars, PassBarrier,
       Meet, AppReleased, workVars
  <1>4. InForce'
        BY DEF HostInv, InForce, PassBarrier, Meet, AppReleased, workVars, restVars
  <1>5. Dropped'
        BY DEF HostInv, Dropped, Flushed, PassBarrier, Meet, AppReleased, workVars, restVars
  <1>6. Settings'
        BY DEF HostInv, Settings, Quiet, Interfaces, Rules, PassBarrier, Meet, AppReleased,
       workVars, restVars
  <1>7. Everywhere'
        BY DEF HostInv, Everywhere, PassBarrier, Meet, AppReleased, workVars, restVars
  <1>8. Served'
        BY DEF HostInv, Served, PassBarrier, Meet, AppReleased, workVars, restVars, Begins
  <1>9. Admits'
        BY DEF HostInv, Admits, PassBarrier, Meet, AppReleased, workVars, restVars, Begins
  <1>10. QED
    BY <1>1, <1>2, <1>3, <1>4, <1>5, <1>6, <1>7, <1>8, <1>9 DEF HostInv

LEMMA OpenDeviceInv ==
  ASSUME HostInv, NEW d \in Devices, OpenDevice(d)
  PROVE  HostInv'
  <1>1. HostShape'
        BY DEF HostInv, HostShape, OpenDevice, workVars, restVars
  <1>2. Begins'
        BY DEF HostInv, Begins, OpenDevice, workVars, restVars
  <1>3. OnItsWay'
        BY DEF HostInv, OnItsWay, Commands, LinuxCommands, MacCommands, Quiet, Interfaces,
           Rules, restVars, OpenDevice,
       workVars
  <1>4. InForce'
        BY DEF HostInv, InForce, OpenDevice, workVars, restVars
  <1>5. Dropped'
        BY DEF HostInv, Dropped, Flushed, OpenDevice, workVars, restVars
  <1>6. Settings'
        BY DEF HostInv, Settings, Quiet, Interfaces, Rules, OpenDevice, workVars, restVars
  <1>7. Everywhere'
        BY DEF HostInv, Everywhere, OpenDevice, workVars, restVars
  <1>8. Served'
        BY DEF HostInv, Served, OpenDevice, workVars, restVars
  <1>9. Admits'
        BY DEF HostInv, Admits, OpenDevice, workVars, restVars
  <1>10. QED
    BY <1>1, <1>2, <1>3, <1>4, <1>5, <1>6, <1>7, <1>8, <1>9 DEF HostInv

LEMMA OpenFailsInv ==
  ASSUME HostInv, OpenFails
  PROVE  HostInv'
  <1>1. HostShape'
        BY DEF HostInv, HostShape, OpenFails, workVars, restVars
  <1>2. Begins'
        BY DEF HostInv, Begins, OpenFails, workVars, restVars
  <1>3. OnItsWay'
        BY DEF HostInv, OnItsWay, Commands, LinuxCommands, MacCommands, Quiet, Interfaces,
           Rules, restVars, OpenFails,
       workVars
  <1>4. InForce'
        BY DEF HostInv, InForce, OpenFails, workVars, restVars
  <1>5. Dropped'
        BY DEF HostInv, Dropped, Flushed, OpenFails, workVars, restVars
  <1>6. Settings'
        BY DEF HostInv, Settings, Quiet, Interfaces, Rules, OpenFails, workVars, restVars
  <1>7. Everywhere'
        BY DEF HostInv, Everywhere, OpenFails, workVars, restVars
  <1>8. Served'
        BY DEF HostInv, Served, OpenFails, workVars, restVars
  <1>9. Admits'
        BY DEF HostInv, Admits, OpenFails, workVars, restVars
  <1>10. QED
    BY <1>1, <1>2, <1>3, <1>4, <1>5, <1>6, <1>7, <1>8, <1>9 DEF HostInv

LEMMA AssignNetobjInv ==
  ASSUME HostInv, AssignNetobj
  PROVE  HostInv'
  <1>1. HostShape'
        BY DEF HostInv, HostShape, AssignNetobj, workVars, restVars
  <1>2. Begins'
        BY DEF HostInv, Begins, AssignNetobj, workVars, restVars
  <1>3. OnItsWay'
        BY DEF HostInv, OnItsWay, Commands, LinuxCommands, MacCommands, Quiet, Interfaces,
           Rules, restVars,
       AssignNetobj, workVars
  <1>4. InForce'
        BY DEF HostInv, InForce, AssignNetobj, workVars, restVars
  <1>5. Dropped'
        BY DEF HostInv, Dropped, Flushed, AssignNetobj, workVars, restVars
  <1>6. Settings'
        BY DEF HostInv, Settings, Quiet, Interfaces, Rules, AssignNetobj, workVars, restVars
  <1>7. Everywhere'
        BY DEF HostInv, Everywhere, AssignNetobj, workVars, restVars
  <1>8. Served'
        BY DEF HostInv, Served, AssignNetobj, workVars, restVars
  <1>9. Admits'
        BY DEF HostInv, Admits, AssignNetobj, workVars, restVars
  <1>10. QED
    BY <1>1, <1>2, <1>3, <1>4, <1>5, <1>6, <1>7, <1>8, <1>9 DEF HostInv

LEMMA UserEndsInv ==
  ASSUME HostInv, UserEnds
  PROVE  HostInv'
  <1>1. HostShape'
        BY DEF HostInv, HostShape, UserEnds, workVars, restVars
  <1>2. Begins'
        BY DEF HostInv, Begins, UserEnds, workVars, restVars
  <1>3. OnItsWay'
        BY DEF HostInv, OnItsWay, Commands, LinuxCommands, MacCommands, Quiet, Interfaces,
           Rules, restVars, UserEnds,
       workVars
  <1>4. InForce'
        BY DEF HostInv, InForce, UserEnds, workVars, restVars
  <1>5. Dropped'
        BY DEF HostInv, Dropped, Flushed, UserEnds, workVars, restVars
  <1>6. Settings'
        BY DEF HostInv, Settings, Quiet, Interfaces, Rules, UserEnds, workVars, restVars
  <1>7. Everywhere'
        BY DEF HostInv, Everywhere, UserEnds, workVars, restVars
  <1>8. Served'
        BY DEF HostInv, Served, UserEnds, workVars, restVars
  <1>9. Admits'
        BY DEF HostInv, Admits, UserEnds, workVars, restVars
  <1>10. QED
    BY <1>1, <1>2, <1>3, <1>4, <1>5, <1>6, <1>7, <1>8, <1>9 DEF HostInv

LEMMA UserRaisesInv ==
  ASSUME HostInv, UserRaises
  PROVE  HostInv'
  <1>1. HostShape'
        BY DEF HostInv, HostShape, UserRaises, workVars, restVars
  <1>2. Begins'
        BY DEF HostInv, Begins, UserRaises, workVars, restVars
  <1>3. OnItsWay'
        BY DEF HostInv, OnItsWay, Commands, LinuxCommands, MacCommands, Quiet, Interfaces,
           Rules, restVars, UserRaises,
       workVars
  <1>4. InForce'
        BY DEF HostInv, InForce, UserRaises, workVars, restVars
  <1>5. Dropped'
        BY DEF HostInv, Dropped, Flushed, UserRaises, workVars, restVars
  <1>6. Settings'
        BY DEF HostInv, Settings, Quiet, Interfaces, Rules, UserRaises, workVars, restVars
  <1>7. Everywhere'
        BY DEF HostInv, Everywhere, UserRaises, workVars, restVars
  <1>8. Served'
        BY DEF HostInv, Served, UserRaises, workVars, restVars
  <1>9. Admits'
        BY DEF HostInv, Admits, UserRaises, workVars, restVars
  <1>10. QED
    BY <1>1, <1>2, <1>3, <1>4, <1>5, <1>6, <1>7, <1>8, <1>9 DEF HostInv

LEMMA AddRuleInv ==
  ASSUME HostInv, NEW p \in Ports, AddRule(p)
  PROVE  HostInv'
  <1>1. HostShape'
    <2>1. delegate' \in DelegateType
      BY PortDrops DEF HostInv, HostShape, DelegateType, AddRule
    <2>2. QED
      BY <2>1 DEF HostInv, HostShape, AddRule, workVars
  <1>2. Begins'
    <2>1. sockets' # << >>
      BY LastAppended DEF HostInv, AddRule
    <2>2. QED
      BY <2>1 DEF HostInv, Begins, AddRule
  <1>3. OnItsWay'
        BY DEF HostInv, OnItsWay, Commands, LinuxCommands, MacCommands, Quiet, Interfaces,
           Rules, restVars, AddRule,
       workVars, HostShape, DelegateType
  <1>4. InForce'
        BY DEF HostInv, InForce, AddRule, workVars, restVars
  <1>5. Dropped'
        BY DEF HostInv, Dropped, Flushed, AddRule, workVars, restVars, HostShape,
       DelegateType, Parse
  <1>6. Settings'
        BY DEF HostInv, Settings, Quiet, Interfaces, Rules, AddRule, workVars, restVars,
       HostShape, DelegateType
  <1>7. Everywhere'
        BY DEF HostInv, Everywhere, AddRule, workVars, restVars, HostShape, DelegateType
  <1>8. Served'
    <2> SUFFICES ASSUME main \in {"opening", "running"}
                 PROVE  Served'
      BY DEF AddRule, Served
    <2>1. delegate'.adding = given.devices \X {p} /\ app' = "adding" /\ host' = host
      <3>1. delegate.intf = given.devices
        BY DEF HostInv, Everywhere, AddRule
      <3>2. QED
        BY <3>1, PortDrops DEF HostInv, HostShape, CommandLine, DelegateType, AddRule, workVars
    <2>2. Last(sockets') = p /\ ToSet(sockets') = ToSet(sockets) \cup {p}
      BY LastAppended DEF HostInv, HostShape, AddRule
    <2>3. given.platform = "linux" =>
            \A q \in ToSet(sockets) : given.devices \X {q} \subseteq host.drops
      <3>1. CASE sockets = << >>
        BY <3>1 DEF ToSet
      <3>2. CASE sockets # << >>
        BY <3>2 DEF HostInv, Served, AddRule
      <3>3. QED
        BY <3>1, <3>2
    <2>4. given.platform = "darwin" /\ delegate'.adding = {}
            => given.devices \X {Last(sockets')} \subseteq host.drops
      BY <2>1, <2>2
    <2>5. QED
      BY <2>1, <2>2, <2>3, <2>4 DEF Served, AddRule
  <1>9. Admits'
        BY DEF HostInv, Admits, AddRule, workVars, restVars
  <1>10. QED
    BY <1>1, <1>2, <1>3, <1>4, <1>5, <1>6, <1>7, <1>8, <1>9 DEF HostInv

LEMMA RunRuleCommandInv ==
  ASSUME HostInv, RunRuleCommand
  PROVE  HostInv'
  <1>1. HostShape'
    <2>1. PICK cmds \in SUBSET delegate.adding :
            /\ host' = [host EXCEPT !.drops = IF given.platform = "linux" THEN @ \cup cmds
                                              ELSE cmds]
            /\ delegate' = [delegate EXCEPT !.adding = @ \ cmds, !.rulecmds = @ \cup cmds]
      <3>1. CASE given.platform = "linux"
        <4>1. PICK c \in delegate.adding :
                /\ host' = [host EXCEPT !.drops = IF given.platform = "linux" THEN @ \cup {c}
                                                  ELSE {c}]
                /\ delegate' = [delegate EXCEPT !.adding = @ \ {c},
                                                !.rulecmds = @ \cup {c}]
          BY <3>1 DEF RunRuleCommand
        <4>2. {c} \in SUBSET delegate.adding
          OBVIOUS
        <4>3. QED
          BY <4>1, <4>2
      <3>2. CASE given.platform # "linux"
        BY <3>2 DEF RunRuleCommand
      <3>3. QED
        BY <3>1, <3>2
    <2>2. cmds \subseteq Drop
      BY DEF HostInv, HostShape, DelegateType
    <2>3. host' \in HostType
      BY <2>1, <2>2 DEF HostInv, HostShape, HostType
    <2>4. delegate' \in DelegateType
      BY <2>1, <2>2 DEF HostInv, HostShape, DelegateType
    <2>5. QED
      BY <2>3, <2>4 DEF HostInv, HostShape, RunRuleCommand
  <1>2. Begins'
        BY DEF HostInv, Begins, RunRuleCommand, workVars, restVars
  <1>3. OnItsWay'
        BY DEF HostInv, OnItsWay, Commands, LinuxCommands, MacCommands, Quiet, Interfaces,
           Rules, restVars,
       RunRuleCommand, workVars, Begins, HostShape, DelegateType
  <1>4. InForce'
        BY DEF HostInv, InForce, RunRuleCommand, workVars, restVars, HostShape, HostType
  <1>5. Dropped'
    <2>1. PICK cmds \in SUBSET delegate.adding :
            /\ host'.drops = IF given.platform = "linux" THEN host.drops \cup cmds ELSE cmds
            /\ delegate'.intf = delegate.intf /\ delegate'.adding = delegate.adding \ cmds
            /\ delegate'.rulecmds = delegate.rulecmds \cup cmds
            /\ late' = IF Flushed THEN late \cup cmds ELSE late
      <3>1. PICK cmds \in IF given.platform = "linux" THEN {{c} : c \in delegate.adding}
                          ELSE {delegate.adding} :
              /\ host' = [host EXCEPT !.drops = IF given.platform = "linux" THEN @ \cup cmds
                                                ELSE cmds]
              /\ delegate' = [delegate EXCEPT !.adding = @ \ cmds, !.rulecmds = @ \cup cmds]
              /\ late' = IF Flushed THEN late \cup cmds ELSE late
        BY DEF RunRuleCommand
      <3>2. cmds \in SUBSET delegate.adding
        OBVIOUS
      <3>3. QED
        BY <3>1, <3>2 DEF HostInv, HostShape, HostType, DelegateType
    <2>2. /\ app = "adding" /\ delegate.adding # {}
          /\ UNCHANGED <<given, main, todo, cut>>
      BY DEF RunRuleCommand
    <2>3. Flushed' = Flushed
      BY <2>2 DEF Flushed
    <2>4. QED
      BY <2>1, <2>2, <2>3 DEF HostInv, Begins, Dropped
  <1>6. Settings'
        BY DEF HostInv, Settings, Quiet, Interfaces, Rules, RunRuleCommand, workVars,
       restVars, Begins, HostShape, HostType, DelegateType
  <1>7. Everywhere'
        BY DEF HostInv, Everywhere, RunRuleCommand, workVars, restVars
  <1>8. Served'
        BY DEF HostInv, Served, RunRuleCommand, workVars, restVars
  <1>9. Admits'
        BY DEF HostInv, Admits, RunRuleCommand, workVars, restVars
  <1>10. QED
    BY <1>1, <1>2, <1>3, <1>4, <1>5, <1>6, <1>7, <1>8, <1>9 DEF HostInv

LEMMA SetFiltersInv ==
  ASSUME HostInv, SetFilters
  PROVE  HostInv'
  <1>1. HostShape'
    <2>1. sockets # << >> => Last(sockets) \in Ports
      BY LastInPorts DEF HostInv, HostShape
    <2>2. QED
      BY <2>1 DEF HostInv, HostShape, Begins, SetFilters, workVars
  <1>2. Begins'
        BY DEF HostInv, Begins, SetFilters, workVars, restVars
  <1>3. OnItsWay'
        BY DEF HostInv, OnItsWay, Commands, LinuxCommands, MacCommands, Quiet, Interfaces,
           Rules, restVars, SetFilters,
       workVars
  <1>4. InForce'
        BY DEF HostInv, InForce, SetFilters, workVars, restVars
  <1>5. Dropped'
        BY DEF HostInv, Dropped, Flushed, SetFilters, workVars, restVars
  <1>6. Settings'
        BY DEF HostInv, Settings, Quiet, Interfaces, Rules, SetFilters, workVars, restVars
  <1>7. Everywhere'
        BY DEF HostInv, Everywhere, SetFilters, workVars, restVars
  <1>8. Served'
        BY DEF HostInv, Served, SetFilters, workVars, restVars
  <1>9. Admits'
        BY DEF HostInv, Admits, SetFilters, workVars, restVars
  <1>10. QED
    BY <1>1, <1>2, <1>3, <1>4, <1>5, <1>6, <1>7, <1>8, <1>9 DEF HostInv

LEMMA AppCodeEndsInv ==
  ASSUME HostInv, AppCodeEnds
  PROVE  HostInv'
  <1>1. HostShape'
        BY DEF HostInv, HostShape, AppCodeEnds, workVars, restVars
  <1>2. Begins'
        BY DEF HostInv, Begins, AppCodeEnds, workVars, restVars
  <1>3. OnItsWay'
        BY DEF HostInv, OnItsWay, Commands, LinuxCommands, MacCommands, Quiet, Interfaces,
           Rules, restVars, AppCodeEnds,
       workVars
  <1>4. InForce'
        BY DEF HostInv, InForce, AppCodeEnds, workVars, restVars
  <1>5. Dropped'
        BY DEF HostInv, Dropped, Flushed, AppCodeEnds, workVars, restVars
  <1>6. Settings'
        BY DEF HostInv, Settings, Quiet, Interfaces, Rules, AppCodeEnds, workVars, restVars
  <1>7. Everywhere'
        BY DEF HostInv, Everywhere, AppCodeEnds, workVars, restVars
  <1>8. Served'
        BY DEF HostInv, Served, AppCodeEnds, workVars, restVars
  <1>9. Admits'
        BY DEF HostInv, Admits, AppCodeEnds, workVars, restVars
  <1>10. QED
    BY <1>1, <1>2, <1>3, <1>4, <1>5, <1>6, <1>7, <1>8, <1>9 DEF HostInv

LEMMA AppThreadEndsInv ==
  ASSUME HostInv, AppThreadEnds
  PROVE  HostInv'
  <1>1. HostShape'
        BY DEF HostInv, HostShape, AppThreadEnds, workVars, restVars
  <1>2. Begins'
        BY DEF HostInv, Begins, AppThreadEnds, workVars, restVars
  <1>3. OnItsWay'
        BY DEF HostInv, OnItsWay, Commands, LinuxCommands, MacCommands, Quiet, Interfaces,
           Rules, restVars,
       AppThreadEnds, workVars
  <1>4. InForce'
        BY DEF HostInv, InForce, AppThreadEnds, workVars, restVars
  <1>5. Dropped'
        BY DEF HostInv, Dropped, Flushed, AppThreadEnds, workVars, restVars
  <1>6. Settings'
        BY DEF HostInv, Settings, Quiet, Interfaces, Rules, AppThreadEnds, workVars,
       restVars
  <1>7. Everywhere'
        BY DEF HostInv, Everywhere, AppThreadEnds, workVars, restVars
  <1>8. Served'
        BY DEF HostInv, Served, AppThreadEnds, workVars, restVars
  <1>9. Admits'
        BY DEF HostInv, Admits, AppThreadEnds, workVars, restVars
  <1>10. QED
    BY <1>1, <1>2, <1>3, <1>4, <1>5, <1>6, <1>7, <1>8, <1>9 DEF HostInv

-----------------------------------------------------------------------------
LEMMA HostInvStep == HostInv /\ [HostNext]_hostVars => HostInv'
  <1> SUFFICES ASSUME HostInv, [HostNext]_hostVars PROVE HostInv'
    OBVIOUS
  <1>1. CASE MainStep
    BY <1>1, EndAtOnceInv, NoDevicesInv, ConstructInv, RunCommandInv, ProceedInv, PassBarrierInv,
       OpenDeviceInv, OpenFailsInv, AssignNetobjInv, UserEndsInv, UserRaisesInv DEF MainStep
  <1>2. CASE AppThreadStep
    BY <1>2, AddRuleInv, RunRuleCommandInv, SetFiltersInv, AppCodeEndsInv, AppThreadEndsInv
    DEF AppThreadStep
  <1>3. CASE CutShort \/ InterruptStart
    BY <1>3, CutShortInv, InterruptStartInv
  <1>4. CASE UNCHANGED hostVars
    <2>1. HostShape' /\ Begins' /\ InForce' /\ Everywhere'
      BY <1>4 DEF hostVars, HostInv, HostShape, Begins, InForce, Everywhere
    <2>2. OnItsWay' /\ Dropped' /\ Settings'
      BY <1>4 DEF hostVars, HostInv, OnItsWay, Commands, LinuxCommands, MacCommands,
         Dropped, Flushed, Settings, Quiet,
         Interfaces, Rules
    <2>3. Served' /\ Admits'
      BY <1>4 DEF hostVars, HostInv, Served, Admits
    <2>4. QED
      BY <2>1, <2>2, <2>3 DEF HostInv
  <1>5. QED
    BY <1>1, <1>2, <1>3, <1>4 DEF HostNext

\* What the host has back when the main thread has ended, and what an exception or
\* Ctrl-C in the midst of the commands leaves of it (LinuxFirewall.unblock,
\* MacOSFirewall.unblock).
THEOREM HostIsRestored == HostSpec => []HostRestored
  <1>1. HostInv => HostRestored
    BY DEF HostInv, InForce, Dropped, Settings, Flushed, HostRestored
  <1>2. QED
    BY HostInvInit, HostInvStep, <1>1, PTL DEF HostSpec

\* Between two calls of the application every socket, or on macOS the newest, is
\* kept from the host, and no open device keeps the newest from the application
\* (socket.__set_fw_rules).
THEOREM SocketsAreServed == HostSpec => []SocketsServed
  <1>1. HostInv => SocketsServed
    <2> SUFFICES ASSUME HostInv, main \in {"opening", "running"}, app = "runs", sockets # << >>
                 PROVE  SocketsServed
      BY DEF SocketsServed
    <2>1. given.platform \in {"linux", "darwin"}
      BY DEF HostInv, HostShape, CommandLine, Everywhere
    <2>2. QED
      BY <2>1 DEF HostInv, Served, Admits, SocketsServed
  <1>2. QED
    BY HostInvInit, HostInvStep, <1>1, PTL DEF HostSpec

-----------------------------------------------------------------------------
(***************************************************************************)
(* CachingServer                                                           *)
(***************************************************************************)
USE LengthAssumption, NothingAssumption

\* The cache table's entries
Entry == [headers : Nat, body : Nat, age : Nat]

\* The ranges of the variables the proofs look at
CacheShape ==
  /\ cache \in [Path -> Entry \cup {Nothing}]
  /\ req \in [method : {"GET", "HEAD"}, path : Path]
  /\ left \in Nat
  /\ answer \in Answer
  /\ why \in [Path -> SUBSET {"head", "client", "main"}]

\* The body of p is being fetched.
Fetching(p) == step \in {"send", "body"} /\ source = "main" /\ req.path = p

\* An entry is complete or it is known what cut it short, but for the one whose
\* body is on its way.
EntriesExplained ==
  \A p \in Path : cache[p] # Nothing =>
    IF Fetching(p) THEN cache[p].body + left = cache[p].headers /\ why[p] = {}
    ELSE cache[p].body = cache[p].headers \/ why[p] # {}

\* What the client has got of a body so far, and that its entry is there.
AnswerFollows ==
  /\ step \in {"touch", "send"} => answer = NothingGiven
  /\ step = "send" => source \in {"main", "cache"}
  /\ step \in {"send", "body"} => cache[req.path] # Nothing
  /\ step = "send" /\ source = "main" => cache[req.path].body = 0
  /\ step = "body" =>
       /\ answer.headers = cache[req.path].headers
       /\ source = "main" => answer.body = cache[req.path].body

CacheInv == CacheShape /\ EntriesExplained /\ AnswerFollows /\ ShortBodiesExplained

-----------------------------------------------------------------------------
\* A request that ends leaves a reason behind if something is missing.
LEMMA ReasonLeft ==
  ASSUME CacheShape, NEW r \in {"head", "client", "main"}, Shortened(r)
  PROVE  /\ why' \in [Path -> SUBSET {"head", "client", "main"}]
         /\ \A p \in Path : why[p] \subseteq why'[p]
         /\ source = "main" /\ left > 0 => why'[req.path] # {}
  BY DEF CacheShape, Shortened

\* A client that does not wait has got what it had got.
LEMMA UnheardAnswer == answer \in Answer => Unheard \in Answer
  BY DEF Answer, Unheard

\* An entry counts in natural numbers.
LEMMA EntryNumbers ==
  ASSUME CacheShape, NEW p \in Path, cache[p] # Nothing
  PROVE  cache[p] \in Entry /\ cache[p].headers \in Nat /\ cache[p].body \in Nat
  BY DEF CacheShape, Entry

\* The end of a request makes no entry short without a reason.
LEMMA EndExplained ==
  ASSUME CacheInv, UNCHANGED <<cache, req, source, left>>, step' = "closed",
         \A p \in Path : why[p] \subseteq why'[p],
         Fetching(req.path) /\ left > 0 => why'[req.path] # {}
  PROVE  EntriesExplained'
  <1> SUFFICES ASSUME NEW p \in Path, cache[p] # Nothing
               PROVE  cache[p].body = cache[p].headers \/ why'[p] # {}
    BY DEF EntriesExplained, Fetching
  <1>1. CASE Fetching(p)
    <2>1. cache[p].body + left = cache[p].headers /\ p = req.path
      BY <1>1 DEF CacheInv, EntriesExplained, Fetching
    <2>2. CASE left = 0
      BY <2>1, <2>2, EntryNumbers DEF CacheInv
    <2>3. CASE left > 0
      BY <1>1, <2>1, <2>3
    <2>4. QED
      BY <2>2, <2>3 DEF CacheInv, CacheShape
  <1>2. CASE ~ Fetching(p)
    BY <1>2 DEF CacheInv, EntriesExplained
  <1>3. QED
    BY <1>1, <1>2

\* A chunk that is stored is no longer left, whether its write succeeds or not.
LEMMA ChunkExplained ==
  ASSUME CacheInv, Fetching(req.path), left > 0, cache[req.path] # Nothing, AppendBody(req.path),
         left' = left - 1, UNCHANGED <<req, source>>,
         \/ step' = step /\ why' = why
         \/ /\ step' = "closed"
            /\ \A p \in Path : why[p] \subseteq why'[p]
            /\ left > 1 => why'[req.path] # {}
  PROVE  EntriesExplained'
  <1>1. req.path \in Path
    BY DEF CacheInv, CacheShape
  <1>2. /\ cache'[req.path] # Nothing
        /\ cache'[req.path].body = cache[req.path].body + 1
        /\ cache'[req.path].headers = cache[req.path].headers
        /\ \A p \in Path : p # req.path => cache'[p] = cache[p]
    BY <1>1, EntryNumbers DEF CacheInv, CacheShape, Entry, AppendBody
  <1>3. /\ cache[req.path].body + left = cache[req.path].headers /\ why[req.path] = {}
        /\ cache[req.path].body \in Nat /\ cache[req.path].headers \in Nat /\ left \in Nat
    BY <1>1, EntryNumbers DEF CacheInv, CacheShape, EntriesExplained
  <1>4. cache'[req.path].body + left' = cache'[req.path].headers
    BY <1>2, <1>3
  <1>5. \A p \in Path : p # req.path /\ cache'[p] # Nothing =>
           ~ Fetching(p)' /\ (cache'[p].body = cache'[p].headers \/ why'[p] # {})
    BY <1>2 DEF CacheInv, EntriesExplained, Fetching
  <1>6. CASE step' = step /\ why' = why
    BY <1>3, <1>4, <1>5, <1>6 DEF EntriesExplained, Fetching
  <1>7. CASE step' = "closed" /\ (left > 1 => why'[req.path] # {})
    <2>1. CASE left > 1
      BY <1>5, <1>7, <2>1 DEF EntriesExplained, Fetching
    <2>2. CASE left = 1
      BY <1>2, <1>3, <1>4, <1>5, <1>7, <2>2 DEF EntriesExplained, Fetching
    <2>3. QED
      BY <1>3, <2>1, <2>2
  <1>8. QED
    BY <1>6, <1>7

LEMMA CacheInvInit == CacheInit => CacheInv
  <1> SUFFICES ASSUME CacheInit PROVE CacheInv
    OBVIOUS
  <1>1. CacheShape
    <2>1. (CHOOSE p \in Path : TRUE) \in Path
      OBVIOUS
    <2>2. answer \in Answer
      BY DEF CacheInit, NothingGiven, Answer
    <2>3. req \in [method : {"GET", "HEAD"}, path : Path]
      BY <2>1 DEF CacheInit
    <2>4. QED
      BY <2>2, <2>3 DEF CacheInit, CacheShape
  <1>2. EntriesExplained
    BY DEF CacheInit, EntriesExplained
  <1>3. AnswerFollows
    BY DEF CacheInit, AnswerFollows
  <1>4. ShortBodiesExplained
    BY DEF CacheInit, ShortBodiesExplained, Answered
  <1>5. QED
    BY <1>1, <1>2, <1>3, <1>4 DEF CacheInv

LEMMA RequestInv ==
  ASSUME CacheInv, Request
  PROVE  CacheInv'
  <1>1. CacheShape'
    BY DEF CacheInv, CacheShape, Answer, NothingGiven, Request
  <1>2. EntriesExplained'
    BY DEF CacheInv, EntriesExplained, Fetching, Request
  <1>3. AnswerFollows'
    BY DEF CacheInv, AnswerFollows, Request
  <1>4. ShortBodiesExplained'
    BY DEF CacheInv, ShortBodiesExplained, Answered, Request
  <1>5. QED
    BY <1>1, <1>2, <1>3, <1>4 DEF CacheInv

LEMMA TouchNotFoundInv ==
  ASSUME CacheInv, TouchNotFound
  PROVE  CacheInv'
  <1>1. CacheShape'
    <2>1. answer' \in Answer
      <3>1. CASE answer' = [answer EXCEPT !.status = 404]
        BY <3>1 DEF CacheInv, CacheShape, Answer
      <3>2. CASE answer' = Unheard
        BY <3>2, UnheardAnswer DEF CacheInv, CacheShape
      <3>3. QED
        BY <3>1, <3>2 DEF TouchNotFound
    <2>2. cache' \in [Path -> Entry \cup {Nothing}]
      BY DEF CacheInv, CacheShape, Deleted, TouchNotFound
    <2>3. QED
      BY <2>1, <2>2 DEF CacheInv, CacheShape, TouchNotFound
  <1>2. EntriesExplained'
    BY DEF CacheInv, EntriesExplained, Fetching, Deleted, TouchNotFound
  <1>3. AnswerFollows'
    BY DEF CacheInv, AnswerFollows, TouchNotFound
  <1>4. ShortBodiesExplained'
    BY DEF CacheInv, CacheShape, Answer, ShortBodiesExplained, Answered, Unheard, TouchNotFound
  <1>5. QED
    BY <1>1, <1>2, <1>3, <1>4 DEF CacheInv

LEMMA TouchFailsInv ==
  ASSUME CacheInv, TouchFails
  PROVE  CacheInv'
  <1>1. CacheShape'
    BY DEF CacheInv, CacheShape, Deleted, TouchFails
  <1>2. EntriesExplained'
    BY DEF CacheInv, EntriesExplained, Fetching, Deleted, TouchFails
  <1>3. AnswerFollows'
    BY DEF CacheInv, AnswerFollows, TouchFails
  <1>4. ShortBodiesExplained'
    BY DEF CacheInv, AnswerFollows, ShortBodiesExplained, NothingGiven, TouchFails
  <1>5. QED
    BY <1>1, <1>2, <1>3, <1>4 DEF CacheInv

LEMMA TouchMainInv ==
  ASSUME CacheInv, TouchMain
  PROVE  CacheInv'
  <1>1. CacheShape'
    BY DEF CacheInv, CacheShape, Entry, NewItem, TouchMain
  <1>2. EntriesExplained'
    BY DEF CacheInv, CacheShape, EntriesExplained, Fetching, NewItem, TouchMain
  <1>3. AnswerFollows'
    BY DEF CacheInv, CacheShape, AnswerFollows, NewItem, TouchMain
  <1>4. ShortBodiesExplained'
    BY DEF CacheInv, ShortBodiesExplained, Answered, TouchMain
  <1>5. QED
    BY <1>1, <1>2, <1>3, <1>4 DEF CacheInv

LEMMA TouchHitInv ==
  ASSUME CacheInv, TouchHit
  PROVE  CacheInv'
  <1>1. CacheShape'
    BY DEF CacheInv, CacheShape, TouchHit
  <1>2. EntriesExplained'
    BY DEF CacheInv, EntriesExplained, Fetching, TouchHit
  <1>3. AnswerFollows'
    BY DEF CacheInv, AnswerFollows, Missed, TouchHit
  <1>4. ShortBodiesExplained'
    BY DEF CacheInv, ShortBodiesExplained, Answered, TouchHit
  <1>5. QED
    BY <1>1, <1>2, <1>3, <1>4 DEF CacheInv

LEMMA SendHeadersInv ==
  ASSUME CacheInv, SendHeaders
  PROVE  CacheInv'
  <1>1. CacheShape'
    <2>1. cache[req.path].headers \in Nat
      <3>1. req.path \in Path /\ cache[req.path] # Nothing
        BY DEF CacheInv, CacheShape, AnswerFollows, SendHeaders
      <3>2. QED
        BY <3>1, EntryNumbers DEF CacheInv
    <2>2. answer' \in Answer
      <3>1. answer \in Answer
        BY DEF CacheInv, CacheShape
      <3>2. answer' = [answer EXCEPT !.status = 200, !.headers = cache[req.path].headers]
        BY DEF SendHeaders
      <3>3. QED
        BY <2>1, <3>1, <3>2, HeadedAnswer
    <2>3. why' \in [Path -> SUBSET {"head", "client", "main"}]
      BY ReasonLeft DEF CacheInv, CacheShape, SendHeaders
    <2>4. QED
      BY <2>2, <2>3 DEF CacheInv, CacheShape, SendHeaders
  <1>2. EntriesExplained'
    <2>1. CASE req.method = "GET"
      BY <2>1 DEF CacheInv, EntriesExplained, Fetching, SendHeaders
    <2>2. CASE req.method # "GET"
      BY <2>2, EndExplained, ReasonLeft DEF CacheInv, Fetching, SendHeaders
    <2>3. QED
      BY <2>1, <2>2
  <1>3. AnswerFollows'
    BY DEF CacheInv, AnswerFollows, NothingGiven, SendHeaders
  <1>4. ShortBodiesExplained'
    BY DEF CacheInv, ShortBodiesExplained, Answered, SendHeaders
  <1>5. QED
    BY <1>1, <1>2, <1>3, <1>4 DEF CacheInv

LEMMA SendHeadersFailsInv ==
  ASSUME CacheInv, SendHeadersFails
  PROVE  CacheInv'
  <1>1. CacheShape'
    BY DEF CacheInv, CacheShape, Answer, Shortened, Unheard, SendHeadersFails
  <1>2. EntriesExplained'
    BY EndExplained, ReasonLeft DEF CacheInv, Fetching, SendHeadersFails
  <1>3. AnswerFollows'
    BY DEF CacheInv, AnswerFollows, SendHeadersFails
  <1>4. ShortBodiesExplained'
    BY DEF CacheInv, ShortBodiesExplained, Answered, Unheard, SendHeadersFails
  <1>5. QED
    BY <1>1, <1>2, <1>3, <1>4 DEF CacheInv

LEMMA BodyChunkInv ==
  ASSUME CacheInv, BodyChunk
  PROVE  CacheInv'
  <1>1. CacheShape'
    BY DEF CacheInv, CacheShape, Entry, Answer, AnswerFollows, AppendBody, BodyChunk
  <1>2. EntriesExplained'
    BY ChunkExplained DEF CacheInv, AnswerFollows, Fetching, BodyChunk
  <1>3. AnswerFollows'
    BY DEF CacheInv, CacheShape, Entry, AnswerFollows, AppendBody, BodyChunk
  <1>4. ShortBodiesExplained'
    BY DEF CacheInv, ShortBodiesExplained, Answered, BodyChunk
  <1>5. QED
    BY <1>1, <1>2, <1>3, <1>4 DEF CacheInv

LEMMA BodyChunkFailsInv ==
  ASSUME CacheInv, BodyChunkFails
  PROVE  CacheInv'
  <1>1. CacheShape'
    <2>1. answer' \in Answer /\ left' \in Nat
      BY UnheardAnswer DEF CacheInv, CacheShape, BodyChunkFails
    <2>2. cache' \in [Path -> Entry \cup {Nothing}]
      BY DEF CacheInv, CacheShape, Entry, AnswerFollows, AppendBody, BodyChunkFails
    <2>3. why' \in [Path -> SUBSET {"head", "client", "main"}]
      BY DEF CacheInv, CacheShape, BodyChunkFails
    <2>4. QED
      BY <2>1, <2>2, <2>3 DEF CacheInv, CacheShape, BodyChunkFails
  <1>2. EntriesExplained'
    <2>1. \A p \in Path : why[p] \subseteq why'[p]
      BY DEF CacheInv, BodyChunkFails
    <2>2. left > 1 => why'[req.path] # {}
      BY DEF CacheInv, CacheShape, BodyChunkFails
    <2>3. QED
      BY <2>1, <2>2, ChunkExplained DEF CacheInv, AnswerFollows, Fetching, BodyChunkFails
  <1>3. AnswerFollows'
    BY DEF CacheInv, AnswerFollows, BodyChunkFails
  <1>4. ShortBodiesExplained'
    BY DEF CacheInv, ShortBodiesExplained, Answered, Unheard, BodyChunkFails
  <1>5. QED
    BY <1>1, <1>2, <1>3, <1>4 DEF CacheInv

LEMMA BodyEndsInv ==
  ASSUME CacheInv, BodyEnds
  PROVE  CacheInv'
  <1>1. CacheShape'
    BY DEF CacheInv, CacheShape, Shortened, BodyEnds
  <1>2. EntriesExplained'
    BY EndExplained, ReasonLeft DEF CacheInv, BodyEnds
  <1>3. AnswerFollows'
    BY DEF CacheInv, AnswerFollows, BodyEnds
  <1>4. ShortBodiesExplained'
    BY DEF CacheInv, CacheShape, Entry, EntriesExplained, AnswerFollows,
           ShortBodiesExplained, Whole, Shortened, BodyEnds
  <1>5. QED
    BY <1>1, <1>2, <1>3, <1>4 DEF CacheInv

LEMMA BodyFromCacheInv ==
  ASSUME CacheInv, BodyFromCache
  PROVE  CacheInv'
  <1>1. CacheShape'
    BY DEF CacheInv, CacheShape, Entry, Answer, AnswerFollows, Unheard, BodyFromCache
  <1>2. EntriesExplained'
    BY DEF CacheInv, EntriesExplained, Fetching, BodyFromCache
  <1>3. AnswerFollows'
    BY DEF CacheInv, AnswerFollows, BodyFromCache
  <1>4. ShortBodiesExplained'
    BY DEF CacheInv, CacheShape, Answer, EntriesExplained, Fetching, AnswerFollows,
           ShortBodiesExplained, Answered, Whole, Unheard, BodyFromCache
  <1>5. QED
    BY <1>1, <1>2, <1>3, <1>4 DEF CacheInv

LEMMA CacheTickInv ==
  ASSUME CacheInv, CacheTick
  PROVE  CacheInv'
  <1>1. CacheShape'
    BY DEF CacheInv, CacheShape, Entry, CacheTick
  <1>2. EntriesExplained'
    BY DEF CacheInv, EntriesExplained, Fetching, CacheTick
  <1>3. AnswerFollows'
    BY DEF CacheInv, CacheShape, Entry, AnswerFollows, CacheTick
  <1>4. ShortBodiesExplained'
    BY DEF CacheInv, ShortBodiesExplained, Answered, Whole, CacheTick
  <1>5. QED
    BY <1>1, <1>2, <1>3, <1>4 DEF CacheInv

LEMMA CalmDownInv ==
  ASSUME CacheInv, CalmDown
  PROVE  CacheInv'
  <1>1. CacheShape'
    BY DEF CacheInv, CacheShape, CalmDown
  <1>2. EntriesExplained'
    BY DEF CacheInv, EntriesExplained, Fetching, CalmDown
  <1>3. AnswerFollows'
    BY DEF CacheInv, AnswerFollows, CalmDown
  <1>4. ShortBodiesExplained'
    BY DEF CacheInv, ShortBodiesExplained, Answered, Whole, CalmDown
  <1>5. QED
    BY <1>1, <1>2, <1>3, <1>4 DEF CacheInv

LEMMA CacheInvStep == CacheInv /\ [CacheNext]_cacheVars => CacheInv'
  <1> SUFFICES ASSUME CacheInv, [CacheNext]_cacheVars PROVE CacheInv'
    OBVIOUS
  <1>1. CASE CacheNext
    BY <1>1, RequestInv, TouchNotFoundInv, TouchFailsInv, TouchMainInv, TouchHitInv,
       SendHeadersInv, SendHeadersFailsInv, BodyChunkInv, BodyChunkFailsInv, BodyEndsInv,
       BodyFromCacheInv, CacheTickInv, CalmDownInv DEF CacheNext
  <1>2. CASE UNCHANGED cacheVars
    BY <1>2 DEF cacheVars, CacheInv, CacheShape, EntriesExplained, Fetching, AnswerFollows,
                ShortBodiesExplained, Answered, Whole
  <1>3. QED
    BY <1>1, <1>2

\* A client that waits for the answer to a GET gets the whole file, unless a HEAD,
\* a client that left or the main server had cut its entry short
\* (CachingServer.touchItem).
THEOREM ShortIsExplained == CacheSpec => []ShortBodiesExplained
  <1>1. CacheInv => ShortBodiesExplained
    BY DEF CacheInv
  <1>2. QED
    BY CacheInvInit, CacheInvStep, <1>1, PTL DEF CacheSpec

-----------------------------------------------------------------------------
\* The calls of a request so far
Opened == IF req.method = "GET" THEN "do_GET" ELSE "do_HEAD"
Traced ==
  IF source = "main" THEN << Opened, "requestMainServer", "setHeaders" >>
  ELSE << Opened, "getHeaders" >>

\* What was called when a request is at each of its steps, and when it was answered.
CallsRecorded ==
  /\ step = "touch" => calls = << Opened >>
  /\ step = "send" => calls = Traced
  /\ step = "body" =>
       /\ calls = Append(Traced, "sendHeaders") /\ source \in {"main", "cache"}
       /\ answer.status = 200
  /\ Answered /\ answer.status = 404 => calls = << Opened, "requestMainServer" >>
  /\ Answered /\ answer.status = 200 =>
       calls = Append(Traced, "sendHeaders") /\ source \in {"main", "cache"}

LEMMA CallsRecordedInit == CacheInit => CallsRecorded
  BY DEF CacheInit, CallsRecorded, Answered, NothingGiven

\* The calls that are traced
Call == {"do_GET", "do_HEAD", "requestMainServer", "setHeaders", "getHeaders", "sendHeaders"}

\* A series of calls, one call or two calls later
LEMMA SeriesGrow ==
  ASSUME NEW w \in Call, NEW x \in Call, NEW y \in Call
  PROVE  /\ Append(<< w >>, x) = << w, x >>
         /\ Append(<< w, x >>, y) = << w, x, y >>
         /\ << w >> \o << x, y >> = << w, x, y >>
  <1>1. Append(<< w >>, x) = << w, x >>
    <2> DEFINE l == Append(<< w >>, x)
               r == << w, x >>
    <2>1. << w >> \in Seq(Call)
      OBVIOUS
    <2>2. l \in Seq(Call) /\ Len(l) = 2 /\ l[1] = w /\ l[2] = x
      BY <2>1, AppendProperties
    <2>3. r \in Seq(Call) /\ Len(r) = 2 /\ r[1] = w /\ r[2] = x
      OBVIOUS
    <2> HIDE DEF l, r
    <2>4. l = r
      BY <2>2, <2>3, SeqEqual
    <2> QED
      BY <2>4 DEF l, r
  <1>2. Append(<< w, x >>, y) = << w, x, y >>
    <2> DEFINE l == Append(<< w, x >>, y)
               r == << w, x, y >>
    <2>1. << w, x >> \in Seq(Call)
      OBVIOUS
    <2>2. l \in Seq(Call) /\ Len(l) = 3 /\ l[1] = w /\ l[2] = x /\ l[3] = y
      BY <2>1, AppendProperties
    <2>3. r \in Seq(Call) /\ Len(r) = 3 /\ r[1] = w /\ r[2] = x /\ r[3] = y
      OBVIOUS
    <2> HIDE DEF l, r
    <2>4. l = r
      BY <2>2, <2>3, SeqEqual
    <2> QED
      BY <2>4 DEF l, r
  <1>3. << w >> \o << x, y >> = << w, x, y >>
    <2> DEFINE l == << w >> \o << x, y >>
               r == << w, x, y >>
    <2>1. << w >> \in Seq(Call) /\ << x, y >> \in Seq(Call)
      OBVIOUS
    <2>2. l \in Seq(Call) /\ Len(l) = 3 /\ l[1] = w /\ l[2] = x /\ l[3] = y
      BY <2>1, ConcatProperties
    <2>3. r \in Seq(Call) /\ Len(r) = 3 /\ r[1] = w /\ r[2] = x /\ r[3] = y
      OBVIOUS
    <2> HIDE DEF l, r
    <2>4. l = r
      BY <2>2, <2>3, SeqEqual
    <2> QED
      BY <2>4 DEF l, r
  <1> QED
    BY <1>1, <1>2, <1>3

\* Likewise when three calls become four
LEMMA SeriesOfFour ==
  ASSUME NEW w \in Call, NEW x \in Call, NEW y \in Call, NEW z \in Call
  PROVE  Append(<< w, x, y >>, z) = << w, x, y, z >>
  <1> DEFINE l == Append(<< w, x, y >>, z)
             r == << w, x, y, z >>
  <1>1. << w, x, y >> \in Seq(Call)
    OBVIOUS
  <1>2. l \in Seq(Call) /\ Len(l) = 4 /\ l[1] = w /\ l[2] = x /\ l[3] = y /\ l[4] = z
    BY <1>1, AppendProperties
  <1>3. r \in Seq(Call) /\ Len(r) = 4 /\ r[1] = w /\ r[2] = x /\ r[3] = y /\ r[4] = z
    OBVIOUS
  <1> HIDE DEF l, r
  <1>4. l = r
    BY <1>2, <1>3, SeqEqual
  <1> QED
    BY <1>4 DEF l, r

\* The series a request may have left, grown by their next calls
LEMMA OpenedGrows ==
  /\ Append(<< Opened >>, "requestMainServer") = << Opened, "requestMainServer" >>
  /\ << Opened >> \o << "requestMainServer", "setHeaders" >>
       = << Opened, "requestMainServer", "setHeaders" >>
  /\ Append(<< Opened >>, "getHeaders") = << Opened, "getHeaders" >>
  /\ Append(<< Opened, "getHeaders" >>, "sendHeaders")
       = << Opened, "getHeaders", "sendHeaders" >>
  /\ Append(<< Opened, "requestMainServer", "setHeaders" >>, "sendHeaders")
       = << Opened, "requestMainServer", "setHeaders", "sendHeaders" >>
  <1>1. /\ Opened \in Call /\ "requestMainServer" \in Call /\ "setHeaders" \in Call
        /\ "getHeaders" \in Call /\ "sendHeaders" \in Call
    BY DEF Call, Opened
  <1>2. Append(<< Opened >>, "requestMainServer") = << Opened, "requestMainServer" >>
    BY <1>1, SeriesGrow
  <1>3. << Opened >> \o << "requestMainServer", "setHeaders" >>
          = << Opened, "requestMainServer", "setHeaders" >>
    BY <1>1, SeriesGrow
  <1>4. Append(<< Opened >>, "getHeaders") = << Opened, "getHeaders" >>
    BY <1>1, SeriesGrow
  <1>5. Append(<< Opened, "getHeaders" >>, "sendHeaders")
          = << Opened, "getHeaders", "sendHeaders" >>
    BY <1>1, SeriesGrow
  <1>6. Append(<< Opened, "requestMainServer", "setHeaders" >>, "sendHeaders")
          = << Opened, "requestMainServer", "setHeaders", "sendHeaders" >>
    BY <1>1, SeriesOfFour
  <1> QED
    BY <1>2, <1>3, <1>4, <1>5, <1>6

LEMMA CallsRecordedStep ==
  CacheInv /\ CallsRecorded /\ [CacheNext]_cacheVars => CallsRecorded'
  <1> SUFFICES ASSUME CacheInv, CallsRecorded, [CacheNext]_cacheVars PROVE CallsRecorded'
    OBVIOUS
  <1> USE DEF CallsRecorded
  <1>0. UNCHANGED req => Opened' = Opened /\ (UNCHANGED source => Traced' = Traced)
    BY DEF Opened, Traced
  <1>1. CASE Request
    BY <1>1 DEF Request, Answered, Opened
  <1>2. CASE TouchNotFound
    <2>1. answer' = [answer EXCEPT !.status = 404] \/ answer' = Unheard
      BY <1>2 DEF TouchNotFound
    <2>2. answer'.waited = FALSE \/ answer'.status = 404
      BY <2>1 DEF CacheInv, CacheShape, Answer, Unheard
    <2>3. calls = << Opened >> /\ Opened' = Opened
      BY <1>0, <1>2 DEF TouchNotFound
    <2>4. calls' = << Opened, "requestMainServer" >>
      BY <1>2, <2>3, OpenedGrows DEF TouchNotFound
    <2>5. step' = "closed"
      BY <1>2 DEF TouchNotFound
    <2>6. ~ (Answered' /\ answer'.status = 200)
      BY <2>2 DEF Answered
    <2> QED
      BY <2>3, <2>4, <2>5, <2>6
  <1>3. CASE TouchFails
    BY <1>3 DEF TouchFails, Answered, CacheInv, AnswerFollows, NothingGiven
  <1>4. CASE TouchMain
    <2>1. calls = << Opened >> /\ Opened' = Opened
      BY <1>0, <1>4 DEF TouchMain
    <2>2. calls' = << Opened, "requestMainServer", "setHeaders" >>
      BY <1>4, <2>1, OpenedGrows DEF TouchMain
    <2> QED
      BY <1>4, <2>1, <2>2 DEF TouchMain, Answered, Traced
  <1>5. CASE TouchHit
    <2>1. calls = << Opened >> /\ Opened' = Opened
      BY <1>0, <1>5 DEF TouchHit
    <2>2. calls' = << Opened, "getHeaders" >>
      BY <1>5, <2>1, OpenedGrows DEF TouchHit
    <2>3. source' # "main"
      BY <1>5 DEF TouchHit
    <2> QED
      BY <1>5, <2>1, <2>2, <2>3 DEF TouchHit, Answered, Traced
  <1>6. CASE SendHeaders
    <2>1. answer'.status = 200
      BY <1>6 DEF SendHeaders, CacheInv, CacheShape, Answer
    <2>2. source \in {"main", "cache"} /\ UNCHANGED <<req, source>>
      BY <1>6 DEF SendHeaders, CacheInv, AnswerFollows
    <2>3. calls' = Append(Traced, "sendHeaders") /\ step' \in {"body", "closed"}
      BY <1>6 DEF SendHeaders
    <2> QED
      BY <1>0, <2>1, <2>2, <2>3
  <1>7. CASE SendHeadersFails
    <2>1. answer'.waited = FALSE
      BY <1>7 DEF SendHeadersFails, CacheInv, CacheShape, Answer, Unheard
    <2> QED
      BY <1>0, <1>7, <2>1 DEF SendHeadersFails, Answered
  <1>8. CASE BodyChunk
    <2>1. answer'.status = 200
      BY <1>8 DEF BodyChunk, CacheInv, CacheShape, Answer
    <2> QED
      BY <1>0, <1>8, <2>1 DEF BodyChunk, Answered
  <1>9. CASE BodyChunkFails
    <2>1. answer'.waited = FALSE
      BY <1>9 DEF BodyChunkFails, CacheInv, CacheShape, Answer, Unheard
    <2> QED
      BY <1>0, <1>9, <2>1 DEF BodyChunkFails, Answered
  <1>10. CASE BodyEnds
    BY <1>0, <1>10 DEF BodyEnds, Answered
  <1>11. CASE BodyFromCache
    <2>1. answer'.waited = FALSE \/ answer'.status = 200
      <3>1. CASE answer' = Unheard
        BY <3>1 DEF CacheInv, CacheShape, Answer, Unheard
      <3>2. CASE answer' = [answer EXCEPT !.body = cache[req.path].body]
        BY <1>11, <3>2 DEF BodyFromCache, CacheInv, CacheShape, Answer
      <3> QED
        BY <1>11, <3>1, <3>2 DEF BodyFromCache
    <2> QED
      BY <1>0, <1>11, <2>1 DEF BodyFromCache, Answered
  <1>12. CASE CacheTick
    BY <1>0, <1>12 DEF CacheTick, Answered
  <1>13. CASE CalmDown
    BY <1>0, <1>13 DEF CalmDown, Answered
  <1>14. CASE UNCHANGED cacheVars
    BY <1>0, <1>14 DEF cacheVars, Answered
  <1> QED
    BY <1>1, <1>2, <1>3, <1>4, <1>5, <1>6, <1>7, <1>8, <1>9, <1>10, <1>11, <1>12, <1>13, <1>14
       DEF CacheNext

-----------------------------------------------------------------------------
\* Calls that were each compared with the first expectation they may be, and no
\* required expectation left over, are accepted.
LEMMA AcceptedAt ==
  ASSUME NEW exp, NEW procedures, Len(procedures) \in Nat,
         NEW at \in [1 .. Len(procedures) -> DOMAIN exp],
         Compared(exp, procedures, Len(procedures), at),
         \A k \in Upto(at, Len(procedures)) + 1 .. Len(exp) : exp[k].optional
  PROVE  Accepts(exp, procedures)
  <1>1. Len(procedures) \in 0 .. Len(procedures)
    OBVIOUS
  <1> QED
    BY <1>1 DEF Accepts

\* The second call meets a required expectation of another name, and the ones
\* before that are optional and of other names: it is refused.
LEMMA RefusedAtTwo ==
  ASSUME NEW exp, Len(exp) \in Nat, DOMAIN exp = 1 .. Len(exp),
         NEW procedures, Len(procedures) \in Nat, Len(procedures) >= 2,
         ~ exp[1].optional, NEW k \in 2 .. Len(exp),
         ~ exp[k].optional, exp[k].method # procedures[2],
         \A j \in 2 .. k - 1 : exp[j].optional /\ exp[j].method # procedures[2]
  PROVE  ~ Accepts(exp, procedures)
  <1> SUFFICES ASSUME NEW n \in 0 .. Len(procedures), NEW at \in [1 .. n -> DOMAIN exp],
                      Compared(exp, procedures, n, at),
                      IF n = Len(procedures)
                      THEN \A i \in Upto(at, n) + 1 .. Len(exp) : exp[i].optional
                      ELSE Upto(at, n) = Len(exp)
               PROVE  FALSE
    BY DEF Accepts
  <1>1. n \in Nat /\ Len(exp) \in Nat /\ Len(procedures) \in Nat /\ k \in Nat /\ Len(exp) >= 2
    OBVIOUS
  <1>2. ASSUME n >= 1 PROVE at[1] = 1
    <2>1. 1 \in 1 .. n
      BY <1>1, <1>2
    <2>2. at[1] \in Candidates(exp, Upto(at, 0), procedures[1])
          /\ \A i \in Candidates(exp, Upto(at, 0), procedures[1]) : at[1] <= i
      BY <2>1 DEF Compared
    <2>3. Upto(at, 0) = 0
      BY DEF Upto
    <2>4. 1 \in Candidates(exp, 0, procedures[1])
      BY <1>1 DEF Candidates
    <2>5. at[1] \in 1 .. Len(exp) /\ at[1] <= 1
      BY <1>1, <2>2, <2>3, <2>4 DEF Candidates
    <2> QED
      BY <2>5
  <1>3. ~ n >= 2
    <2> SUFFICES ASSUME n >= 2 PROVE FALSE
      OBVIOUS
    <2>1. 2 \in 1 .. n /\ 2 - 1 = 1
      BY <1>1
    <2>2. /\ at[2] \in Candidates(exp, Upto(at, 1), procedures[2])
          /\ \A i \in Candidates(exp, Upto(at, 1), procedures[2]) : at[2] <= i
          /\ exp[at[2]].method = procedures[2]
      BY <2>1 DEF Compared
    <2>3. Upto(at, 1) = 1
      BY <1>2, <1>1 DEF Upto
    <2>4. k \in Candidates(exp, 1, procedures[2])
      BY <1>1 DEF Candidates
    <2>5. at[2] \in 2 .. Len(exp) /\ at[2] <= k
      BY <1>1, <2>2, <2>3, <2>4 DEF Candidates
    <2>6. at[2] = k \/ at[2] \in 2 .. k - 1
      BY <2>5, <1>1
    <2> QED
      BY <2>2, <2>6
  <1>4. n # Len(procedures)
    BY <1>1, <1>3
  <1>5. Upto(at, n) = 0 \/ Upto(at, n) = 1
    BY <1>1, <1>2, <1>3 DEF Upto
  <1> QED
    BY <1>1, <1>4, <1>5

\* The templates judge each of the five series of calls a request may leave.
LEMMA TemplatesJudge ==
  /\ Accepts(not_found_template, << "do_GET", "requestMainServer" >>)
  /\ Accepts(cache_missed_template,
             << "do_GET", "requestMainServer", "setHeaders", "sendHeaders" >>)
  /\ ~ Accepts(cache_hit_template,
               << "do_GET", "requestMainServer", "setHeaders", "sendHeaders" >>)
  /\ ~ Accepts(cache_missed_template, << "do_GET", "getHeaders", "sendHeaders" >>)
  /\ Accepts(cache_hit_template, << "do_GET", "getHeaders", "sendHeaders" >>)
  /\ Accepts(cache_missed_HEAD_template,
             << "do_HEAD", "requestMainServer", "setHeaders", "sendHeaders" >>)
  /\ ~ Accepts(cache_hit_HEAD_template,
               << "do_HEAD", "requestMainServer", "setHeaders", "sendHeaders" >>)
  /\ ~ Accepts(cache_missed_HEAD_template, << "do_HEAD", "getHeaders", "sendHeaders" >>)
  /\ Accepts(cache_hit_HEAD_template, << "do_HEAD", "getHeaders", "sendHeaders" >>)
  <1> USE DEF Must, May
  <1>1. Accepts(not_found_template, << "do_GET", "requestMainServer" >>)
    <2> DEFINE at == [i \in 1 .. 2 |-> i]
               exp == not_found_template
               procedures == << "do_GET", "requestMainServer" >>
    <2>1. Compared(exp, procedures, 2, at)
      BY DEF Compared, Candidates, Upto, not_found_template
    <2>2. \A k \in Upto(at, 2) + 1 .. Len(exp) : exp[k].optional
      BY DEF Upto, not_found_template
    <2>3. at \in [1 .. 2 -> DOMAIN exp] /\ Len(procedures) = 2
      BY DEF not_found_template
    <2> HIDE DEF at, exp, procedures
    <2>4. /\ Len(procedures) \in Nat /\ at \in [1 .. Len(procedures) -> DOMAIN exp]
          /\ Compared(exp, procedures, Len(procedures), at)
          /\ \A k \in Upto(at, Len(procedures)) + 1 .. Len(exp) : exp[k].optional
      BY <2>1, <2>2, <2>3
    <2>5. Accepts(exp, procedures)
      BY <2>4, AcceptedAt
    <2> QED
      BY <2>5 DEF exp, procedures
  <1>2. Accepts(cache_missed_template,
                << "do_GET", "requestMainServer", "setHeaders", "sendHeaders" >>)
    <2> DEFINE at == [i \in 1 .. 4 |-> IF i = 1 THEN 1 ELSE IF i = 2 THEN 2 ELSE i + 1]
               exp == cache_missed_template
               procedures == << "do_GET", "requestMainServer", "setHeaders", "sendHeaders" >>
    <2>1. Compared(exp, procedures, 4, at)
      BY DEF Compared, Candidates, Upto, cache_missed_template
    <2>2. \A k \in Upto(at, 4) + 1 .. Len(exp) : exp[k].optional
      BY DEF Upto, cache_missed_template
    <2>3. at \in [1 .. 4 -> DOMAIN exp] /\ Len(procedures) = 4
      BY DEF cache_missed_template
    <2> HIDE DEF at, exp, procedures
    <2>4. /\ Len(procedures) \in Nat /\ at \in [1 .. Len(procedures) -> DOMAIN exp]
          /\ Compared(exp, procedures, Len(procedures), at)
          /\ \A k \in Upto(at, Len(procedures)) + 1 .. Len(exp) : exp[k].optional
      BY <2>1, <2>2, <2>3
    <2>5. Accepts(exp, procedures)
      BY <2>4, AcceptedAt
    <2> QED
      BY <2>5 DEF exp, procedures
  <1>3. ~ Accepts(cache_hit_template,
                  << "do_GET", "requestMainServer", "setHeaders", "sendHeaders" >>)
    <2> DEFINE exp == cache_hit_template
               procedures == << "do_GET", "requestMainServer", "setHeaders", "sendHeaders" >>
    <2>1. /\ Len(exp) \in Nat /\ DOMAIN exp = 1 .. Len(exp)
          /\ Len(procedures) \in Nat /\ Len(procedures) >= 2 /\ ~ exp[1].optional
          /\ 3 \in 2 .. Len(exp) /\ ~ exp[3].optional /\ exp[3].method # procedures[2]
          /\ \A j \in 2 .. 3 - 1 : exp[j].optional /\ exp[j].method # procedures[2]
      BY DEF cache_hit_template
    <2> HIDE DEF exp, procedures
    <2>2. ~ Accepts(exp, procedures)
      BY <2>1, RefusedAtTwo
    <2> QED
      BY <2>2 DEF exp, procedures
  <1>4. ~ Accepts(cache_missed_template, << "do_GET", "getHeaders", "sendHeaders" >>)
    <2> DEFINE exp == cache_missed_template
               procedures == << "do_GET", "getHeaders", "sendHeaders" >>
    <2>1. /\ Len(exp) \in Nat /\ DOMAIN exp = 1 .. Len(exp)
          /\ Len(procedures) \in Nat /\ Len(procedures) >= 2 /\ ~ exp[1].optional
          /\ 2 \in 2 .. Len(exp) /\ ~ exp[2].optional /\ exp[2].method # procedures[2]
          /\ \A j \in 2 .. 2 - 1 : exp[j].optional /\ exp[j].method # procedures[2]
      BY DEF cache_missed_template
    <2> HIDE DEF exp, procedures
    <2>2. ~ Accepts(exp, procedures)
      BY <2>1, RefusedAtTwo
    <2> QED
      BY <2>2 DEF exp, procedures
  <1>5. Accepts(cache_hit_template, << "do_GET", "getHeaders", "sendHeaders" >>)
    <2> DEFINE at == [i \in 1 .. 3 |-> i]
               exp == cache_hit_template
               procedures == << "do_GET", "getHeaders", "sendHeaders" >>
    <2>1. Compared(exp, procedures, 3, at)
      BY DEF Compared, Candidates, Upto, cache_hit_template
    <2>2. \A k \in Upto(at, 3) + 1 .. Len(exp) : exp[k].optional
      BY DEF Upto, cache_hit_template
    <2>3. at \in [1 .. 3 -> DOMAIN exp] /\ Len(procedures) = 3
      BY DEF cache_hit_template
    <2> HIDE DEF at, exp, procedures
    <2>4. /\ Len(procedures) \in Nat /\ at \in [1 .. Len(procedures) -> DOMAIN exp]
          /\ Compared(exp, procedures, Len(procedures), at)
          /\ \A k \in Upto(at, Len(procedures)) + 1 .. Len(exp) : exp[k].optional
      BY <2>1, <2>2, <2>3
    <2>5. Accepts(exp, procedures)
      BY <2>4, AcceptedAt
    <2> QED
      BY <2>5 DEF exp, procedures
  <1>6. Accepts(cache_missed_HEAD_template,
                << "do_HEAD", "requestMainServer", "setHeaders", "sendHeaders" >>)
    <2> DEFINE at == [i \in 1 .. 4 |-> i]
               exp == cache_missed_HEAD_template
               procedures == << "do_HEAD", "requestMainServer", "setHeaders", "sendHeaders" >>
    <2>1. Compared(exp, procedures, 4, at)
      BY DEF Compared, Candidates, Upto, cache_missed_HEAD_template
    <2>2. \A k \in Upto(at, 4) + 1 .. Len(exp) : exp[k].optional
      BY DEF Upto, cache_missed_HEAD_template
    <2>3. at \in [1 .. 4 -> DOMAIN exp] /\ Len(procedures) = 4
      BY DEF cache_missed_HEAD_template
    <2> HIDE DEF at, exp, procedures
    <2>4. /\ Len(procedures) \in Nat /\ at \in [1 .. Len(procedures) -> DOMAIN exp]
          /\ Compared(exp, procedures, Len(procedures), at)
          /\ \A k \in Upto(at, Len(procedures)) + 1 .. Len(exp) : exp[k].optional
      BY <2>1, <2>2, <2>3
    <2>5. Accepts(exp, procedures)
      BY <2>4, AcceptedAt
    <2> QED
      BY <2>5 DEF exp, procedures
  <1>7. ~ Accepts(cache_hit_HEAD_template,
                  << "do_HEAD", "requestMainServer", "setHeaders", "sendHeaders" >>)
    <2> DEFINE exp == cache_hit_HEAD_template
               procedures == << "do_HEAD", "requestMainServer", "setHeaders", "sendHeaders" >>
    <2>1. /\ Len(exp) \in Nat /\ DOMAIN exp = 1 .. Len(exp)
          /\ Len(procedures) \in Nat /\ Len(procedures) >= 2 /\ ~ exp[1].optional
          /\ 3 \in 2 .. Len(exp) /\ ~ exp[3].optional /\ exp[3].method # procedures[2]
          /\ \A j \in 2 .. 3 - 1 : exp[j].optional /\ exp[j].method # procedures[2]
      BY DEF cache_hit_HEAD_template
    <2> HIDE DEF exp, procedures
    <2>2. ~ Accepts(exp, procedures)
      BY <2>1, RefusedAtTwo
    <2> QED
      BY <2>2 DEF exp, procedures
  <1>8. ~ Accepts(cache_missed_HEAD_template, << "do_HEAD", "getHeaders", "sendHeaders" >>)
    <2> DEFINE exp == cache_missed_HEAD_template
               procedures == << "do_HEAD", "getHeaders", "sendHeaders" >>
    <2>1. /\ Len(exp) \in Nat /\ DOMAIN exp = 1 .. Len(exp)
          /\ Len(procedures) \in Nat /\ Len(procedures) >= 2 /\ ~ exp[1].optional
          /\ 2 \in 2 .. Len(exp) /\ ~ exp[2].optional /\ exp[2].method # procedures[2]
          /\ \A j \in 2 .. 2 - 1 : exp[j].optional /\ exp[j].method # procedures[2]
      BY DEF cache_missed_HEAD_template
    <2> HIDE DEF exp, procedures
    <2>2. ~ Accepts(exp, procedures)
      BY <2>1, RefusedAtTwo
    <2> QED
      BY <2>2 DEF exp, procedures
  <1>9. Accepts(cache_hit_HEAD_template, << "do_HEAD", "getHeaders", "sendHeaders" >>)
    <2> DEFINE at == [i \in 1 .. 3 |-> i]
               exp == cache_hit_HEAD_template
               procedures == << "do_HEAD", "getHeaders", "sendHeaders" >>
    <2>1. Compared(exp, procedures, 3, at)
      BY DEF Compared, Candidates, Upto, cache_hit_HEAD_template
    <2>2. \A k \in Upto(at, 3) + 1 .. Len(exp) : exp[k].optional
      BY DEF Upto, cache_hit_HEAD_template
    <2>3. at \in [1 .. 3 -> DOMAIN exp] /\ Len(procedures) = 3
      BY DEF cache_hit_HEAD_template
    <2> HIDE DEF at, exp, procedures
    <2>4. /\ Len(procedures) \in Nat /\ at \in [1 .. Len(procedures) -> DOMAIN exp]
          /\ Compared(exp, procedures, Len(procedures), at)
          /\ \A k \in Upto(at, Len(procedures)) + 1 .. Len(exp) : exp[k].optional
      BY <2>1, <2>2, <2>3
    <2>5. Accepts(exp, procedures)
      BY <2>4, AcceptedAt
    <2> QED
      BY <2>5 DEF exp, procedures
  <1> QED
    BY <1>1, <1>2, <1>3, <1>4, <1>5, <1>6, <1>7, <1>8, <1>9

\* What is recorded of an answered request fits the templates that are meant for it.
LEMMA RecordedCallsFit ==
  ASSUME CacheInv, CallsRecorded
  PROVE  CallsFitTemplates
  <1> SUFFICES ASSUME Answered PROVE CallsFitTemplates
    BY DEF CallsFitTemplates
  <1>1. req.method \in {"GET", "HEAD"}
    BY DEF CacheInv, CacheShape
  <1>2. answer.status = 404 /\ req.method = "GET" => Accepts(not_found_template, calls)
    BY TemplatesJudge DEF CallsRecorded, Opened
  <1>3. ASSUME answer.status = 200
        PROVE  /\ source = "main" =>
                    calls = << Opened, "requestMainServer", "setHeaders", "sendHeaders" >>
               /\ source = "cache" => calls = << Opened, "getHeaders", "sendHeaders" >>
               /\ source \in {"main", "cache"}
    <2>1. calls = Append(Traced, "sendHeaders") /\ source \in {"main", "cache"}
      BY <1>3 DEF CallsRecorded
    <2>2. ASSUME source = "main"
          PROVE  calls = << Opened, "requestMainServer", "setHeaders", "sendHeaders" >>
      <3>1. Traced = << Opened, "requestMainServer", "setHeaders" >>
        BY <2>2 DEF Traced
      <3> QED
        BY <2>1, <3>1, OpenedGrows
    <2>3. ASSUME source = "cache"
          PROVE  calls = << Opened, "getHeaders", "sendHeaders" >>
      <3>1. Traced = << Opened, "getHeaders" >>
        BY <2>3 DEF Traced
      <3> QED
        BY <2>1, <3>1, OpenedGrows
    <2> QED
      BY <2>1, <2>2, <2>3
  <1>4. ASSUME answer.status = 200, req.method = "GET"
        PROVE  /\ Accepts(cache_missed_template, calls) <=> source = "main"
               /\ Accepts(cache_hit_template, calls) <=> source = "cache"
    <2>1. Opened = "do_GET" /\ "main" # "cache"
      BY <1>4 DEF Opened
    <2> QED
      BY <1>3, <1>4, <2>1, TemplatesJudge
  <1>5. ASSUME answer.status = 200, req.method = "HEAD"
        PROVE  /\ Accepts(cache_missed_HEAD_template, calls) <=> source = "main"
               /\ Accepts(cache_hit_HEAD_template, calls) <=> source = "cache"
    <2>1. Opened = "do_HEAD" /\ "main" # "cache"
      BY <1>5 DEF Opened
    <2> QED
      BY <1>3, <1>5, <2>1, TemplatesJudge
  <1> QED
    BY <1>2, <1>4, <1>5 DEF CallsFitTemplates

\* What a client gets is the whole file or short for a known reason, and the tests
\* tell from the calls whether it came from the cache, for any paths and lengths
\* (CachingServer.touchItem, BaseTestCase.compareProcedures).
THEOREM CacheAnswersAreExplained == CacheSpec => []CacheAnswersExplained
  <1>1. CacheInv /\ CallsRecorded => CacheAnswersExplained
    BY RecordedCallsFit DEF CacheInv, CacheAnswersExplained
  <1>2. QED
    BY CacheInvInit, CacheInvStep, CallsRecordedInit, CallsRecordedStep, <1>1, PTL DEF CacheSpec

-----------------------------------------------------------------------------
(***************************************************************************)
(* DnsServer                                                               *)
(***************************************************************************)

\* A request is on its way as a question or as an answer, once; those that were not
\* given up have been answered, but for the one the client waits for.
OnTheWay ==
  /\ asks \in Nat
  /\ \A m \in questions \cup answers :
       /\ m.ask \in 1 .. asks
       /\ m.port \notin givenUp =>
            chase = "waits" /\ m.port = port /\ m.name = asked_name /\ m.ask = asks
  /\ \A m, n \in questions : m.ask = n.ask => m = n
  /\ \A m, n \in answers : m.ask = n.ask => m = n
  /\ \A q \in questions, a \in answers : q.ask # a.ask

DnsInv ==
  /\ dnsTable \in DnsTables
  /\ OnTheWay
  /\ \A a \in answers : a.type \in {"CNAME", "A", "NXDomain"} /\ Answers(a, a.name)
  /\ ResolvesToNearest

\* A nonempty set of natural numbers has a minimum.
LEMMA LeastOfNats ==
  ASSUME NEW S, S \subseteq Nat, S # {}
  PROVE  \E x \in S : \A y \in S : x <= y
  <1>1. PICK x \in S : \A y \in S : ~ (<<y, x>> \in OpToRel(<, Nat))
    BY WFMin, NatLessThanWellFounded
  <1>2. ASSUME NEW y \in S
        PROVE  x <= y
    <2>1. x \in Nat /\ y \in Nat
      OBVIOUS
    <2>2. y < x => <<y, x>> \in OpToRel(<, Nat)
      BY <2>1, Zenon DEF OpToRel
    <2>3. ~ (y < x)
      BY <1>1, <2>2, Zenon
    <2> QED
      BY <2>1, <2>3
  <1> QED
    BY <1>2

\* The record that answers a name is one of the table.
LEMMA RecordOfTable ==
  ASSUME DnsAssumption, dnsTable \in DnsTables, NEW name, Records(dnsTable, name) # {}
  PROVE  \E i \in DOMAIN dnsTable : RecordOf(dnsTable, name) = dnsTable[i]
  <1> DEFINE R == Records(dnsTable, name)
  <1>1. R \subseteq DOMAIN dnsTable /\ DOMAIN dnsTable \subseteq Nat /\ R # {}
    BY DEF DnsAssumption, Records
  <1>2. PICK i \in R : \A j \in R : i <= j
    <2> HIDE DEF R
    <2> QED
      BY <1>1, LeastOfNats
  <1> DEFINE P(x) == x \in R /\ \A j \in R : x <= j
             first == CHOOSE x : P(x)
  <1>3. P(first)
    <2>1. P(i)
      BY <1>2
    <2> HIDE DEF P
    <2> QED
      BY <2>1
  <1>4. RecordOf(dnsTable, name) = dnsTable[CHOOSE x \in R : \A j \in R : x <= j]
    BY DEF RecordOf
  <1>5. (CHOOSE x \in R : \A j \in R : x <= j) = first
    OBVIOUS
  <1> QED
    BY <1>1, <1>3, <1>4, <1>5

\* The squared distance of two known addresses
LEMMA DistanceOfKnown ==
  ASSUME DnsAssumption, NEW a \in DOMAIN Location, NEW b \in DOMAIN Location
  PROVE  Distance(a, b) \in Nat
  <1>1. /\ Location[a][1] \in Int /\ Location[a][2] \in Int
        /\ Location[b][1] \in Int /\ Location[b][2] \in Int
    BY DEF DnsAssumption
  <1>2. \A x \in Int : x * x \in Nat
    OBVIOUS
  <1>3. /\ Location[a][1] - Location[b][1] \in Int
        /\ Location[a][2] - Location[b][2] \in Int
    BY <1>1
  <1>4. \A m, n \in Nat : m + n \in Nat
    OBVIOUS
  <1> DEFINE dx == Location[a][1] - Location[b][1]
             dy == Location[a][2] - Location[b][2]
  <1>5. Distance(a, b) = dx * dx + dy * dy
    BY DEF Distance
  <1> HIDE DEF dx, dy
  <1>6. dx * dx \in Nat /\ dy * dy \in Nat
    BY <1>2, <1>3 DEF dx, dy
  <1> QED
    BY <1>4, <1>5, <1>6

\* min(value, key) gives one of the addresses, and none is nearer.
LEMMA NearestIsNearest ==
  ASSUME DnsAssumption, NEW addrs \in Seq(STRING), addrs # << >>,
         client \in DOMAIN Location,
         \A i \in DOMAIN addrs : addrs[i] \in DOMAIN Location
  PROVE  /\ \E i \in DOMAIN addrs : Nearest(addrs) = addrs[i]
         /\ \A i \in DOMAIN addrs :
              Distance(client, Nearest(addrs)) <= Distance(client, addrs[i])
  <1> DEFINE d(i) == Distance(client, addrs[i])
             near == {i \in DOMAIN addrs : \A j \in DOMAIN addrs : d(i) <= d(j)}
             P(i) == /\ i \in DOMAIN addrs
                     /\ \A j \in DOMAIN addrs : d(i) <= d(j)
                     /\ \A j \in 1 .. i - 1 : d(j) > d(i)
             pos == CHOOSE i : P(i)
  <1>1. DOMAIN addrs \subseteq Nat /\ DOMAIN addrs = 1 .. Len(addrs) /\ DOMAIN addrs # {}
    OBVIOUS
  <1>2. \A i \in DOMAIN addrs : d(i) \in Nat
    BY DistanceOfKnown
  <1>3. near # {}
    <2> DEFINE D == {d(i) : i \in DOMAIN addrs}
    <2>1. D \subseteq Nat /\ D # {}
      BY <1>1, <1>2
    <2> HIDE DEF d, D
    <2>2. PICK x \in D : \A y \in D : x <= y
      BY <2>1, LeastOfNats
    <2> QED
      BY <2>2 DEF D
  <1>4. PICK i \in near : \A j \in near : i <= j
    <2>1. near \subseteq Nat
      BY <1>1
    <2> HIDE DEF near
    <2> QED
      BY <1>3, <2>1, LeastOfNats
  <1>5. P(i)
    <2> HIDE DEF d
    <2>1. ASSUME NEW j \in 1 .. i - 1
          PROVE  d(j) > d(i)
      <3>1. /\ i \in DOMAIN addrs /\ j \in DOMAIN addrs
            /\ i \in Nat /\ j \in Nat /\ j < i
        BY <1>1, <1>4
      <3>4. j \notin near
        <4> HIDE DEF near
        <4> QED
          BY <1>4, <3>1
      <3>2. PICK k \in DOMAIN addrs : ~ (d(j) <= d(k))
        BY <3>1, <3>4
      <3>3. d(i) <= d(k) /\ d(i) \in Nat /\ d(j) \in Nat /\ d(k) \in Nat
        BY <1>2, <1>4, <3>1
      <3> QED
        BY <3>2, <3>3
    <2> QED
      BY <1>4, <2>1
  <1>6. P(pos)
    <2> HIDE DEF P
    <2> QED
      BY <1>5
  <1>7. Nearest(addrs) = addrs[pos]
    BY DEF Nearest
  <1> QED
    BY <1>6, <1>7

LEMMA DnsInvInit ==
  ASSUME DnsInit
  PROVE  DnsInv
  BY DEF DnsInit, DnsInv, OnTheWay, ResolvesToNearest

\* The answer that the server sends is the table's for the name in the question.
LEMMA ResponseAnswers ==
  ASSUME DnsAssumption, dnsTable \in DnsTables, NEW name, Records(dnsTable, name) # {},
         ~ RaisesOn(RecordOf(dnsTable, name)), NEW a,
         a.type = Response(RecordOf(dnsTable, name)).type,
         a.value = Response(RecordOf(dnsTable, name)).value
  PROVE  a.type \in {"CNAME", "A"} /\ Answers(a, name)
  <1>1. PICK r : r = RecordOf(dnsTable, name)
    OBVIOUS
  <1>2. CASE r.type = "CNAME"
    <2>1. a.type = "CNAME" /\ a.value = r.value
      BY <1>1, <1>2 DEF Response
    <2> QED
      BY <1>1, <1>2, <2>1 DEF Answers, IsAlias
  <1>3. CASE r.type # "CNAME"
    <2>1. /\ r.type = "A" /\ r.value # << >> /\ client \in DOMAIN Location
          /\ \A i \in DOMAIN r.value : r.value[i] \in DOMAIN Location
      BY <1>1, <1>3 DEF RaisesOn
    <2>2. a.type = "A" /\ a.value = Nearest(r.value)
      BY <1>1, <1>3 DEF Response
    <2>3. r.value \in Seq(STRING)
      <3>1. PICK i \in DOMAIN dnsTable : r = dnsTable[i]
        BY <1>1, RecordOfTable
      <3> DEFINE Record == [domain : Seq(STRING \cup {Wildcard}), type : STRING,
                            value : Seq(STRING)]
      <3>2. dnsTable \in Seq(Record)
        BY DEF DnsAssumption
      <3>3. dnsTable[i] \in Record
        <4> HIDE DEF Record
        <4> QED
          BY <3>2
      <3> QED
        BY <3>1, <3>3
    <2>4. /\ \E i \in DOMAIN r.value : Nearest(r.value) = r.value[i]
          /\ \A i \in DOMAIN r.value :
               Distance(client, Nearest(r.value)) <= Distance(client, r.value[i])
      BY <2>1, <2>3, NearestIsNearest
    <2> QED
      BY <1>1, <2>1, <2>2, <2>4 DEF Answers
  <1> QED
    BY <1>2, <1>3

\* Steps that leave the table and the client alone leave its answers alone.
LEMMA SameAnswers ==
  ASSUME UNCHANGED <<dnsTable, client>>, NEW a, NEW name
  PROVE  Answers(a, name)' = Answers(a, name)
  BY DEF Answers, IsAlias, Records, RecordOf, NameMatches, LabelAt, Distance

LEMMA HandleInv ==
  ASSUME DnsAssumption, DnsInv, NEW q \in questions, Handle(q)
  PROVE  DnsInv'
  <1> DEFINE made(type, value) == [port |-> q.port, ask |-> q.ask, name |-> q.name,
                                   type |-> type, value |-> value]
  <1>1. /\ questions' = questions \ {q}
        /\ UNCHANGED <<dnsTable, client, asked_name, port, reply, chase, asks, givenUp>>
    BY DEF Handle
  <1>2. \/ answers' = answers
        \/ \E type, value : /\ answers' = answers \cup {made(type, value)}
                            /\ type \in {"CNAME", "A", "NXDomain"}
                            /\ Answers(made(type, value), q.name)
    <2>1. CASE Records(dnsTable, q.name) = {}
      <3>1. answers' = answers \cup {made("NXDomain", << >>)}
        BY <2>1 DEF Handle, NXDomain
      <3>2. Answers(made("NXDomain", << >>), q.name)
        BY <2>1 DEF Answers
      <3> HIDE DEF made
      <3> QED
        BY <3>1, <3>2
    <2>2. CASE Records(dnsTable, q.name) # {} /\ RaisesOn(RecordOf(dnsTable, q.name))
      BY <2>2 DEF Handle
    <2>3. CASE Records(dnsTable, q.name) # {} /\ ~ RaisesOn(RecordOf(dnsTable, q.name))
      <3> DEFINE r == Response(RecordOf(dnsTable, q.name))
      <3>1. answers' = answers \cup {made(r.type, r.value)}
        BY <2>3 DEF Handle
      <3>2. made(r.type, r.value).type = r.type /\ made(r.type, r.value).value = r.value
        OBVIOUS
      <3> HIDE DEF made
      <3>3. /\ made(r.type, r.value).type \in {"CNAME", "A"}
            /\ Answers(made(r.type, r.value), q.name)
        BY <2>3, <3>2, ResponseAnswers DEF DnsInv
      <3> QED
        BY <3>1, <3>2, <3>3
    <2> QED
      BY <2>1, <2>2, <2>3
  <1>3. OnTheWay'
    <2>1. \A type, value : /\ made(type, value).ask = q.ask /\ made(type, value).port = q.port
                           /\ made(type, value).name = q.name
      OBVIOUS
    <2> HIDE DEF made
    <2>2. /\ \A m \in answers' : m \in answers \/ (/\ m.ask = q.ask /\ m.port = q.port
                                                /\ m.name = q.name)
          /\ \A m, n \in answers' : m \in answers \/ n \in answers \/ m = n
      <3>1. CASE answers' = answers
        BY <3>1
      <3>2. ASSUME NEW type, NEW value, answers' = answers \cup {made(type, value)}
            PROVE  /\ \A m \in answers' : m \in answers \/ (/\ m.ask = q.ask /\ m.port = q.port
                                                         /\ m.name = q.name)
                   /\ \A m, n \in answers' : m \in answers \/ n \in answers \/ m = n
        BY <2>1, <3>2
      <3> QED
        BY <1>2, <3>1, <3>2
    <2>3. /\ \A m \in questions' : m \in questions /\ m.ask # q.ask
          /\ \A a \in answers : a.ask # q.ask
      BY <1>1 DEF DnsInv, OnTheWay
    <2>4. \A m \in questions' \cup answers' :
            /\ m.ask \in 1 .. asks
            /\ m.port \notin givenUp =>
                 chase = "waits" /\ m.port = port /\ m.name = asked_name /\ m.ask = asks
      BY <2>2, <2>3 DEF DnsInv, OnTheWay
    <2>5. \A m, n \in answers' : m.ask = n.ask => m = n
      BY <2>2, <2>3 DEF DnsInv, OnTheWay
    <2>6. \A m \in questions', a \in answers' : m.ask # a.ask
      BY <2>2, <2>3 DEF DnsInv, OnTheWay
    <2> QED
      BY <1>1, <2>3, <2>4, <2>5, <2>6 DEF DnsInv, OnTheWay
  <1>4. ASSUME NEW a \in answers'
        PROVE  a.type \in {"CNAME", "A", "NXDomain"} /\ Answers(a, a.name)
    <2>1. CASE a \in answers
      BY <2>1 DEF DnsInv
    <2>2. CASE a \notin answers
      <3>1. PICK type, value : /\ a = made(type, value)
                               /\ type \in {"CNAME", "A", "NXDomain"}
                               /\ Answers(made(type, value), q.name)
        BY <1>2, <2>2
      <3>2. a.type = type /\ a.name = q.name
        BY <3>1
      <3> HIDE DEF made
      <3> QED
        BY <3>1, <3>2
    <2> QED
      BY <2>1, <2>2
  <1>5. \A a, name : Answers(a, name)' = Answers(a, name)
    BY <1>1, SameAnswers
  <1>6. ResolvesToNearest'
    BY <1>1, <1>5 DEF DnsInv, ResolvesToNearest
  <1> QED
    BY <1>1, <1>3, <1>4, <1>5, <1>6 DEF DnsInv

LEMMA AskInv ==
  ASSUME DnsInv, NEW name, NEW p, Ask(name, p)
  PROVE  DnsInv'
  <1>1. OnTheWay'
    BY DEF DnsInv, OnTheWay, Ask
  <1>2. \A a, n : Answers(a, n)' = Answers(a, n)
    BY SameAnswers DEF Ask
  <1>3. ResolvesToNearest'
    BY DEF Ask, ResolvesToNearest
  <1> QED
    BY <1>1, <1>2, <1>3 DEF DnsInv, Ask

LEMMA TakeAnswerInv ==
  ASSUME DnsInv, NEW a \in answers, TakeAnswer(a)
  PROVE  DnsInv'
  <1>1. /\ chase = "waits" /\ a.port = port /\ answers' = answers \ {a}
        /\ reply' = [type |-> a.type, value |-> a.value]
        /\ chase' = IF a.type = "A" THEN "resolved" ELSE "failed"
        /\ UNCHANGED <<dnsTable, client, asked_name, port, questions, asks, givenUp>>
    BY DEF TakeAnswer
  <1>2. ASSUME NEW m \in questions \cup (answers \ {a})
        PROVE  m.port \in givenUp
    <2> SUFFICES ASSUME m.port \notin givenUp PROVE FALSE
      OBVIOUS
    <2>1. m.port = port /\ m.ask = asks /\ a.ask = asks
      BY <1>1 DEF DnsInv, OnTheWay
    <2> QED
      BY <2>1 DEF DnsInv, OnTheWay
  <1>3. OnTheWay'
    BY <1>1, <1>2 DEF DnsInv, OnTheWay
  <1>4. \A x, n : Answers(x, n)' = Answers(x, n)
    BY <1>1, SameAnswers
  <1>5. ResolvesToNearest'
    <2>1. port \notin givenUp => a.name = asked_name
      BY <1>1 DEF DnsInv, OnTheWay
    <2>2. a.type \in {"CNAME", "A", "NXDomain"} /\ Answers(a, a.name)
      BY DEF DnsInv
    <2>3. Answers(a, a.name) => Answers(reply', a.name)
      BY <1>1 DEF Answers
    <2> QED
      BY <1>1, <1>4, <2>1, <2>2, <2>3 DEF ResolvesToNearest
  <1> QED
    BY <1>1, <1>3, <1>4, <1>5 DEF DnsInv

LEMMA NoAnswerCameInv ==
  ASSUME DnsInv, NoAnswerCame
  PROVE  DnsInv'
  <1>1. OnTheWay'
    BY DEF DnsInv, OnTheWay, NoAnswerCame
  <1>2. \A a, n : Answers(a, n)' = Answers(a, n)
    BY SameAnswers DEF NoAnswerCame
  <1>3. ResolvesToNearest'
    BY DEF NoAnswerCame, ResolvesToNearest
  <1> QED
    BY <1>1, <1>2, <1>3 DEF DnsInv, NoAnswerCame

LEMMA DnsInvStep ==
  ASSUME DnsAssumption, DnsInv, [DnsNext]_dnsVars
  PROVE  DnsInv'
  <1>1. CASE UNCHANGED dnsVars
    <2>1. \A a, n : Answers(a, n)' = Answers(a, n)
      BY <1>1, SameAnswers DEF dnsVars
    <2>2. OnTheWay'
      BY <1>1 DEF DnsInv, OnTheWay, dnsVars
    <2> QED
      BY <1>1, <2>1, <2>2 DEF DnsInv, ResolvesToNearest, dnsVars
  <1> QED
    BY <1>1, HandleInv, AskInv, TakeAnswerInv, NoAnswerCameInv DEF DnsNext

\* For any table and any number of requests: an answer that is taken on a port no
\* request was given up on is the table's for the name asked for, an address of it
\* the nearest one.
THEOREM NearestIsResolved == DnsSpec => []ResolvesToNearest
  <1>1. DnsInit => DnsInv
    BY DnsInvInit
  <1>2. DnsInv /\ [DnsNext]_dnsVars => DnsInv'
    BY DnsAssumption, DnsInvStep
  <1>3. DnsInv => ResolvesToNearest
    BY DEF DnsInv
  <1> QED
    BY <1>1, <1>2, <1>3, PTL DEF DnsSpec
=============================================================================
