---------------------------- MODULE HostNetwork ----------------------------
(***************************************************************************)
(* What a run of swyard does to the machine it runs on: start_framework of *)
(* syinit.py, the host firewalls of hostfirewall.py, the capture filters   *)
(* of pcapffi.py, and the thread of the application, whose sockets change  *)
(* both (socket.__set_fw_rules).                                           *)
(*                                                                         *)
(* A drop is a pair of a device and what the host no longer receives on    *)
(* it: everything, a protocol, or one port.  The commands themselves       *)
(* (iptables, sysctl, pfctl) are external; each is one step of the main    *)
(* thread, and between any two of them, or in one, the thread may be       *)
(* interrupted or run into an exception.                                   *)
(***************************************************************************)
EXTENDS Integers, Sequences, FiniteSets, SequencesExt

CONSTANTS
  Platforms,   \* some of "linux", "darwin", "test"
  Devices,     \* the devices libpcap finds on the host
  Loopback,    \* those of them that are loopback devices,
  NoInterface, \* that are no network interfaces,
  Unknown,     \* and whose arp_ignore sysctl cannot read
  Named,       \* the sets of devices -i and -x may name
  RuleLists,   \* the values of --firewall: "all", "none", "icmp", or "?"
  Ports        \* ports of the application's sockets

ASSUME DevicesAssumption ==
  Loopback \subseteq Devices /\ NoInterface \subseteq Devices /\ Unknown \subseteq Devices
ASSUME CommandLineAssumption ==
  /\ Platforms \subseteq {"linux", "darwin", "test"}
  /\ "none" \notin Ports

VARIABLES
  given,     \* the command line: [platform, mode, app, rules], and what comes
             \* of it: the devices to be used; whether the host's rules can be
             \* saved, and whether "raw" is among them; whether the user code
             \* heeds a shutdown (it receives with a timeout, its scenario ends)
  host,      \* the host: [own, drops, arp, pf]: are its own rules in force,
             \* what it drops for us, devices with arp_ignore 8, pf enabled
  delegate,  \* the firewall object: [intf, rulecmds, arpignore, drops to add]
  main,      \* where the main thread is
  todo,      \* the commands it still has to run there: [cmd, on]
  cut,       \* history: where an exception or Ctrl-C took it out of its way
  app,       \* where the application's thread is
  setup_ok,  \* _setup_ok
  netobj,    \* _netobj: "none", "up" or "down"
  filter,    \* of each device: "closed", "any", or the port it admits
  sockets,   \* ports of the application's sockets, in the order of their making
  late       \* history: drops added after the host's rules were flushed

workVars == <<host, todo, cut>>
restVars == <<given, filter, sockets, late>>
hostVars == <<given, host, delegate, main, todo, cut, app, setup_ok, netobj, filter, sockets,
              late>>

Modes == {"compile", "nocode", "run"}

\* make_device_list: a loopback device has to be asked for; names that are not
\* found are left out, so that with none but such everything is used.
DevicesFound(includes) == (Devices \ Loopback) \cup (Loopback \cap includes)

MakeDeviceList(includes, excludes) ==
  LET wanted == includes \cap DevicesFound(includes)
      usable == DevicesFound(includes) \ (NoInterface \cup excludes)
  IN  IF wanted = {} THEN usable ELSE usable \cap wanted

HostInit ==
  /\ \E includes, excludes \in Named :
       given \in [platform : Platforms, mode : Modes, app : BOOLEAN, rules : RuleLists,
                 devices : {MakeDeviceList(includes, excludes)},
                 saves : BOOLEAN, raw : BOOLEAN, heeds : BOOLEAN]
  /\ given.mode \in {"compile", "nocode"} => given.platform = "test"
  /\ host = [own |-> TRUE, drops |-> {}, arp |-> {}, pf |-> FALSE]
  /\ delegate = [intf |-> {}, rulecmds |-> {}, arpignore |-> {}, adding |-> {}]
  /\ main = "starts" /\ todo = {} /\ cut = "none"
  /\ app = IF given.app THEN "barrier" ELSE "none"
  /\ setup_ok = FALSE /\ netobj = "none"
  /\ filter = [d \in Devices |-> "closed"]
  /\ sockets = << >>
  /\ late = {}

-----------------------------------------------------------------------------
(***************************************************************************)
(* Firewalls                                                               *)
(***************************************************************************)
\* args.fwconfig: nothing is blocked beside an application, everything if
\* nothing else is said.
Rules == IF given.app THEN << >>
         ELSE IF given.rules = << >> THEN <<"all">> ELSE given.rules

\* Firewall([], ...) in test mode
Interfaces == IF given.platform = "test" THEN {} ELSE given.devices

\* _parse_rule
Parse(rule, intf) == IF rule = "none" THEN {} ELSE intf \X {rule}

AllDrops(rules, intf) == UNION {Parse(rules[i], intf) : i \in DOMAIN rules}

\* _interp_rule raises ValueError.
Unparsable(rule) == rule = "?"

\* On macOS "none" raises as well (rulestr is unbound), and so does a pfctl that
\* gives no token.
ConstructionRaises ==
  \/ \E i \in DOMAIN Rules : Unparsable(Rules[i])
  \/ given.platform = "darwin" /\ (~ given.saves \/ \E i \in DOMAIN Rules : Rules[i] = "none")

\* the devices a rule "all" makes quiet
Quiet == IF given.platform = "linux" /\ Contains(Rules, "all") THEN Interfaces \ Unknown ELSE {}

\* "if not devlist"
NothingToUse == given.platform # "test" /\ given.devices = {}

Command(cmd, on) == {[cmd |-> cmd, on |-> on]}

\* The commands of each part of the way in and out, which run one after the
\* other.  A rule is a command for each device on Linux, all are one on macOS;
\* __init__ there enables pf, on Linux it makes the devices quiet.
LinuxCommands(part) ==
  CASE part = "constructing" -> {[cmd |-> "arp_ignore=8", on |-> {d}] : d \in Quiet}
    [] part \in {"flushing", "clearing"} -> Command("-F", {}) \cup Command("-t raw -F", {})
    [] part = "blocking" -> {[cmd |-> "-A", on |-> {x}] : x \in delegate.rulecmds}
    [] part = "restoring" -> Command("iptables-restore", {})
    [] part = "resetting" -> {[cmd |-> "arp_ignore", on |-> {d}] : d \in delegate.arpignore}
    [] OTHER -> {}

MacCommands(part) ==
  CASE part = "constructing" -> Command("pfctl -E", {})
    [] part = "blocking" -> Command("pfctl -f", delegate.rulecmds)
    [] part = "clearing" -> Command("pfctl -Fr", {})
    [] part = "resetting" -> Command("pfctl -X", {})
    [] OTHER -> {}

Commands(part) ==
  CASE given.platform = "linux" -> LinuxCommands(part)
    [] given.platform = "darwin" -> MacCommands(part)
    [] OTHER -> {}

\* What a command makes of the host.  iptables-restore brings back the tables
\* that were saved, "raw" with them if it existed.
After(c) ==
  CASE c.cmd = "arp_ignore=8" -> [host EXCEPT !.arp = @ \cup c.on]
    [] c.cmd = "arp_ignore" -> [host EXCEPT !.arp = @ \ c.on]
    [] c.cmd = "-F" -> [host EXCEPT !.own = FALSE]
    [] c.cmd = "-t raw -F" -> [host EXCEPT !.own = FALSE, !.drops = {}]
    [] c.cmd = "-A" -> [host EXCEPT !.drops = @ \cup c.on]
    [] c.cmd = "iptables-restore" ->
         [host EXCEPT !.own = @ \/ given.saves,
                      !.drops = IF given.saves /\ given.raw THEN {} ELSE @]
    [] c.cmd = "pfctl -E" -> [host EXCEPT !.pf = TRUE]
    [] c.cmd = "pfctl -X" -> [host EXCEPT !.pf = FALSE]
    [] c.cmd = "pfctl -f" -> [host EXCEPT !.drops = c.on]
    [] c.cmd = "pfctl -Fr" -> [host EXCEPT !.drops = {}]

\* Mutation: the devices are made quiet before the rules are parsed.
ConstructQuietFirst ==
  /\ main = "starts" /\ given.mode = "run" /\ ~ NothingToUse
  /\ IF ConstructionRaises
     THEN main' = "exited" /\ host' = [host EXCEPT !.arp = Quiet] /\ UNCHANGED <<delegate, todo>>
     ELSE /\ delegate' = [delegate EXCEPT
               !.intf = Interfaces \ (IF Contains(Rules, "all") THEN Unknown ELSE {}),
               !.rulecmds = AllDrops(Rules, Interfaces), !.arpignore = Quiet]
          /\ main' = "constructing" /\ todo' = Commands("constructing") /\ host' = host
  /\ UNCHANGED <<cut, app, setup_ok, netobj, restVars>>

\* LinuxFirewall, MacOSFirewall, TestModeFirewall: __init__ up to its commands.
\* Those of the rules are for all devices, the unknown ones are left out from
\* then on.
Construct ==
  /\ main = "starts" /\ given.mode = "run" /\ ~ NothingToUse
  /\ IF ConstructionRaises
     THEN main' = "exited" /\ UNCHANGED <<delegate, todo>>
     ELSE /\ delegate' = [delegate EXCEPT
               !.intf = Interfaces \ (IF Contains(Rules, "all") THEN Unknown ELSE {}),
               !.rulecmds = AllDrops(Rules, Interfaces), !.arpignore = Quiet]
          /\ main' = "constructing" /\ todo' = Commands("constructing")
  /\ UNCHANGED <<host, cut, app, setup_ok, netobj, restVars>>

\* __init__, block (the tables are flushed, then the rules go in), and unblock
Following == [constructing |-> "flushing", flushing |-> "blocking", blocking |-> "blocked",
              over |-> "clearing", clearing |-> "restoring", restoring |-> "resetting",
              resetting |-> "exited"]

\* The tables are flushed in this order; that of devices and rules is of no effect.
Ready == {c \in todo : c.cmd = "-t raw -F" => todo = {c}}

RunCommand ==
  /\ \E c \in Ready : host' = After(c) /\ todo' = todo \ {c}
  /\ UNCHANGED <<delegate, main, cut, app, setup_ok, netobj, restVars>>

\* All of them have run; _setup_ok is set when the firewall is entered.
Proceed ==
  /\ main \in DOMAIN Following /\ todo = {}
  /\ main' = Following[main] /\ todo' = Commands(main')
  /\ setup_ok' = (setup_ok \/ main' = "blocked")
  /\ UNCHANGED <<host, delegate, cut, app, netobj, restVars>>

\* Nothing catches what is raised in or between these commands: Ctrl-C before
\* the network object has a handler for it, or an OSError, whose own handler in
\* _runcmd raises AttributeError.  The command that was running may be done.
CutShort ==
  /\ main \in DOMAIN Following /\ main # "over"
  /\ host' \in {host} \cup {After(c) : c \in Ready}
  /\ main' = "exited" /\ todo' = {} /\ cut' = main
  /\ UNCHANGED <<delegate, app, setup_ok, netobj, restVars>>

-----------------------------------------------------------------------------
(***************************************************************************)
(* The main thread                                                         *)
(***************************************************************************)
\* Without user code, or to compile scenarios, it ends at once.
EndAtOnce ==
  /\ main = "starts" /\ given.mode \in {"compile", "nocode"}
  /\ main' = "exited"
  /\ UNCHANGED <<workVars, delegate, app, setup_ok, netobj, restVars>>

\* Ctrl-C before there is a firewall, or at the barrier behind it: the place of
\* the main thread there is given up, and a thread that waits waits on.
InterruptStart ==
  /\ main \in {"starts", "blocked"}
  /\ main' = IF main = "starts" THEN "exited" ELSE "over"
  /\ cut' = main
  /\ UNCHANGED <<host, todo, delegate, app, setup_ok, netobj, restVars>>

\* barrier.wait() of both threads
Meet == app \in {"barrier", "none"}
AppReleased == app' = IF app = "none" THEN "none" ELSE IF setup_ok THEN "runs" ELSE "over"

\* Mutation: nobody waits at the barrier.
NoDevicesAtOnce ==
  /\ main = "starts" /\ given.mode = "run" /\ NothingToUse
  /\ main' = "exited"
  /\ UNCHANGED <<workVars, delegate, app, setup_ok, netobj, restVars>>

NoDevices ==
  /\ main = "starts" /\ given.mode = "run" /\ NothingToUse
  /\ Meet /\ AppReleased
  /\ main' = "exited"
  /\ UNCHANGED <<workVars, delegate, setup_ok, netobj, restVars>>

PassBarrier ==
  /\ main = "blocked"
  /\ Meet /\ AppReleased
  /\ main' = IF given.platform = "test" THEN "testing" ELSE "opening"
  /\ UNCHANGED <<workVars, delegate, setup_ok, netobj, restVars>>

\* _make_pcaps opens the devices one after the other, without a filter.
OpenDevice(d) ==
  /\ main = "opening" /\ d \in given.devices /\ filter[d] = "closed"
  /\ filter' = [filter EXCEPT ![d] = "any"]
  /\ UNCHANGED <<given, workVars, delegate, main, app, setup_ok, netobj, sockets, late>>

\* LLNetReal() raises: for a device that has no addresses ("skipping", says the
\* warning, and the loop over None follows), or that cannot be opened; or Ctrl-C
\* comes before its handler.  What is open stays open.
OpenFails ==
  /\ main = "opening" /\ main' = "over"
  /\ \E d \in given.devices : filter[d] = "closed"
  /\ UNCHANGED <<workVars, delegate, app, setup_ok, netobj, restVars>>

\* _netobj gets its value when all are open.
AssignNetobj ==
  /\ main = "opening" /\ \A d \in given.devices : filter[d] # "closed"
  /\ main' = "running" /\ netobj' = "up"
  /\ UNCHANGED <<workVars, delegate, app, setup_ok, restVars>>

\* The user code ends, when it likes or because of a shutdown; main_real closes
\* the devices, main_test ends with the scenarios.
UserEnds ==
  /\ main \in {"running", "testing"}
  /\ main' = "over"
  /\ netobj' = IF main = "running" THEN "down" ELSE netobj
  /\ filter' = [d \in Devices |-> "closed"]
  /\ UNCHANGED <<given, workVars, delegate, app, setup_ok, sockets, late>>

\* User code that takes no net object is refused, other code may raise as well:
\* the network is not shut down then.
UserRaises ==
  /\ main = "running" /\ main' = "over"
  /\ UNCHANGED <<workVars, delegate, app, setup_ok, netobj, restVars>>

-----------------------------------------------------------------------------
(***************************************************************************)
(* The application's thread                                                *)
(***************************************************************************)
\* A socket is made, or bound: the rule goes to the host, one command for each
\* device on Linux.  On macOS the commands replace what the anchor holds.
AddRule(p) ==
  /\ app = "runs" /\ p \notin ToSet(sockets)
  /\ app' = "adding"
  /\ sockets' = Append(sockets, p)
  /\ delegate' = [delegate EXCEPT !.adding = Parse(p, delegate.intf)]
  /\ UNCHANGED <<given, workVars, main, setup_ok, netobj, filter, late>>

\* unblock has thrown our rules away
Flushed ==
  \/ main \in {"restoring", "resetting", "exited"}
  \/ main = "clearing" /\ \A c \in todo : c.cmd \notin {"-t raw -F", "pfctl -Fr"}

\* Mutation: on Linux as well the new rule replaces the others.
RunRuleCommandReplacing ==
  /\ app = "adding" /\ delegate.adding # {}
  /\ \E cmds \in {delegate.adding} :
       /\ host' = [host EXCEPT !.drops = cmds]
       /\ delegate' = [delegate EXCEPT !.adding = @ \ cmds, !.rulecmds = @ \cup cmds]
       /\ late' = IF Flushed THEN late \cup cmds ELSE late
  /\ UNCHANGED <<given, main, todo, cut, app, setup_ok, netobj, filter, sockets>>

RunRuleCommand ==
  /\ app = "adding" /\ delegate.adding # {}
  /\ \E cmds \in IF given.platform = "linux" THEN {{c} : c \in delegate.adding}
                 ELSE {delegate.adding} :
       /\ host' = [host EXCEPT !.drops = IF given.platform = "linux" THEN @ \cup cmds ELSE cmds]
       /\ delegate' = [delegate EXCEPT !.adding = @ \ cmds, !.rulecmds = @ \cup cmds]
       /\ late' = IF Flushed THEN late \cup cmds ELSE late
  /\ UNCHANGED <<given, main, todo, cut, app, setup_ok, netobj, filter, sockets>>

\* set_bpf_filter_on_all_devices: all devices that are open
SetFilters ==
  /\ app = "adding" /\ delegate.adding = {}
  /\ filter' = [d \in Devices |-> IF filter[d] = "closed" THEN "closed" ELSE Last(sockets)]
  /\ app' = "runs"
  /\ UNCHANGED <<given, workVars, delegate, main, setup_ok, netobj, sockets, late>>

\* import_or_die returns or raises, at any point of a call too.
AppCodeEnds ==
  /\ app \in {"runs", "adding"} /\ app' = "over"
  /\ UNCHANGED <<workVars, delegate, main, setup_ok, netobj, restVars>>

\* "if _netobj is not None: _netobj.shutdown()"
AppThreadEnds ==
  /\ app = "over" /\ app' = IF netobj = "none" THEN "left" ELSE "ended"
  /\ netobj' = IF netobj = "up" THEN "down" ELSE netobj
  /\ UNCHANGED <<workVars, delegate, main, setup_ok, restVars>>

MainStep ==
  \/ EndAtOnce \/ NoDevices \/ Construct \/ RunCommand \/ Proceed \/ PassBarrier
  \/ \E d \in Devices : OpenDevice(d)
  \/ OpenFails \/ AssignNetobj \/ UserEnds \/ UserRaises

AppThreadStep ==
  \/ \E p \in Ports : AddRule(p)
  \/ RunRuleCommand \/ SetFilters \/ AppCodeEnds \/ AppThreadEnds

HostNext == MainStep \/ CutShort \/ InterruptStart \/ AppThreadStep

\* User code that has no reason to end: the network is up, or it does not heed
\* that it is down.  shutdown() puts nothing into the queue, so that recv_packet
\* without a timeout waits on (llnetreal.py:208).
UserGoesOn ==
  /\ main \in {"running", "testing"}
  /\ ~ (given.heeds /\ (main = "testing" \/ netobj = "down"))

\* The threads run; the code of the application ends some time, and user code
\* that heeds it when the network is down or the scenario at its end.
HostFairness ==
  /\ WF_hostVars(MainStep /\ ~ UserGoesOn)
  /\ WF_hostVars(AppCodeEnds) /\ WF_hostVars(AppThreadEnds)

HostSpec == HostInit /\ [][HostNext]_hostVars /\ HostFairness

-----------------------------------------------------------------------------
\* "The saved firewall settings are restored when Switchyard exits"
\* (live_execution.rst:55), and how far that goes if an exception or Ctrl-C cuts
\* the commands short.  When the main thread has ended, the host has its own
\* rules again if they could be saved, unless it was cut short between the first
\* flush of its rules and iptables-restore; it drops nothing but what an
\* application that outlives the thread has asked for since, unless it was cut
\* short while rules went in or out; its settings are as they were, unless it was
\* cut short at all (LinuxFirewall.__init__, block, unblock, hostfirewall.py:136).
HostRestored ==
  main = "exited" =>
    /\ given.saves /\ cut \notin {"flushing", "blocking", "clearing", "restoring"} => host.own
    /\ cut \notin {"blocking", "clearing"} => host.drops \subseteq late
    /\ cut \in {"none", "starts", "blocked"} => host.arp = {} /\ ~ host.pf

\* While Switchyard has the network, every socket the application has made is
\* kept from the host on every device, and every open device that is filtered
\* admits the newest socket.  On macOS both hold for the newest socket only
\* (socketemu.py:245).
SocketsServed ==
  main \in {"opening", "running"} /\ app = "runs" /\ sockets # << >> =>
    /\ \A p \in IF given.platform = "darwin" THEN {Last(sockets)} ELSE ToSet(sockets) :
         given.devices \X {p} \subseteq host.drops
    /\ \A d \in Devices : filter[d] \in {"closed", "any", Last(sockets)}

\* Once the main thread is past its options the process ends, with three
\* exceptions: an application is started although the main thread never comes to
\* the barrier, or leaves it on Ctrl-C; nobody shuts down the network object,
\* whose threads go on, because the application is over before it is there and
\* the user code runs, or has raised; or the user code does not heed that the
\* network is down or its scenario over (syinit.py:83, 162, llnetreal.py:297, 208).
ProcessEnds ==
  LET NeverReleased == /\ app = "barrier" /\ main = "exited"
                       /\ given.mode \in {"compile", "nocode"} \/ ConstructionRaises \/ cut # "none"
      NotShutDown == netobj = "up" /\ app \in {"none", "left"}
      Unheeding == main \in {"running", "testing"} /\ netobj # "up" /\ ~ given.heeds
  IN  main # "starts" ~> \/ /\ main = "exited" /\ netobj # "up"
                            /\ app \in {"none", "left", "ended"}
                         \/ NeverReleased \/ NotShutDown \/ Unheeding
=============================================================================
