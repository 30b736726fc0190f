---------------------------- MODULE MCForwarders ----------------------------
(* The programs between two or three networks that forward frames: a        *)
(* learning switch, the firewall, or the OpenFlow switch.                   *)
EXTENDS LearningSwitches, Firewall, OpenFlowSwitch

CONSTANTS any

VARIABLE runs   \* "learning", "firewall" or "openflow"

vars == <<runs, swVars, fwVars, switchVars>>

\* A network that is refused, one whose traffic to a server is limited, name
\* service that is impaired, and limited ICMP.
MCRules ==
  << [permit |-> FALSE, proto |-> "ip", src |-> {1}, dst |-> any,
      srcport |-> any, dstport |-> any, rate |-> 0, impair |-> FALSE],
     [permit |-> TRUE, proto |-> "tcp", src |-> {2}, dst |-> any,
      srcport |-> any, dstport |-> 80, rate |-> 4, impair |-> FALSE],
     [permit |-> TRUE, proto |-> "udp", src |-> any, dst |-> any,
      srcport |-> 53, dstport |-> any, rate |-> 0, impair |-> TRUE],
     [permit |-> TRUE, proto |-> "icmp", src |-> any, dst |-> any,
      srcport |-> any, dstport |-> any, rate |-> 2, impair |-> TRUE] >>

From(ip, proto, src, size) ==
  [ip |-> ip, proto |-> proto, src |-> src, dst |-> {}, srcport |-> 53,
   dstport |-> 80, size |-> size]

MCPackets ==
  { From(TRUE, "tcp", {2}, 2), From(TRUE, "tcp", {2, 3}, 3), From(TRUE, "icmp", {2}, 1),
    From(TRUE, "udp", {}, 3), From(TRUE, "tcp", {1, 2}, 3), From(FALSE, "arp", {}, 3) }

Init ==
  /\ SwInit /\ FwInit /\ SwitchInit
  /\ runs \in {"learning", "firewall", "openflow"}
  /\ runs # "learning" => switch = "mHub"

Next ==
  \/ runs = "learning" /\ SwNext /\ UNCHANGED <<runs, fwVars, switchVars>>
  \/ runs = "firewall" /\ FwNext /\ UNCHANGED <<runs, swVars, switchVars>>
  \/ runs = "openflow" /\ SwitchNext /\ UNCHANGED <<runs, swVars, fwVars>>

Spec == Init /\ [][Next]_vars /\ SwitchFairness
=============================================================================
