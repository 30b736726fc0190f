----------------------------- MODULE MCSimulator -----------------------------
(* The simulator with nothing in it or with two hosts, and a user who types *)
(* two commands.                                                            *)
EXTENDS Simulator

CONSTANTS a, b

\* Two hosts and a link; in files, the same, and its union with a router.
Pair ==
  LET Host(mac) == [kind |-> "Host", ifnum |-> 1, intfs |-> [i \in {0} |-> Interface(mac)]] IN
  [nodes |-> [n \in {a, b} |-> Host(IF n = a THEN 1 ELSE 2)], ifnum |-> 3,
   links |-> [l \in {{a, b}} |-> [at |-> [n \in l |-> 0], delay |-> Delay]]]
Prefix == 1
MCStart == {EmptyTopology, Pair}
MCFile ==
  { Pair,
    AssignIPAddresses(Union(AddNodeLabelPrefix(Pair, Prefix),
                            AddNode(EmptyTopology, b, "Router")), 2) }
MCName == {a, b} \cup Prefixed(Prefix, {a, b})
MCEnds == {<<a, b>>, <<b, b>>}

Spec == SimSpec /\ SimFairness
=============================================================================
