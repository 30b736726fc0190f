------------------------------ MODULE Topology ------------------------------
(***************************************************************************)
(* A topology of switchyard/lib/topo/topobuild.py: hosts, switches and     *)
(* routers with numbered interfaces, links that remember the interface at  *)
(* either end, the counter of the MAC addresses, and the file format that  *)
(* keeps all of it but the counters.  The graph itself is networkx's       *)
(* (version 1, whose methods the renaming calls).                          *)
(***************************************************************************)
EXTENDS Integers, Sequences, FiniteSets, TLC, SequencesExt

NoAddress == 0
Typed == -1    \* an address that somebody chose
Interface(mac) == [mac |-> mac, ip |-> NoAddress]

\* f with x, whatever was there
With(f, x, e) == [y \in DOMAIN f \cup {x} |-> IF y = x THEN e ELSE f[y]]

\* "eth0", "eth1", ... are the numbers of the interfaces; ifnum the next one
NewNode(kind) == [kind |-> kind, ifnum |-> 0, intfs |-> <<>>]
\* Mutation: the interfaces are not counted.
SameInterface(node, mac) == [node EXCEPT !.intfs = With(@, node.ifnum, Interface(mac))]
NextInterface(node, mac) ==
  [node EXCEPT !.ifnum = @ + 1, !.intfs = With(@, node.ifnum, Interface(mac))]

\* A link is known by the set of its ends, one node for a link to itself.
EmptyTopology == [nodes |-> <<>>, links |-> <<>>, ifnum |-> 1]
NodeNames(t) == DOMAIN t.nodes
Links(t) == DOMAIN t.links
LinkEnds(t) == {e \in Links(t) \X NodeNames(t) : e[2] \in e[1]}
Only(f, S) == [x \in DOMAIN f \cap S |-> f[x]]

AddNode(t, n, kind) == [t EXCEPT !.nodes = With(@, n, NewNode(kind))]
RemoveNode(t, n) ==
  [t EXCEPT !.nodes = Only(@, NodeNames(t) \ {n}), !.links = Only(@, {l \in Links(t) : n \notin l})]

\* the link gets a new interface at either end, also where there was one
AddLink(t, u, v, delay) ==
  LET one == [t.nodes EXCEPT ![u] = NextInterface(@, t.ifnum)]
      two == [one EXCEPT ![v] = NextInterface(@, t.ifnum + 1)]
      ends == [n \in {u, v} |-> IF n = v THEN one[v].ifnum ELSE t.nodes[u].ifnum]
  IN  [nodes |-> two, ifnum |-> t.ifnum + 2,
       links |-> With(t.links, {u, v}, [at |-> ends, delay |-> delay])]

\* the interfaces stay
RemoveLink(t, l) == [t EXCEPT !.links = Only(@, Links(t) \ {l})]
SetLinkCharacteristics(t, l, delay) == [t EXCEPT !.links[l].delay = delay]
SetInterfaceAddresses(t, n, i, ip) == [t EXCEPT !.nodes[n].intfs[i].ip = ip]

\* save_to_file and load_from_file: the constructors start the counters anew
Unserialize(t) ==
  [t EXCEPT !.nodes = [n \in DOMAIN @ |-> [@[n] EXCEPT !.ifnum = 0]], !.ifnum = 1]

(* Hosts and routers get addresses, link by link; the addresses of a       *)
(* subnet may run out half-way.                                            *)
Numbered(t) == {e \in LinkEnds(t) : t.nodes[e[2]].kind \in {"Host", "Router"}}
AssignOne(t, e, ip) == SetInterfaceAddresses(t, e[2], t.links[e[1]].at[e[2]], ip)
AssignIPAddresses(t, subnet) ==
  LET ends == SetToSeq(Numbered(t))
      n == IF Len(ends) < subnet THEN Len(ends) ELSE subnet
  IN  FoldLeft(LAMBDA s, k : AssignOne(s, ends[k], k), t, [k \in 1..n |-> k])

(* addNodeLabelPrefix and union.  A link of a node to itself cannot be     *)
(* renamed: its attribute is deleted before it is read again.              *)
Renames(t) == \A l \in Links(t) : Cardinality(l) = 2
Prefixed(prefix, S) == {<<prefix, n>> : n \in S}
AddNodeLabelPrefix(t, prefix) ==
  [t EXCEPT !.nodes = [n \in Prefixed(prefix, DOMAIN @) |-> @[n[2]]],
            !.links = [l \in {Prefixed(prefix, m) : m \in DOMAIN @} |->
                         LET old == @[{n[2] : n \in l}] IN
                         [old EXCEPT !.at = [n \in l |-> @[n[2]]]]]]
Unites(t, o) == NodeNames(t) \cap NodeNames(o) = {}
Union(t, o) == [nodes |-> t.nodes @@ o.nodes, links |-> t.links @@ o.links, ifnum |-> 1]

(* What a topology is made of; and that its counters are ahead of what is  *)
(* numbered with them, as they are until it is read from a file.           *)
IsNode(node) ==
  /\ node = [kind |-> node.kind, ifnum |-> node.ifnum, intfs |-> node.intfs]
  /\ node.ifnum \in Nat /\ DOMAIN node.intfs \subseteq Nat
  /\ \A i \in DOMAIN node.intfs : node.intfs[i] \in [mac : Nat, ip : Int]
IsLink(l, link) ==
  /\ link = [at |-> link.at, delay |-> link.delay]
  /\ link.at \in [l -> Nat] /\ link.delay \in Nat
IsTopology(t) ==
  /\ t = [nodes |-> t.nodes, links |-> t.links, ifnum |-> t.ifnum] /\ t.ifnum \in Nat \ {0}
  /\ \A n \in NodeNames(t) : IsNode(t.nodes[n])
  /\ \A l \in Links(t) : IsLink(l, t.links[l]) /\ \E u, v \in NodeNames(t) : l = {u, v}
Counted(t) ==
  \A n \in NodeNames(t) : \A i \in DOMAIN t.nodes[n].intfs :
    i < t.nodes[n].ifnum /\ t.nodes[n].intfs[i].mac < t.ifnum

(* Every link has an interface of its own at each of its ends, every       *)
(* interface a MAC address of its own, and no two ends of links an address *)
(* that was assigned.                                                      *)
OwnInterfaces(t) ==
  /\ \A e \in LinkEnds(t) : t.links[e[1]].at[e[2]] \in DOMAIN t.nodes[e[2]].intfs
  /\ \A e, f \in LinkEnds(t) :
       e # f /\ e[2] = f[2] => t.links[e[1]].at[e[2]] # t.links[f[1]].at[f[2]]
OwnMacs(t) ==
  LET places == UNION {{<<n, i>> : i \in DOMAIN t.nodes[n].intfs} : n \in NodeNames(t)} IN
  \A p, q \in places : p # q => t.nodes[p[1]].intfs[p[2]].mac # t.nodes[q[1]].intfs[q[2]].mac
OwnAddresses(t) ==
  \A e, f \in Numbered(t) :
    LET ip(x) == t.nodes[x[2]].intfs[t.links[x[1]].at[x[2]]].ip IN
    e # f /\ ip(e) > 0 => ip(e) # ip(f)
Owned(t) == OwnInterfaces(t) /\ OwnMacs(t) /\ OwnAddresses(t)
=============================================================================
