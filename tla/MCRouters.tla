------------------------------ MODULE MCRouters ------------------------------
(* A router between a host network and a network with a gateway to others:   *)
(* one of LabRouters, or of NjuRouter as the program "nju".                   *)
EXTENDS NjuRouter

CONSTANTS none, zero, r1, r2, h1, h2, gw, far, nowhere, eth0, eth1

MCAddr == {zero, r1, r2, h1, h2, gw, far, nowhere}
MCIntf == {eth0, eth1}
MCIntfAddr == (eth0 :> r1) @@ (eth1 :> r2)

MCIntfRoutes ==
  << [net |-> {r1, h1}, len |-> 24, hop |-> none, intf |-> eth0],
     [net |-> {r2, h2}, len |-> 24, hop |-> none, intf |-> eth1] >>

\* a specific route behind a shorter one, with and without a default route
MCRoutes ==
  << [net |-> {r1, h1, far}, len |-> 8, hop |-> h1, intf |-> eth0],
     [net |-> {far}, len |-> 16, hop |-> h2, intf |-> eth1] >>

MCFileRoutes ==
  {MCRoutes, Append(MCRoutes, [net |-> MCAddr, len |-> 0, hop |-> h2, intf |-> eth1])}

\* Packets between the networks, one whose ttl ends here, an echo
\* request for the router, and one between two addresses without a route.
MCInputs ==
  { [kind |-> "data", src |-> h1, dst |-> far, ttl |-> 64, dev |-> eth0],
    [kind |-> "data", src |-> h2, dst |-> h1, ttl |-> 1, dev |-> eth1],
    [kind |-> "echo", src |-> h2, dst |-> r1, ttl |-> 64, dev |-> eth1],
    [kind |-> "data", src |-> nowhere, dst |-> h2, ttl |-> 64, dev |-> eth1],
    [kind |-> "data", src |-> nowhere, dst |-> nowhere, ttl |-> 64, dev |-> eth0] }

\* h1 never speaks before it is asked
MCArpSenders == {h2}
MCArpTargets == {r2, h1}

-----------------------------------------------------------------------------
\* The gateway reaches far by a specific route and, with a shorter prefix that
\* comes first in the table, everything of h2's network again.
MCNjuTable ==
  << [net |-> {r1, h1}, len |-> 24, hop |-> zero, intf |-> eth0],
     [net |-> {r2, h2, gw}, len |-> 24, hop |-> zero, intf |-> eth1],
     [net |-> {r1, h1, far}, len |-> 8, hop |-> h2, intf |-> eth1],
     [net |-> {far}, len |-> 16, hop |-> gw, intf |-> eth1] >>

\* Packets between the networks, one whose ttl ends here, one for the router,
\* an echo request, and two without a route.
MCNjuInputs ==
  { [kind |-> "data", src |-> h1, dst |-> far, ttl |-> 64],
    [kind |-> "data", src |-> h1, dst |-> h2, ttl |-> 64],
    [kind |-> "data", src |-> h2, dst |-> h1, ttl |-> 1],
    [kind |-> "data", src |-> far, dst |-> r1, ttl |-> 2],
    [kind |-> "echo", src |-> h2, dst |-> r1, ttl |-> 64],
    [kind |-> "data", src |-> h1, dst |-> nowhere, ttl |-> 64],
    [kind |-> "data", src |-> nowhere, dst |-> nowhere, ttl |-> 64] }
-----------------------------------------------------------------------------
allVars == <<vars, njuVars>>

\* A router that is "off" has no step to make.
LabOff ==
  /\ program = "nju" /\ table = <<>> /\ arpTable = {} /\ queue = <<>> /\ at = 1
  /\ pc = "off" /\ answer = none /\ received = 0 /\ dropped = {}
  /\ sent = [i \in 1 .. MaxPackets |-> 0]

NjuOff ==
  /\ arpKnown = {} /\ arpSend = <<>> /\ unreach = <<>> /\ where = "off" /\ accepted = 0
  /\ left = [i \in 1 .. MaxPackets |-> 0] /\ answerable = {}
  /\ lab = 5 /\ thrown = {}

MCInit == (Init /\ NjuOff) \/ (NjuInit /\ LabOff)

MCNext ==
  \/ program # "nju" /\ Next /\ UNCHANGED njuVars
  \/ program = "nju" /\ NjuNext /\ UNCHANGED vars

\* The router's loop keeps running, time passes, and now and then the links are
\* silent for a second.
MCSpec ==
  /\ MCInit /\ [][MCNext]_allVars
  /\ WF_vars(Serve) /\ WF_vars(NoPackets) /\ WF_vars(Tick)
  /\ WF_njuVars(NjuStep) /\ WF_njuVars(NjuTick)

-----------------------------------------------------------------------------
\* No packet is lost, doubled, or both forwarded and answered, whatever the queue,
\* the recursion and the errors about errors turn it into; the routers of lab 5
\* throw none away.
PacketsConserved == OneOfEach /\ NothingLostOrDoubled

\* What waits in the queue of the NJU router waits for the next hop and the
\* interface of its most specific route.
QueueFollowsRoutes == QueueMatchesRoutes /\ MostSpecificRoute

\* No packet is given up before all requests for its next hop were made, and no
\* entry is left unserved whose last request is a second old.
RequestsMade == AllRequestsMade /\ NoRetryOverlooked

\* NothingWaitsForEver of the one and EveryPacketLeaves of the other: no packet
\* waits for ever, it leaves or is given up, and the NJU router answers if it knew
\* the way back when the packet came.
PacketsMoveOn ==
  \A i \in Id : (Pending(i) \/ NjuPending(i))
                 ~> IF program = "nju" THEN NjuSettled(i) ELSE Settled(i)
=============================================================================
