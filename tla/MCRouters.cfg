SPECIFICATION MCSpec
CONSTANTS
  none = none
  zero = zero
  r1 = r1
  r2 = r2
  h1 = h1
  h2 = h2
  gw = gw
  far = far
  nowhere = nowhere
  eth0 = eth0
  eth1 = eth1
  Program = {"hh5", "hh4", "hh3", "hh3t", "m5", "m4", "m3", "nju3"}
  Addr <- MCAddr
  NoAddr = none
  Intf <- MCIntf
  IntfAddr <- MCIntfAddr
  IntfRoutes <- MCIntfRoutes
  FileRoutes <- MCFileRoutes
  Inputs <- MCInputs
  Labs = {4, 5}
  Zero = zero
  Table <- MCNjuTable
  NjuInputs <- MCNjuInputs
  ArpSenders <- MCArpSenders
  ArpTargets <- MCArpTargets
  MaxPackets = 2
  ArpTries = 2
  RetryAge = 1
INVARIANTS
  PacketsConserved
  QueueFollowsRoutes
PROPERTIES
  RequestsMade
  PacketsMoveOn
CHECK_DEADLOCK FALSE
