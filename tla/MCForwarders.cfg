SPECIFICATION Spec
CONSTANTS
  SwProgram = {"hh", "nju", "m", "hhLru", "njuLru", "mLru", "hhTraffic",
               "njuTraffic", "mTraffic", "hhTo", "njuTo", "mTo", "njuHub", "mHub"}
  Host = {h1, h2, h3}
  Mine = mine
  Broadcast = broadcast
  Port = {p1, p2, p3}
  HostPort = {p1, p2}
  Nowhere = nowhere
  Size = 2
  MinData = 2
  HhTimeout = 1
  Timeout = 2
  MaxFrames = 4
  any = any
  Anything = any
  Rules <- MCRules
  Packets <- MCPackets
  Period = 1
  MaxTime = 9
  Controller = {c1, c2}
  Interface = {1, 2}
  BufferSize = 2
  FirstVersion = "of10"
  None = None
  MaxPackets = 3
  MaxMessages = 2
INVARIANTS
  BufferedPacketsKept
  SentWhereHeard
  RateHolds
PROPERTIES
  ShutdownCompletes
  ImplementsLru
CHECK_DEADLOCK FALSE
