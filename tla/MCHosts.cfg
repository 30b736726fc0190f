SPECIFICATION HostsSpec
CONSTANTS
  part = {"registry", "calls", "host", "cache", "dns"}
  Sockets = {s1, s2}
  HostAddrs = {h1}
  AnyAddr = any
  Ephemeral = {1, 2}
  BindPorts = {2, 3, 4}
  BadPorts = {4}
  HostPorts = {}
  ClosesAgain = FALSE
  Endpoint = {s1, s2}
  LocalPort = {1, 2, 3}
  Remote = {h2}
  Unset = Unset
  MaxCalls = 5
  Platforms = {"linux", "darwin", "test"}
  Devices = {"eth0", "eth1", "lo", "usbmon0"}
  Loopback = {"lo"}
  NoInterface = {"usbmon0"}
  Named <- MCNamed
  Unknown = {"eth1"}
  RuleLists <- MCRuleLists
  Ports = {"udp:1", "udp:2"}
  photo = photo
  missing = missing
  any = any
  Nothing = Nothing
  Path = {photo, missing}
  Length <- MCLength
  CacheTimeout = 2
  DnsTables <- MCDnsTables
  AskedNames <- MCAskedNames
  DnsPorts = {1, 2}
  MaxAsks = 2
  Clients = {"127.0.0.1", "10.0.0.3", "192.168.0.1"}
  Location <- MCLocation
  Wildcard = "*"
INVARIANTS
  RegistryExact
  FalseMeansUnreachable
  TrueMeansReachable
  AnswersReachAsker
  HostRestored
  ResolvesToNearest
  SocketsServed
  CacheAnswersExplained
PROPERTIES
  ProcessEnds
  DamageHeals
CHECK_DEADLOCK FALSE
