SPECIFICATION Spec
CONSTANTS
  Sockets = {s1, s2}
  HostAddrs = {h1}
  AnyAddr = any
  Ephemeral = {1, 2}
  BindPorts = {2, 3, 4}
  BadPorts = {4}
  HostPorts = {}
  ClosesAgain = TRUE
INVARIANTS
  OpenIsRegistered
CHECK_DEADLOCK FALSE
