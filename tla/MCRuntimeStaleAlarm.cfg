SPECIFICATION Spec
CONSTANTS
  main0 = main0
  eth0 = eth0
  raw0 = raw0
  eth1 = eth1
  Users = {main0}
  Main = main0
  Devs = {eth0, raw0}
  Decodable = {eth0}
  MaxFrames = 1
  WithApp = TRUE
  WithSigint = TRUE
  SigintInGet = TRUE
  TimedReceive = TRUE
  Dev = {eth0, eth1}
  Scenarios <- MCScenarios
  Timeout = 3
INVARIANT
  AlarmEndsWithScenario
CHECK_DEADLOCK FALSE
