SPECIFICATION Spec
CONSTANTS
  a = a
  b = b
  Name <- MCName
  Ends <- MCEnds
  Start <- MCStart
  File <- MCFile
  Delay = 1
  Sizes = {0, 1}
  MaxCommands = 2
  MaxPackets = 2
  MaxIfs = 3
INVARIANTS
  RunsTheTopology
  LinksKeepOrder
PROPERTIES
  CommandsEnd
CHECK_DEADLOCK FALSE
