SPECIFICATION Spec
CONSTANTS
  MaxHops = 3
  MaxEdits = 1
  Wildcards <- MCWildcards
  MatchPacket <- MCPackets
  MatchValue = {0, 1, 2}
  Protocols = {1, 2, 3}
  AddrBits = 2
  MaxChanges = 3
INVARIANTS
  MatchesAgree
  SurvivesTheWire
  HeadersDescribeTheBytes
  OnlyKnownFailures
  TestsAreExact
CHECK_DEADLOCK FALSE
