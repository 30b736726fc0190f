SPECIFICATION FairSpec
CONSTANTS
  Num = 3
  LinkCap = 1
  SenderWindow = 3
  Timeout = 1
PROPERTY
  AllPacketsSent
CHECK_DEADLOCK FALSE
