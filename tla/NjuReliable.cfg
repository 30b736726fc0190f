SPECIFICATION FairSpec
CONSTANTS
  Num = 4
  LinkCap = 1
  SenderWindow = 3
  Timeout = 2
  HasOutput = TRUE
INVARIANTS
  AckNeverLost
  DoneIsComplete
PROPERTIES
  SendsOnlyUnacked
  ImplementsFairDelivery
CHECK_DEADLOCK FALSE
