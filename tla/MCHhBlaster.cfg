SPECIFICATION BothSpec
CONSTANTS
  Num = 4
  LinkCap = 1
  SenderWindow = 3
  Timeout = 1
INVARIANTS
  WindowsAgree
PROPERTIES
  SendsOnlyOutstanding
  SentIsDelivered
CHECK_DEADLOCK FALSE
