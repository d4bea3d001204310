CONSTANTS
  c1 = c1
  c2 = c2
  c3 = c3
  Calls <- Calls2
  HookCalls <- NoCalls
  Robust = TRUE
  QueueMax = 1
  Hook = "absent"
  UserOps = {"close", "reset"}
  MaxGen = 3
  MaxWaiting = 1
CHECK_DEADLOCK FALSE
SPECIFICATION FairSpec
PROPERTIES
  Reconnects
  QueueMovesOn
