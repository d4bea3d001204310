CONSTANTS
  c1 = c1
  c2 = c2
  c3 = c3
  Calls <- Calls2
  HookCalls <- HookCall2
  Robust = TRUE
  QueueMax = 1
  Hook = "calls"
  UserOps = {}
  MaxGen = 2
  MaxWaiting = 1
CHECK_DEADLOCK FALSE
SPECIFICATION FairSpec
PROPERTY Reconnects
