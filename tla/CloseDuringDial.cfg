CONSTANTS
  c1 = c1
  c2 = c2
  c3 = c3
  Calls <- Calls1
  HookCalls <- NoCalls
  Robust = TRUE
  QueueMax = 1
  Hook = "absent"
  UserOps = {"close"}
  MaxGen = 2
  MaxWaiting = 1
CHECK_DEADLOCK FALSE
SPECIFICATION Spec
PROPERTY CloseIsFinal
