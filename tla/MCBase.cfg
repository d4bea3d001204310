CONSTANTS
  c1 = c1
  c2 = c2
  c3 = c3
  Calls <- Calls3
  HookCalls <- HookCall
  Robust = FALSE
  QueueMax = 0
  Hook = "calls"
  UserOps = {"close", "reset", "wrapper close", "cancel"}
  MaxGen = 3
  MaxWaiting = 2
CHECK_DEADLOCK FALSE
SYMMETRY Symmetry2
SPECIFICATION Spec
INVARIANTS
  OneLiveStream
  PendingOnLiveStream
PROPERTY UsesDispatch
