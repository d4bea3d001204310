CONSTANTS
  c1 = c1
  c2 = c2
  c3 = c3
  Calls <- Calls3
  HookCalls <- NoCalls
  Robust = TRUE
  QueueMax = 2
  Hook = "works"
  UserOps = {"close", "reset"}
  MaxGen = 3
  MaxWaiting = 2
CHECK_DEADLOCK FALSE
SYMMETRY Symmetry3
SPECIFICATION Spec
INVARIANTS
  TransportTypeOK
  OneLiveStream
  PendingOnLiveStream
  CallsConserved
  SomeoneReconnects
  QueueDrained
  OneLoopPerLoss
PROPERTIES
  StaysClosed
  QueueInOrder
  AcceptedNotDropped
