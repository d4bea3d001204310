CONSTANTS
  c1 = c1
  c2 = c2
  c3 = c3
  s1 = s1
  s2 = s2
  Calls <- MixedCalls
  Request <- MixedRequests
  Programs <- MCPrograms
  Timed = TRUE
  MaxGen = 2
CHECK_DEADLOCK FALSE
SPECIFICATION FairRpcSpec
INVARIANTS
  RpcTypeOK
  OwnReplies
  ServedByItsProgram
  WaitingCallsCanEnd
  TimersOfWaitingCalls
PROPERTY EveryCallEnds
