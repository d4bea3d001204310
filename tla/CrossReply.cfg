CONSTANTS
  c1 = c1
  c2 = c2
  c3 = c3
  s1 = s1
  s2 = s2
  Calls <- ServerCalls
  Request <- ServerRequests
  Programs <- MCPrograms
  Timed = FALSE
  MaxGen = 2
CHECK_DEADLOCK FALSE
SPECIFICATION RpcSpec
INVARIANT OwnRepliesOfServer
