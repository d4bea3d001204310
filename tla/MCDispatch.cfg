CONSTANTS
  c1 = c1
  c2 = c2
  c3 = c3
  c4 = c4
  Calls <- MCCalls
SPECIFICATION FairDispatchSpec
INVARIANTS
  DispatchTypeOK
  AtMostOnce
  OwnReply
  NoCallForgotten
PROPERTIES
  SweepCompletes
  KeepsPromise
