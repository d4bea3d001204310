CONSTANTS
  MaxServers = 3
  MaxAccept = 4
  MaxCloses = 2
  AcceptErrors = TRUE
  ListenKinds = {"once", "retry"}
SPECIFICATION FairListenerSpec
INVARIANTS
  ListenerTypeOK
  ListLinksLive
  WalkVisitsLive
  OwnedServer
PROPERTY RetryEnds
