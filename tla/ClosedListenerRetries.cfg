CONSTANTS
  MaxServers = 1
  MaxAccept = 1
  MaxCloses = 2
  AcceptErrors = FALSE
  ListenKinds = {"retry"}
SPECIFICATION ListenerSpec
INVARIANT CloseGivesPortBack
