\* One client, frames of every kind the server treats differently, and both
\* threads fair.
CONSTANTS
  MaxClients = 1
  MaxRuns = 0
  MaxFrames = 1
  Emulate = TRUE
  ResetsCounters = TRUE
  MaxArrivals = 3
  Kinds = {"start", "stop", "reset", "config", "otherByte", "string", "error"}
  Programs = {"ldmx_rogue_server", "LdmxRceTcpServer"}
  MaxMessages = 4
  MaxTx = 2
SPECIFICATION MCFairSpec
INVARIANTS
  ServerInv
  RceInv
PROPERTIES
  WaitingIsObeyed
  RunIsShown
