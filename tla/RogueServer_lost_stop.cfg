\* A stop is sent to a running server.
CONSTANTS
  MaxClients = 1
  MaxRuns = 0
  MaxFrames = 1
  Emulate = TRUE
  ResetsCounters = TRUE
  MaxArrivals = 3
  Kinds = {"start", "stop", "config"}
  Programs = {"ldmx_rogue_server"}
  MaxMessages = 4
  MaxTx = 2
SPECIFICATION MCFairSpec
PROPERTY StopIsObeyed
