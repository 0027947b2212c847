SPECIFICATION FairSpec
CONSTANTS
  Sources = {"long"}
  Size <- MCSize
  Name <- MCName
  MaxOpens = 4
  PacketSize = 2
  PacketLimit = 2
  MinLimit = 1
  Attempts = 2
  MaxRuns = 2
  MaxFaults = 3
INVARIANTS
  DeliveredAtEnd
PROPERTIES
  ServesRemoteFiles
  Completes
CHECK_DEADLOCK FALSE
