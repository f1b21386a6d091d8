SPECIFICATION MCSpec
CONSTANTS
  MaxJobs = 2
  MaxQueue = 2
  MaxSend = 2
  MaxWire = 1
  MaxTrouble = 1
INVARIANTS RelayTypeOK AgentsWordIsFinal
PROPERTIES StopReachesTheAgent
CHECK_DEADLOCK FALSE
