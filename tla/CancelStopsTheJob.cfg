SPECIFICATION Spec
CONSTANTS
  MaxJobs = 1
  MaxQueue = 2
  MaxSend = 2
  MaxWire = 1
  MaxTrouble = 1
INVARIANT CancelStopsTheJob
CHECK_DEADLOCK FALSE
