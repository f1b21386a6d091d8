SPECIFICATION ReportingSpec
CONSTANTS
  MaxJobs = 1
  MaxQueue = 2
  MaxSend = 2
  MaxWire = 1
  MaxTrouble = 2
PROPERTIES ResultArrives StopReachesTheAgent JobIsPickedUp
CHECK_DEADLOCK FALSE
