SPECIFICATION RunnerSpec
CONSTANTS
  MaxAttempts = 2
  MaxConnectsPerMinute = 2
  Minute = 1
  RetryBase = 1
  RetryMax = 1
  ConnectJitterMax = 1
  InServerConfirm = 1
  WipeWaitFallback = 1
  GameLines = {"joined", "disconnected"}
  MaxUnread = 1
  CloseTime = 0
INVARIANT WaitsForTheWipe
CHECK_DEADLOCK FALSE
