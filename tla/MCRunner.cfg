SPECIFICATION MCSpec
CONSTANTS
  MaxAttempts = 2
  MaxConnectsPerMinute = 2
  Minute = 1
  RetryBase = 1
  RetryMax = 1
  ConnectJitterMax = 1
  InServerConfirm = 2
  WipeWaitFallback = 1
  GameLines = {"joined", "disconnected"}
  MaxUnread = 1
  CloseTime = 1
INVARIANTS RunnerTypeOK WonGameIsKept CancelIsObeyed
PROPERTIES QuitIsRespected ExitIsNoticed
CHECK_DEADLOCK FALSE
