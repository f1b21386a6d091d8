SPECIFICATION PolledSpec
CONSTANTS
  MaxAttempts = 3
  MaxConnectsPerMinute = 1
  Minute = 3
  RetryBase = 1
  RetryMax = 2
  ConnectJitterMax = 2
  InServerConfirm = 2
  WipeWaitFallback = 2
INVARIANTS TypeOK RateCap WipeLaunchExplained
PROPERTIES KeepsPromise WipeWaitEnds
CHECK_DEADLOCK FALSE
