SPECIFICATION MCSpec
CONSTANTS
  Device = {d1, d2}
  Holder = {a1, a2}
  Code = {c1, c2}
  Nobody = nobody
  Mate = {m1, m2, m3}
  Worker = {w1, w2}
  MaxRewards = 2
  Reporter = {r1, r2}
  Noter = {n1}
  Watcher = w
  MaxRows = 3
  MaxFeed = 2
  MaxSession = 3
  MaxLines = 3
  Grace = 3
  StallReport = 8
  NudgeAfter = 2
  MaxNudges = 3
INVARIANTS
  OnePC TokenOpens MonthsAreEarned MonthIsNotWasted
  PageIsWhole WatcherFallsSilent TailIsTrue WaitIsJust
CHECK_DEADLOCK FALSE
