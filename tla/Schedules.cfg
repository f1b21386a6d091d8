SPECIFICATION FairSpec
CONSTANTS
  Schedule = {s1, s2}
  Join = {j1}
  Copy = {c1}
  FreeJoins = 1
  MaxStops = 1
  None = none
INVARIANTS ScheduleTypeOK FiresAtMostOnce FreeWipeOnce
PROPERTIES WordIsKept DueIsTaken
CHECK_DEADLOCK FALSE
