SPECIFICATION FairSpec
CONSTANTS
  Schedule = {s1}
  Join = {j1}
  Copy = {c1}
  FreeJoins = 1
  MaxStops = 1
  None = none
PROPERTY NothingIsDropped
CHECK_DEADLOCK FALSE
