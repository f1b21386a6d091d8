SPECIFICATION Spec
CONSTANTS
  Sub = {x, y}
  InApp = inApp
  Handler = {h1}
  MaxChanges = 2
  None = none
PROPERTY GivenIsKept
CHECK_DEADLOCK FALSE
