SPECIFICATION MCSpec
CONSTANTS
  Sub = {x, y}
  InApp = inApp
  Handler = {h1, h2}
  MaxChanges = 3
  MaxCrowded = 2
  None = none
INVARIANTS BillingTypeOK NoFreeRide PaidIsOpen TrialOnce
SYMMETRY Symmetry
CHECK_DEADLOCK FALSE
