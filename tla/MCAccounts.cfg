SPECIFICATION MCSpec
CONSTANTS
  Request = {r1, r2, r3}
  Earlier = earlier
  Person = {p1, p2}
  Busy = {p1}
  Switches = {{"wipe_week", "campaign"}, {"joins_out", "first", "second"}, {"trial", "pc"}, {"renewal", "first_join"}}
  DailyLimit = 1
  Batch = 1
INVARIANTS
  AccountsTypeOK
  ChangeThrowsOut LinkWorksOnce ErasedRightly
  MailIsSparing StopEndsIt DoneReachedAll
SYMMETRY Symmetry
CHECK_DEADLOCK FALSE
