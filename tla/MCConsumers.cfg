CONSTANTS
  e1 = e1
  e2 = e2
  e3 = e3
  p1 = p1
  p2 = p2
  all = all
  some = some
  Faults = 1
  Admin = 1
  Events <- MCEvents
  Procs <- MCProcs
  MaxSeq = 4
  Consumers <- OnlySome
  Wildcards <- NoConsumers
  HeadStarters <- OnlySome
  Wants <- WantsOf
  BatchSize = 2
  ParkAfter = 2
  PruneBatch = 1
  Budgets <- RunBounds
SPECIFICATION FairSpec
INVARIANTS ConTypeOK CursorTellsTheTruth
PROPERTIES ParkedStaysPut EveryEventIsSettled
CHECK_DEADLOCK FALSE
