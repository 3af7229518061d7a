CONSTANTS
  Faults = 0
  Admin = 0
  e1 = e1
  e2 = e2
  e3 = e3
  p1 = p1
  p2 = p2
  all = all
  some = some
  Events <- TwoEvents
  Procs <- OneProc
  MaxSeq = 6
  Consumers <- Both
  Wildcards <- OnlyAll
  HeadStarters <- OnlyAll
  Wants <- WantsOf
  BatchSize = 2
  ParkAfter = 1
  PruneBatch = 1
  Budgets <- RetentionBounds
SPECIFICATION Spec
INVARIANT OwedEventsAreKept
CHECK_DEADLOCK FALSE
