CONSTANTS
  Faults = 0
  Admin = 1
  e1 = e1
  e2 = e2
  e3 = e3
  p1 = p1
  p2 = p2
  all = all
  some = some
  Events <- TwoEvents
  Procs <- OneProc
  MaxSeq = 6
  Consumers <- Both
  Wildcards <- OnlyAll
  HeadStarters <- NoConsumers
  Wants <- WantsOf
  BatchSize = 2
  ParkAfter = 1
  PruneBatch = 1
  Budgets <- RunBounds
SPECIFICATION Spec
INVARIANT SkipsLoseOneEach
CHECK_DEADLOCK FALSE
