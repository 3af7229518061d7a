CONSTANTS
  p1 = p1
  p2 = p2
  Nobody = Nobody
  Pumps <- MCPumps
  Last = 2
  MaxAttempts = 2
  Threshold = 2
  MaxPerRun = 2
  MaxFaults = 1
  MaxOrders = 1
SPECIFICATION FairWebSpec
INVARIANTS WebTypeOK NothingOvertakes OneRun BreakerCountsTheDead OneLateRequest RequestsAreBudgeted
PROPERTIES OutcomeStands DeliveriesAreSettled
CHECK_DEADLOCK FALSE
