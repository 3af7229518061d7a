CONSTANTS
  j1 = j1
  j2 = j2
  t1 = t1
  t2 = t2
  NoJob = NoJob
  Jobs <- MCJobs
  Threads <- MCThreads
  MaxAttempts = 2
  MaxFaults = 1
  MaxOrders = 1
SPECIFICATION FairJobSpec
INVARIANTS OneExecution AttemptsAreBudgeted HandlersAreCounted
PROPERTIES SettledStands JobsAreSettled
CHECK_DEADLOCK FALSE
