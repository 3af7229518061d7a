CONSTANTS
  e1 = e1
  e2 = e2
  e3 = e3
  p1 = p1
  p2 = p2
  Events <- MCEvents
  Procs <- MCProcs
  MaxSeq = 5
SPECIFICATION FairSeqSpec
INVARIANT ReadyMeansNoneStranded
PROPERTIES SeqOrderIsCommitOrder StrandedIsDelivered
