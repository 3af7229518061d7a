CONSTANTS
  draft = draft
  inReview = inReview
  approved = approved
  cancelled = cancelled
  u1 = u1
  d1 = d1
  d2 = d2
  t1 = t1
  t2 = t2
  States <- MCStates
  Initial = draft
  Edges <- MCEdges
  Kind <- MCKind
  Required <- MCRequired
  Users <- MCUsers
  Designs <- MCDesigns
  Threads <- MCThreads
  MaxRequests = 6
  MaxVotes = 2
  MaxFaults = 1
SPECIFICATION ReleaseSpec
INVARIANT NothingIsLeftBehind
SYMMETRY Symmetric
CHECK_DEADLOCK FALSE
