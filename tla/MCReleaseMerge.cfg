CONSTANTS
  o1 = o1
  o2 = o2
  d1 = d1
  d2 = d2
  i1 = i1
  i2 = i2
  c1 = c1
  c2 = c2
  t1 = t1
  t2 = t2
  Nobody = Nobody
  Designs <- MCDesigns
  Items <- MCItems
  Contents <- MCContents
  Orders <- MCOrders
  DesignOf <- TwoDesigns
  Existing <- OneItem
  Threads <- MCThreads
  Retires = FALSE
  MaxEdits = 3
  MaxFaults = 1
SYMMETRY Symmetric
SPECIFICATION MergeSpec
INVARIANTS MergeTypeOK ReleasesBuildOnEachOther ReleasedOnce OneInService
CHECK_DEADLOCK FALSE
