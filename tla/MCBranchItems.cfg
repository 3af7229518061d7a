CONSTANTS
  u1 = u1
  u2 = u2
  part = part
  draft = draft
  r1 = r1
  r2 = r2
  Nobody = Nobody
  Users <- TwoUsers
  Items <- BothItems
  Existing <- OnlyPart
  Released <- OnlyPart
  Requests <- TwoRequests
  Kinds <- RequestKinds
  MaxRequests = 4
SPECIFICATION Spec
SYMMETRY Symmetry
INVARIANTS BranchTypeOK MergedContentIsACopy ContentIsListed
PROPERTIES CheckoutIsExclusive ArchivedTakesNoCommit
