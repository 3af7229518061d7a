CONSTANTS
  u1 = u1
  u2 = u2
  admin = admin
  q1 = q1
  q2 = q2
  Nobody = Nobody
  Users <- MCUsers
  Admins <- MCAdmins
  Requests <- MCRequests
  MaxRequests = 5
  MaxExpiries = 1
SPECIFICATION VaultSpec
INVARIANTS VaultTypeOK ChainIsIntact HoldersHold RestoredOnce
SYMMETRY Symmetric
CHECK_DEADLOCK FALSE
