CONSTANTS
  u0 = u0
  u1 = u1
  u2 = u2
  r1 = r1
  r2 = r2
  r3 = r3
  User <- ThreeUsers
  Founder = u0
  Request <- ThreeRequests
  MaxUses = 1
  GroupMax = 3
  MaxAsked = 4
SPECIFICATION Spec
SYMMETRY Symmetry
INVARIANTS TypeOK InviteNotOverspent BannedIsOut LockOrder
PROPERTIES CountHeals
CHECK_DEADLOCK FALSE
