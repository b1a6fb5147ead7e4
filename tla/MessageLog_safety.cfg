CONSTANTS
  p1 = p1
  p2 = p2
  p3 = p3
  p4 = p4
  u1 = u1
  u2 = u2
  n1 = n1
  n2 = n2
  nobody = nobody
  None <- nobody
  Proc <- MCFour
  User <- TwoUsers
  Nonce <- TwoNonces
SPECIFICATION Spec
SYMMETRY Symmetry
INVARIANTS TypeOK Gapless PostedOnce NoPhantomReplies
PROPERTIES ImplementsLog NoPostBySuspended
CHECK_DEADLOCK FALSE
