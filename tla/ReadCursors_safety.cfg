CONSTANTS
  u1 = u1
  u2 = u2
  h1 = h1
  h2 = h2
  Member <- MCMember
  Handler <- MCHandler
  Warm <- OneCold
  MaxSeq = 2
SPECIFICATION Spec
SYMMETRY HandlerSymmetry
INVARIANTS TypeOK CursorsWithinHead BadgeExact
PROPERTIES CatchUpNeverLowers
CHECK_DEADLOCK FALSE
