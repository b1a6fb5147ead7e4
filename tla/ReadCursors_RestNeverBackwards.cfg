CONSTANTS
  u1 = u1
  u2 = u2
  h1 = h1
  h2 = h2
  Member <- MCMember
  Handler <- MCHandler
  Warm <- MCMember
  MaxSeq = 3
SPECIFICATION RestSpec
PROPERTY NeverBackwards
CHECK_DEADLOCK FALSE
