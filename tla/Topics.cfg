CONSTANTS
  s1 = s1
  s2 = s2
  Session <- TwoSessions
  MaxEvents = 2
  MaxStray = 1
  MaxDrops = 1
  MaxJoins = 2
SPECIFICATION Spec
CHECK_DEADLOCK FALSE
INVARIANTS TypeOK ExactlyOnce SmallInOrder EvictedIsOut IdleIsTemporary
SYMMETRY Symmetric
