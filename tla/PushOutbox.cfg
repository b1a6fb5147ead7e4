CONSTANTS
  m1 = m1
  m2 = m2
  w1 = w1
  w2 = w2
  d1 = d1
  Message <- OneMessage
  Drain <- TwoDrains
  Device <- OneDevice
  GiveUp = 2
  RetryLimit = 1
  MaxTokens = 2
  MaxFaults = 1
SPECIFICATION Spec
INVARIANTS TypeOK PushedOnce NothingDropped
PROPERTIES LiveTokenKept EverySettles
CHECK_DEADLOCK FALSE
