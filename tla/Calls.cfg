CONSTANTS
  a = a
  b = b
  User <- Two
  Initiator = a
  MayEnd <- Nobody
  Capacity = 2
  MaxRequests = 2
  MaxCrashes = 1
SPECIFICATION Spec
INVARIANTS TypeOK
PROPERTIES HealthySpared TimeoutSparesAnswered RingStops CorpseCleared
CHECK_DEADLOCK FALSE
