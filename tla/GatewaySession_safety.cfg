CONSTANTS
  c1 = c1
  c2 = c2
  c3 = c3
  noSocket = noSocket
  None <- noSocket
  Socket <- MCSocket
  BufferSize = 2
  MaxSeq = 3
SPECIFICATION Spec
SYMMETRY Symmetry
INVARIANTS TypeOK OneRider NotParkedWhileOpen
PROPERTIES ImplementsStream NoSkippedEvent ResumedMeansCaughtUp
CHECK_DEADLOCK FALSE
