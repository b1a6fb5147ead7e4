CONSTANTS
  c1 = c1
  c2 = c2
  c3 = c3
  noSocket = noSocket
  None <- noSocket
  Socket <- MCTwoSockets
  BufferSize = 1
  MaxSeq = 2
SPECIFICATION FairSpec
PROPERTY DeliveredOrToldSo
CHECK_DEADLOCK FALSE
