CONSTANTS
  c1 = c1
  c2 = c2
  c3 = c3
  noSocket = noSocket
  None <- noSocket
  Socket <- MCSocket
  BufferSize = 2
  MaxSeq = 2
SPECIFICATION Spec
INVARIANT ParkedOnceClosed
CHECK_DEADLOCK FALSE
