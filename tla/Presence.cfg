CONSTANTS
  c1 = c1
  c2 = c2
  g1 = g1
  g2 = g2
  d1 = d1
  d2 = d2
  Former = Former
  NoRow = NoRow
  Conn <- TwoConns
  Node <- TwoNodes
  Device <- OneDevice
SPECIFICATION FairSpec
INVARIANTS TypeOK
PROPERTIES AgesOut
