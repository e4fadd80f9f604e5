SPECIFICATION MCSpec
CONSTANTS
  ann = ann
  bob = bob
  carl = carl
  a1 = a1
  a2 = a2
  b1 = b1
  c1 = c1
  c2 = c2
  m1 = m1
  m2 = m2
  r1 = r1
  r2 = r2
  User = {ann, bob, carl}
  Socket <- MCSocket
  Owner <- MCOwner
  Conv = {c1, c2}
  Msg = {m1, m2}
  Request = {r1, r2}
  Mover <- MCMover
  Reader <- MCReader
  Poster <- MCPoster
SYMMETRY Symmetry
CHECK_DEADLOCK FALSE
INVARIANTS
  OneConversationPerPair
  ReceiptCoversSeen
  ListOrderAtRest
PROPERTIES
  DeliveredToOldRooms
