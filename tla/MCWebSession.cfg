SPECIFICATION SessionSpec
CONSTANTS
  ann = ann
  bob = bob
  c1 = c1
  c2 = c2
  h1 = h1
  h2 = h2
  thumb = thumb
  t1 = t1
  t2 = t2
  Conv <- MCConv
  Closed = closed
  MaxWire = 1
  Reactor <- MCReactor
  Self = ann
  Emoji <- MCEmoji
  Handler <- MCHandler
  Member <- MCMember
  BrowserTab <- MCOneTab
  Nobody = nobody
CHECK_DEADLOCK FALSE
PROPERTY
  LoginAfter401
