SPECIFICATION Spec
\* A creation happens once, and the shipment the rest is about may be refused.
CHECK_DEADLOCK FALSE
CONSTANTS
  s1 = s1
  s2 = s2
  t1 = t1
  t2 = t2
  e1 = e1
  g1 = g1
  Ship <- MCShip
  Busy <- MCBusy
  Tracker <- MCTracker
  Editor <- MCEditor
  Reader <- MCReader
  Reported <- MCReported
SYMMETRY Symmetry
INVARIANTS
  NumbersDense
  StatusIsLastEvent
  LiveAgreesAtRest
  CacheFresh
PROPERTIES
  HistoryFollowsMachine
