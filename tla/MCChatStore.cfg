SPECIFICATION Spec
CONSTANTS
  ann = ann
  bob = bob
  a1 = a1
  a2 = a2
  b1 = b1
  m1 = m1
  m2 = m2
  User <- MCUser
  Tab <- MCTab
  Owner <- MCOwner
  Message <- MCMessage
  From <- MCFrom
  Me = a1
  Take = 1
CHECK_DEADLOCK FALSE
INVARIANTS
  ShownOnce
  ShowsAllAtRest
  BadgeAgreesAtRest
