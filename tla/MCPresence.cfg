SPECIFICATION Spec
CONSTANTS
  ann = ann
  bob = bob
  a1 = a1
  a2 = a2
  b1 = b1
  User <- MCUser
  Socket <- MCSocket
  Owner <- MCOwner
INVARIANTS
  RegistryExact
  ColumnRightAtRest
  BroadcastAgreesAtRest
PROPERTIES
  OfflineOnlyWhenRaced
  RegisteredGetsRooms
