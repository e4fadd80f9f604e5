SPECIFICATION Spec
CONSTANTS
  ann = ann
  keyboard = keyboard
  monitor = monitor
  x1 = x1
  x2 = x2
  k1 = k1
  k2 = k2
  User <- MCUser
  Product <- MCProduct
  Price <- MCPrice
  Stock <- MCStock
  MaxCart = 3
  Request <- MCRequest
  By <- MCBy
  Kind <- MCKind
  Wanted <- MCWanted
  Limit <- MCLimit
CHECK_DEADLOCK FALSE
INVARIANTS
  QuantitiesAddUp
  SoldOnceInFull
  StockBalances
PROPERTIES
  ChargedGetsSold
