CONSTANTS
  i1 = i1
  i2 = i2
  r1 = r1
  Items = {i1, i2}
  Checks = {c1}
  Asns = {a1, a2}
  Receipts = {r1, r2}
  Allocations = {x1}
  NoAsn = NoAsn
  NoReceipt = NoReceipt
  MaxRevision = 2
  MaxOrdered = 2
  WatchedLot <- FirstLot
SPECIFICATION Spec
INVARIANTS ShippedWithinOrdered StockMatchesReceipts InspectionDecidesLot
  OnlyEmptiedLotsStopStatus
PROPERTIES DatabaseAgrees ImplementsLotStock
CONSTRAINT Explored
SYMMETRY Symmetry
CHECK_DEADLOCK FALSE
