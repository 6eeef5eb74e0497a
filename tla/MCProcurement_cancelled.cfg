CONSTANTS
  Tx = {t1, t2}
  Requisitions = {p1}
  Orders = {o1}
  BomLines = {b1}
  Required <- OneUnit
  Overriding = {}
  MaxQuantity = 1
  MaxRevision = 1
SPECIFICATION Spec
INVARIANTS OrderedFromApproved
SYMMETRY Symmetry
CHECK_DEADLOCK FALSE
