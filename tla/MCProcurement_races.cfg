CONSTANTS
  Tx = {t1, t2}
  Requisitions = {p1, p2}
  Orders = {o1, o2}
  BomLines = {b1}
  Required <- OneUnit
  Overriding = {"revise"}
  MaxQuantity = 1
  MaxRevision = 2
SPECIFICATION Spec
INVARIANTS OrderedWithinApproved CoveredWithinRequired AcknowledgedWasSent
PROPERTIES NothingCreatedAfterClosing
SYMMETRY Symmetry
CHECK_DEADLOCK FALSE
