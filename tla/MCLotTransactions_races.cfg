CONSTANTS
  Tx = {t1, t2}
  Kinds <- CommandKinds
  Allocations = {x1, x2}
  Shipped = 1
  Draft = 1
SPECIFICATION FairSpec
INVARIANTS StatesAgree LineConserved CommittedWithinAccepted WaitCyclesAreKnown
PROPERTIES ImplementsLotStock TransactionsEnd
CHECK_DEADLOCK FALSE
