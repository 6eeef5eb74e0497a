SPECIFICATION FairSpec
CONSTANTS
  Workers = {w1, w2}
  Clean = {"as matched first", "as matched later"}
  MaxAttempts = 3
  Faults = {"crash", "database", "reply", "storage", "redis", "overlap"}
  MaxFaults = 2
CHECK_DEADLOCK FALSE
INVARIANTS
  AtMostOneDraft
  ImportMatchesEvent
PROPERTIES
  ConfirmedIsFinal
  ImportsSettle
