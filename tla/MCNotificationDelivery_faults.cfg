SPECIFICATION FairSpec
CONSTANTS
  Workers = {w1, w2}
  Deliveries = {d1, d2}
  MaxAttempts = 2
  SmtpSettings = {TRUE, FALSE}
  Faults = {"crash", "database", "reply", "overlap"}
  MaxFaults = 1
CHECK_DEADLOCK FALSE
INVARIANTS SettledWithItsDeliveries AcceptedOnce
PROPERTIES SettledIsFinal ClaimsEnd
