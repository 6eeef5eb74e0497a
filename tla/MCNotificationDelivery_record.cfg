SPECIFICATION Spec
CONSTANTS
  Workers = {w1}
  Deliveries = {d1}
  MaxAttempts = 2
  SmtpSettings = {TRUE}
  Faults = {"database"}
  MaxFaults = 1
CHECK_DEADLOCK FALSE
INVARIANTS NeverSentTwice
