SPECIFICATION Spec
CONSTANTS
  Workers = {w1}
  Deliveries = {d1, d2}
  MaxAttempts = 2
  SmtpSettings = {TRUE}
  Faults = {}
  MaxFaults = 0
CHECK_DEADLOCK FALSE
INVARIANTS NoneStranded
