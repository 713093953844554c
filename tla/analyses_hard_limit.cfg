SPECIFICATION FairSpec
CONSTANTS
  a1 = a1
  a2 = a2
  u1 = u1
  w1 = w1
  w2 = w2
  NoJob = NoJob
  Users = {u1}
  Analyses = {a1}
  Workers = {w1}
  Owner <- MCOwner
  InitialCredits <- MCCredits
  Faults = {"hard_limit"}
  MaxLosses = 0
CHECK_DEADLOCK FALSE
PROPERTY PaidIsDeliveredOrRefunded
