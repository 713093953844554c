SPECIFICATION Spec
CONSTANTS
  a1 = a1
  a2 = a2
  u1 = u1
  w1 = w1
  w2 = w2
  NoJob = NoJob
  Users = {u1}
  Analyses = {a1}
  Workers = {w1}
  Owner <- MCOwner
  InitialCredits <- MCCredits
  Faults = {"worker_lost"}
  MaxLosses = 1
CHECK_DEADLOCK FALSE
INVARIANT NoFreeFullReport
