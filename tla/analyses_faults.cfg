SPECIFICATION Spec
CONSTANTS
  a1 = a1
  a2 = a2
  u1 = u1
  w1 = w1
  w2 = w2
  NoJob = NoJob
  Users = {u1}
  Analyses = {a1, a2}
  Workers = {w1, w2}
  Owner <- MCOwner
  InitialCredits <- MCCredits
  Faults = {"enqueue_error", "enqueue_ambiguous", "enqueue_twice", "worker_lost", "soft_limit", "hard_limit", "db_error", "api_crash"}
  MaxLosses = 1
SYMMETRY MCSymmetry
CHECK_DEADLOCK FALSE
INVARIANTS
  TypeOK
  CreditAccounted
  FailedIsRefunded
  PaidIsUnlocked
  PartialIsLocked
  RowLockExclusive
