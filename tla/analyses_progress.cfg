SPECIFICATION FairSpec
CONSTANTS
  a1 = a1
  a2 = a2
  u1 = u1
  w1 = w1
  w2 = w2
  NoJob = NoJob
  Users = {u1}
  Analyses = {a1, a2}
  Workers = {w1}
  Owner <- MCOwner
  InitialCredits <- MCCredits
  Faults = {"enqueue_error", "enqueue_ambiguous", "enqueue_twice", "worker_lost", "soft_limit"}
  MaxLosses = 1
CHECK_DEADLOCK FALSE
INVARIANTS
  UnfinishedIsOwned
PROPERTIES
  ImplementsLedger
  EventuallySettled
  PaidIsDeliveredOrRefunded
