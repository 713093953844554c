SPECIFICATION Spec
CONSTANTS
  a1 = a1
  a2 = a2
  o1 = o1
  o2 = o2
  u1 = u1
  u2 = u2
  NoJob = NoJob
  NoOrder = NoOrder
  Users = {u1}
  InitialCredits <- MCOne
  Analyses = {a1, a2}
  Owner <- MCOwner
  Workers = {w1}
  Faults = {"enqueue_error", "hard_limit", "db_error", "api_crash"}
  MaxLosses = 0
  Orders = {o1}
  Buyer <- MCBuyer
  Pack <- MCPack
  Handlers = {h1}
  TestOrders = {}
  UnpaidOrders = {}
  AllowTestMode = FALSE
  MaxFailures = 0
  MaxDuplicates = 1
  MaxForms = 1
CHECK_DEADLOCK FALSE
INVARIANTS
  TypeOK
  BalanceIsOwed
  NoFreeFullReport
  RefundIsRecorded
PROPERTIES
  ImplementsBook
  DeliveredStands
