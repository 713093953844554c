SPECIFICATION FairSpec
CONSTANTS
  o1 = o1
  o2 = o2
  o3 = o3
  u1 = u1
  h1 = h1
  h2 = h2
  NoOrder = NoOrder
  Users = {u1}
  Orders = {o1, o2, o3}
  Handlers = {h1, h2}
  Buyer <- MCBuyer
  Pack <- MCPack
  TestOrders = {}
  UnpaidOrders = {o3}
  AllowTestMode = FALSE
  InitialCredits <- MCCredits
  MaxFailures = 1
  MaxDuplicates = 1
CHECK_DEADLOCK FALSE
INVARIANTS
  GrantedOnce
  CreatedIsRecorded
PROPERTIES
  RefundedIsFinal
  RefundTakesAll
  EventsAnswered
