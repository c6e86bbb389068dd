SPECIFICATION Spec
CONSTANTS
  Orders = {o1}
  Products = {p1}
  FailableOps <- ReserveOnly
  Replicas = {k1}
  MaxSagas = 2
  MaxMPOrders = 2
  MaxPayments = 3
  MaxCrashes = 0
  CallsMayFail = FALSE
INVARIANTS
  NeverChargedTwice
CHECK_DEADLOCK FALSE
