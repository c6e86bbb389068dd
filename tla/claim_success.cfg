SPECIFICATION Spec
CONSTANTS
  Orders = {o1}
  Products = {p1}
  FailableOps <- ReserveOnly
  Replicas = {k1}
  MaxSagas = 3
  MaxMPOrders = 0
  MaxPayments = 0
  MaxCrashes = 0
  CallsMayFail = FALSE
INVARIANTS
  SucceededSagaCanBeApplied
CHECK_DEADLOCK FALSE
