SPECIFICATION Spec
CONSTANTS
  Orders = {o1}
  Products = {p1}
  FailableOps <- AnyOp
  Replicas = {k1}
  MaxSagas = 2
  MaxMPOrders = 2
  MaxPayments = 2
  MaxCrashes = 1
  CallsMayFail = TRUE
INVARIANTS
  TypeOK
  SagaColumnsConsistent
  SagasCorrelated
  ClosedStamped
  PaymentRecorded
PROPERTIES
  SagaIdsAreFresh
  FollowsLifecycle
CHECK_DEADLOCK FALSE
