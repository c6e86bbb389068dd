SPECIFICATION FairDisciplinedSpec
CONSTANTS
  Orders = {o1}
  Products = {p1}
  FailableOps <- AnyOp
  Replicas = {k1, k2}
  MaxSagas = 3
  MaxMPOrders = 2
  MaxPayments = 1
  MaxCrashes = 1
  CallsMayFail = FALSE
INVARIANTS
  RequestsAreFaithful
  SagaCanFinish
PROPERTIES
  SagaIsAtomic
  SagasResolve
CHECK_DEADLOCK FALSE
