SPECIFICATION DeletionSpec
CONSTANTS
  o1 = o1
  o2 = o2
  Orders = {o1, o2}
  Products = {p1}
  FailableOps <- Never
  Replicas = {k1}
  MaxSagas = 2
  MaxMPOrders = 0
  MaxPayments = 0
  MaxCrashes = 0
  CallsMayFail = FALSE
SYMMETRY OrderSymmetry
INVARIANT NoOrderForgotten
 
CHECK_DEADLOCK FALSE
