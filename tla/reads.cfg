SPECIFICATION Spec
CONSTANTS
  Products = {p1}
  MaxOrders = 2
  MaxCharges = 1
INVARIANTS FrozenItemsShown 
CHECK_DEADLOCK FALSE
