SPECIFICATION FairSpec
CONSTANTS
  c1 = c1
  c2 = c2
  v1 = v1
  v2 = v2
  v3 = v3
  Customers = {c1, c2}
  Vehicles = {v1, v2, v3}
  Owner <- OwnerOf
  ItemInputs <- Inputs
  MaxItems = 2
  Keywords = FALSE
INVARIANTS TypeOK VehicleIsTheCustomers AcceptedItemsAreValid 
PROPERTY EveryRequestAnswered
