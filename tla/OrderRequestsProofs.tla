------------------------- MODULE OrderRequestsProofs -------------------------
(***************************************************************************)
(* Proofs about OrderRequests, for every set of customers, vehicles and    *)
(* items and every length of a body.                                       *)
(*                                                                         *)
(* The argument is what a handler knows at each point of its way: past the *)
(* validator a create names its customer and its vehicle; past the owner   *)
(* check the vehicle to be stored is the customer's (Matched); the items   *)
(* it has gone through are valid ones (Gone); and until it saves the order *)
(* it has saved at most a history entry, as its last step before.          *)
(***************************************************************************)
EXTENDS OrderRequests, TLAPS

StoredRow == [customer : Customers, vehicle : Vehicles]

\* The vehicle and the customer that will be stored, as the owner check
\* leaves them.
Matched == Found(FinalVehicle.text) /\ SameCustomer(FinalVehicle.of, FinalCustomer)

GoodItem(x) == x.type = "known" /\ x.quantity > 0

Gone == \A i \in 1..(item - 1) : GoodItem(request.items[i])

RowInv ==
  /\ VehicleIsTheCustomers
  /\ request.op = "update" => row \in StoredRow
  /\ request.op = "create" /\ pc \notin {"validate", "answered"}
       => Given(request.customer) /\ Given(request.vehicle)
  /\ pc \in {"items", "item", "history", "save"} => Matched

ItemInv ==
  /\ item \in 1..(Len(request.items) + 1)
  /\ Gone
  /\ pc = "item" => item <= Len(request.items) /\ request.items[item].type = "known"
  /\ pc \in {"history", "save"} \/ answer \in {200, 201} => item = Len(request.items) + 1

TraceInv ==
  /\ pc # "answered" => answer = 0
  /\ pc \notin {"save", "answered"} => history = 0
  /\ answer \in 400..499 /\ history # 0 => Keywords /\ answer = 400

IInv == TypeOK /\ RowInv /\ ItemInv /\ TraceInv

-----------------------------------------------------------------------------
LEMMA RequestParts ==
  ASSUME request \in Request
  PROVE  /\ request.op \in {"create", "update"}
         /\ request.customer \in Field(Customers) /\ request.vehicle \in Field(Vehicles)
         /\ request.items \in Seq(ItemInputs)
         /\ Len(request.items) \in 0..MaxItems
         /\ DOMAIN request.items = 1..Len(request.items)
<1>1. PICK n \in 0..MaxItems : request.items \in [1..n -> ItemInputs]
  BY DEF Request
<1>2. n \in Nat /\ MaxItems \in Nat
  BY RequestsAssumption DEF RequestsAssumption
<1>3. request.items \in Seq(ItemInputs) /\ Len(request.items) = n
  BY <1>1, <1>2
<1> QED  BY <1>1, <1>2, <1>3 DEF Request

LEMMA ItemTyped ==
  ASSUME request \in Request, NEW i \in 1..Len(request.items)
  PROVE  request.items[i].quantity \in Int
<1>1. request.items[i] \in ItemInputs
  BY RequestParts
<1> QED  BY <1>1, RequestsAssumption DEF RequestsAssumption

\* What is stored once the owner has been checked.
LEMMA MatchedRow ==
  ASSUME TypeOK, RowInv, Matched, pc \notin {"validate", "answered"}
  PROVE  /\ FinalCustomer.of \in Customers /\ FinalVehicle.of \in Vehicles
         /\ Owner[FinalVehicle.of] = FinalCustomer.of
<1>1. /\ request.op \in {"create", "update"}
      /\ request.customer \in Field(Customers) /\ request.vehicle \in Field(Vehicles)
  BY RequestParts DEF TypeOK
<1>2. FinalVehicle.text \in {"uuid", "respelt"} /\ FinalCustomer.text = "uuid"
  BY DEF Matched, Found, SameCustomer
<1>3. CASE request.op = "create"
  BY <1>1, <1>2, <1>3 DEF RowInv, FinalCustomer, FinalVehicle, Matched, SameCustomer, Field, Texts
<1>4. CASE request.op = "update"
  <2>1. row.customer \in Customers /\ row.vehicle \in Vehicles
    BY <1>4 DEF RowInv, StoredRow
  <2> QED
    BY <1>1, <1>2, <2>1 DEF FinalCustomer, FinalVehicle, Matched, SameCustomer, Field, Texts
<1> QED  BY <1>1, <1>3, <1>4

LEMMA CodeSets ==
  ASSUME NEW err
  PROVE  StatusCodes(err) \in {{400}, {401}, {404}, {409}, {500}, {400, 500}}
BY SMT DEF StatusCodes

LEMMA Codes ==
  ASSUME NEW err, NEW c \in StatusCodes(err)
  PROVE  /\ c \in {400, 401, 404, 409, 500}
         /\ err = "foreign" => c = 500 \/ (Keywords /\ c = 400)
<1>1. StatusCodes(err) \in {{400}, {401}, {404}, {409}, {500}, {400, 500}}
  BY CodeSets
<1>2. CASE Keywords
  <2>1. err = "foreign" => StatusCodes(err) = {400, 500}
    BY <1>2, SMT DEF StatusCodes, NotFound, Conflict
  <2> QED  BY <1>1, <1>2, <2>1, SMT
<1>3. CASE ~Keywords
  <2>1. err = "foreign" => StatusCodes(err) = {500}
    BY <1>3, SMT DEF StatusCodes, NotFound, Conflict
  <2> QED  BY <1>1, <2>1, SMT
<1> QED BY <1>2, <1>3

\* Refusing keeps the invariant, with any error before the history is saved
\* and with one from elsewhere after it.
LEMMA RefusesKeeps ==
  ASSUME IInv, NEW err, Refuses(err), history = 0 \/ err = "foreign"
  PROVE  IInv'
<1>1. /\ pc' = "answered" /\ answer' \in {400, 401, 404, 409, 500}
      /\ err = "foreign" => answer' = 500 \/ (Keywords /\ answer' = 400)
      /\ UNCHANGED <<request, editable, row, history, item, attempts>>
  BY Codes DEF Refuses
<1>2. TypeOK'
  BY <1>1 DEF IInv, TypeOK
<1>3. RowInv'
  BY <1>1 DEF IInv, RowInv, VehicleIsTheCustomers
<1>4. ItemInv'
  BY <1>1 DEF IInv, ItemInv, Gone
<1>5. TraceInv'
  BY <1>1 DEF IInv, TraceInv
<1> QED  BY <1>2, <1>3, <1>4, <1>5 DEF IInv

\* Going on to a point keeps the invariant when what is known there holds.
LEMMA GoesKeeps ==
  ASSUME IInv, NEW next \in {"load", "customer", "vehicle", "owner", "items", "item",
                             "history", "save"},
         Goes(next), pc # "answered", history = 0,
         request.op = "create" => Given(request.customer) /\ Given(request.vehicle),
         next \in {"items", "item", "history", "save"} => Matched,
         next = "item" => item <= Len(request.items) /\ request.items[item].type = "known",
         next \in {"history", "save"} => item = Len(request.items) + 1
  PROVE  IInv'
<1>1. /\ pc' = next /\ attempts' = 1
      /\ UNCHANGED <<request, editable, row, history, item, answer>>
  BY DEF Goes
<1>2. TypeOK'
  BY <1>1 DEF IInv, TypeOK, MaxAttempts
<1>3. RowInv'
  BY <1>1 DEF IInv, RowInv, VehicleIsTheCustomers, Matched, FinalCustomer, FinalVehicle
<1>4. ItemInv'
  BY <1>1 DEF IInv, ItemInv, TraceInv, Gone
<1>5. TraceInv'
  BY <1>1 DEF IInv, TraceInv
<1> QED  BY <1>2, <1>3, <1>4, <1>5 DEF IInv

LEMMA LookupKeeps ==
  ASSUME IInv, Retry \/ LookupFails
  PROVE  IInv'
<1>1. CASE Retry
  <2>1. /\ attempts' \in 1..MaxAttempts
        /\ UNCHANGED <<request, editable, row, history, pc, item, answer>>
    BY <1>1 DEF Retry, IInv, TypeOK, MaxAttempts
  <2>2. TypeOK'
    BY <2>1 DEF IInv, TypeOK
  <2>3. RowInv'
    BY <2>1 DEF IInv, RowInv, VehicleIsTheCustomers, Matched, FinalCustomer, FinalVehicle
  <2>4. ItemInv' /\ TraceInv'
    BY <2>1 DEF IInv, ItemInv, TraceInv, Gone
  <2> QED  BY <2>2, <2>3, <2>4 DEF IInv
<1>2. CASE LookupFails
  <2>1. history = 0
    BY <1>2 DEF LookupFails, IInv, TraceInv
  <2> QED  BY <1>2, <2>1, RefusesKeeps DEF LookupFails
<1> QED  BY <1>1, <1>2

LEMMA ChecksKeep ==
  ASSUME IInv,
         Validate \/ Load \/ CustomerFound \/ VehicleFound \/ ValidateVehicleOwnership
  PROVE  IInv'
<1>0. pc \in {"validate", "load", "customer", "vehicle", "owner"}
  BY DEF Validate, Load, CustomerFound, VehicleFound, ValidateVehicleOwnership
<1>1. /\ history = 0 /\ pc # "answered" /\ request.op \in {"create", "update"}
      /\ pc # "validate" /\ request.op = "create"
           => Given(request.customer) /\ Given(request.vehicle)
  BY <1>0, RequestParts DEF IInv, TypeOK, TraceInv, RowInv
<1>2. CASE Validate
  <2>1. CASE ValidateStruct(request)
    <3>1. request.op = "create" => Given(request.customer) /\ Given(request.vehicle)
      BY <2>1 DEF ValidateStruct, Required, IsEmpty, Given
    <3> QED  BY <1>1, <1>2, <2>1, <3>1, GoesKeeps DEF Validate
  <2> QED  BY <1>1, <1>2, <2>1, RefusesKeeps DEF Validate
<1>3. CASE Load
  BY <1>1, <1>3, RefusesKeeps, GoesKeeps DEF Load
<1>4. CASE CustomerFound
  BY <1>1, <1>4, GoesKeeps DEF CustomerFound
<1>5. CASE VehicleFound
  <2>1. CASE request.op = "create" /\ SameCustomer(request.vehicle.of, request.customer)
    <3>1. Matched
      BY <1>1, <1>5, <2>1 DEF VehicleFound, Matched, FinalCustomer, FinalVehicle
    <3> QED  BY <1>1, <1>5, <2>1, <3>1, GoesKeeps DEF VehicleFound
  <2> QED  BY <1>1, <1>5, <2>1, RefusesKeeps, GoesKeeps DEF VehicleFound
<1>6. CASE ValidateVehicleOwnership
  BY <1>1, <1>6, RefusesKeeps, GoesKeeps DEF ValidateVehicleOwnership, Matched
<1> QED  BY <1>2, <1>3, <1>4, <1>5, <1>6

LEMMA ItemsKeep ==
  ASSUME IInv, Items \/ ItemFound
  PROVE  IInv'
<1>0. pc \in {"items", "item"}
  BY DEF Items, ItemFound
<1>1. /\ history = 0 /\ pc # "answered" /\ answer = 0 /\ Matched
      /\ request \in Request /\ item \in 1..(Len(request.items) + 1)
      /\ request.op = "create" => Given(request.customer) /\ Given(request.vehicle)
  BY <1>0 DEF IInv, TypeOK, TraceInv, RowInv, ItemInv
<1>2. Len(request.items) \in 0..MaxItems /\ MaxItems \in Nat
  BY <1>1, RequestParts, RequestsAssumption DEF RequestsAssumption
<1>3. CASE Items
  <2>1. CASE \E err : Refuses(err)
    BY <1>1, <2>1, RefusesKeeps
  <2>2. CASE /\ item > Len(request.items)
             /\ Goes("history") \/ Goes("save")
    BY <1>1, <1>2, <2>2, GoesKeeps
  <2>3. CASE /\ ~(item > Len(request.items))
             /\ request.items[item].type = "known" /\ Goes("item")
    BY <1>1, <1>2, <2>3, GoesKeeps
  <2> QED  BY <1>3, <2>1, <2>2, <2>3 DEF Items
<1>4. CASE ItemFound
  <2>1. CASE \E err \in {"nome ou preco do item invalido", "quantidade deve ser maior que zero"} :
               Refuses(err)
    BY <1>1, <2>1, RefusesKeeps
  <2>2. CASE /\ ~(request.items[item].quantity <= 0)
             /\ pc' = "items" /\ item' = item + 1 /\ attempts' = 1
             /\ UNCHANGED <<request, editable, row, history, answer>>
    <3>1. item \in 1..Len(request.items) /\ request.items[item].type = "known"
      <4>1. pc = "item"
        BY <1>4 DEF ItemFound
      <4>2. item <= Len(request.items) /\ request.items[item].type = "known"
        BY <4>1 DEF IInv, ItemInv
      <4> QED  BY <1>1, <1>2, <4>2
    <3>2. GoodItem(request.items[item])
      BY <1>1, <2>2, <3>1, ItemTyped DEF GoodItem
    <3>3. TypeOK'
      BY <1>2, <2>2, <3>1 DEF IInv, TypeOK, MaxAttempts
    <3>4. RowInv'
      BY <1>1, <2>2 DEF IInv, RowInv, VehicleIsTheCustomers, Matched, FinalCustomer, FinalVehicle
    <3>5. ItemInv'
      <4>1. Gone'
        BY <2>2, <3>1, <3>2 DEF IInv, ItemInv, Gone
      <4> QED  BY <1>1, <1>2, <2>2, <3>1, <4>1 DEF ItemInv
    <3>6. TraceInv'
      BY <1>1, <2>2 DEF TraceInv
    <3> QED  BY <3>3, <3>4, <3>5, <3>6 DEF IInv
  <2> QED  BY <1>4, <2>1, <2>2 DEF ItemFound
<1> QED  BY <1>3, <1>4

LEMMA SavesKeep ==
  ASSUME IInv, SaveHistory \/ SaveOrder
  PROVE  IInv'
<1>1. /\ pc \in {"history", "save"} /\ answer = 0 /\ Matched
      /\ item = Len(request.items) + 1 /\ (pc = "history" => history = 0)
  BY DEF SaveHistory, SaveOrder, IInv, TraceInv, RowInv, ItemInv
<1>2. CASE Refuses("foreign")
  BY <1>2, RefusesKeeps
<1>3. CASE /\ history' = history + 1 /\ pc' = "save" /\ history = 0
           /\ UNCHANGED <<request, editable, row, item, attempts, answer>>
  <2>1. TypeOK'
    BY <1>3 DEF IInv, TypeOK
  <2>2. RowInv'
    BY <1>1, <1>3 DEF IInv, RowInv, VehicleIsTheCustomers, Matched, FinalCustomer, FinalVehicle
  <2>3. ItemInv' /\ TraceInv'
    BY <1>1, <1>3 DEF IInv, ItemInv, TraceInv, Gone
  <2> QED  BY <2>1, <2>2, <2>3 DEF IInv
<1>4. CASE /\ row' = [customer |-> FinalCustomer.of, vehicle |-> FinalVehicle.of]
           /\ pc' = "answered" /\ answer' \in {200, 201}
           /\ UNCHANGED <<request, editable, history, item, attempts>>
  <2>1. /\ FinalCustomer.of \in Customers /\ FinalVehicle.of \in Vehicles
        /\ Owner[FinalVehicle.of] = FinalCustomer.of
    BY <1>1, MatchedRow DEF IInv
  <2>2. row' \in StoredRow /\ row'.customer = FinalCustomer.of /\ row'.vehicle = FinalVehicle.of
    BY <1>4, <2>1 DEF StoredRow
  <2>3. TypeOK'
    BY <1>4, <2>2 DEF IInv, TypeOK, StoredRow
  <2>4. RowInv'
    BY <1>4, <2>1, <2>2 DEF RowInv, VehicleIsTheCustomers
  <2>5. ItemInv' /\ TraceInv'
    BY <1>1, <1>4 DEF IInv, ItemInv, TraceInv, Gone
  <2> QED  BY <2>3, <2>4, <2>5 DEF IInv
<1> QED  BY <1>1, <1>2, <1>3, <1>4 DEF SaveHistory, SaveOrder

-----------------------------------------------------------------------------
LEMMA InitIInv == Init => IInv
<1> SUFFICES ASSUME Init PROVE IInv
  OBVIOUS
<1>1. /\ request \in Request /\ editable \in BOOLEAN
      /\ history = 0 /\ pc = "validate" /\ item = 1 /\ attempts = 1 /\ answer = 0
  BY DEF Init
<1>2. Len(request.items) \in 0..MaxItems /\ MaxItems \in Nat
  BY <1>1, RequestParts, RequestsAssumption DEF RequestsAssumption
<1>3. \/ request.op = "create" /\ row = NoOrder
      \/ request.op # "create" /\ \E v \in Vehicles : row = [customer |-> Owner[v], vehicle |-> v]
  BY DEF Init
<1>4. row = NoOrder \/ (row \in StoredRow /\ Owner[row.vehicle] = row.customer)
  BY <1>3, RequestsAssumption DEF RequestsAssumption, StoredRow
<1>5. request.op = "update" => row \in StoredRow
  BY <1>3, RequestsAssumption DEF RequestsAssumption, StoredRow
<1>6. TypeOK
  BY <1>1, <1>2, <1>4 DEF TypeOK, MaxAttempts, StoredRow
<1>7. RowInv
  BY <1>1, <1>4, <1>5 DEF RowInv, VehicleIsTheCustomers
<1>8. ItemInv /\ TraceInv
  BY <1>1, <1>2 DEF ItemInv, TraceInv, Gone
<1> QED  BY <1>6, <1>7, <1>8 DEF IInv

LEMMA NextIInv == IInv /\ [Next]_vars => IInv'
<1> SUFFICES ASSUME IInv, [Next]_vars PROVE IInv'
  OBVIOUS
<1>1. CASE Handle
  BY <1>1, LookupKeeps, ChecksKeep, ItemsKeep, SavesKeep DEF Handle
<1>2. CASE UNCHANGED vars
  <2>1. UNCHANGED <<request, editable, row, history, pc, item, attempts, answer>>
    BY <1>2 DEF vars
  <2>2. TypeOK' /\ ItemInv' /\ TraceInv'
    BY <2>1 DEF IInv, TypeOK, ItemInv, TraceInv, Gone
  <2>3. RowInv'
    BY <2>1 DEF IInv, RowInv, VehicleIsTheCustomers, Matched, FinalCustomer, FinalVehicle
  <2> QED  BY <2>2, <2>3 DEF IInv
<1> QED  BY <1>1, <1>2 DEF Next, Done

LEMMA Invariant == Spec => []IInv
BY InitIInv, NextIInv, PTL DEF Spec

\* The handler's variables are well typed; in particular no lookup is tried
\* more than three times, at most one history entry is saved, and no item is
\* asked for that the body does not have.
THEOREM RequestsTyped == Spec => []TypeOK
<1>1. IInv => TypeOK
  BY DEF IInv
<1> QED  BY <1>1, Invariant, PTL

\* Whichever of its ids an update leaves out, and however they are spelt, the
\* stored order never pairs a vehicle with another one's customer.
THEOREM VehicleOfCustomer == Spec => []VehicleIsTheCustomers
<1>1. IInv => VehicleIsTheCustomers
  BY DEF IInv, RowInv
<1> QED  BY <1>1, Invariant, PTL

\* Every item of a body that was accepted has a type the stock saga can tell
\* apart and a positive quantity, however many items a body has.
THEOREM AcceptedItems == Spec => []AcceptedItemsAreValid
<1>1. ASSUME IInv PROVE AcceptedItemsAreValid
  <2>1. DOMAIN request.items = 1..Len(request.items) /\ Len(request.items) \in Nat
    BY <1>1, RequestParts DEF IInv, TypeOK
  <2>2. answer \in {200, 201} => \A i \in 1..Len(request.items) : GoodItem(request.items[i])
    BY <1>1, <2>1 DEF IInv, ItemInv, Gone
  <2> QED  BY <2>1, <2>2 DEF AcceptedItemsAreValid, GoodItem
<1> QED  BY <1>1, Invariant, PTL

\* A refusal as the caller's fault left no history entry, unless the text of
\* a failure of the store was taken for a validation error and answered 400.
THEOREM TraceOnlyByKeyword == Spec => [](RefusalLeavesNoTrace \/ (Keywords /\ answer = 400))
<1>1. IInv => RefusalLeavesNoTrace \/ (Keywords /\ answer = 400)
  BY DEF IInv, TraceInv, RefusalLeavesNoTrace
<1> QED  BY <1>1, Invariant, PTL

\* Without such texts a request that is refused left nothing behind.
THEOREM RefusalsLeaveNoTrace == ASSUME ~Keywords PROVE Spec => []RefusalLeavesNoTrace
<1>1. RefusalLeavesNoTrace \/ (Keywords /\ answer = 400) => RefusalLeavesNoTrace
  OBVIOUS
<1> QED  BY <1>1, TraceOnlyByKeyword, PTL
=============================================================================
