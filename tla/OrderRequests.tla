---------------------------- MODULE OrderRequests ----------------------------
(***************************************************************************)
(* One POST or PUT of /service-orders, from the body to the answer: the    *)
(* validator's rules, the synchronous lookups of the customer, the vehicle *)
(* and the catalogue items with their retries, the checks of the use case  *)
(* and of the aggregate, the writes, and the mapping of an error's text to *)
(* a status code.                                                          *)
(*                                                                         *)
(* An id in a body is a field: how it is written and what it refers to.    *)
(* "respelt" is a valid UUID in another spelling (upper case, or a space  *)
(* around it): the validator and uuid.Parse accept it, and the use cases   *)
(* compare strings.                                                        *)
(***************************************************************************)
EXTENDS Integers, Sequences

CONSTANTS
  Customers,
  Vehicles,
  Owner,          \* the customer of each vehicle, as MS1 answers
  ItemInputs,     \* the items a body may name
  MaxItems,       \* bound: items of a body
  Keywords        \* whether the text of a failure from elsewhere may hold
                  \* one of the words by which the mapper knows validation

ASSUME RequestsAssumption ==
  /\ Owner \in [Vehicles -> Customers]
  /\ ItemInputs \subseteq
       [type : {"empty", "known", "padded", "unknown"},
        ref : {"empty", "malformed", "uuid", "respelt"}, quantity : Int]
  /\ MaxItems \in Nat /\ Keywords \in BOOLEAN

VARIABLES
  request,    \* the body and what it is for
  editable,   \* whether the order is in RECEIVED or DIAGNOSING
  row,        \* the order's customer and vehicle, if it is stored
  history,    \* entries saved for the request
  pc,         \* the next thing the handler does
  item,       \* the item it is at
  attempts,   \* calls made of the lookup it is at
  answer      \* status code, 0 before the answer

vars == <<request, editable, row, history, pc, item, attempts, answer>>

Nobody == "nobody"

Texts == {"absent", "empty", "spaces", "malformed"}

Field(ids) == [text : Texts, of : {Nobody}] \cup [text : {"uuid", "respelt"}, of : ids]

\* "absent" is a nil pointer of an update and the empty string of a create;
\* a "known" type is PRODUCT or SERVICE, a "padded" one has spaces around it.
Request == [op : {"create", "update"}, customer : Field(Customers),
            vehicle : Field(Vehicles), items : UNION {[1..n -> ItemInputs] : n \in 0..MaxItems},
            replaces : BOOLEAN]     \* an update with items, even with none

NoOrder == [customer |-> Nobody, vehicle |-> Nobody]

Init ==
  /\ request \in {r \in Request : r.items # <<>> => r.replaces}
  /\ editable \in BOOLEAN
  /\ IF request.op = "create"
       THEN row = NoOrder /\ editable
       ELSE \E v \in Vehicles : row = [customer |-> Owner[v], vehicle |-> v]
  /\ history = 0
  /\ pc = "validate"
  /\ item = 1 /\ attempts = 1 /\ answer = 0

-----------------------------------------------------------------------------
(* validators.ValidateStruct and the tags of the DTOs *)

IsEmpty(text) == text \in {"absent", "empty", "spaces"}

Required(text) == ~IsEmpty(text)

\* Any rule but required passes over an empty value.
UUID(text) == text # "malformed"

OneOf(text) == text # "unknown"

MinOne(quantity) == quantity # 0 => quantity >= 1

ValidItem(x) ==
  /\ Required(x.type) /\ OneOf(x.type)
  /\ Required(x.ref) /\ UUID(x.ref)
  /\ x.quantity # 0 /\ MinOne(x.quantity)

ValidateStruct(r) ==
  /\ r.op = "create" => Required(r.customer.text) /\ Required(r.vehicle.text)
  /\ UUID(r.customer.text) /\ UUID(r.vehicle.text)
  /\ \A i \in DOMAIN r.items : ValidItem(r.items[i])

-----------------------------------------------------------------------------
(* utils.MapDomainError *)

NotFound == {"resource not found", "order not found", "ID do cliente invalido",
             "ID do veiculo invalido"}

Conflict == {"items after PENDING_AUTHORIZATION"}

\* "foreign" is any text of a library, a store or another service.
StatusCodes(err) ==
  CASE err \in NotFound -> {404}
    [] err \in Conflict -> {409}
    [] err = "unauthorized" -> {401}
    [] err \in {"validation", "not the customer's vehicle"} -> {400}
    [] err = "foreign" -> IF Keywords THEN {400, 500} ELSE {500}
    [] OTHER -> {500}

Refuses(err) ==
  /\ pc' = "answered"
  /\ answer' \in StatusCodes(err)
  /\ UNCHANGED <<request, editable, row, history, item, attempts>>

Goes(next) ==
  /\ pc' = next
  /\ attempts' = 1
  /\ UNCHANGED <<request, editable, row, history, item, answer>>

-----------------------------------------------------------------------------
(* restClient.get *)

MaxAttempts == 3

\* What a path may be answered: only an id can be found.
Found(text) == text \in {"uuid", "respelt"}

\* Mutant: the count starts again.
RetryForEver ==
  /\ pc \in {"customer", "vehicle", "owner", "item"}
  /\ attempts' = (attempts % MaxAttempts) + 1
  /\ UNCHANGED <<request, editable, row, history, pc, item, answer>>

\* Mutant: off by one.
RetryOnceMore ==
  /\ pc \in {"customer", "vehicle", "owner", "item"}
  /\ attempts <= MaxAttempts
  /\ attempts' = attempts + 1
  /\ UNCHANGED <<request, editable, row, history, pc, item, answer>>

\* Only a 5xx is tried again.
Retry ==
  /\ pc \in {"customer", "vehicle", "owner", "item"}
  /\ attempts < MaxAttempts
  /\ attempts' = attempts + 1
  /\ UNCHANGED <<request, editable, row, history, pc, item, answer>>

\* A last 5xx, a timeout, a status or a body the client does not know.
LookupFails ==
  /\ pc \in {"customer", "vehicle", "owner", "item"}
  /\ \E err \in {"resource not found", "unauthorized", "foreign"} : Refuses(err)

-----------------------------------------------------------------------------
(* The use cases *)

Given(field) == field.text # "absent"

Validate ==
  /\ pc = "validate"
  /\ IF ~ValidateStruct(request) THEN Refuses("validation")
     ELSE Goes(IF request.op = "create" THEN "customer" ELSE "load")

Load ==
  /\ pc = "load"
  /\ \/ Refuses("order not found")
     \/ Refuses("foreign")
     \/ Goes(IF Given(request.customer) THEN "customer"
             ELSE IF request.vehicle.text \notin {"absent", "empty"} THEN "vehicle" ELSE "owner")

CustomerFound ==
  /\ pc = "customer"
  /\ Found(request.customer.text)
  /\ Goes(IF request.vehicle.text \notin {"absent", "empty"} THEN "vehicle" ELSE "owner")

\* The owner of a vehicle is compared with the customer as it is written.
SameCustomer(v, field) == field.text = "uuid" /\ Owner[v] = field.of

VehicleFound ==
  /\ pc = "vehicle"
  /\ Found(request.vehicle.text)
  /\ IF request.op = "update" THEN Goes("owner")
     ELSE IF SameCustomer(request.vehicle.of, request.customer) THEN Goes("items")
     ELSE Refuses("not the customer's vehicle")

FinalCustomer ==
  IF Given(request.customer) THEN request.customer ELSE [text |-> "uuid", of |-> row.customer]

FinalVehicle ==
  IF Given(request.vehicle) THEN request.vehicle ELSE [text |-> "uuid", of |-> row.vehicle]

\* Mutant: the owner is compared only for a vehicle the body names.
OwnerCheckedIfNamed ==
  /\ pc = "owner"
  /\ IF FinalVehicle.text = "empty" THEN Refuses("ID do veiculo invalido")
     ELSE /\ Found(FinalVehicle.text)
          /\ IF ~Given(request.vehicle) \/ SameCustomer(FinalVehicle.of, FinalCustomer)
               THEN Goes("items") ELSE Refuses("not the customer's vehicle")

\* Mutant: the history is saved before the items are checked.
HistoryBeforeItems ==
  /\ pc = "owner"
  /\ Found(FinalVehicle.text) /\ SameCustomer(FinalVehicle.of, FinalCustomer)
  /\ history' = history + 1
  /\ pc' = "items" /\ attempts' = 1
  /\ UNCHANGED <<request, editable, row, item, answer>>

\* An update compares the owner even when only the customer changes; the
\* vehicle "" is not looked up, and is refused when it is set.
ValidateVehicleOwnership ==
  /\ pc = "owner"
  /\ IF FinalVehicle.text = "empty" THEN Refuses("ID do veiculo invalido")
     ELSE /\ Found(FinalVehicle.text)
          /\ IF SameCustomer(FinalVehicle.of, FinalCustomer)
               THEN Goes("items") ELSE Refuses("not the customer's vehicle")

\* Mutant: the type is left to the validator.
ItemsOfAnyType ==
  /\ pc = "items"
  /\ IF request.op = "update" /\ request.replaces /\ ~editable
       THEN Refuses("items after PENDING_AUTHORIZATION")
     ELSE Goes(IF item <= Len(request.items) THEN "item"
               ELSE IF request.op = "update" THEN "history" ELSE "save")

\* The items of a body one after the other: first the rules that need no call.
Items ==
  /\ pc = "items"
  /\ IF request.op = "update" /\ request.replaces /\ ~editable
       THEN Refuses("items after PENDING_AUTHORIZATION")
     ELSE IF item > Len(request.items)
       THEN Goes(IF request.op = "update" THEN "history" ELSE "save")
     ELSE IF request.items[item].type # "known" THEN Refuses("tipo de item invalido")
     ELSE Goes("item")

\* The catalogue's name and price come with it; NewServiceOrderItem checks them.
ItemFound ==
  /\ pc = "item"
  /\ \/ Refuses("nome ou preco do item invalido")
     \/ IF request.items[item].quantity <= 0
          THEN Refuses("quantidade deve ser maior que zero")
          ELSE /\ pc' = "items"
               /\ item' = item + 1
               /\ attempts' = 1
               /\ UNCHANGED <<request, editable, row, history, answer>>

SaveHistory ==
  /\ pc = "history"
  /\ \/ Refuses("foreign")
     \/ /\ history' = history + 1
        /\ pc' = "save"
        /\ UNCHANGED <<request, editable, row, item, attempts, answer>>

SaveOrder ==
  /\ pc = "save"
  /\ \/ Refuses("foreign")
     \/ /\ row' = [customer |-> FinalCustomer.of, vehicle |-> FinalVehicle.of]
        /\ pc' = "answered"
        /\ answer' = IF request.op = "create" THEN 201 ELSE 200
        /\ UNCHANGED <<request, editable, history, item, attempts>>

Handle ==
  \/ Validate \/ Load \/ CustomerFound \/ VehicleFound \/ ValidateVehicleOwnership
  \/ Items \/ ItemFound \/ SaveHistory \/ SaveOrder
  \/ Retry \/ LookupFails

Done == pc = "answered" /\ UNCHANGED vars

Next == Handle \/ Done

Spec == Init /\ [][Next]_vars

\* A handler's goroutine runs on, and each call it makes returns.
FairSpec == Spec /\ WF_vars(Handle)

-----------------------------------------------------------------------------
TypeOK ==
  /\ request \in Request
  /\ editable \in BOOLEAN
  /\ row \in [customer : Customers, vehicle : Vehicles] \cup {NoOrder}
  /\ history \in 0..1
  /\ pc \in {"validate", "load", "customer", "vehicle", "owner", "items", "item",
             "history", "save", "answered"}
  /\ item \in 1..MaxItems + 1
  /\ attempts \in 1..MaxAttempts
  /\ answer \in {0, 200, 201, 400, 401, 404, 409, 500}

(***************************************************************************)
(* Whichever of its two ids an update leaves out, and however they are     *)
(* spelt, the stored order never pairs a vehicle with a customer it does   *)
(* not belong to.                                                          *)
(***************************************************************************)
VehicleIsTheCustomers == row # NoOrder => Owner[row.vehicle] = row.customer

(***************************************************************************)
(* What was accepted was valid: item types the stock saga can tell apart   *)
(* and positive quantities.  The validator trims a type and the use case   *)
(* does not: the two together leave nothing through.                       *)
(***************************************************************************)
AcceptedItemsAreValid ==
  answer \in {200, 201} =>
    \A i \in DOMAIN request.items :
      request.items[i].type = "known" /\ request.items[i].quantity > 0

(***************************************************************************)
(* A request that is refused as the caller's fault left nothing behind,    *)
(* neither in the order nor in its history: it can be corrected and sent   *)
(* again.                                                                  *)
(***************************************************************************)
RefusalLeavesNoTrace == answer \in 400..499 => history = 0

\* However the services it asks fail, a request is answered in the end.
EveryRequestAnswered == <>(pc = "answered")

-----------------------------------------------------------------------------
\* "400 Invalid request body or validation failed" (service_order_handler.go):
\* it is answered to a body that is wrong.
WrongBody ==
  \/ ~ValidateStruct(request)
  \/ FinalVehicle.text = "empty"
  \/ Found(FinalVehicle.text) /\ ~SameCustomer(FinalVehicle.of, FinalCustomer)

BadRequestIsTheCallers == answer = 400 => WrongBody

\* "Type of item (PRODUCT or SERVICE)" (service_order_dto.go), next to "500
\* Internal server error": a wrong type is the caller's fault.
WrongTypeIsRefusedAsSuch ==
  [][pc = "items" /\ pc' = "answered" => answer' # 500]_vars
=============================================================================
