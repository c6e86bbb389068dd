------------------------------ MODULE OrderSaga ------------------------------
(***************************************************************************)
(* The order service (MS2): its table of orders, the use cases behind its  *)
(* HTTP routes, the saga orchestrator with its queue consumers, crash and  *)
(* restart recovery, composed with the stock service and Mercado Pago.     *)
(* Several replicas of the process may run at once: a rolling update       *)
(* starts the new one, recovery included, while the old one works.         *)
(*                                                                         *)
(* A handler is one action here: handlers of one order run one after the   *)
(* other.  Inside a handler the points where the process may die or a call *)
(* may fail between two durable effects are kept as outcomes of the        *)
(* action.  History, e-mail and metrics are written and never read by any  *)
(* handler, and are left out.                                              *)
(***************************************************************************)
EXTENDS InventoryService, MercadoPago

CONSTANTS
  Replicas,           \* processes of the service
  MaxSagas,           \* bound: sagas started
  MaxCrashes,         \* bound: deaths of the process
  CallsMayFail        \* whether calls to the queues and the stores may fail

ASSUME BoundsAssumption ==
  /\ MaxSagas \in Nat /\ MaxCrashes \in Nat
  /\ MaxMPOrders \in Nat /\ MaxPayments \in Nat
  /\ CallsMayFail \in BOOLEAN
  /\ FailableOps \subseteq Operation

VARIABLES
  orders,     \* the table service_orders: a function from the ids created
  sagas,      \* every saga started: the i-th, with saga id i, and what it is for
  process,    \* each replica: down, recovering (it serves HTTP already) or up
  recovery,   \* requests its recovery has loaded and not republished yet
  crashes     \* deaths so far

processVars == <<process, recovery, crashes>>

vars == <<orders, sagas, processVars, inventoryVars, mpVars>>

Init ==
  /\ orders = [o \in {} |-> NewServiceOrder({})]
  /\ sagas = <<>>
  /\ process = [k \in Replicas |-> "down"]
  /\ recovery = [k \in Replicas |-> {}]
  /\ crashes = 0
  /\ InventoryInit
  /\ MPInit

-----------------------------------------------------------------------------
(* The repository *)

Exists(o) == o \in DOMAIN orders

\* Save replaces the whole row, items included.
Save(o, x) ==
  orders' = [y \in DOMAIN orders \cup {o} |-> IF y = o THEN x ELSE orders[y]]

Awaiting == {o \in DOMAIN orders : AwaitingInventory(orders[o])}

-----------------------------------------------------------------------------
(* The processes *)

\* The routes are registered before recovery, the consumers start after it.
Serving   == \E k \in Replicas : process[k] # "down"
Consuming == \E k \in Replicas : process[k] = "up"

Recovering == UNION {recovery[k] : k \in Replicas}

Lives == UNCHANGED processVars

Stop(k) ==
  /\ process' = [process EXCEPT ![k] = "down"]
  /\ recovery' = [recovery EXCEPT ![k] = {}]

Dies ==
  /\ crashes < MaxCrashes
  /\ crashes' = crashes + 1
  /\ \E k \in Replicas : process[k] # "down" /\ Stop(k)

\* A handler stops between two of its effects.
Interrupted == Dies \/ (CallsMayFail /\ Lives)

-----------------------------------------------------------------------------
(* The saga orchestrator *)

TransitionLocal(o, target) ==
  /\ CanSettle(orders[o], target)
  /\ Save(o, Settle(orders[o], target))
  /\ Lives
  /\ UNCHANGED <<sagas, inventoryVars>>

\* Mutant: one id reused by every saga.
SagaIdReused(o) == 1

\* uuid.NewV7: an id never issued before.
NewSagaId(o) == Len(sagas) + 1

\* The row is saved before the request is published.
LaunchSaga(o, op, target) ==
  LET m == [saga |-> NewSagaId(o), order |-> o, op |-> op, items |-> orders[o].items]
  IN /\ Len(sagas) < MaxSagas
     /\ sagas' = Append(sagas, m)
     /\ Save(o, MarkSagaStarted(orders[o], m.saga, target))
     /\ \/ requests' = requests \cup {m} /\ Lives
        \/ UNCHANGED requests /\ Interrupted
     /\ UNCHANGED <<replies, settled, stock>>

\* Mutant: a saga in flight does not stop the next one.
StartSagaUnchecked(o, op, target) ==
  \/ orders[o].items = {} /\ TransitionLocal(o, target)
  \/ orders[o].items # {} /\ LaunchSaga(o, op, target)

StartSaga(o, op, target) ==
  /\ ~AwaitingInventory(orders[o])
  /\ \/ orders[o].items = {} /\ TransitionLocal(o, target)
     \/ orders[o].items # {} /\ LaunchSaga(o, op, target)

CancelOrder(o) ==
  /\ ~AwaitingInventory(orders[o])
  /\ \/ /\ orders[o].status \in {"RECEIVED", "DIAGNOSING"}
        /\ TransitionLocal(o, "CANCELED")
     \/ /\ orders[o].status \in {"PENDING_AUTHORIZATION", "AUTHORIZED", "IN_PROGRESS"}
        /\ StartSaga(o, "CANCEL_RESERVED", "CANCELED")
     \/ /\ orders[o].status \in {"COMPLETED", "AWAITING_PAYMENT", "PAYMENT_REJECTED", "PAID"}
        /\ StartSaga(o, "CANCEL_CONFIRMED", "CANCELED")

\* One message of the success queue; an error leaves the message there.
HandleSucceeded(r) ==
  /\ Consuming
  /\ r \in replies /\ r.ok
  /\ Exists(r.order)
  /\ IF CanProcessSaga(orders[r.order], r.saga)
       THEN /\ CanSettle(orders[r.order], orders[r.order].target)
            /\ Save(r.order, Settle(orders[r.order], orders[r.order].target))
       ELSE UNCHANGED orders
  /\ replies' \in Acknowledge(replies, r)
  /\ Lives
  /\ UNCHANGED <<sagas, requests, settled, stock, mpVars>>

HandleFailed(r) ==
  /\ Consuming
  /\ r \in replies /\ ~r.ok
  /\ Exists(r.order)
  /\ IF CanProcessSaga(orders[r.order], r.saga)
       THEN Save(r.order, FailSaga(orders[r.order]))
       ELSE UNCHANGED orders
  /\ replies' \in Acknowledge(replies, r)
  /\ Lives
  /\ UNCHANGED <<sagas, requests, settled, stock, mpVars>>

\* A reply whose handler answers an error on every delivery ends in the DLQ: a
\* success that can not be applied, or any reply while the stores fail.
DeadLetter(r) ==
  /\ Consuming
  /\ r \in replies
  /\ Exists(r.order)
  /\ \/ CallsMayFail
     \/ /\ r.ok
        /\ CanProcessSaga(orders[r.order], r.saga)
        /\ ~CanSettle(orders[r.order], orders[r.order].target)
  /\ replies' = replies \ {r}
  /\ Lives
  /\ UNCHANGED <<orders, sagas, requests, settled, stock, mpVars>>

\* Mutant: recovery starts over with a new saga id.
RepublishedAnew(o) ==
  [saga  |-> NewSagaId(o), order |-> o,
   op    |-> InferOperation(orders[o].status, orders[o].target),
   items |-> orders[o].items]

Republished(o) ==
  [saga  |-> orders[o].sagaId, order |-> o,
   op    |-> InferOperation(orders[o].status, orders[o].target),
   items |-> orders[o].items]

Crash ==
  /\ Dies
  /\ UNCHANGED <<orders, sagas, inventoryVars, mpVars>>

\* Startup loads the rows that wait; one without a saga id is passed over.
Start(k) ==
  /\ process[k] = "down"
  /\ process' = [process EXCEPT ![k] = "recovering"]
  /\ recovery' = [recovery EXCEPT ![k] =
                    {Republished(o) : o \in {w \in Awaiting : orders[w].sagaId # NoId}}]
  /\ UNCHANGED <<orders, sagas, crashes, inventoryVars, mpVars>>

\* The requests go out one by one, in any order, while calls are served.
Republish(k, m) ==
  /\ m \in recovery[k]
  /\ m.op # "NONE"
  /\ requests' = requests \cup {m}
  /\ recovery' = [recovery EXCEPT ![k] = @ \ {m}]
  /\ UNCHANGED <<orders, sagas, process, crashes, replies, settled, stock, mpVars>>

Ready(k) ==
  /\ process[k] = "recovering"
  /\ recovery[k] = {}
  /\ process' = [process EXCEPT ![k] = "up"]
  /\ UNCHANGED <<orders, sagas, recovery, crashes, inventoryVars, mpVars>>

\* A row nothing can be inferred for, or an error of the queues or the stores,
\* ends the startup; the process exits and is started again.
StartFails(k) ==
  /\ process[k] = "recovering"
  /\ CallsMayFail \/ \E m \in recovery[k] : m.op = "NONE"
  /\ Stop(k)
  /\ UNCHANGED <<orders, sagas, crashes, inventoryVars, mpVars>>

-----------------------------------------------------------------------------
(* The use cases *)

Create(o, items) ==
  /\ Serving
  /\ ~Exists(o)
  /\ Save(o, NewServiceOrder(items))
  /\ Lives
  /\ UNCHANGED <<sagas, inventoryVars, mpVars>>

UpdateItems(o, items) ==
  /\ Serving
  /\ Exists(o)
  /\ CanModifyItems(orders[o])
  /\ Save(o, [orders[o] EXCEPT !.items = items])
  /\ Lives
  /\ UNCHANGED <<sagas, inventoryVars, mpVars>>

\* The MP order is created before the row is saved.
StartPayment(o) ==
  /\ CreateMPOrder(o)
  /\ \/ /\ CanTransitionTo(orders[o].status, "AWAITING_PAYMENT")
        /\ Save(o, AwaitPayment(orders[o], Len(mpOrders) + 1))
        /\ Lives
     \/ UNCHANGED orders /\ Interrupted
  /\ UNCHANGED <<sagas, inventoryVars, payments>>

AdvanceBySaga(o, next, op) ==
  /\ op # "NONE"
  /\ StartSaga(o, op, next)
  /\ UNCHANGED mpVars

AdvanceToPayment(o, next, op) ==
  /\ op = "NONE"
  /\ orders[o].status = "COMPLETED" /\ next = "AWAITING_PAYMENT"
  /\ StartPayment(o)

\* No look at the saga columns, which stay as they are.
AdvanceDirectly(o, next, op) ==
  /\ op = "NONE"
  /\ ~(orders[o].status = "COMPLETED" /\ next = "AWAITING_PAYMENT")
  /\ CanTransitionTo(orders[o].status, next)
  /\ Save(o, UpdateStatus(orders[o], next))
  /\ Lives
  /\ UNCHANGED <<sagas, inventoryVars, mpVars>>

Advance(o) ==
  /\ Serving
  /\ Exists(o)
  /\ HasNextStatus(orders[o].status)
  /\ LET next == NextStatus(orders[o].status)
         op   == DetermineInventoryOperation(orders[o].status, next)
     IN \/ AdvanceBySaga(o, next, op)
        \/ AdvanceToPayment(o, next, op)
        \/ AdvanceDirectly(o, next, op)

\* The customer's answer.  An approval does not look at the saga columns either.
Respond(o, answer) ==
  LET op == DetermineInventoryOperation("PENDING_AUTHORIZATION", answer)
  IN /\ Serving
     /\ Exists(o)
     /\ orders[o].status = "PENDING_AUTHORIZATION"
     /\ \/ op # "NONE" /\ StartSaga(o, op, answer)
        \/ /\ op = "NONE"
           /\ CanTransitionTo(orders[o].status, answer)
           /\ Save(o, UpdateStatus(orders[o], answer))
           /\ Lives
           /\ UNCHANGED <<sagas, inventoryVars>>
     /\ UNCHANGED mpVars

Approve(o) == Respond(o, "AUTHORIZED")

Deny(o) == Respond(o, "AUTHORIZATION_DENIED")

MustRefund(o) == orders[o].status = "PAID" /\ orders[o].mpPayment # NoId

\* Cancelling the MP order of an unpaid order changes nothing at Mercado Pago.
DeleteUnpaid(o) ==
  /\ Serving
  /\ Exists(o)
  /\ ~MustRefund(o)
  /\ CancelOrder(o)
  /\ UNCHANGED mpVars

\* The refund comes first; a refused refund stops the cancellation.  A paid
\* row whose cancellation is in flight is refunded already, so CancelOrder
\* never refuses after a refund that was accepted.
DeletePaid(o) ==
  /\ Serving
  /\ Exists(o)
  /\ MustRefund(o)
  /\ RefundPayment(orders[o].mpPayment)
  /\ \/ CancelOrder(o)
     \/ UNCHANGED <<orders, sagas, inventoryVars>> /\ Interrupted
  /\ UNCHANGED mpOrders

RetryPayment(o) ==
  /\ Serving
  /\ Exists(o)
  /\ orders[o].status = "PAYMENT_REJECTED"
  /\ StartPayment(o)

\* A notification names a payment; the handler asks Mercado Pago for its
\* status.  Notifications repeat and come late.
Notified(p, status) ==
  /\ Serving
  /\ p \in DOMAIN payments
  /\ payments[p].status = status
  /\ Exists(mpOrders[payments[p].mpOrder])

MarkApproved(p) ==
  LET o == mpOrders[payments[p].mpOrder]
  IN /\ Notified(p, "approved")
     /\ orders[o].status = "AWAITING_PAYMENT"
     /\ Save(o, ConfirmPayment(orders[o], p))
     /\ Lives
     /\ UNCHANGED <<sagas, inventoryVars, mpVars>>

\* Mutant: a late rejection is taken whatever the status.
MarkRejectedAnyStatus(p) ==
  LET o == mpOrders[payments[p].mpOrder]
  IN /\ Notified(p, "rejected")
     /\ Save(o, RejectPayment(orders[o]))
     /\ Lives
     /\ UNCHANGED <<sagas, inventoryVars, mpVars>>

MarkRejected(p) ==
  LET o == mpOrders[payments[p].mpOrder]
  IN /\ Notified(p, "rejected")
     /\ orders[o].status = "AWAITING_PAYMENT"
     /\ Save(o, RejectPayment(orders[o]))
     /\ Lives
     /\ UNCHANGED <<sagas, inventoryVars, mpVars>>

MarkRefunded(p) ==
  LET o == mpOrders[payments[p].mpOrder]
  IN /\ Notified(p, "refunded")
     /\ orders[o].status = "PAID"
     /\ Save(o, CancelAfterRefund(orders[o]))
     /\ Lives
     /\ UNCHANGED <<sagas, inventoryVars, mpVars>>

-----------------------------------------------------------------------------
Delete(o) == DeleteUnpaid(o) \/ DeletePaid(o)

HttpCall(o) ==
  \/ \E items \in SUBSET Products : Create(o, items) \/ UpdateItems(o, items)
  \/ Advance(o) \/ Approve(o) \/ Deny(o) \/ Delete(o) \/ RetryPayment(o)

Webhook(p) == MarkApproved(p) \/ MarkRejected(p) \/ MarkRefunded(p)

Stock(m) == HandleRequest(m) /\ UNCHANGED <<orders, sagas, processVars, mpVars>>

Consume(r) == HandleSucceeded(r) \/ HandleFailed(r)

Recover(k) ==
  \/ Start(k) \/ Ready(k) \/ StartFails(k)
  \/ \E m \in recovery[k] : Republish(k, m)

Payer ==
  /\ \/ \E i \in DOMAIN mpOrders, s \in {"approved", "rejected"} : Pay(i, s)
     \/ \E p \in DOMAIN payments : PanelRefund(p)
  /\ UNCHANGED <<orders, sagas, processVars, inventoryVars>>

Next ==
  \/ \E o \in Orders : HttpCall(o)
  \/ \E p \in DOMAIN payments : Webhook(p)
  \/ \E r \in replies : Consume(r) \/ DeadLetter(r)
  \/ \E m \in requests : Stock(m)
  \/ Payer
  \/ Crash
  \/ \E k \in Replicas : Recover(k)

Spec == Init /\ [][Next]_vars

-----------------------------------------------------------------------------
(* What holds whatever the callers, the payer and the seller do *)

SagaIds == 1..Len(sagas)

TypeOK ==
  /\ DOMAIN orders \subseteq Orders
  /\ orders \in [DOMAIN orders -> ServiceOrder]
  /\ sagas \in Seq(Request)
  /\ process \in [Replicas -> {"down", "recovering", "up"}]
  /\ recovery \in [Replicas -> SUBSET Request]
  /\ crashes \in 0..MaxCrashes
  /\ requests \subseteq Request
  /\ replies \subseteq Reply
  /\ settled \subseteq Reply
  /\ stock \in [Orders -> Holding]
  /\ mpOrders \in Seq(Orders)
  /\ payments \in Seq(Payment)

(***************************************************************************)
(* A row waits for the stock service exactly while it names a saga and a   *)
(* target status, and that target is one restart recovery can infer an     *)
(* operation for.  The three columns are written by StartSaga, HandleX and *)
(* the payment use cases, each clearing them its own way; a row that       *)
(* breaks this makes RecoverAwaitingSagas stop every startup, or waits     *)
(* for ever without being republished.                                     *)
(***************************************************************************)
SagaColumnsConsistent ==
  \A o \in DOMAIN orders :
    LET x == orders[o]
    IN IF AwaitingInventory(x)
         THEN x.sagaId # NoId /\ x.target \in InferableTarget
         ELSE x.sagaId = NoId /\ x.target = NoStatus

(***************************************************************************)
(* Every message of a saga, and the row waiting for it, belong to the      *)
(* order the saga was started for: neither redelivery, nor recovery, nor   *)
(* two orders in flight make a reply reach another order's saga.           *)
(***************************************************************************)
SagasCorrelated ==
  /\ \A m \in requests \cup Recovering \cup replies \cup settled :
       m.saga \in SagaIds /\ m.order = sagas[m.saga].order
  /\ \A o \in Awaiting : orders[o].sagaId \in SagaIds /\ sagas[orders[o].sagaId].order = o

\* closedAt is stamped once the work is completed or the order is closed,
\* and on every such order, through payment retries and cancellations.
ClosedStamped ==
  \A o \in DOMAIN orders : orders[o].closed <=> orders[o].status \notin BeforeCompletion

(***************************************************************************)
(* A payment a row names was approved on an MP order of that very order,   *)
(* and the row has reached PAID: late, repeated or crossed notifications   *)
(* never put another order's payment on a row.                             *)
(***************************************************************************)
PaymentRecorded ==
  \A o \in DOMAIN orders :
    LET p == orders[o].mpPayment
    IN p # NoId => /\ p \in DOMAIN payments
                   /\ payments[p].status # "rejected"
                   /\ mpOrders[payments[p].mpOrder] = o
                   /\ orders[o].status \in {"PAID", "DELIVERED", "CANCELED"}

(***************************************************************************)
(* Seen through the stages of a repair, the rows implement OrderLifecycle: *)
(* no interleaving of handlers, replies, payments and recoveries makes an  *)
(* order skip a stage, go back one or leave an end.                        *)
(***************************************************************************)
StageOf(status) ==
  CASE status \in {"RECEIVED", "DIAGNOSING", "PENDING_AUTHORIZATION"}   -> "budget"
    [] status \in {"AUTHORIZED", "IN_PROGRESS"}                         -> "work"
    [] status \in {"COMPLETED", "AWAITING_PAYMENT", "PAYMENT_REJECTED"} -> "billing"
    [] status = "PAID"                                                  -> "paid"
    [] status = "DELIVERED"                                             -> "delivered"
    [] status = "CANCELED"                                              -> "canceled"
    [] status = "AUTHORIZATION_DENIED"                                  -> "denied"

Stages == [o \in DOMAIN orders |-> StageOf(orders[o].status)]

Lifecycle == INSTANCE OrderLifecycle WITH stage <- Stages

FollowsLifecycle == Lifecycle!LifecycleSpec

(***************************************************************************)
(* A row never takes up a saga again once it has left it: the only saga id *)
(* a row can gain is one issued by that very step.  With it, a duplicate   *)
(* or late reply, which names an older saga, finds no row to act on.       *)
(***************************************************************************)
SagaIdsAreFresh ==
  [][\A o \in DOMAIN orders' :
       \/ orders'[o].sagaId = NoId
       \/ Exists(o) /\ orders'[o].sagaId = orders[o].sagaId
       \/ orders'[o].sagaId \in DOMAIN sagas' \ DOMAIN sagas]_vars
=============================================================================
