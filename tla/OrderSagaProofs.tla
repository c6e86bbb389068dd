--------------------------- MODULE OrderSagaProofs ---------------------------
(***************************************************************************)
(* Proofs about OrderSaga, about callers of it who are disciplined         *)
(* (OrderSagaDiscipline) and about the consumer of customer deletions      *)
(* (CustomerDeletion), for every set of orders and products and every      *)
(* number of replicas, sagas, crashes and payments.                        *)
(*                                                                         *)
(* The argument rests on the lemmas about single rows: every method of the *)
(* aggregate makes a good row of a good row.  Every action writes at most  *)
(* one row, through one of these methods (TableStep), and what it appends  *)
(* to a queue or a log is well typed: for a republished request because    *)
(* the columns of the row it is rebuilt from are consistent.  From this    *)
(* invariant and the lemmas about steps follow the safety properties that  *)
(* relate the table to the queues and to the payments, and the refinement  *)
(* of OrderLifecycle.                                                      *)
(*                                                                         *)
(* Under the discipline a saga is only launched with the operation         *)
(* recovery will infer from the row, towards a status the row may go to;   *)
(* while it is in flight nobody writes the row but to end the saga, so     *)
(* both stay true of it, and what recovery rebuilds from the row is the    *)
(* request first sent.  StepKinds sorts the steps by what they do to the   *)
(* table and to the stock service; the refinement of AtomicOrder rests on  *)
(* it too.                                                                 *)
(*                                                                         *)
(* The consumer of deletions changes an order through the delete use case  *)
(* alone, so that the composed system is still an OrderSaga and all that   *)
(* is proved of OrderSaga holds of it.  No order is forgotten because an   *)
(* order once dealt with stays so, whatever the other handlers do          *)
(* (HandledStays): an order that is not open does not open again, and a    *)
(* cancellation under way ends at its target, by a payment, or by a        *)
(* refusal MS3 has recorded.  Of the rows a pass has read and not gone     *)
(* through yet it is enough that the ones read as not open are still not   *)
(* open (BatchStillGood).                                                  *)
(***************************************************************************)
EXTENDS OrderSagaDiscipline, CustomerDeletion, ServiceOrderProofs, TLAPS

-----------------------------------------------------------------------------
(* The table *)

RowsGood == \A o \in DOMAIN orders : GoodRow(orders[o])

IInv == TypeOK /\ RowsGood

ApprovedFor(o, p) ==
  /\ p \in DOMAIN payments
  /\ payments[p].status = "approved"
  /\ mpOrders[payments[p].mpOrder] = o

\* A row that waits goes on waiting for the same saga and target, whatever
\* its status, or leaves the saga: at its target, by a payment, or because MS3
\* has refused.
WaitEnds(o, x) ==
  \/ x.sagaId = orders[o].sagaId /\ x.target = orders[o].target
  \/ /\ x.sagaId = NoId
     /\ \/ x.status \in {orders[o].target, "AWAITING_PAYMENT", "PAID", "PAYMENT_REJECTED"}
        \/ \E r \in replies : r.order = o /\ ~r.ok

\* What a step may make of the row of o: a good row, reached by a transition
\* of the status machine, with its old saga id, none, or one just issued, and
\* with its old payment or an approved one of its own.
NextRow(o, x) ==
  /\ GoodRow(x)
  /\ IF Exists(o)
       THEN x.status = orders[o].status \/ CanTransitionTo(orders[o].status, x.status)
       ELSE x.status = "RECEIVED"
  /\ \/ x.sagaId = NoId
     \/ Exists(o) /\ x.sagaId = orders[o].sagaId
     \/ /\ x.sagaId = Len(sagas) + 1
        /\ Len(sagas') = Len(sagas) + 1
        /\ sagas'[x.sagaId].order = o
  /\ \/ x.mpPayment = IF Exists(o) THEN orders[o].mpPayment ELSE NoId
     \/ x.status = "PAID" /\ ApprovedFor(o, x.mpPayment)
  /\ o \in Awaiting => WaitEnds(o, x)

WritesRow(o) == \E x \in ServiceOrder : NextRow(o, x) /\ Save(o, x)

TableStep == UNCHANGED orders \/ \E o \in Orders : WritesRow(o)

LEMMA TransitionLocalWrites ==
  ASSUME IInv, NEW o \in Orders, Exists(o), NEW t, TransitionLocal(o, t),
         ~AwaitingInventory(orders[o])
  PROVE  WritesRow(o)
<1>1. GoodRow(orders[o]) /\ CanSettle(orders[o], t) /\ Save(o, Settle(orders[o], t))
  BY DEF IInv, RowsGood, Exists, TransitionLocal
<1>2. NextRow(o, Settle(orders[o], t))
  BY <1>1, SettledRow DEF NextRow, CanSettle, Awaiting
<1> QED  BY <1>1, <1>2 DEF WritesRow, NextRow, GoodRow

LEMMA LaunchSagaWrites ==
  ASSUME IInv, NEW o \in Orders, Exists(o), NEW op, NEW t \in InferableTarget,
         LaunchSaga(o, op, t), ~AwaitingInventory(orders[o])
  PROVE  WritesRow(o)
<1> DEFINE id == Len(sagas) + 1
           x  == MarkSagaStarted(orders[o], id, t)
           m  == [saga |-> id, order |-> o, op |-> op, items |-> orders[o].items]
<1>1. GoodRow(orders[o]) /\ Len(sagas) \in Nat
  BY DEF IInv, RowsGood, TypeOK, Exists
<1>2. sagas' = Append(sagas, m) /\ Save(o, x)
  BY DEF LaunchSaga, NewSagaId
<1>3. id \in Nat /\ id # NoId
  BY <1>1 DEF NoId
<1>4. /\ GoodRow(x) /\ x.status = orders[o].status
      /\ x.sagaId = id /\ x.mpPayment = orders[o].mpPayment
  BY <1>1, <1>3, StartedRow
<1>5. Len(sagas') = id /\ sagas'[id] = m
  BY <1>2 DEF IInv, TypeOK
<1>6. NextRow(o, x)
  BY <1>4, <1>5 DEF NextRow, Exists, Awaiting
<1> QED  BY <1>2, <1>4, <1>6 DEF WritesRow, GoodRow

LEMMA StartSagaWrites ==
  ASSUME IInv, NEW o \in Orders, Exists(o), NEW op, NEW t \in InferableTarget,
         StartSaga(o, op, t)
  PROVE  WritesRow(o)
BY TransitionLocalWrites, LaunchSagaWrites DEF StartSaga

LEMMA CancelOrderWrites ==
  ASSUME IInv, NEW o \in Orders, Exists(o), CancelOrder(o)
  PROVE  WritesRow(o)
<1>1. "CANCELED" \in InferableTarget
  BY DEF InferableTarget
<1> QED  BY <1>1, TransitionLocalWrites, StartSagaWrites DEF CancelOrder

\* A saga started for a transition targets a status recovery can infer.
LEMMA SagaTargetsInferable ==
  ASSUME NEW s, NEW t, DetermineInventoryOperation(s, t) # "NONE"
  PROVE  t \in InferableTarget /\ DetermineInventoryOperation(s, t) \in Operation
BY DEF DetermineInventoryOperation, InferableTarget, Operation, BeforeCompletion

LEMMA UpdateStatusWrites ==
  ASSUME IInv, NEW o \in Orders, Exists(o), NEW t, CanTransitionTo(orders[o].status, t),
         Save(o, UpdateStatus(orders[o], t))
  PROVE  WritesRow(o)
<1>1. GoodRow(orders[o])
  BY DEF IInv, RowsGood, Exists
<1>2. NextRow(o, UpdateStatus(orders[o], t))
  BY <1>1, UpdatedRow DEF NextRow, WaitEnds
<1> QED  BY <1>2 DEF WritesRow, NextRow, GoodRow

\* A row left by a payment use case, saved by a transition it may make.
LEMMA PaymentRowWrites ==
  ASSUME IInv, NEW o \in Orders, Exists(o), NEW x, NEW t, NEW n, Row(x, t, n),
         t \in {"AWAITING_PAYMENT", "PAID", "PAYMENT_REJECTED"},
         CanTransitionTo(orders[o].status, t), Save(o, x),
         n = orders[o].mpPayment \/ (t = "PAID" /\ ApprovedFor(o, n))
  PROVE  WritesRow(o)
<1>1. GoodRow(x) /\ x.status = t /\ x.sagaId = NoId /\ x.mpPayment = n
  BY DEF Row
<1>2. NextRow(o, x)
  BY <1>1 DEF NextRow, WaitEnds
<1>3. x \in ServiceOrder
  BY <1>1 DEF GoodRow
<1> QED  BY <1>2, <1>3 DEF WritesRow

LEMMA StartPaymentWrites ==
  ASSUME IInv, NEW o \in Orders, Exists(o), StartPayment(o)
  PROVE  UNCHANGED orders \/ WritesRow(o)
<1> SUFFICES ASSUME CanTransitionTo(orders[o].status, "AWAITING_PAYMENT"),
                    Save(o, AwaitPayment(orders[o], Len(mpOrders) + 1))
             PROVE  WritesRow(o)
  BY DEF StartPayment
<1>1. GoodRow(orders[o]) /\ Len(mpOrders) + 1 \in Nat
  BY DEF IInv, RowsGood, Exists, TypeOK
<1> DEFINE x == AwaitPayment(orders[o], Len(mpOrders) + 1)
<1>2. Row(x, "AWAITING_PAYMENT", orders[o].mpPayment)
  BY <1>1, PaymentRow
<1>3. Save(o, x)
  OBVIOUS
<1> HIDE DEF x
<1> QED  BY <1>2, <1>3, PaymentRowWrites

LEMMA ReplyWrites ==
  ASSUME IInv, NEW r \in replies, Consume(r) \/ DeadLetter(r)
  PROVE  TableStep
<1>1. ASSUME Exists(r.order) PROVE r.order \in Orders /\ GoodRow(orders[r.order])
  BY <1>1 DEF IInv, RowsGood, TypeOK, Exists
<1>2. CASE HandleSucceeded(r)
  <2> DEFINE x == Settle(orders[r.order], orders[r.order].target)
  <2> SUFFICES ASSUME CanSettle(orders[r.order], orders[r.order].target),
                      Save(r.order, x)
               PROVE  WritesRow(r.order)
    BY <1>1, <1>2 DEF HandleSucceeded, TableStep
  <2>1. Exists(r.order) /\ GoodRow(orders[r.order])
    BY <1>1, <1>2 DEF HandleSucceeded
  <2>2. NextRow(r.order, x)
    BY <2>1, SettledRow DEF NextRow, CanSettle, WaitEnds
  <2> QED  BY <2>2 DEF WritesRow, NextRow, GoodRow
<1>3. CASE HandleFailed(r)
  <2> DEFINE x == FailSaga(orders[r.order])
  <2> SUFFICES ASSUME Save(r.order, x)
               PROVE  WritesRow(r.order)
    BY <1>1, <1>3 DEF HandleFailed, TableStep
  <2>1. Exists(r.order) /\ GoodRow(orders[r.order])
    BY <1>1, <1>3 DEF HandleFailed
  <2>2. WaitEnds(r.order, x)
    BY <1>3, <2>1, ClearedRow DEF WaitEnds, FailSaga, SagaStatus, HandleFailed
  <2>3. NextRow(r.order, x)
    BY <2>1, <2>2, ClearedRow DEF NextRow, FailSaga, SagaStatus
  <2> QED  BY <2>3 DEF WritesRow, NextRow, GoodRow
<1>4. CASE DeadLetter(r)
  BY <1>4 DEF DeadLetter, TableStep
<1> QED  BY <1>2, <1>3, <1>4 DEF Consume

LEMMA CreateOrEditWrites ==
  ASSUME IInv, NEW o \in Orders, NEW items \in SUBSET Products,
         Create(o, items) \/ UpdateItems(o, items)
  PROVE  WritesRow(o)
<1>1. CASE Create(o, items)
  <2>1. NextRow(o, NewServiceOrder(items))
    BY <1>1, NewRow DEF Create, NextRow, Exists, Awaiting
  <2> QED  BY <1>1, <2>1 DEF Create, WritesRow, NextRow, GoodRow
<1>2. CASE UpdateItems(o, items)
  <2> DEFINE x == [orders[o] EXCEPT !.items = items]
  <2>1. Exists(o) /\ GoodRow(orders[o])
    BY <1>2 DEF UpdateItems, IInv, RowsGood, Exists
  <2>2. NextRow(o, x)
    BY <2>1, EditedRow DEF NextRow, WaitEnds
  <2> QED  BY <1>2, <2>2 DEF UpdateItems, WritesRow, NextRow, GoodRow
<1> QED  BY <1>1, <1>2

LEMMA AdvanceWrites ==
  ASSUME IInv, NEW o \in Orders, Advance(o)
  PROVE  UNCHANGED orders \/ WritesRow(o)
<1> DEFINE next == NextStatus(orders[o].status)
           op   == DetermineInventoryOperation(orders[o].status, next)
<1>1. Exists(o)
  BY DEF Advance
<1>2. CASE AdvanceBySaga(o, next, op)
  <2>1. next \in InferableTarget
    BY <1>2, SagaTargetsInferable DEF AdvanceBySaga
  <2> QED  BY <1>1, <1>2, <2>1, StartSagaWrites DEF AdvanceBySaga
<1>3. CASE AdvanceToPayment(o, next, op)
  BY <1>1, <1>3, StartPaymentWrites DEF AdvanceToPayment
<1>4. CASE AdvanceDirectly(o, next, op)
  BY <1>1, <1>4, UpdateStatusWrites DEF AdvanceDirectly
<1> QED  BY <1>2, <1>3, <1>4 DEF Advance

LEMMA RespondWrites ==
  ASSUME IInv, NEW o \in Orders, NEW answer, Respond(o, answer)
  PROVE  WritesRow(o)
<1> DEFINE op == DetermineInventoryOperation("PENDING_AUTHORIZATION", answer)
<1>1. Exists(o)
  BY DEF Respond
<1>2. CASE op # "NONE" /\ StartSaga(o, op, answer)
  <2>1. answer \in InferableTarget
    BY <1>2, SagaTargetsInferable
  <2> QED  BY <1>1, <1>2, <2>1, StartSagaWrites
<1>3. CASE /\ CanTransitionTo(orders[o].status, answer)
           /\ Save(o, UpdateStatus(orders[o], answer))
  BY <1>1, <1>3, UpdateStatusWrites
<1> QED  BY <1>2, <1>3 DEF Respond

LEMMA WebhookWrites ==
  ASSUME IInv, NEW p \in DOMAIN payments, Webhook(p)
  PROVE  \E o \in Orders : WritesRow(o)
<1> DEFINE o == mpOrders[payments[p].mpOrder]
<1>1. Exists(o) /\ o \in Orders /\ GoodRow(orders[o])
  BY DEF Webhook, MarkApproved, MarkRejected, MarkRefunded, Notified, Exists, IInv,
         RowsGood, TypeOK
<1>2. p \in Nat
  BY DEF IInv, TypeOK
<1>3. CASE MarkApproved(p)
  <2>1. CanTransitionTo(orders[o].status, "PAID")
    BY <1>3 DEF MarkApproved, CanTransitionTo, NormalFlow, Final
  <2>2. ApprovedFor(o, p)
    BY <1>3 DEF ApprovedFor, MarkApproved, Notified
  <2> DEFINE x == ConfirmPayment(orders[o], p)
  <2>3. Row(x, "PAID", p)
    BY <1>1, <1>2, <2>1, PaymentRow
  <2> HIDE DEF o
  <2>4. Save(o, x)
    BY <1>3 DEF MarkApproved, o
  <2> HIDE DEF x
  <2> QED  BY <1>1, <2>1, <2>2, <2>3, <2>4, PaymentRowWrites
<1>4. CASE MarkRejected(p)
  <2>1. CanTransitionTo(orders[o].status, "PAYMENT_REJECTED")
    BY <1>4 DEF MarkRejected, CanTransitionTo, NormalFlow, Final
  <2> DEFINE x == RejectPayment(orders[o])
  <2>2. Row(x, "PAYMENT_REJECTED", orders[o].mpPayment)
    BY <1>1, <1>2, <2>1, PaymentRow
  <2> HIDE DEF o
  <2>3. Save(o, x)
    BY <1>4 DEF MarkRejected, o
  <2> HIDE DEF x
  <2> QED  BY <1>1, <2>1, <2>2, <2>3, PaymentRowWrites
<1>5. CASE MarkRefunded(p)
  <2>1. CanTransitionTo(orders[o].status, "CANCELED")
    BY <1>5 DEF MarkRefunded, CanTransitionTo, Final
  <2> QED  BY <1>1, <1>5, <2>1, UpdateStatusWrites DEF MarkRefunded, CancelAfterRefund
<1> QED  BY <1>3, <1>4, <1>5 DEF Webhook

LEMMA HttpCallWrites ==
  ASSUME IInv, NEW o \in Orders, HttpCall(o)
  PROVE  UNCHANGED orders \/ WritesRow(o)
<1>1. CASE \E items \in SUBSET Products : Create(o, items) \/ UpdateItems(o, items)
  BY <1>1, CreateOrEditWrites
<1>2. CASE Advance(o)
  BY <1>2, AdvanceWrites
<1>3. CASE Approve(o) \/ Deny(o)
  BY <1>3, RespondWrites DEF Approve, Deny
<1>4. CASE Delete(o)
  BY <1>4, CancelOrderWrites DEF Delete, DeleteUnpaid, DeletePaid
<1>5. CASE RetryPayment(o)
  BY <1>5, StartPaymentWrites DEF RetryPayment
<1> QED  BY <1>1, <1>2, <1>3, <1>4, <1>5 DEF HttpCall

\* Every step leaves the table as it is or writes one row, as NextRow says.
LEMMA StepWrites ==
  ASSUME IInv, [Next]_vars
  PROVE  TableStep
<1>1. CASE \E o \in Orders : HttpCall(o)
  BY <1>1, HttpCallWrites DEF TableStep
<1>2. CASE \E p \in DOMAIN payments : Webhook(p)
  BY <1>2, WebhookWrites DEF TableStep
<1>3. CASE \E r \in replies : Consume(r) \/ DeadLetter(r)
  BY <1>3, ReplyWrites
<1>4. CASE \E m \in requests : Stock(m)
  BY <1>4 DEF Stock, TableStep
<1>5. CASE Payer \/ Crash \/ (\E k \in Replicas : Recover(k)) \/ UNCHANGED vars
  BY <1>5 DEF Payer, Crash, Recover, Start, Ready, StartFails, Republish, vars, TableStep
<1> QED  BY <1>1, <1>2, <1>3, <1>4, <1>5 DEF Next

-----------------------------------------------------------------------------
(* Queues, logs and Mercado Pago *)

TableTypeOK ==
  /\ DOMAIN orders \subseteq Orders
  /\ orders \in [DOMAIN orders -> ServiceOrder]

MessagesTypeOK ==
  /\ sagas \in Seq(Request)
  /\ requests \subseteq Request
  /\ replies \subseteq Reply
  /\ settled \subseteq Reply
  /\ stock \in [Orders -> Holding]

ProcessTypeOK ==
  /\ process \in [Replicas -> {"down", "recovering", "up"}]
  /\ recovery \in [Replicas -> SUBSET Request]
  /\ crashes \in 0..MaxCrashes

PaymentsTypeOK == mpOrders \in Seq(Orders) /\ payments \in Seq(Payment)

LEMMA TypeOKParts ==
  TypeOK <=> TableTypeOK /\ MessagesTypeOK /\ ProcessTypeOK /\ PaymentsTypeOK
BY DEF TypeOK, TableTypeOK, MessagesTypeOK, ProcessTypeOK, PaymentsTypeOK

LEMMA TableTyped ==
  ASSUME IInv, TableStep
  PROVE  TableTypeOK' /\ RowsGood'
<1>1. CASE UNCHANGED orders
  BY <1>1 DEF IInv, TypeOK, TableTypeOK, RowsGood
<1>2. ASSUME NEW o \in Orders, NEW x \in ServiceOrder, GoodRow(x), Save(o, x)
      PROVE  TableTypeOK' /\ RowsGood'
  <2>1. DOMAIN orders' = DOMAIN orders \cup {o}
    BY <1>2 DEF Save
  <2>2. \A y \in DOMAIN orders' : orders'[y] = IF y = o THEN x ELSE orders[y]
    BY <1>2 DEF Save
  <2>3. \A y \in DOMAIN orders' : orders'[y] \in ServiceOrder /\ GoodRow(orders'[y])
    BY <1>2, <2>1, <2>2 DEF IInv, RowsGood, GoodRow
  <2>4. orders' = [y \in DOMAIN orders' |-> orders'[y]]
    BY <1>2 DEF Save
  <2> QED  BY <2>1, <2>3, <2>4 DEF IInv, TypeOK, TableTypeOK, RowsGood
<1> QED  BY <1>1, <1>2 DEF TableStep, WritesRow, NextRow

LEMMA RequestTyped ==
  ASSUME IInv, NEW o \in DOMAIN orders
  PROVE  /\ orders[o].items \in SUBSET Products
         /\ orders[o].sagaId \in Nat
         /\ AwaitingInventory(orders[o]) => Republished(o) \in Request
<1>1. o \in Orders /\ orders[o] \in ServiceOrder /\ Columns(orders[o])
  BY DEF IInv, TypeOK, RowsGood, GoodRow
<1>2. orders[o].items \in SUBSET Products /\ orders[o].sagaId \in Nat
  BY <1>1 DEF ServiceOrder
<1>3. ASSUME orders[o].target \in InferableTarget
      PROVE  InferOperation(orders[o].status, orders[o].target) \in Operation
  BY <1>3 DEF InferOperation, InferableTarget, Operation
<1> QED  BY <1>1, <1>2, <1>3 DEF Columns, Republished, Request

LEMMA TransitionLocalTyped ==
  ASSUME IInv, NEW o, NEW t, TransitionLocal(o, t)
  PROVE  MessagesTypeOK' /\ ProcessTypeOK'
BY DEF TransitionLocal, Lives, processVars, inventoryVars, IInv, TypeOK, MessagesTypeOK, ProcessTypeOK

LEMMA StopTyped ==
  ASSUME TypeOK, NEW k \in Replicas, Stop(k)
  PROVE  /\ process' \in [Replicas -> {"down", "recovering", "up"}]
         /\ recovery' \in [Replicas -> SUBSET Request]
<1>1. /\ process \in [Replicas -> {"down", "recovering", "up"}]
      /\ recovery \in [Replicas -> SUBSET Request]
  BY DEF TypeOK
<1>2. process' = [process EXCEPT ![k] = "down"] /\ recovery' = [recovery EXCEPT ![k] = {}]
  BY DEF Stop
<1> QED  BY <1>1, <1>2

LEMMA DiesTyped ==
  ASSUME TypeOK, Dies
  PROVE  ProcessTypeOK'
<1>1. MaxCrashes \in Nat
  BY BoundsAssumption DEF BoundsAssumption
<1>2. crashes \in 0..MaxCrashes
  BY DEF TypeOK
<1>3. crashes' \in 0..MaxCrashes
  BY <1>1, <1>2 DEF Dies
<1> QED  BY <1>3, StopTyped DEF Dies, ProcessTypeOK

LEMMA InterruptedTyped ==
  ASSUME TypeOK, Interrupted \/ Lives
  PROVE  ProcessTypeOK'
BY DiesTyped DEF Interrupted, Lives, processVars, TypeOK, ProcessTypeOK

LEMMA LaunchSagaTyped ==
  ASSUME IInv, NEW o \in Orders, Exists(o), NEW op \in Operation, NEW t,
         LaunchSaga(o, op, t)
  PROVE  MessagesTypeOK' /\ ProcessTypeOK'
<1> DEFINE m == [saga |-> Len(sagas) + 1, order |-> o, op |-> op, items |-> orders[o].items]
<1>1. m \in Request
  BY RequestTyped DEF Exists, Request, IInv, TypeOK
<1>2. /\ sagas' = Append(sagas, m)
      /\ requests' = requests \cup {m} \/ UNCHANGED requests
      /\ Interrupted \/ Lives
      /\ UNCHANGED <<replies, settled, stock>>
  BY DEF LaunchSaga, NewSagaId
<1>3. MessagesTypeOK'
  BY <1>1, <1>2 DEF IInv, TypeOK, MessagesTypeOK
<1>4. ProcessTypeOK'
  BY <1>2, InterruptedTyped DEF IInv
<1> QED  BY <1>3, <1>4

LEMMA StartSagaTyped ==
  ASSUME IInv, NEW o \in Orders, Exists(o), NEW op \in Operation, NEW t,
         StartSaga(o, op, t)
  PROVE  MessagesTypeOK' /\ ProcessTypeOK'
BY TransitionLocalTyped, LaunchSagaTyped DEF StartSaga

LEMMA CancelOrderTyped ==
  ASSUME IInv, NEW o \in Orders, Exists(o), CancelOrder(o)
  PROVE  MessagesTypeOK' /\ ProcessTypeOK'
<1>1. "CANCEL_RESERVED" \in Operation /\ "CANCEL_CONFIRMED" \in Operation
  BY DEF Operation
<1> QED  BY <1>1, TransitionLocalTyped, StartSagaTyped DEF CancelOrder

LEMMA RefundTyped ==
  ASSUME IInv, NEW p, RefundPayment(p), UNCHANGED mpOrders
  PROVE  PaymentsTypeOK'
<1> DEFINE x == [payments[p] EXCEPT !.status = "refunded"]
<1>1. payments \in Seq(Payment) /\ mpOrders \in Seq(Orders) /\ p \in DOMAIN payments
  BY DEF RefundPayment, IInv, TypeOK
<1>2. payments[p] \in Payment
  BY <1>1
<1>3. x \in Payment
  BY <1>2 DEF Payment, PaymentStatus
<1>4. payments' = [payments EXCEPT ![p] = x]
  BY DEF RefundPayment
<1>5. payments' \in Seq(Payment)
  BY <1>1, <1>3, <1>4
<1> QED  BY <1>1, <1>5 DEF PaymentsTypeOK

LEMMA StartPaymentTyped ==
  ASSUME IInv, NEW o \in Orders, StartPayment(o)
  PROVE  MessagesTypeOK' /\ ProcessTypeOK' /\ PaymentsTypeOK'
<1>1. PaymentsTypeOK'
  BY DEF StartPayment, CreateMPOrder, IInv, TypeOK, PaymentsTypeOK
<1>2. MessagesTypeOK'
  BY DEF StartPayment, inventoryVars, IInv, TypeOK, MessagesTypeOK
<1>3. ProcessTypeOK'
  BY InterruptedTyped DEF StartPayment, IInv
<1> QED  BY <1>1, <1>2, <1>3

LEMMA HttpCallTyped ==
  ASSUME IInv, NEW o \in Orders, HttpCall(o)
  PROVE  MessagesTypeOK' /\ ProcessTypeOK' /\ PaymentsTypeOK'
<1> USE DEF mpVars, inventoryVars, processVars, Lives
<1>1. UNCHANGED mpVars => PaymentsTypeOK'
  BY DEF IInv, TypeOK, PaymentsTypeOK
<1>2. UNCHANGED <<sagas, inventoryVars>> => MessagesTypeOK'
  BY DEF IInv, TypeOK, MessagesTypeOK
<1>3. Lives => ProcessTypeOK'
  BY DEF IInv, TypeOK, ProcessTypeOK
<1>4. CASE \E items \in SUBSET Products : Create(o, items) \/ UpdateItems(o, items)
  BY <1>1, <1>2, <1>3, <1>4 DEF Create, UpdateItems
<1>5. CASE Advance(o)
  <2> DEFINE next == NextStatus(orders[o].status)
             op   == DetermineInventoryOperation(orders[o].status, next)
  <2>1. Exists(o)
    BY <1>5 DEF Advance
  <2>2. CASE AdvanceBySaga(o, next, op)
    BY <1>1, <2>1, <2>2, SagaTargetsInferable, StartSagaTyped DEF AdvanceBySaga
  <2>3. CASE AdvanceToPayment(o, next, op)
    BY <2>3, StartPaymentTyped DEF AdvanceToPayment
  <2>4. CASE AdvanceDirectly(o, next, op)
    BY <1>1, <1>2, <1>3, <2>4 DEF AdvanceDirectly
  <2> QED  BY <1>5, <2>2, <2>3, <2>4 DEF Advance
<1>6. ASSUME NEW answer, Respond(o, answer)
      PROVE  MessagesTypeOK' /\ ProcessTypeOK' /\ PaymentsTypeOK'
  <2> DEFINE op == DetermineInventoryOperation("PENDING_AUTHORIZATION", answer)
  <2>1. Exists(o) /\ PaymentsTypeOK'
    BY <1>1, <1>6 DEF Respond
  <2>2. CASE op # "NONE" /\ StartSaga(o, op, answer)
    BY <2>1, <2>2, SagaTargetsInferable, StartSagaTyped
  <2>3. CASE Lives /\ UNCHANGED <<sagas, inventoryVars>>
    BY <1>2, <1>3, <2>1, <2>3
  <2> QED  BY <1>6, <2>2, <2>3 DEF Respond
<1>7. CASE DeleteUnpaid(o)
  BY <1>1, <1>7, CancelOrderTyped DEF DeleteUnpaid
<1>8. CASE DeletePaid(o)
  <2>1. PaymentsTypeOK'
    BY <1>8, RefundTyped DEF DeletePaid
  <2>2. CASE CancelOrder(o)
    BY <1>8, <2>1, <2>2, CancelOrderTyped DEF DeletePaid
  <2>3. CASE UNCHANGED <<orders, sagas, inventoryVars>> /\ Interrupted
    BY <1>2, <2>1, <2>3, InterruptedTyped DEF IInv
  <2> QED  BY <1>8, <2>2, <2>3 DEF DeletePaid
<1>9. CASE RetryPayment(o)
  BY <1>9, StartPaymentTyped DEF RetryPayment
<1> QED  BY <1>4, <1>5, <1>6, <1>7, <1>8, <1>9 DEF HttpCall, Approve, Deny, Delete

LEMMA StockTyped ==
  ASSUME IInv, NEW m \in requests, HandleRequest(m), UNCHANGED sagas
  PROVE  MessagesTypeOK'
<1>1. /\ m \in Request /\ stock \in [Orders -> Holding]
      /\ requests \subseteq Request /\ replies \subseteq Reply /\ settled \subseteq Reply
      /\ sagas \in Seq(Request)
  BY DEF IInv, TypeOK
<1>2. requests' \subseteq Request /\ sagas' \in Seq(Request)
  BY <1>1 DEF HandleRequest, Acknowledge
<1>3. ReplyTo(m, TRUE) \in Reply /\ ReplyTo(m, FALSE) \in Reply
  BY <1>1 DEF ReplyTo, Request, Reply
<1>4. stock[m.order] \in Holding /\ m.items \in SUBSET Products
  BY <1>1 DEF Request
<1>5. Applied(stock[m.order], m.op, m.items) \in Holding
  <2>1. m.op \in Operation
    BY <1>1 DEF Request
  <2> QED  BY <1>4, <2>1 DEF Applied, Holding, Operation
<1>6. CASE Perform(m)
  <2>1. stock' \in [Orders -> Holding]
    BY <1>1, <1>5, <1>6 DEF Perform
  <2> QED  BY <1>1, <1>2, <1>3, <1>6, <2>1 DEF Perform, MessagesTypeOK
<1>7. CASE Refuse(m)
  BY <1>1, <1>2, <1>3, <1>7 DEF Refuse, MessagesTypeOK
<1>8. CASE AnswerAgain(m)
  BY <1>1, <1>2, <1>8 DEF AnswerAgain, MessagesTypeOK
<1> QED  BY <1>6, <1>7, <1>8 DEF HandleRequest

LEMMA RecoverTyped ==
  ASSUME IInv, NEW k \in Replicas, Recover(k)
  PROVE  MessagesTypeOK' /\ ProcessTypeOK'
<1> USE DEF inventoryVars
<1>0. /\ process \in [Replicas -> {"down", "recovering", "up"}]
      /\ recovery \in [Replicas -> SUBSET Request]
      /\ crashes \in 0..MaxCrashes
      /\ requests \subseteq Request
  BY DEF IInv, TypeOK
<1>1. CASE Start(k)
  <2> DEFINE loaded == {Republished(o) : o \in {w \in Awaiting : orders[w].sagaId # NoId}}
  <2>1. \A o \in Awaiting : Republished(o) \in Request
    BY RequestTyped DEF Awaiting
  <2>2. loaded \in SUBSET Request
    BY <2>1
  <2>3. recovery' = [recovery EXCEPT ![k] = loaded]
    BY <1>1 DEF Start
  <2>4. recovery' \in [Replicas -> SUBSET Request]
    <3> HIDE DEF loaded
    <3> QED  BY <1>0, <2>2, <2>3
  <2>5. MessagesTypeOK'
    BY <1>1 DEF Start, IInv, TypeOK, MessagesTypeOK
  <2> QED  BY <1>0, <1>1, <2>4, <2>5 DEF Start, ProcessTypeOK
<1>2. ASSUME NEW m \in recovery[k], Republish(k, m)
      PROVE  MessagesTypeOK' /\ ProcessTypeOK'
  <2>1. m \in Request /\ recovery' = [recovery EXCEPT ![k] = recovery[k] \ {m}]
    BY <1>0, <1>2 DEF Republish
  <2>2. recovery' \in [Replicas -> SUBSET Request]
    BY <1>0, <2>1
  <2>3. MessagesTypeOK'
    BY <1>2, <2>1 DEF Republish, IInv, TypeOK, MessagesTypeOK
  <2> QED  BY <1>0, <1>2, <2>2, <2>3 DEF Republish, ProcessTypeOK
<1>3. CASE Ready(k)
  BY <1>0, <1>3 DEF Ready, IInv, TypeOK, MessagesTypeOK, ProcessTypeOK
<1>4. CASE StartFails(k)
  BY <1>0, <1>4, StopTyped DEF StartFails, IInv, TypeOK, MessagesTypeOK, ProcessTypeOK
<1> QED  BY <1>1, <1>2, <1>3, <1>4 DEF Recover

LEMMA PayerTyped ==
  ASSUME IInv, Payer
  PROVE  PaymentsTypeOK'
<1>1. CASE \E i \in DOMAIN mpOrders, s \in {"approved", "rejected"} : Pay(i, s)
  <2>1. PICK i \in DOMAIN mpOrders, s \in {"approved", "rejected"} : Pay(i, s)
    BY <1>1
  <2>2. [mpOrder |-> i, status |-> s] \in Payment
    BY <2>1 DEF Payment, PaymentStatus, IInv, TypeOK
  <2> QED  BY <2>1, <2>2 DEF Pay, IInv, TypeOK, PaymentsTypeOK
<1>2. CASE \E p \in DOMAIN payments : PanelRefund(p)
  BY <1>2, RefundTyped DEF PanelRefund
<1> QED  BY <1>1, <1>2 DEF Payer

\* What a step leaves in the queues, the logs and at Mercado Pago.
LEMMA StepTyped ==
  ASSUME IInv, [Next]_vars
  PROVE  MessagesTypeOK' /\ ProcessTypeOK' /\ PaymentsTypeOK'
<1> USE DEF mpVars, inventoryVars, processVars, Lives
<1>1. UNCHANGED mpVars => PaymentsTypeOK'
  BY DEF IInv, TypeOK, PaymentsTypeOK
<1>2. UNCHANGED <<sagas, inventoryVars>> => MessagesTypeOK'
  BY DEF IInv, TypeOK, MessagesTypeOK
<1>3. Lives => ProcessTypeOK'
  BY DEF IInv, TypeOK, ProcessTypeOK
<1>4. CASE \E o \in Orders : HttpCall(o)
  BY <1>4, HttpCallTyped
<1>5. CASE \E p \in DOMAIN payments : Webhook(p)
  BY <1>1, <1>2, <1>3, <1>5 DEF Webhook, MarkApproved, MarkRejected, MarkRefunded
<1>6. ASSUME NEW r \in replies, Consume(r) \/ DeadLetter(r)
      PROVE  MessagesTypeOK' /\ ProcessTypeOK' /\ PaymentsTypeOK'
  <2>1. /\ replies' \subseteq replies
        /\ Lives
        /\ UNCHANGED <<sagas, requests, settled, stock, mpVars>>
    BY <1>6 DEF Consume, HandleSucceeded, HandleFailed, DeadLetter, Acknowledge
  <2>2. MessagesTypeOK'
    BY <2>1 DEF IInv, TypeOK, MessagesTypeOK
  <2> QED  BY <1>1, <1>3, <2>1, <2>2
<1>7. CASE \E m \in requests : Stock(m)
  <2>1. UNCHANGED mpVars /\ Lives
    BY <1>7 DEF Stock
  <2> QED  BY <1>1, <1>3, <1>7, <2>1, StockTyped DEF Stock
<1>8. CASE Payer
  <2>1. UNCHANGED <<sagas, inventoryVars>> /\ Lives
    BY <1>8 DEF Payer
  <2> QED  BY <1>2, <1>3, <1>8, <2>1, PayerTyped
<1>9. CASE Crash
  <2>1. Dies /\ UNCHANGED <<sagas, inventoryVars, mpVars>>
    BY <1>9 DEF Crash
  <2> QED  BY <1>1, <1>2, <2>1, DiesTyped DEF IInv
<1>10. CASE \E k \in Replicas : Recover(k)
  <2>1. UNCHANGED mpVars
    BY <1>10 DEF Recover, Start, Ready, StartFails, Republish
  <2> QED  BY <1>1, <1>10, <2>1, RecoverTyped
<1>11. CASE UNCHANGED vars
  BY <1>1, <1>2, <1>3, <1>11 DEF vars
<1> QED  BY <1>4, <1>5, <1>6, <1>7, <1>8, <1>9, <1>10, <1>11 DEF Next

-----------------------------------------------------------------------------
(* The invariant and what follows from it *)

LEMMA InitIInv == Init => IInv
<1> SUFFICES ASSUME Init PROVE IInv
  OBVIOUS
<1> USE DEF Init, InventoryInit, MPInit
<1>1. RowsGood /\ TableTypeOK
  BY DEF RowsGood, TableTypeOK
<1>2. stock \in [Orders -> Holding]
  BY DEF NothingHeld, Holding
<1>3. MessagesTypeOK
  BY <1>2 DEF MessagesTypeOK
<1>4. ProcessTypeOK
  <2>1. MaxCrashes \in Nat
    BY BoundsAssumption DEF BoundsAssumption
  <2>2. crashes \in 0..MaxCrashes
    BY <2>1
  <2> QED  BY <2>2 DEF ProcessTypeOK
<1>5. PaymentsTypeOK
  BY DEF PaymentsTypeOK
<1> QED  BY <1>1, <1>3, <1>4, <1>5, TypeOKParts DEF IInv

LEMMA NextIInv == IInv /\ [Next]_vars => IInv'
<1> SUFFICES ASSUME IInv, [Next]_vars PROVE IInv'
  OBVIOUS
<1>1. TableTypeOK' /\ RowsGood'
  BY StepWrites, TableTyped
<1>2. MessagesTypeOK' /\ ProcessTypeOK' /\ PaymentsTypeOK'
  BY StepTyped
<1>3. TypeOK'
  BY <1>1, <1>2 DEF TypeOK, TableTypeOK, MessagesTypeOK, ProcessTypeOK, PaymentsTypeOK
<1> QED  BY <1>1, <1>3 DEF IInv

LEMMA Invariant == Spec => []IInv
BY InitIInv, NextIInv, PTL DEF Spec

\* The table, the queues, the logs and the payments are well typed in every
\* reachable state; in particular every republished request carries one of
\* the four operations of the stock service.
THEOREM TypeCorrect == Spec => []TypeOK
<1>1. IInv => TypeOK
  BY DEF IInv
<1> QED  BY <1>1, Invariant, PTL

\* A row waits for the stock service exactly while it names a saga and a
\* target recovery can infer an operation for: no startup is stopped by a
\* row, and no row is left waiting out of recovery's reach.
THEOREM ColumnsConsistent == Spec => []SagaColumnsConsistent
<1>1. IInv => SagaColumnsConsistent
  BY DEF IInv, RowsGood, GoodRow, Columns, SagaColumnsConsistent
<1> QED  BY <1>1, Invariant, PTL

\* closedAt is stamped on exactly the orders completed or closed.
THEOREM ClosedAtStamped == Spec => []ClosedStamped
<1>1. IInv => ClosedStamped
  BY DEF IInv, RowsGood, GoodRow, Stamped, ClosedStamped
<1> QED  BY <1>1, Invariant, PTL

\* The only saga id a row gains in a step is one issued by that step: a row
\* never takes up an older saga again, whatever duplicate or late messages
\* its consumers receive.
THEOREM FreshSagaIds == Spec => SagaIdsAreFresh
<1> DEFINE Fresh(o) == \/ orders'[o].sagaId = NoId
                       \/ Exists(o) /\ orders'[o].sagaId = orders[o].sagaId
                       \/ orders'[o].sagaId \in DOMAIN sagas' \ DOMAIN sagas
<1>1. ASSUME IInv, Next
      PROVE  \A o \in DOMAIN orders' : Fresh(o)
  <2>1. TableStep
    BY <1>1, StepWrites
  <2>2. CASE UNCHANGED orders
    BY <2>2 DEF Exists
  <2>3. ASSUME NEW w \in Orders, NEW x \in ServiceOrder, NextRow(w, x), Save(w, x),
               NEW o \in DOMAIN orders'
        PROVE  Fresh(o)
    <3>1. CASE o # w
      BY <2>3, <3>1 DEF Save, Exists
    <3>2. CASE o = w
      <4>1. orders'[o] = x
        BY <2>3, <3>2 DEF Save
      <4>2. CASE x.sagaId = Len(sagas) + 1 /\ Len(sagas') = Len(sagas) + 1
        <5>1. sagas \in Seq(Request) /\ sagas' \in Seq(Request)
          BY <1>1, StepTyped DEF IInv, TypeOK, MessagesTypeOK
        <5> QED  BY <4>1, <4>2, <5>1
      <4> QED  BY <2>3, <3>2, <4>1, <4>2 DEF NextRow
    <3> QED  BY <3>1, <3>2
  <2> QED  BY <2>1, <2>2, <2>3 DEF TableStep, WritesRow
<1>2. IInv /\ [Next]_vars => [\A o \in DOMAIN orders' : Fresh(o)]_vars
  BY <1>1
<1> QED  BY <1>2, Invariant, PTL DEF Spec, SagaIdsAreFresh

-----------------------------------------------------------------------------
(* Correlation.  A step sends requests of the saga it starts or of rows    *)
(* that wait, and answers requests it found on the queue.                  *)

SagaIssued(m) == m.saga = Len(sagas) + 1 /\ sagas' = Append(sagas, m)

SagasKept == UNCHANGED sagas \/ \E m \in Request : SagaIssued(m)

RequestsSent ==
  \A m \in requests' \cup Recovering' :
    \/ m \in requests \cup Recovering
    \/ SagaIssued(m)
    \/ \E o \in Awaiting : m = Republished(o)

RepliesSent ==
  \A r \in replies' \cup settled' :
    \/ r \in replies \cup settled
    \/ \E m \in requests : r.saga = m.saga /\ r.order = m.order

Sends == SagasKept /\ RequestsSent /\ RepliesSent

LEMMA RecoveryShrinks ==
  ASSUME IInv, Lives \/ Interrupted
  PROVE  Recovering' \subseteq Recovering
<1>1. recovery \in [Replicas -> SUBSET Request]
  BY DEF IInv, TypeOK
<1>2. CASE Lives
  BY <1>2 DEF Lives, processVars, Recovering
<1>3. ASSUME NEW k \in Replicas, Stop(k) PROVE Recovering' \subseteq Recovering
  BY <1>1, <1>3 DEF Stop, Recovering
<1> QED  BY <1>2, <1>3 DEF Interrupted, Dies

LEMMA QuietSends ==
  ASSUME IInv, UNCHANGED <<sagas, requests, settled>>, Lives \/ Interrupted,
         replies' \subseteq replies
  PROVE  Sends
BY RecoveryShrinks DEF Sends, SagasKept, RequestsSent, RepliesSent

LEMMA LaunchSagaSends ==
  ASSUME IInv, NEW o \in Orders, Exists(o), NEW op \in Operation, NEW t,
         LaunchSaga(o, op, t)
  PROVE  Sends
<1> DEFINE m == [saga |-> Len(sagas) + 1, order |-> o, op |-> op, items |-> orders[o].items]
<1>1. m \in Request
  BY RequestTyped DEF Exists, Request, IInv, TypeOK
<1>2. SagaIssued(m) /\ (requests' = requests \cup {m} \/ UNCHANGED requests)
  BY DEF LaunchSaga, NewSagaId, SagaIssued
<1>3. UNCHANGED <<replies, settled>> /\ Recovering' \subseteq Recovering
  BY RecoveryShrinks DEF LaunchSaga
<1> QED  BY <1>1, <1>2, <1>3 DEF Sends, SagasKept, RequestsSent, RepliesSent

LEMMA StartSagaSends ==
  ASSUME IInv, NEW o \in Orders, Exists(o), NEW op \in Operation, NEW t,
         StartSaga(o, op, t)
  PROVE  Sends
BY LaunchSagaSends, QuietSends DEF StartSaga, TransitionLocal, inventoryVars

LEMMA CancelOrderSends ==
  ASSUME IInv, NEW o \in Orders, Exists(o), CancelOrder(o)
  PROVE  Sends
<1>1. "CANCEL_RESERVED" \in Operation /\ "CANCEL_CONFIRMED" \in Operation
  BY DEF Operation
<1> QED  BY <1>1, StartSagaSends, QuietSends DEF CancelOrder, TransitionLocal, inventoryVars

LEMMA HttpCallSends ==
  ASSUME IInv, NEW o \in Orders, HttpCall(o)
  PROVE  Sends
<1>1. UNCHANGED <<sagas, inventoryVars>> /\ (Lives \/ Interrupted) => Sends
  BY QuietSends DEF inventoryVars
<1>2. CASE \E items \in SUBSET Products : Create(o, items) \/ UpdateItems(o, items)
  BY <1>1, <1>2 DEF Create, UpdateItems
<1>3. CASE Advance(o)
  <2> DEFINE next == NextStatus(orders[o].status)
             op   == DetermineInventoryOperation(orders[o].status, next)
  <2>1. Exists(o)
    BY <1>3 DEF Advance
  <2>2. CASE AdvanceBySaga(o, next, op)
    BY <2>1, <2>2, SagaTargetsInferable, StartSagaSends DEF AdvanceBySaga
  <2>3. CASE AdvanceToPayment(o, next, op) \/ AdvanceDirectly(o, next, op)
    BY <1>1, <2>3 DEF AdvanceToPayment, AdvanceDirectly, StartPayment
  <2> QED  BY <1>3, <2>2, <2>3 DEF Advance
<1>4. ASSUME NEW answer, Respond(o, answer) PROVE Sends
  <2> DEFINE op == DetermineInventoryOperation("PENDING_AUTHORIZATION", answer)
  <2>1. Exists(o)
    BY <1>4 DEF Respond
  <2>2. CASE op # "NONE" /\ StartSaga(o, op, answer)
    BY <2>1, <2>2, SagaTargetsInferable, StartSagaSends
  <2> QED  BY <1>1, <1>4, <2>2 DEF Respond
<1>5. CASE Delete(o)
  BY <1>1, <1>5, CancelOrderSends DEF Delete, DeleteUnpaid, DeletePaid
<1>6. CASE RetryPayment(o)
  BY <1>1, <1>6 DEF RetryPayment, StartPayment
<1> QED  BY <1>2, <1>3, <1>4, <1>5, <1>6 DEF HttpCall, Approve, Deny

LEMMA StockSends ==
  ASSUME NEW m \in requests, HandleRequest(m), UNCHANGED <<sagas, recovery>>
  PROVE  Sends
<1>1. requests' \subseteq requests
  BY DEF HandleRequest, Acknowledge
<1>2. RepliesSent
  BY DEF RepliesSent, HandleRequest, Perform, Refuse, AnswerAgain, ReplyTo
<1> QED  BY <1>1, <1>2 DEF Sends, SagasKept, RequestsSent, Recovering

LEMMA RecoverSends ==
  ASSUME IInv, NEW k \in Replicas, Recover(k)
  PROVE  Sends
<1> USE DEF inventoryVars
<1>1. recovery \in [Replicas -> SUBSET Request]
  BY DEF IInv, TypeOK
<1>2. UNCHANGED <<sagas, replies, settled>>
  BY DEF Recover, Start, Republish, Ready, StartFails
<1>3. RequestsSent
  <2>1. CASE Start(k)
    <3>1. UNCHANGED requests
      BY <2>1 DEF Start
    <3>2. \A j \in Replicas : \A m \in recovery'[j] :
            m \in recovery[j] \/ \E o \in Awaiting : m = Republished(o)
      BY <1>1, <2>1 DEF Start
    <3> QED  BY <3>1, <3>2 DEF RequestsSent, Recovering
  <2>2. ASSUME NEW m \in recovery[k], Republish(k, m) PROVE RequestsSent
    <3>1. requests' = requests \cup {m}
      BY <2>2 DEF Republish
    <3>2. \A j \in Replicas : recovery'[j] \subseteq recovery[j]
      BY <1>1, <2>2 DEF Republish
    <3> QED  BY <3>1, <3>2 DEF RequestsSent, Recovering
  <2>3. CASE Ready(k) \/ StartFails(k)
    <3>1. UNCHANGED requests
      BY <2>3 DEF Ready, StartFails
    <3>2. \A j \in Replicas : recovery'[j] \subseteq recovery[j]
      BY <1>1, <2>3 DEF Ready, StartFails, Stop
    <3> QED  BY <3>1, <3>2 DEF RequestsSent, Recovering
  <2> QED  BY <2>1, <2>2, <2>3 DEF Recover
<1> QED  BY <1>2, <1>3 DEF Sends, SagasKept, RepliesSent

LEMMA StepSends ==
  ASSUME IInv, [Next]_vars
  PROVE  Sends
<1> USE DEF inventoryVars
<1>1. CASE \E o \in Orders : HttpCall(o)
  BY <1>1, HttpCallSends
<1>2. CASE \E p \in DOMAIN payments : Webhook(p)
  BY <1>2, QuietSends DEF Webhook, MarkApproved, MarkRejected, MarkRefunded
<1>3. CASE \E r \in replies : Consume(r) \/ DeadLetter(r)
  BY <1>3, QuietSends DEF Consume, HandleSucceeded, HandleFailed, DeadLetter, Acknowledge
<1>4. CASE \E m \in requests : Stock(m)
  BY <1>4, StockSends DEF Stock, processVars
<1>5. CASE Payer \/ Crash \/ UNCHANGED vars
  BY <1>5, QuietSends DEF Payer, Crash, vars, processVars, Lives, Interrupted
<1>6. CASE \E k \in Replicas : Recover(k)
  BY <1>6, RecoverSends
<1> QED  BY <1>1, <1>2, <1>3, <1>4, <1>5, <1>6 DEF Next

BelongsTo(id, o) == id \in SagaIds /\ sagas[id].order = o

LEMMA BelongsToStable ==
  ASSUME IInv, SagasKept, NEW id, NEW o, BelongsTo(id, o)
  PROVE  BelongsTo(id, o)'
<1>1. sagas \in Seq(Request)
  BY DEF IInv, TypeOK
<1>2. CASE UNCHANGED sagas
  BY <1>2 DEF BelongsTo, SagaIds
<1>3. CASE \E m \in Request : sagas' = Append(sagas, m)
  BY <1>1, <1>3 DEF BelongsTo, SagaIds
<1> QED  BY <1>2, <1>3 DEF SagasKept, SagaIssued

LEMMA NextCorrelated == IInv /\ SagasCorrelated /\ [Next]_vars => SagasCorrelated'
<1> SUFFICES ASSUME IInv, SagasCorrelated, [Next]_vars PROVE SagasCorrelated'
  OBVIOUS
<1>1. Sends /\ TableStep /\ sagas \in Seq(Request)
  BY StepSends, StepWrites DEF IInv, TypeOK
<1>2. \A m \in requests \cup Recovering \cup replies \cup settled : BelongsTo(m.saga, m.order)
  BY DEF SagasCorrelated, BelongsTo
<1>3. \A o \in Awaiting : BelongsTo(orders[o].sagaId, o)
  BY DEF SagasCorrelated, BelongsTo
<1>4. \A id, o : BelongsTo(id, o) => BelongsTo(id, o)'
  BY <1>1, BelongsToStable DEF Sends
<1>5. ASSUME NEW m \in requests' \cup Recovering' PROVE BelongsTo(m.saga, m.order)'
  <2>1. CASE m \in requests \cup Recovering
    BY <1>2, <1>4, <2>1
  <2>2. CASE SagaIssued(m)
    BY <1>1, <2>2 DEF SagaIssued, BelongsTo, SagaIds
  <2>3. CASE \E o \in Awaiting : m = Republished(o)
    BY <1>3, <1>4, <2>3 DEF Republished
  <2> QED  BY <1>1, <2>1, <2>2, <2>3 DEF Sends, RequestsSent
<1>6. ASSUME NEW r \in replies' \cup settled' PROVE BelongsTo(r.saga, r.order)'
  BY <1>1, <1>2, <1>4 DEF Sends, RepliesSent
<1>7. ASSUME NEW o \in Awaiting' PROVE BelongsTo(orders[o].sagaId, o)'
  <2>1. RowsGood' /\ RowsGood
    BY NextIInv DEF IInv
  <2>2. o \in DOMAIN orders' /\ orders'[o].sagaId # NoId
    BY <2>1 DEF Awaiting, RowsGood, GoodRow, Columns
  <2>3. ASSUME Exists(o), orders'[o].sagaId = orders[o].sagaId
        PROVE  BelongsTo(orders[o].sagaId, o)'
    <3>1. o \in Awaiting
      BY <2>1, <2>2, <2>3 DEF Awaiting, Exists, RowsGood, GoodRow, Columns
    <3> QED  BY <1>3, <1>4, <2>3, <3>1 DEF BelongsTo
  <2>4. CASE UNCHANGED orders
    BY <2>2, <2>3, <2>4 DEF Exists
  <2>5. ASSUME NEW w \in Orders, NEW x \in ServiceOrder, NextRow(w, x), Save(w, x)
        PROVE  BelongsTo(orders[o].sagaId, o)'
    <3>1. CASE o # w
      BY <2>2, <2>3, <2>5, <3>1 DEF Save, Exists
    <3>2. CASE o = w
      <4>1. orders'[o] = x
        BY <2>5, <3>2 DEF Save
      <4>2. CASE /\ x.sagaId = Len(sagas) + 1
                 /\ Len(sagas') = Len(sagas) + 1
                 /\ sagas'[x.sagaId].order = o
        BY <1>1, <4>1, <4>2 DEF BelongsTo, SagaIds
      <4> QED  BY <2>2, <2>3, <2>5, <3>2, <4>1, <4>2 DEF NextRow
    <3> QED  BY <3>1, <3>2
  <2> QED  BY <1>1, <2>4, <2>5 DEF TableStep, WritesRow
<1> QED  BY <1>5, <1>6, <1>7 DEF SagasCorrelated, BelongsTo

\* Every message of a saga, and the row waiting for it, belong to the order
\* the saga was started for, for any number of orders in flight.
THEOREM Correlation == Spec => []SagasCorrelated
<1>1. Init => SagasCorrelated
  BY DEF Init, InventoryInit, SagasCorrelated, Awaiting, Recovering
<1> QED  BY <1>1, NextCorrelated, Invariant, PTL DEF Spec

-----------------------------------------------------------------------------
(* The table, seen through stages, implements OrderLifecycle.              *)

LEMMA StageMoves ==
  ASSUME NEW s \in Status, NEW t, CanTransitionTo(s, t)
  PROVE  StageOf(t) = StageOf(s) \/ <<StageOf(s), StageOf(t)>> \in Lifecycle!Promised
<1>1. CASE t = "CANCELED"
  BY <1>1 DEF CanTransitionTo, Final, Status, StageOf, Lifecycle!Promised
<1>2. CASE s = "PENDING_AUTHORIZATION" /\ t = "AUTHORIZATION_DENIED"
  BY <1>2 DEF StageOf, Lifecycle!Promised
<1>3. CASE <<s, t>> \in NormalFlow
  BY <1>3 DEF NormalFlow, StageOf, Lifecycle!Promised
<1> QED  BY <1>1, <1>2, <1>3 DEF CanTransitionTo

LEMMA StageIsStage == ASSUME NEW s \in Status PROVE StageOf(s) \in Lifecycle!Stage
BY DEF Status, StageOf, Lifecycle!Stage

LEMMA RowMovesStage ==
  ASSUME IInv, NEW w \in Orders, NEW x \in ServiceOrder, NextRow(w, x), Save(w, x)
  PROVE  Lifecycle!LifecycleNext \/ UNCHANGED Stages
<1> DEFINE t == StageOf(x.status)
<1>1. /\ DOMAIN Stages = DOMAIN orders
      /\ \A o \in DOMAIN orders : Stages[o] = StageOf(orders[o].status)
  BY DEF Stages
<1>2. Stages' = [o \in DOMAIN orders \cup {w} |-> IF o = w THEN t ELSE Stages[o]]
  BY DEF Stages, Save
<1>3. CASE ~Exists(w)
  <2>1. t = "budget"
    BY <1>3 DEF NextRow, StageOf
  <2>2. Lifecycle!Open(w)
    BY <1>1, <1>2, <1>3, <2>1 DEF Lifecycle!Open, Exists
  <2> QED  BY <2>2 DEF Lifecycle!LifecycleNext
<1>4. CASE Exists(w)
  <2>1. w \in DOMAIN orders /\ orders[w].status \in Status /\ x.status \in Status
    BY <1>4 DEF Exists, IInv, TypeOK, ServiceOrder
  <2>2. t = Stages[w] \/ <<Stages[w], t>> \in Lifecycle!Promised
    BY <1>1, <1>4, <2>1, StageMoves DEF NextRow
  <2>3. Stages' = [Stages EXCEPT ![w] = t]
    BY <1>1, <1>2, <2>1 DEF Stages
  <2>4. CASE t = Stages[w]
    BY <1>1, <2>3, <2>4 DEF Stages
  <2>5. CASE <<Stages[w], t>> \in Lifecycle!Promised
    <3>1. Lifecycle!Move(w, t)
      BY <1>1, <2>1, <2>3, <2>5 DEF Lifecycle!Move
    <3>2. t \in Lifecycle!Stage
      BY <2>1, StageIsStage
    <3> QED  BY <3>1, <3>2 DEF Lifecycle!LifecycleNext
  <2> QED  BY <2>2, <2>4, <2>5
<1> QED  BY <1>3, <1>4

\* The orders implement OrderLifecycle: no step of any actor makes an order
\* skip a stage of the repair, go back one or leave an end.
THEOREM LifecycleImplemented == Spec => FollowsLifecycle
<1>1. Init => Lifecycle!LifecycleInit
  BY DEF Init, Stages, Lifecycle!LifecycleInit
<1>2. IInv /\ [Next]_vars => [Lifecycle!LifecycleNext]_Stages
  <2> SUFFICES ASSUME IInv, [Next]_vars
               PROVE  Lifecycle!LifecycleNext \/ UNCHANGED Stages
    OBVIOUS
  <2>1. CASE UNCHANGED orders
    BY <2>1 DEF Stages
  <2> QED  BY <2>1, StepWrites, RowMovesStage DEF TableStep, WritesRow
<1> QED  BY <1>1, <1>2, Invariant, PTL DEF Spec, FollowsLifecycle, Lifecycle!LifecycleSpec

-----------------------------------------------------------------------------
(* Payments.  Payments refer to MP orders that exist, and no step changes  *)
(* what a payment is for or revives or forgets an approved one.            *)

PaymentsOnOrders == \A p \in DOMAIN payments : payments[p].mpOrder \in DOMAIN mpOrders

PInv == PaymentsOnOrders /\ PaymentRecorded

PaymentOf(o, p) ==
  /\ p \in DOMAIN payments
  /\ payments[p].status # "rejected"
  /\ mpOrders[payments[p].mpOrder] = o

MPOrdersStep == UNCHANGED mpOrders \/ \E o \in Orders : mpOrders' = Append(mpOrders, o)

PaymentsStep ==
  \/ UNCHANGED payments
  \/ \E p \in DOMAIN payments : RefundPayment(p)
  \/ \E i \in DOMAIN mpOrders, s \in {"approved", "rejected"} :
       payments' = Append(payments, [mpOrder |-> i, status |-> s])

LEMMA StepPays ==
  ASSUME IInv, [Next]_vars
  PROVE  MPOrdersStep /\ PaymentsStep
<1> USE DEF mpVars, MPOrdersStep, PaymentsStep
<1>1. CASE \E o \in Orders : HttpCall(o)
  <2>1. PICK o \in Orders : HttpCall(o)
    BY <1>1
  <2>2. CASE \E items \in SUBSET Products : Create(o, items) \/ UpdateItems(o, items)
    BY <2>2 DEF Create, UpdateItems
  <2>3. CASE Advance(o) \/ RetryPayment(o)
    BY <2>3 DEF Advance, AdvanceBySaga, AdvanceToPayment, AdvanceDirectly, RetryPayment,
                StartPayment, CreateMPOrder
  <2>4. CASE Approve(o) \/ Deny(o)
    BY <2>4 DEF Approve, Deny, Respond
  <2>5. CASE Delete(o)
    BY <2>5 DEF Delete, DeleteUnpaid, DeletePaid, RefundPayment
  <2> QED  BY <2>1, <2>2, <2>3, <2>4, <2>5 DEF HttpCall
<1>2. CASE \E p \in DOMAIN payments : Webhook(p)
  BY <1>2 DEF Webhook, MarkApproved, MarkRejected, MarkRefunded
<1>3. CASE \E r \in replies : Consume(r) \/ DeadLetter(r)
  BY <1>3 DEF Consume, HandleSucceeded, HandleFailed, DeadLetter
<1>4. CASE \E m \in requests : Stock(m)
  BY <1>4 DEF Stock
<1>5. CASE Payer
  BY <1>5 DEF Payer, Pay, PanelRefund
<1>6. CASE Crash \/ (\E k \in Replicas : Recover(k)) \/ UNCHANGED vars
  BY <1>6 DEF Crash, Recover, Start, Ready, StartFails, Republish, vars
<1> QED  BY <1>1, <1>2, <1>3, <1>4, <1>5, <1>6 DEF Next

LEMMA PaymentsStable ==
  ASSUME IInv, PaymentsOnOrders, MPOrdersStep, PaymentsStep
  PROVE  /\ PaymentsOnOrders'
         /\ \A o, p : PaymentOf(o, p) => PaymentOf(o, p)'
<1>1. mpOrders \in Seq(Orders) /\ payments \in Seq(Payment)
  BY DEF IInv, TypeOK
<1>2. \A i \in DOMAIN mpOrders : i \in DOMAIN mpOrders' /\ mpOrders'[i] = mpOrders[i]
  BY <1>1 DEF MPOrdersStep
<1>3. \A p \in DOMAIN payments :
        /\ p \in DOMAIN payments'
        /\ payments'[p].mpOrder = payments[p].mpOrder
        /\ payments[p].status # "rejected" => payments'[p].status # "rejected"
  <2>1. CASE UNCHANGED payments
    BY <2>1
  <2>2. ASSUME NEW q \in DOMAIN payments, RefundPayment(q), NEW p \in DOMAIN payments
        PROVE  /\ p \in DOMAIN payments'
               /\ payments'[p].mpOrder = payments[p].mpOrder
               /\ payments[p].status # "rejected" => payments'[p].status # "rejected"
    <3> DEFINE x == [payments[q] EXCEPT !.status = "refunded"]
    <3>1. payments[q] \in Payment /\ payments' = [payments EXCEPT ![q] = x]
      BY <1>1, <2>2 DEF RefundPayment
    <3>2. x.mpOrder = payments[q].mpOrder /\ x.status = "refunded"
      BY <3>1 DEF Payment
    <3> HIDE DEF x
    <3> QED  BY <1>1, <2>2, <3>1, <3>2
  <2>3. ASSUME NEW y, payments' = Append(payments, y), NEW p \in DOMAIN payments
        PROVE  p \in DOMAIN payments' /\ payments'[p] = payments[p]
    BY <1>1, <2>3
  <2> QED  BY <2>1, <2>2, <2>3 DEF PaymentsStep
<1>4. ASSUME NEW p \in DOMAIN payments'
      PROVE  payments'[p].mpOrder \in DOMAIN mpOrders'
  <2>1. CASE p \in DOMAIN payments
    BY <1>2, <1>3, <2>1 DEF PaymentsOnOrders
  <2>2. CASE p \notin DOMAIN payments
    <3>1. PICK i \in DOMAIN mpOrders, s \in {"approved", "rejected"} :
            payments' = Append(payments, [mpOrder |-> i, status |-> s])
      BY <1>1, <1>4, <2>2 DEF PaymentsStep, RefundPayment
    <3>2. payments'[p] = [mpOrder |-> i, status |-> s]
      BY <1>1, <1>4, <2>2, <3>1
    <3> QED  BY <1>2, <3>2
  <2> QED  BY <2>1, <2>2
<1> QED  BY <1>2, <1>3, <1>4 DEF PaymentsOnOrders, PaymentOf

PaidStatus == {"PAID", "DELIVERED", "CANCELED"}

PaidRow(o) ==
  orders[o].mpPayment # NoId
    => PaymentOf(o, orders[o].mpPayment) /\ orders[o].status \in PaidStatus

LEMMA PaidStatusStays ==
  ASSUME NEW s \in PaidStatus, NEW t, CanTransitionTo(s, t)
  PROVE  t \in PaidStatus
BY DEF PaidStatus, CanTransitionTo, NormalFlow, Final

LEMMA NextPInv == IInv /\ PInv /\ [Next]_vars => PInv'
<1> SUFFICES ASSUME IInv, PInv, [Next]_vars PROVE PInv'
  OBVIOUS
<1>1. \A o \in DOMAIN orders : PaidRow(o)
  BY DEF PInv, PaymentRecorded, PaidRow, PaymentOf, PaidStatus
<1>2. TableStep /\ MPOrdersStep /\ PaymentsStep
  BY StepWrites, StepPays
<1>3. PaymentsOnOrders' /\ \A o, p : PaymentOf(o, p) => PaymentOf(o, p)'
  BY <1>2, PaymentsStable DEF PInv
<1>4. ASSUME NEW o \in DOMAIN orders'
      PROVE  PaidRow(o)'
  <2>1. ASSUME Exists(o), orders'[o] = orders[o]
        PROVE  PaidRow(o)'
    BY <1>1, <1>3, <2>1 DEF PaidRow, Exists, PaymentOf
  <2>2. CASE UNCHANGED orders
    BY <1>4, <2>1, <2>2 DEF Exists
  <2>3. ASSUME NEW w \in Orders, NEW x \in ServiceOrder, NextRow(w, x), Save(w, x)
        PROVE  PaidRow(o)'
    <3>1. CASE o # w
      BY <1>4, <2>1, <2>3, <3>1 DEF Save, Exists
    <3>2. CASE o = w
      <4>1. orders'[o] = x
        BY <2>3, <3>2 DEF Save
      <4>2. CASE x.status = "PAID" /\ ApprovedFor(o, x.mpPayment)
        BY <1>3, <4>1, <4>2 DEF PaidRow, PaymentOf, ApprovedFor, PaidStatus
      <4>3. CASE x.mpPayment = IF Exists(o) THEN orders[o].mpPayment ELSE NoId
        <5>1. CASE ~Exists(o) \/ x.mpPayment = NoId
          BY <4>1, <4>3, <5>1 DEF PaidRow
        <5>2. CASE Exists(o) /\ x.mpPayment # NoId
          <6>1. PaidRow(o) /\ orders[o].mpPayment = x.mpPayment
            BY <1>1, <4>3, <5>2 DEF Exists
          <6>2. PaymentOf(o, x.mpPayment) /\ orders[o].status \in PaidStatus
            BY <5>2, <6>1 DEF PaidRow
          <6>3. x.status \in PaidStatus
            BY <2>3, <3>2, <5>2, <6>2, PaidStatusStays DEF NextRow
          <6> QED  BY <1>3, <4>1, <6>2, <6>3 DEF PaidRow, PaymentOf
        <5> QED  BY <5>1, <5>2
      <4> QED  BY <2>3, <3>2, <4>2, <4>3 DEF NextRow
    <3> QED  BY <3>1, <3>2
  <2> QED  BY <1>2, <2>2, <2>3 DEF TableStep, WritesRow
<1> QED  BY <1>3, <1>4 DEF PInv, PaymentRecorded, PaidRow, PaymentOf, PaidStatus

\* A payment named by a row was approved on an MP order of that row's order,
\* and the row has reached PAID: late, repeated or crossed notifications
\* never put another order's payment on a row.
THEOREM RecordedPayments == Spec => []PaymentRecorded
<1>1. Init => PInv
  BY DEF Init, MPInit, PInv, PaymentsOnOrders, PaymentRecorded
<1>2. PInv => PaymentRecorded
  BY DEF PInv
<1> QED  BY <1>1, <1>2, NextPInv, Invariant, PTL DEF Spec

-----------------------------------------------------------------------------
(* Disciplined callers *)

Faithful(m) == m.saga \in SagaIds /\ m = sagas[m.saga]

\* The transitions sagas are started for under the discipline.
SagaMoves ==
  {<<"DIAGNOSING", "PENDING_AUTHORIZATION">>, <<"IN_PROGRESS", "COMPLETED">>,
   <<"PENDING_AUTHORIZATION", "AUTHORIZATION_DENIED">>}
  \cup ({"PENDING_AUTHORIZATION", "AUTHORIZED", "IN_PROGRESS", "COMPLETED", "PAID"}
          \X {"CANCELED"})

WaitsWell(o) ==
  /\ Faithful(Republished(o))
  /\ <<orders[o].status, orders[o].target>> \in SagaMoves

DInv ==
  /\ \A m \in requests \cup Recovering : Faithful(m)
  /\ \A o \in Awaiting : WaitsWell(o)

-----------------------------------------------------------------------------
(* Kinds of steps *)

\* A row without a saga.
FreeRow(x, status, items) ==
  GoodRow(x) /\ x.sagaId = NoId /\ x.status = status /\ x.items = items

Writes(o, x) ==
  /\ Save(o, x)
  /\ UNCHANGED <<sagas, settled, stock>>
  /\ replies' \subseteq replies

Opens(o) ==
  /\ ~Exists(o)
  /\ \E i \in SUBSET Products : \E x : FreeRow(x, "RECEIVED", i) /\ Writes(o, x)

Edits(o) ==
  /\ Exists(o) /\ o \notin Awaiting
  /\ CanModifyItems(orders[o])
  /\ \E i \in SUBSET Products : \E x : FreeRow(x, orders[o].status, i) /\ Writes(o, x)

\* What the order is to hold at t and at its status is the same.
HoldsSame(o, t) ==
  Atomic!HeldAt(t, orders[o].items) = Atomic!HeldAt(orders[o].status, orders[o].items)

Moves(o) ==
  /\ Exists(o) /\ o \notin Awaiting
  /\ \E t, x : /\ CanTransitionTo(orders[o].status, t) /\ HoldsSame(o, t)
               /\ FreeRow(x, t, orders[o].items) /\ Writes(o, x)

\* A saga launched as recovery would relaunch it.
Launches(o) ==
  /\ Exists(o) /\ o \notin Awaiting
  /\ \E t \in InferableTarget :
       /\ <<orders[o].status, t>> \in SagaMoves
       /\ LaunchSaga(o, InferOperation(orders[o].status, t), t)

Ends(o, r) ==
  /\ Exists(o)
  /\ CanProcessSaga(orders[o], r.saga)
  /\ \E x : /\ FreeRow(x, IF r.ok THEN orders[o].target ELSE orders[o].status,
                       orders[o].items)
            /\ Writes(o, x)

WritesTable(o) ==
  Opens(o) \/ Edits(o) \/ Moves(o) \/ Launches(o) \/ \E r \in replies : Ends(o, r)

Decides(m) ==
  /\ \A r \in settled : r.saga # m.saga
  /\ Perform(m) \/ Refuse(m)
  /\ UNCHANGED <<orders, sagas>>

Quiet ==
  UNCHANGED <<orders, sagas, settled, stock>> /\ replies' \subseteq replies \cup settled

StepKind ==
  Quiet \/ (\E m \in requests : Decides(m)) \/ (\E o \in Orders : WritesTable(o))

LEMMA DisciplinedIsNext == DisciplinedNext => Next
<1>1. ASSUME NEW o \in Orders, DisciplinedCall(o) PROVE HttpCall(o)
  BY <1>1 DEF DisciplinedCall, HttpCall
<1>2. DisciplinedPayer => Payer
  BY DEF DisciplinedPayer, Payer
<1> QED  BY <1>1, <1>2 DEF DisciplinedNext, Next, Webhook

-----------------------------------------------------------------------------
(* The operation sent and the operation inferred *)

LEMMA AdvanceInferred ==
  ASSUME NEW s \in Status, HasNextStatus(s),
         DetermineInventoryOperation(s, NextStatus(s)) # "NONE"
  PROVE  /\ <<s, NextStatus(s)>> \in SagaMoves
         /\ DetermineInventoryOperation(s, NextStatus(s)) = InferOperation(s, NextStatus(s))
<1>1. s \in {"DIAGNOSING", "IN_PROGRESS"}
  BY DEF Status, HasNextStatus, Final, NextStatus, DetermineInventoryOperation
<1> QED  BY <1>1 DEF NextStatus, DetermineInventoryOperation, InferOperation, SagaMoves

LEMMA AnswerInferred ==
  ASSUME NEW t \in {"AUTHORIZED", "AUTHORIZATION_DENIED"},
         DetermineInventoryOperation("PENDING_AUTHORIZATION", t) # "NONE"
  PROVE  /\ <<"PENDING_AUTHORIZATION", t>> \in SagaMoves
         /\ DetermineInventoryOperation("PENDING_AUTHORIZATION", t)
              = InferOperation("PENDING_AUTHORIZATION", t)
BY DEF DetermineInventoryOperation, InferOperation, SagaMoves

LEMMA CancelInferred ==
  /\ \A s \in {"PENDING_AUTHORIZATION", "AUTHORIZED", "IN_PROGRESS"} :
       <<s, "CANCELED">> \in SagaMoves /\ InferOperation(s, "CANCELED") = "CANCEL_RESERVED"
  /\ \A s \in {"COMPLETED", "PAID"} :
       <<s, "CANCELED">> \in SagaMoves /\ InferOperation(s, "CANCELED") = "CANCEL_CONFIRMED"
BY DEF InferOperation, SagaMoves

LEMMA SagaMovesAllowed ==
  ASSUME NEW s, NEW t, <<s, t>> \in SagaMoves
  PROVE  CanTransitionTo(s, t) /\ s \notin {"AWAITING_PAYMENT", "PAYMENT_REJECTED"}
BY DEF SagaMoves, CanTransitionTo, NormalFlow, Final

\* A transition made without a saga changes nothing of what is to be held.
LEMMA DirectHoldsSame ==
  /\ \A i : Atomic!HeldAt("DIAGNOSING", i) = Atomic!HeldAt("RECEIVED", i)
  /\ \A i : Atomic!HeldAt("CANCELED", i) = Atomic!HeldAt("RECEIVED", i)
  /\ \A i : Atomic!HeldAt("AUTHORIZED", i) = Atomic!HeldAt("PENDING_AUTHORIZATION", i)
  /\ \A i : Atomic!HeldAt("IN_PROGRESS", i) = Atomic!HeldAt("AUTHORIZED", i)
  /\ \A i : Atomic!HeldAt("AWAITING_PAYMENT", i) = Atomic!HeldAt("COMPLETED", i)
  /\ \A i : Atomic!HeldAt("AWAITING_PAYMENT", i) = Atomic!HeldAt("PAYMENT_REJECTED", i)
  /\ \A i : Atomic!HeldAt("PAID", i) = Atomic!HeldAt("AWAITING_PAYMENT", i)
  /\ \A i : Atomic!HeldAt("DELIVERED", i) = Atomic!HeldAt("PAID", i)
  /\ \A s, t : Atomic!HeldAt(s, {}) = Atomic!HeldAt(t, {})
BY DEF Atomic!HeldAt

-----------------------------------------------------------------------------
(* Rows keep their items *)

LEMMA ItemsKept ==
  ASSUME NEW x \in ServiceOrder, NEW t \in Status, NEW n \in Nat
  PROVE  /\ UpdateStatus(x, t).items = x.items
         /\ Settle(x, t).items = x.items
         /\ FailSaga(x).items = x.items
         /\ AwaitPayment(x, n).items = x.items
         /\ ConfirmPayment(x, n).items = x.items
         /\ RejectPayment(x).items = x.items
<1>1. ASSUME NEW y \in ServiceOrder, NEW s \in SagaStatus
      PROVE  ClearSaga(y, s).items = y.items
  BY <1>1 DEF ClearSaga, ServiceOrder
<1>2. ASSUME NEW s \in Status
      PROVE  UpdateStatus(x, s) \in ServiceOrder /\ UpdateStatus(x, s).items = x.items
  BY <1>2 DEF UpdateStatus, ServiceOrder
<1>3. \A y \in ServiceOrder :
        /\ [y EXCEPT !.mpOrder = n] \in ServiceOrder /\ [y EXCEPT !.mpOrder = n].items = y.items
        /\ [y EXCEPT !.mpPayment = n] \in ServiceOrder /\ [y EXCEPT !.mpPayment = n].items = y.items
  BY DEF ServiceOrder
<1>4. /\ {"AWAITING_PAYMENT", "PAID", "PAYMENT_REJECTED"} \subseteq Status
      /\ {"IDLE", "FAILED", "AWAITING_PAYMENT"} \subseteq SagaStatus
  BY DEF Status, SagaStatus
<1>5. Settle(x, t).items = x.items /\ FailSaga(x).items = x.items
  BY <1>1, <1>2, <1>4 DEF Settle, CompleteSaga, FailSaga
<1>6. AwaitPayment(x, n).items = x.items
  <2> DEFINE moved == UpdateStatus(x, "AWAITING_PAYMENT")
             y == [moved EXCEPT !.mpOrder = n]
  <2>1. AwaitPayment(x, n) = ClearSaga(y, "AWAITING_PAYMENT")
    BY DEF AwaitPayment
  <2>2. moved \in ServiceOrder /\ moved.items = x.items
    BY <1>2, <1>4
  <2> HIDE DEF moved
  <2>3. y \in ServiceOrder /\ y.items = x.items
    BY <1>3, <2>2
  <2> HIDE DEF y
  <2> QED  BY <1>1, <1>4, <2>1, <2>3
<1>7. ConfirmPayment(x, n).items = x.items
  <2> DEFINE moved == UpdateStatus(x, "PAID")
             y == [moved EXCEPT !.mpPayment = n]
  <2>1. ConfirmPayment(x, n) = ClearSaga(y, "IDLE")
    BY DEF ConfirmPayment
  <2>2. moved \in ServiceOrder /\ moved.items = x.items
    BY <1>2, <1>4
  <2> HIDE DEF moved
  <2>3. y \in ServiceOrder /\ y.items = x.items
    BY <1>3, <2>2
  <2> HIDE DEF y
  <2> QED  BY <1>1, <1>4, <2>1, <2>3
<1>8. RejectPayment(x).items = x.items
  BY <1>1, <1>2, <1>4 DEF RejectPayment
<1> QED  BY <1>2, <1>5, <1>6, <1>7, <1>8

LEMMA FreeRows ==
  ASSUME NEW x, GoodRow(x), NEW n \in Nat
  PROVE  /\ \A t : CanSettle(x, t) => FreeRow(Settle(x, t), t, x.items)
         /\ FreeRow(FailSaga(x), x.status, x.items)
         /\ \A t : x.sagaId = NoId /\ CanTransitionTo(x.status, t)
                     => FreeRow(UpdateStatus(x, t), t, x.items)
         /\ CanTransitionTo(x.status, "AWAITING_PAYMENT")
              => FreeRow(AwaitPayment(x, n), "AWAITING_PAYMENT", x.items)
         /\ CanTransitionTo(x.status, "PAID")
              => FreeRow(ConfirmPayment(x, n), "PAID", x.items)
         /\ CanTransitionTo(x.status, "PAYMENT_REJECTED")
              => FreeRow(RejectPayment(x), "PAYMENT_REJECTED", x.items)
<1>1. x \in ServiceOrder /\ x.status \in Status
  BY DEF GoodRow, ServiceOrder
<1>2. \A t : CanTransitionTo(x.status, t) => t \in Status
  BY DEF CanTransitionTo, NormalFlow, Status
<1>3. \A t \in Status : /\ UpdateStatus(x, t).items = x.items
                        /\ Settle(x, t).items = x.items
  BY <1>1, ItemsKept
<1>4. /\ FailSaga(x).items = x.items /\ RejectPayment(x).items = x.items
      /\ AwaitPayment(x, n).items = x.items /\ ConfirmPayment(x, n).items = x.items
  BY <1>1, ItemsKept
<1>5. ASSUME NEW t, CanSettle(x, t) PROVE FreeRow(Settle(x, t), t, x.items)
  <2>1. t \in Status
    BY <1>1, <1>2, <1>5 DEF CanSettle
  <2> QED  BY <1>3, <1>5, <2>1, SettledRow DEF FreeRow
<1>6. FreeRow(FailSaga(x), x.status, x.items)
  <2>1. "FAILED" \in SagaStatus \ {"AWAITING_INVENTORY"}
    BY DEF SagaStatus
  <2>2. FailSaga(x) = ClearSaga(x, "FAILED")
    BY DEF FailSaga
  <2> QED  BY <1>4, <2>1, <2>2, ClearedRow DEF FreeRow
<1>7. ASSUME NEW t, x.sagaId = NoId, CanTransitionTo(x.status, t)
      PROVE  FreeRow(UpdateStatus(x, t), t, x.items)
  BY <1>2, <1>3, <1>7, UpdatedRow DEF FreeRow
<1> HIDE DEF AwaitPayment, ConfirmPayment, RejectPayment
<1> QED  BY <1>4, <1>5, <1>6, <1>7, PaymentRow DEF FreeRow, Row

-----------------------------------------------------------------------------
(* Every disciplined step is of one of the kinds *)

\* A transition of an order that does not wait, made without a saga.
LEMMA MoveIsKind ==
  ASSUME IInv, NEW o \in Orders \ Awaiting, Exists(o), NEW t, NEW x,
         CanTransitionTo(orders[o].status, t), HoldsSame(o, t),
         FreeRow(x, t, orders[o].items), Save(o, x), UNCHANGED <<sagas, inventoryVars>>
  PROVE  WritesTable(o)
BY DEF WritesTable, Moves, Writes, inventoryVars

LEMMA FreeOrder ==
  ASSUME IInv, NEW o \in Orders \ Awaiting, Exists(o)
  PROVE  GoodRow(orders[o]) /\ orders[o].sagaId = NoId
BY DEF IInv, RowsGood, Exists, Awaiting, GoodRow, Columns

LEMMA TransitionLocalKind ==
  ASSUME IInv, NEW o \in Orders \ Awaiting, Exists(o), NEW t, TransitionLocal(o, t),
         CanTransitionTo(orders[o].status, t), HoldsSame(o, t)
  PROVE  WritesTable(o)
<1> DEFINE x == Settle(orders[o], t)
<1>1. FreeRow(x, t, orders[o].items)
  BY FreeOrder, FreeRows DEF TransitionLocal
<1>2. Save(o, x) /\ UNCHANGED <<sagas, inventoryVars>>
  BY DEF TransitionLocal
<1> HIDE DEF x
<1> QED  BY <1>1, <1>2, MoveIsKind

LEMMA StartSagaKind ==
  ASSUME IInv, NEW o \in Orders \ Awaiting, Exists(o), NEW t \in InferableTarget,
         <<orders[o].status, t>> \in SagaMoves,
         StartSaga(o, InferOperation(orders[o].status, t), t)
  PROVE  WritesTable(o)
<1>1. CASE orders[o].items = {} /\ TransitionLocal(o, t)
  <2>1. HoldsSame(o, t)
    BY <1>1, DirectHoldsSame DEF HoldsSame
  <2> QED  BY <1>1, <2>1, SagaMovesAllowed, TransitionLocalKind
<1>2. CASE LaunchSaga(o, InferOperation(orders[o].status, t), t)
  BY <1>2 DEF WritesTable, Launches
<1> QED  BY <1>1, <1>2 DEF StartSaga

LEMMA UpdateStatusKind ==
  ASSUME IInv, NEW o \in Orders \ Awaiting, Exists(o), NEW t,
         CanTransitionTo(orders[o].status, t), HoldsSame(o, t),
         Save(o, UpdateStatus(orders[o], t)), UNCHANGED <<sagas, inventoryVars>>
  PROVE  WritesTable(o)
<1> DEFINE x == UpdateStatus(orders[o], t)
<1>1. FreeRow(x, t, orders[o].items)
  BY FreeOrder, FreeRows
<1>2. Save(o, x)
  OBVIOUS
<1> HIDE DEF x
<1> QED  BY <1>1, <1>2, MoveIsKind

LEMMA StartPaymentKind ==
  ASSUME IInv, NEW o \in Orders \ Awaiting, Exists(o), StartPayment(o),
         orders[o].status \in {"COMPLETED", "PAYMENT_REJECTED"}
  PROVE  Quiet \/ WritesTable(o)
<1>1. UNCHANGED <<sagas, inventoryVars>>
  BY DEF StartPayment
<1>2. CASE UNCHANGED orders
  BY <1>1, <1>2 DEF Quiet, inventoryVars
<1>3. CASE /\ CanTransitionTo(orders[o].status, "AWAITING_PAYMENT")
           /\ Save(o, AwaitPayment(orders[o], Len(mpOrders) + 1))
  <2> DEFINE x == AwaitPayment(orders[o], Len(mpOrders) + 1)
  <2>1. Len(mpOrders) + 1 \in Nat
    BY DEF IInv, TypeOK
  <2>2. FreeRow(x, "AWAITING_PAYMENT", orders[o].items)
    BY <1>3, <2>1, FreeOrder, FreeRows
  <2>3. Save(o, x) /\ HoldsSame(o, "AWAITING_PAYMENT")
    BY <1>3, DirectHoldsSame DEF HoldsSame
  <2> HIDE DEF x
  <2> QED  BY <1>1, <1>3, <2>2, <2>3, MoveIsKind
<1> QED  BY <1>2, <1>3 DEF StartPayment

LEMMA CreateOrEditKind ==
  ASSUME IInv, NEW o \in Orders \ Awaiting, NEW items \in SUBSET Products,
         Create(o, items) \/ UpdateItems(o, items)
  PROVE  WritesTable(o)
<1>1. CASE Create(o, items)
  <2>1. FreeRow(NewServiceOrder(items), "RECEIVED", items)
    BY NewRow DEF FreeRow, NewServiceOrder
  <2>2. Writes(o, NewServiceOrder(items)) /\ ~Exists(o)
    BY <1>1 DEF Create, Writes, inventoryVars
  <2> QED  BY <2>1, <2>2 DEF Opens, WritesTable
<1>2. CASE UpdateItems(o, items)
  <2> DEFINE x == [orders[o] EXCEPT !.items = items]
  <2>1. Exists(o) /\ CanModifyItems(orders[o])
    BY <1>2 DEF UpdateItems
  <2>2. x.items = items
    BY <2>1, FreeOrder DEF GoodRow, ServiceOrder
  <2>3. FreeRow(x, orders[o].status, items)
    BY <2>1, <2>2, FreeOrder, EditedRow DEF FreeRow
  <2>4. Writes(o, x)
    BY <1>2 DEF UpdateItems, Writes, inventoryVars
  <2> HIDE DEF x
  <2> QED  BY <2>1, <2>3, <2>4 DEF Edits, WritesTable
<1> QED  BY <1>1, <1>2

LEMMA AdvanceKind ==
  ASSUME IInv, NEW o \in Orders \ Awaiting, Advance(o)
  PROVE  Quiet \/ WritesTable(o)
<1> DEFINE s    == orders[o].status
           next == NextStatus(s)
           op   == DetermineInventoryOperation(s, next)
<1>1. Exists(o) /\ s \in Status /\ HasNextStatus(s)
  BY DEF Advance, IInv, TypeOK, Exists, ServiceOrder
<1>2. CASE AdvanceBySaga(o, next, op)
  <2>1. op # "NONE" /\ StartSaga(o, op, next)
    BY <1>2 DEF AdvanceBySaga
  <2>2. next \in InferableTarget /\ <<s, next>> \in SagaMoves /\ op = InferOperation(s, next)
    BY <1>1, <2>1, SagaTargetsInferable, AdvanceInferred
  <2> QED  BY <1>1, <2>1, <2>2, StartSagaKind
<1>3. CASE AdvanceToPayment(o, next, op)
  BY <1>1, <1>3, StartPaymentKind DEF AdvanceToPayment
<1>4. CASE AdvanceDirectly(o, next, op)
  <2>1. /\ s \in {"RECEIVED", "PENDING_AUTHORIZATION", "AUTHORIZED", "AWAITING_PAYMENT", "PAID"}
        /\ CanTransitionTo(s, next)
    BY <1>1, <1>4 DEF AdvanceDirectly, Status, HasNextStatus, Final, NextStatus,
                      DetermineInventoryOperation
  <2>2. HoldsSame(o, next)
    BY <2>1, DirectHoldsSame DEF NextStatus, HoldsSame
  <2> QED  BY <1>1, <1>4, <2>1, <2>2, UpdateStatusKind DEF AdvanceDirectly
<1> QED  BY <1>2, <1>3, <1>4 DEF Advance

LEMMA RespondKind ==
  ASSUME IInv, NEW o \in Orders \ Awaiting,
         NEW t \in {"AUTHORIZED", "AUTHORIZATION_DENIED"}, Respond(o, t)
  PROVE  WritesTable(o)
<1> DEFINE op == DetermineInventoryOperation("PENDING_AUTHORIZATION", t)
<1>1. Exists(o) /\ orders[o].status = "PENDING_AUTHORIZATION"
  BY DEF Respond
<1>2. CASE op # "NONE" /\ StartSaga(o, op, t)
  <2>1. t \in InferableTarget
    BY <1>2, SagaTargetsInferable
  <2> QED  BY <1>1, <1>2, <2>1, AnswerInferred, StartSagaKind
<1>3. CASE /\ op = "NONE"
           /\ CanTransitionTo(orders[o].status, t)
           /\ Save(o, UpdateStatus(orders[o], t))
           /\ UNCHANGED <<sagas, inventoryVars>>
  <2>1. t = "AUTHORIZED"
    BY <1>3 DEF DetermineInventoryOperation
  <2>2. HoldsSame(o, t)
    BY <1>1, <2>1, DirectHoldsSame DEF HoldsSame
  <2> QED  BY <1>1, <1>3, <2>2, UpdateStatusKind
<1> QED  BY <1>2, <1>3 DEF Respond

LEMMA CancelKind ==
  ASSUME IInv, NEW o \in Orders \ Awaiting, Exists(o), ~Payable(o), CancelOrder(o)
  PROVE  WritesTable(o)
<1>1. "CANCELED" \in InferableTarget
  BY DEF InferableTarget
<1>2. CASE /\ orders[o].status \in {"RECEIVED", "DIAGNOSING"}
           /\ TransitionLocal(o, "CANCELED")
  <2>1. CanTransitionTo(orders[o].status, "CANCELED")
    BY <1>2 DEF CanTransitionTo, Final
  <2>2. HoldsSame(o, "CANCELED")
    BY <1>2, DirectHoldsSame DEF HoldsSame
  <2> QED  BY <1>2, <2>1, <2>2, TransitionLocalKind
<1>3. CASE /\ orders[o].status \in {"PENDING_AUTHORIZATION", "AUTHORIZED", "IN_PROGRESS"}
           /\ StartSaga(o, "CANCEL_RESERVED", "CANCELED")
  BY <1>1, <1>3, CancelInferred, StartSagaKind
<1>4. CASE /\ orders[o].status \in {"COMPLETED", "PAID"}
           /\ StartSaga(o, "CANCEL_CONFIRMED", "CANCELED")
  BY <1>1, <1>4, CancelInferred, StartSagaKind
<1> QED  BY <1>2, <1>3, <1>4 DEF CancelOrder, Payable

LEMMA CallKind ==
  ASSUME IInv, NEW o \in Orders, DisciplinedCall(o)
  PROVE  StepKind
<1>1. o \in Orders \ Awaiting
  BY DEF DisciplinedCall
<1>2. CASE \E items \in SUBSET Products : Create(o, items) \/ UpdateItems(o, items)
  BY <1>1, <1>2, CreateOrEditKind DEF StepKind
<1>3. CASE Advance(o)
  BY <1>1, <1>3, AdvanceKind DEF StepKind
<1>4. CASE Approve(o) \/ Deny(o)
  BY <1>1, <1>4, RespondKind DEF Approve, Deny, StepKind
<1>5. CASE RetryPayment(o)
  BY <1>1, <1>5, StartPaymentKind DEF RetryPayment, StepKind
<1>6. CASE ~Payable(o) /\ Delete(o)
  <2>1. Exists(o)
    BY <1>6 DEF Delete, DeleteUnpaid, DeletePaid
  <2>2. CASE CancelOrder(o)
    BY <1>1, <1>6, <2>1, <2>2, CancelKind DEF StepKind
  <2>3. CASE UNCHANGED <<orders, sagas, inventoryVars>>
    BY <2>3 DEF StepKind, Quiet, inventoryVars
  <2> QED  BY <1>6, <2>2, <2>3 DEF Delete, DeleteUnpaid, DeletePaid
<1> QED  BY <1>2, <1>3, <1>4, <1>5, <1>6 DEF DisciplinedCall

LEMMA WebhookKind ==
  ASSUME IInv, DInv, NEW p \in DOMAIN payments, MarkApproved(p) \/ MarkRejected(p)
  PROVE  StepKind
<1> DEFINE o == mpOrders[payments[p].mpOrder]
           x == ConfirmPayment(orders[o], p)
           y == RejectPayment(orders[o])
<1>1. /\ o \in Orders /\ Exists(o) /\ GoodRow(orders[o])
      /\ orders[o].status = "AWAITING_PAYMENT"
      /\ UNCHANGED <<sagas, inventoryVars>>
      /\ Save(o, x) \/ Save(o, y)
  BY DEF MarkApproved, MarkRejected, Notified, Exists, IInv, RowsGood, TypeOK
<1>2. p \in Nat
  BY DEF IInv, TypeOK
<1>3. CanTransitionTo("AWAITING_PAYMENT", "PAID")
      /\ CanTransitionTo("AWAITING_PAYMENT", "PAYMENT_REJECTED")
  BY DEF CanTransitionTo, NormalFlow, Final
<1> HIDE DEF o
<1>4. o \notin Awaiting
  BY <1>1, SagaMovesAllowed DEF DInv, WaitsWell
<1>5. /\ FreeRow(x, "PAID", orders[o].items)
      /\ FreeRow(y, "PAYMENT_REJECTED", orders[o].items)
  BY <1>1, <1>2, <1>3, FreeRows
<1>6. HoldsSame(o, "PAID") /\ HoldsSame(o, "PAYMENT_REJECTED")
  BY <1>1, DirectHoldsSame DEF HoldsSame
<1> HIDE DEF x, y
<1>7. WritesTable(o)
  BY <1>1, <1>3, <1>4, <1>5, <1>6, MoveIsKind
<1> QED  BY <1>1, <1>7 DEF StepKind

LEMMA ReplyKind ==
  ASSUME IInv, NEW r \in replies, Consume(r) \/ DeadLetter(r)
  PROVE  StepKind
<1> DEFINE o == r.order
<1>1. /\ UNCHANGED <<sagas, settled, stock>>
      /\ replies' \subseteq replies
      /\ Exists(o)
  BY DEF Consume, HandleSucceeded, HandleFailed, DeadLetter, Acknowledge
<1>2. o \in Orders /\ GoodRow(orders[o])
  BY <1>1 DEF IInv, TypeOK, RowsGood, Exists
<1>3. CASE UNCHANGED orders
  BY <1>1, <1>3 DEF StepKind, Quiet
<1>4. CASE /\ r.ok /\ CanProcessSaga(orders[o], r.saga)
           /\ CanSettle(orders[o], orders[o].target)
           /\ Save(o, Settle(orders[o], orders[o].target))
  <2> DEFINE x == Settle(orders[o], orders[o].target)
  <2>1. FreeRow(x, orders[o].target, orders[o].items)
    BY <1>2, <1>4, FreeRows
  <2>2. Writes(o, x)
    BY <1>1, <1>4 DEF Writes
  <2> HIDE DEF x
  <2>3. Ends(o, r)
    BY <1>1, <1>4, <2>1, <2>2 DEF Ends
  <2> QED  BY <1>2, <2>3 DEF StepKind, WritesTable
<1>5. CASE ~r.ok /\ CanProcessSaga(orders[o], r.saga) /\ Save(o, FailSaga(orders[o]))
  <2> DEFINE x == FailSaga(orders[o])
  <2>1. FreeRow(x, orders[o].status, orders[o].items)
    BY <1>2, FreeRows
  <2>2. Writes(o, x)
    BY <1>1, <1>5 DEF Writes
  <2> HIDE DEF x
  <2>3. Ends(o, r)
    BY <1>1, <1>5, <2>1, <2>2 DEF Ends
  <2> QED  BY <1>2, <2>3 DEF StepKind, WritesTable
<1> QED  BY <1>3, <1>4, <1>5 DEF Consume, HandleSucceeded, HandleFailed, DeadLetter

LEMMA StockKind ==
  ASSUME NEW m \in requests, Stock(m)
  PROVE  StepKind
<1>1. CASE AnswerAgain(m)
  BY <1>1 DEF Stock, AnswerAgain, StepKind, Quiet
<1>2. CASE (\A r \in settled : r.saga # m.saga) /\ (Perform(m) \/ Refuse(m))
  BY <1>2 DEF Stock, StepKind, Decides
<1> QED  BY <1>1, <1>2 DEF Stock, HandleRequest

LEMMA StepKinds ==
  ASSUME IInv, DInv, [DisciplinedNext]_vars
  PROVE  StepKind
<1>1. CASE \E o \in Orders : DisciplinedCall(o)
  BY <1>1, CallKind
<1>2. CASE \E p \in DOMAIN payments : MarkApproved(p) \/ MarkRejected(p)
  BY <1>2, WebhookKind
<1>3. CASE \E r \in replies : Consume(r) \/ DeadLetter(r)
  BY <1>3, ReplyKind
<1>4. CASE \E m \in requests : Stock(m)
  BY <1>4, StockKind
<1>5. CASE DisciplinedPayer \/ Crash \/ UNCHANGED vars
  BY <1>5 DEF DisciplinedPayer, Crash, vars, inventoryVars, StepKind, Quiet
<1>6. CASE \E k \in Replicas : Recover(k)
  BY <1>6 DEF Recover, Start, Ready, StartFails, Republish, inventoryVars, StepKind, Quiet
<1> QED  BY <1>1, <1>2, <1>3, <1>4, <1>5, <1>6 DEF DisciplinedNext

-----------------------------------------------------------------------------
(* The invariant of the discipline *)

LEMMA FaithfulStays ==
  ASSUME IInv, SagasKept, NEW m, Faithful(m)
  PROVE  Faithful(m)'
<1>1. sagas \in Seq(Request)
  BY DEF IInv, TypeOK
<1> QED  BY <1>1 DEF SagasKept, SagaIssued, Faithful, SagaIds

\* The row a saga was launched on, as recovery would find it.
LEMMA LaunchedRow ==
  ASSUME IInv, NEW o \in Orders, Launches(o)
  PROVE  WaitsWell(o)'
<1>1. PICK t \in InferableTarget :
        /\ <<orders[o].status, t>> \in SagaMoves
        /\ LaunchSaga(o, InferOperation(orders[o].status, t), t)
  BY DEF Launches
<1> DEFINE id == Len(sagas) + 1
           op == InferOperation(orders[o].status, t)
           m  == [saga |-> id, order |-> o, op |-> op, items |-> orders[o].items]
           x  == MarkSagaStarted(orders[o], id, t)
<1>2. sagas' = Append(sagas, m) /\ Save(o, x)
  BY <1>1 DEF LaunchSaga, NewSagaId
<1>3. sagas \in Seq(Request) /\ orders[o] \in ServiceOrder
  BY DEF IInv, TypeOK, Launches, Exists
<1>4. /\ x.status = orders[o].status /\ x.sagaId = id
      /\ x.target = t /\ x.items = orders[o].items
  BY <1>3 DEF MarkSagaStarted, ServiceOrder
<1>5. sagas'[id] = m /\ id \in 1..Len(sagas')
  BY <1>2, <1>3
<1>6. orders'[o] = x
  BY <1>2 DEF Save
<1>7. Republished(o)' = m
  BY <1>4, <1>6 DEF Republished
<1> QED  BY <1>1, <1>4, <1>5, <1>6, <1>7 DEF Faithful, SagaIds, WaitsWell

\* A row that is not written keeps what it waits for.
LEMMA KeptRow ==
  ASSUME IInv, DInv, SagasKept, NEW o \in Awaiting, orders'[o] = orders[o]
  PROVE  WaitsWell(o)'
<1>1. Republished(o)' = Republished(o)
  BY DEF Republished
<1>2. WaitsWell(o)
  BY DEF DInv
<1> HIDE DEF Republished
<1>3. \A m : Faithful(m) => Faithful(m)'
  BY FaithfulStays
<1> QED  BY <1>1, <1>2, <1>3 DEF Faithful, WaitsWell

LEMMA NextDInv == IInv /\ DInv /\ [DisciplinedNext]_vars => DInv'
<1> SUFFICES ASSUME IInv, DInv, [DisciplinedNext]_vars PROVE DInv'
  OBVIOUS
<1>1. [Next]_vars
  BY DisciplinedIsNext
<1>2. Sends /\ StepKind /\ RowsGood'
  BY <1>1, StepSends, StepKinds, NextIInv DEF IInv
<1>3. \A m : Faithful(m) => Faithful(m)'
  BY <1>2, FaithfulStays DEF Sends
<1>4. ASSUME NEW m \in requests' \cup Recovering' PROVE Faithful(m)'
  <2>1. CASE m \in requests \cup Recovering
    BY <1>3, <2>1 DEF DInv
  <2>2. CASE SagaIssued(m)
    BY <2>2 DEF SagaIssued, Faithful, SagaIds, IInv, TypeOK
  <2>3. CASE \E o \in Awaiting : m = Republished(o)
    BY <1>3, <2>3 DEF DInv, WaitsWell
  <2> QED  BY <1>2, <2>1, <2>2, <2>3 DEF Sends, RequestsSent
<1>5. ASSUME NEW o \in Awaiting'
      PROVE  WaitsWell(o)'
  <2>1. o \in DOMAIN orders' /\ AwaitingInventory(orders'[o])
    BY DEF Awaiting
  <2>2. ASSUME Exists(o), orders'[o] = orders[o]
        PROVE  WaitsWell(o)'
    <3>1. o \in Awaiting
      BY <2>1, <2>2 DEF Awaiting, Exists
    <3> QED  BY <1>2, <2>2, <3>1, KeptRow DEF Sends
  <2>3. CASE UNCHANGED orders
    BY <2>1, <2>2, <2>3 DEF Exists
  <2>4. ASSUME NEW w \in Orders, NEW x, GoodRow(x), x.sagaId = NoId, Save(w, x)
        PROVE  WaitsWell(o)'
    <3>1. ~AwaitingInventory(x)
      BY <2>4 DEF GoodRow, Columns
    <3>2. o # w /\ Exists(o) /\ orders'[o] = orders[o]
      BY <2>1, <2>4, <3>1 DEF Save, Exists
    <3> QED  BY <2>2, <3>2
  <2>5. ASSUME NEW w \in Orders, Launches(w)
        PROVE  WaitsWell(o)'
    <3>1. CASE o = w
      BY <2>5, <3>1, LaunchedRow
    <3>2. CASE o # w
      <4>1. Exists(o) /\ orders'[o] = orders[o]
        BY <2>1, <2>5, <3>2 DEF Launches, LaunchSaga, Save, Exists
      <4> QED  BY <2>2, <4>1
    <3> QED  BY <3>1, <3>2
  <2> QED  BY <1>2, <2>3, <2>4, <2>5 DEF StepKind, Quiet, Decides, WritesTable, Opens, Edits,
                                         Moves, Ends, FreeRow, Writes
<1> QED  BY <1>4, <1>5 DEF DInv

LEMMA DisciplinedInvariant == DisciplinedSpec => [](IInv /\ DInv)
<1>1. Init => IInv
  BY InitIInv
<1>2. Init => DInv
  BY DEF Init, InventoryInit, DInv, Awaiting, Recovering
<1>3. IInv /\ DInv /\ [DisciplinedNext]_vars => (IInv /\ DInv)'
  <2>1. [DisciplinedNext]_vars => [Next]_vars
    BY DisciplinedIsNext
  <2> QED  BY <2>1, NextIInv, NextDInv
<1> QED  BY <1>1, <1>2, <1>3, PTL DEF DisciplinedSpec

\* Recovery rebuilds from a row the very request its saga was started with,
\* for any number of orders, replicas and crashes.
THEOREM FaithfulRequests == DisciplinedSpec => []RequestsAreFaithful
<1>1. DInv => RequestsAreFaithful
  BY DEF DInv, RequestsAreFaithful, Faithful
<1> QED  BY <1>1, DisciplinedInvariant, PTL

\* No row waits for a transition its status does not allow: the success of a
\* saga in flight can always be applied.
THEOREM SagasCanFinish == DisciplinedSpec => []SagaCanFinish
<1>1. DInv => SagaCanFinish
  BY SagaMovesAllowed DEF DInv, WaitsWell, SagaCanFinish, CanSettle
<1> QED  BY <1>1, DisciplinedInvariant, PTL

-----------------------------------------------------------------------------
(***************************************************************************)
(* The orders, seen through their effective status and the stock, are an   *)
(* AtomicOrder, for every number of orders, products, replicas, sagas and  *)
(* crashes.                                                                *)
(*                                                                         *)
(* A saga takes effect once, when MS3 performs it: MS3 decides each saga   *)
(* at most once, and a saga it has not decided is still the one its row    *)
(* waits for, with the status it was launched at.  So the stock of an      *)
(* order is always what its effective status calls for, and every other    *)
(* step of a saga leaves both as they were.                                *)
(***************************************************************************)

Decided(id) == \E r \in settled : r.saga = id

InFlight(id) == \E o \in Awaiting : orders[o].sagaId = id

Effective(o) == IF SettledOk(o) THEN orders[o].target ELSE orders[o].status

Held(o) == IF Exists(o) THEN Atomic!HeldAt(Effective(o), orders[o].items) ELSE NothingHeld

StockFollows == \A o \in Orders : stock[o] = Held(o)

OneVerdict == \A r, q \in settled : r.saga = q.saga => r = q

NoneLost == \A id \in SagaIds : Decided(id) \/ InFlight(id)

AInv == StockFollows /\ OneVerdict /\ NoneLost /\ replies \subseteq settled

FullInv == IInv /\ SagasCorrelated /\ DInv /\ AInv

-----------------------------------------------------------------------------
(* Steps of the mapped state, order by order *)

SameView(o) ==
  /\ Exists(o)' <=> Exists(o)
  /\ Exists(o) => Effective(o)' = Effective(o) /\ orders'[o].items = orders[o].items

Mapped == <<EffectiveStatus, ItemsOf, stock>>

LEMMA MappedIs ==
  /\ DOMAIN EffectiveStatus = DOMAIN orders /\ DOMAIN ItemsOf = DOMAIN orders
  /\ \A o : Exists(o) => EffectiveStatus[o] = Effective(o) /\ ItemsOf[o] = orders[o].items
BY DEF EffectiveStatus, ItemsOf, Effective, Exists

LEMMA MappedNext ==
  /\ EffectiveStatus' = [o \in DOMAIN orders' |-> Effective(o)']
  /\ ItemsOf' = [o \in DOMAIN orders' |-> orders'[o].items]
BY DEF EffectiveStatus, ItemsOf, Effective

LEMMA SameMachine ==
  /\ Atomic!Status = Status
  /\ \A s, t : Atomic!CanTransitionTo(s, t) <=> CanTransitionTo(s, t)
BY DEF Atomic!Status, Status, Atomic!CanTransitionTo, CanTransitionTo, Atomic!NormalFlow,
       NormalFlow, Atomic!Final, Final

LEMMA Stutters ==
  ASSUME \A o : SameView(o), UNCHANGED stock
  PROVE  UNCHANGED Mapped
<1>1. DOMAIN orders' = DOMAIN orders
  BY DEF SameView, Exists
<1>2. EffectiveStatus = [o \in DOMAIN orders |-> Effective(o)]
  BY DEF EffectiveStatus, Effective
<1>3. ItemsOf = [o \in DOMAIN orders |-> orders[o].items]
  BY DEF ItemsOf
<1>4. \A o \in DOMAIN orders : Effective(o)' = Effective(o) /\ orders'[o].items = orders[o].items
  BY DEF SameView, Exists
<1> QED  BY <1>1, <1>2, <1>3, <1>4, MappedNext DEF Mapped

LEMMA MapsToOpen ==
  ASSUME NEW o \in Orders, NEW i \in SUBSET Products, ~Exists(o), UNCHANGED stock,
         \A w : w # o => SameView(w),
         Exists(o)', Effective(o)' = "RECEIVED", orders'[o].items = i
  PROVE  Atomic!AtomicNext
<1>1. DOMAIN orders' = DOMAIN orders \cup {o}
  BY DEF SameView, Exists
<1>2. \A w \in DOMAIN orders :
        w # o /\ Effective(w)' = EffectiveStatus[w] /\ orders'[w].items = ItemsOf[w]
  BY MappedIs DEF SameView, Exists
<1>3. Atomic!OpenOrder(o, i)
  BY <1>1, <1>2, MappedIs, MappedNext DEF Atomic!OpenOrder, Exists
<1> QED  BY <1>3 DEF Atomic!AtomicNext

LEMMA MapsToEdit ==
  ASSUME NEW o \in Orders, NEW i \in SUBSET Products, Exists(o), UNCHANGED stock,
         \A w : w # o => SameView(w),
         Effective(o) \in {"RECEIVED", "DIAGNOSING"},
         Exists(o)', Effective(o)' = Effective(o), orders'[o].items = i
  PROVE  Atomic!AtomicNext
<1>1. DOMAIN orders' = DOMAIN orders
  BY DEF SameView, Exists
<1>2. \A w \in DOMAIN orders : Effective(w)' = EffectiveStatus[w]
  BY MappedIs DEF SameView, Exists
<1>3. \A w \in DOMAIN orders : w # o => orders'[w].items = ItemsOf[w]
  BY MappedIs DEF SameView, Exists
<1>4. EffectiveStatus' = EffectiveStatus
  BY <1>1, <1>2, MappedNext DEF EffectiveStatus
<1>5. ItemsOf' = [ItemsOf EXCEPT ![o] = i]
  BY <1>1, <1>3, MappedNext DEF ItemsOf
<1>6. Atomic!EditOrder(o, i)
  BY <1>4, <1>5, MappedIs DEF Atomic!EditOrder, Exists
<1> QED  BY <1>6 DEF Atomic!AtomicNext

LEMMA MapsToMove ==
  ASSUME NEW o \in Orders, NEW t \in Status, Exists(o),
         \A w : w # o => SameView(w),
         CanTransitionTo(Effective(o), t),
         Exists(o)', Effective(o)' = t, orders'[o].items = orders[o].items,
         stock' = [stock EXCEPT ![o] = Atomic!HeldAt(t, orders[o].items)]
  PROVE  Atomic!AtomicNext
<1>1. DOMAIN orders' = DOMAIN orders
  BY DEF SameView, Exists
<1>2. \A w \in DOMAIN orders : w # o => Effective(w)' = EffectiveStatus[w]
  BY MappedIs DEF SameView, Exists
<1>3. \A w \in DOMAIN orders : orders'[w].items = ItemsOf[w]
  BY MappedIs DEF SameView, Exists
<1>4. EffectiveStatus' = [EffectiveStatus EXCEPT ![o] = t]
  BY <1>1, <1>2, MappedNext DEF EffectiveStatus
<1>5. ItemsOf' = ItemsOf
  BY <1>1, <1>3, MappedNext DEF ItemsOf
<1>6. Atomic!MoveOrder(o, t)
  BY <1>4, <1>5, MappedIs, SameMachine DEF Atomic!MoveOrder, Exists
<1> QED  BY <1>6, SameMachine DEF Atomic!AtomicNext

\* The stock follows the view of each order.
LEMMA StockStaysRight ==
  ASSUME FullInv, NEW o \in Orders, \A w : w # o => SameView(w),
         \A w \in Orders \ {o} : stock'[w] = stock[w],
         Exists(o)', stock'[o] = Atomic!HeldAt(Effective(o)', orders'[o].items)
  PROVE  StockFollows'
<1>1. \A w \in Orders \ {o} : Held(w)' = Held(w)
  BY DEF Held, SameView
<1> QED  BY <1>1 DEF FullInv, AInv, StockFollows, Held

LEMMA StockStays ==
  ASSUME FullInv, \A w : SameView(w), UNCHANGED stock
  PROVE  StockFollows'
<1>1. \A w \in Orders : Held(w)' = Held(w)
  BY DEF Held, SameView
<1> QED  BY <1>1 DEF FullInv, AInv, StockFollows

Refines == AInv' /\ (Atomic!AtomicNext \/ UNCHANGED Mapped)

-----------------------------------------------------------------------------
(* Rows *)

LEMMA EffectiveOfFree ==
  ASSUME NEW o, o \notin Awaiting
  PROVE  Effective(o) = orders[o].status
BY DEF Effective, SettledOk

LEMMA StockIsFunction == FullInv => stock \in [Orders -> Holding]
BY DEF FullInv, IInv, TypeOK

LEMMA WrittenRow ==
  ASSUME NEW o \in Orders, NEW x, GoodRow(x), x.sagaId = NoId, Writes(o, x)
  PROVE  /\ \A w : w # o => /\ SameView(w)
                            /\ w \in Awaiting' <=> w \in Awaiting
                            /\ w \in Awaiting => orders'[w].sagaId = orders[w].sagaId
         /\ Exists(o)' /\ o \notin Awaiting'
         /\ Effective(o)' = x.status /\ orders'[o].items = x.items
<1>1. DOMAIN orders' = DOMAIN orders \cup {o} /\ orders'[o] = x
  BY DEF Writes, Save
<1>2. \A w \in DOMAIN orders : w # o => orders'[w] = orders[w]
  BY DEF Writes, Save
<1>3. settled' = settled
  BY DEF Writes
<1>4. ~AwaitingInventory(x)
  BY DEF GoodRow, Columns
<1>5. Exists(o)' /\ o \notin Awaiting'
  BY <1>1, <1>4 DEF Exists, Awaiting
<1>6. Effective(o)' = x.status
  BY <1>1, <1>5 DEF Effective, SettledOk
<1>7. ASSUME NEW w, w # o
      PROVE  /\ SameView(w)
             /\ w \in Awaiting' <=> w \in Awaiting
             /\ w \in Awaiting => orders'[w].sagaId = orders[w].sagaId
  <2>1. Exists(w)' <=> Exists(w)
    BY <1>1, <1>7 DEF Exists
  <2>2. Exists(w) => orders'[w] = orders[w]
    BY <1>2, <1>7 DEF Exists
  <2>3. w \in Awaiting' <=> w \in Awaiting
    BY <2>1, <2>2 DEF Awaiting, Exists
  <2>4. Exists(w) => Effective(w)' = Effective(w)
    BY <1>3, <2>2, <2>3 DEF Effective, SettledOk
  <2> QED  BY <2>1, <2>2, <2>3, <2>4 DEF SameView, Awaiting, Exists
<1> QED  BY <1>1, <1>5, <1>6, <1>7

\* The sagas stay decided or in flight when the row written was waiting for
\* none, or for one that is decided.
LEMMA WriteKeepsSagas ==
  ASSUME FullInv, NEW o \in Orders, NEW x, GoodRow(x), x.sagaId = NoId, Writes(o, x),
         o \in Awaiting => Decided(orders[o].sagaId)
  PROVE  OneVerdict' /\ NoneLost' /\ replies' \subseteq settled'
<1>1. UNCHANGED <<sagas, settled>> /\ replies' \subseteq replies
  BY DEF Writes
<1>2. OneVerdict' /\ replies' \subseteq settled'
  BY <1>1 DEF FullInv, AInv, OneVerdict
<1>3. ASSUME NEW id \in SagaIds' PROVE Decided(id)' \/ InFlight(id)'
  <2>1. id \in SagaIds /\ (Decided(id) => Decided(id)')
    BY <1>1, <1>3 DEF SagaIds, Decided
  <2>2. ASSUME NEW w \in Awaiting, orders[w].sagaId = id, w # o PROVE InFlight(id)'
    BY <2>2, WrittenRow DEF InFlight
  <2> QED  BY <2>1, <2>2 DEF FullInv, AInv, NoneLost, InFlight
<1> QED  BY <1>2, <1>3 DEF NoneLost

-----------------------------------------------------------------------------
(* Each kind of step *)

LEMMA QuietRefines ==
  ASSUME FullInv, Quiet
  PROVE  Refines
<1>1. \A w : SameView(w)
  BY DEF Quiet, SameView, Exists, Effective, SettledOk, Awaiting
<1>2. OneVerdict' /\ NoneLost' /\ replies' \subseteq settled'
  BY DEF Quiet, FullInv, AInv, OneVerdict, NoneLost, Decided, InFlight, SagaIds, Awaiting
<1>3. UNCHANGED stock
  BY DEF Quiet
<1> QED  BY <1>1, <1>2, <1>3, StockStays, Stutters DEF Refines, AInv

LEMMA OpensRefines ==
  ASSUME FullInv, NEW o \in Orders, Opens(o)
  PROVE  Refines
<1>1. PICK i \in SUBSET Products : \E x : FreeRow(x, "RECEIVED", i) /\ Writes(o, x)
  BY DEF Opens
<1>2. PICK x : FreeRow(x, "RECEIVED", i) /\ Writes(o, x)
  BY <1>1
<1>3. /\ \A w : w # o => SameView(w)
      /\ Exists(o)' /\ Effective(o)' = "RECEIVED" /\ orders'[o].items = i
  BY <1>2, WrittenRow DEF FreeRow
<1>4. ~Exists(o) /\ o \notin Awaiting /\ UNCHANGED stock
  BY <1>2 DEF Opens, Exists, Awaiting, Writes
<1>5. stock'[o] = Atomic!HeldAt("RECEIVED", i)
  BY <1>4 DEF FullInv, AInv, StockFollows, Held, NothingHeld, Atomic!HeldAt
<1>6. AInv'
  BY <1>2, <1>3, <1>4, <1>5, WriteKeepsSagas, StockStaysRight DEF AInv, FreeRow
<1> QED  BY <1>3, <1>4, <1>6, MapsToOpen DEF Refines

LEMMA EditsRefines ==
  ASSUME FullInv, NEW o \in Orders, Edits(o)
  PROVE  Refines
<1>1. PICK i \in SUBSET Products :
        \E x : FreeRow(x, orders[o].status, i) /\ Writes(o, x)
  BY DEF Edits
<1>2. PICK x : FreeRow(x, orders[o].status, i) /\ Writes(o, x)
  BY <1>1
<1>3. /\ Exists(o) /\ o \notin Awaiting /\ UNCHANGED stock
      /\ Effective(o) = orders[o].status
      /\ orders[o].status \in {"RECEIVED", "DIAGNOSING"}
  BY <1>2, EffectiveOfFree DEF Edits, CanModifyItems, Writes
<1>4. /\ \A w : w # o => SameView(w)
      /\ Exists(o)' /\ Effective(o)' = orders[o].status /\ orders'[o].items = i
  BY <1>2, WrittenRow DEF FreeRow
<1>5. stock'[o] = Atomic!HeldAt(orders[o].status, i)
  BY <1>3 DEF FullInv, AInv, StockFollows, Held, Atomic!HeldAt
<1>6. AInv'
  BY <1>2, <1>3, <1>4, <1>5, WriteKeepsSagas, StockStaysRight DEF AInv, FreeRow
<1> QED  BY <1>3, <1>4, <1>6, MapsToEdit DEF Refines

LEMMA MovesRefines ==
  ASSUME FullInv, NEW o \in Orders, Moves(o)
  PROVE  Refines
<1>1. PICK t, x : /\ CanTransitionTo(orders[o].status, t) /\ HoldsSame(o, t)
                  /\ FreeRow(x, t, orders[o].items) /\ Writes(o, x)
  BY DEF Moves
<1>2. /\ Exists(o) /\ o \notin Awaiting /\ UNCHANGED stock
      /\ Effective(o) = orders[o].status
  BY <1>1, EffectiveOfFree DEF Moves, Writes
<1>3. /\ \A w : w # o => SameView(w)
      /\ Exists(o)' /\ Effective(o)' = t /\ orders'[o].items = orders[o].items
  BY <1>1, WrittenRow DEF FreeRow
<1>4. stock[o] = Atomic!HeldAt(t, orders[o].items)
  BY <1>1, <1>2 DEF FullInv, AInv, StockFollows, Held, HoldsSame
<1>5. AInv'
  BY <1>1, <1>2, <1>3, <1>4, WriteKeepsSagas, StockStaysRight DEF AInv, FreeRow
<1>6. stock' = [stock EXCEPT ![o] = Atomic!HeldAt(t, orders[o].items)]
  BY <1>2, <1>4, StockIsFunction
<1>7. t \in Status
  BY <1>1 DEF CanTransitionTo, NormalFlow, Status
<1> QED  BY <1>1, <1>2, <1>3, <1>5, <1>6, <1>7, MapsToMove DEF Refines

\* A saga just launched is not decided: MS3 has never seen its id.
LEMMA LaunchesRefines ==
  ASSUME FullInv, NEW o \in Orders, Launches(o)
  PROVE  Refines
<1>0. PICK id : id = Len(sagas) + 1
  OBVIOUS
<1>1. PICK t \in InferableTarget : LaunchSaga(o, InferOperation(orders[o].status, t), t)
  BY DEF Launches
<1> DEFINE x == MarkSagaStarted(orders[o], id, t)
<1>2. /\ Save(o, x) /\ UNCHANGED <<replies, settled, stock>>
      /\ \E m : sagas' = Append(sagas, m)
  BY <1>0, <1>1 DEF LaunchSaga, NewSagaId
<1>3. Exists(o) /\ o \in DOMAIN orders /\ o \notin Awaiting
  BY DEF Launches, Exists
<1>4. sagas \in Seq(Request) /\ orders[o] \in ServiceOrder
  BY <1>3 DEF FullInv, IInv, TypeOK
<1>5. /\ x.status = orders[o].status /\ x.sagaId = id /\ x.items = orders[o].items
      /\ AwaitingInventory(x)
  BY <1>4 DEF MarkSagaStarted, ServiceOrder, AwaitingInventory
<1>6. \A r \in settled : r.saga # id
  BY <1>0, <1>4 DEF FullInv, SagasCorrelated, SagaIds
<1>7. DOMAIN orders' = DOMAIN orders /\ orders'[o] = x
  BY <1>2, <1>3 DEF Save
<1>8. \A w \in DOMAIN orders : w # o => orders'[w] = orders[w]
  BY <1>2 DEF Save
<1>9. SagaIds' = SagaIds \cup {id}
  BY <1>0, <1>2, <1>4 DEF SagaIds
<1> HIDE DEF x
<1>10. \A w : w # o => /\ w \in Awaiting' <=> w \in Awaiting
                       /\ w \in Awaiting => orders'[w].sagaId = orders[w].sagaId
  BY <1>7, <1>8 DEF Awaiting
<1>11. ASSUME NEW w, w # o PROVE SameView(w)
  BY <1>2, <1>7, <1>8, <1>10, <1>11 DEF SameView, Exists, Effective, SettledOk
<1>12. SameView(o)
  <2>1. Effective(o)' = orders[o].status
    BY <1>2, <1>5, <1>6, <1>7 DEF Effective, SettledOk
  <2> QED  BY <1>3, <1>5, <1>7, <2>1, EffectiveOfFree DEF SameView, Exists
<1>13. NoneLost'
  <2>1. o \in Awaiting'
    BY <1>3, <1>5, <1>7 DEF Awaiting
  <2>2. InFlight(id)'
    BY <1>5, <1>7, <2>1 DEF InFlight
  <2>3. ASSUME NEW s \in SagaIds PROVE Decided(s)' \/ InFlight(s)'
    <3>1. CASE Decided(s)
      BY <1>2, <3>1 DEF Decided
    <3>2. CASE InFlight(s)
      BY <1>3, <1>10, <3>2 DEF InFlight
    <3> QED  BY <3>1, <3>2 DEF FullInv, AInv, NoneLost
  <2> QED  BY <1>9, <2>2, <2>3 DEF NoneLost
<1>14. OneVerdict' /\ replies' \subseteq settled'
  BY <1>2 DEF FullInv, AInv, OneVerdict
<1>15. \A w : SameView(w)
  BY <1>11, <1>12
<1> QED  BY <1>2, <1>13, <1>14, <1>15, StockStays, Stutters DEF Refines, AInv

\* The reply that ends a saga is the one verdict on it, so the row comes to
\* show the status the order had in effect already.
LEMMA EndsRefines ==
  ASSUME FullInv, NEW o \in Orders, NEW r \in replies, Ends(o, r)
  PROVE  Refines
<1> DEFINE t == IF r.ok THEN orders[o].target ELSE orders[o].status
<1>1. PICK x : FreeRow(x, t, orders[o].items) /\ Writes(o, x)
  BY DEF Ends
<1>2. /\ Exists(o) /\ o \in Awaiting /\ orders[o].sagaId = r.saga
      /\ r \in settled /\ Decided(orders[o].sagaId)
  BY DEF Ends, CanProcessSaga, Exists, Awaiting, FullInv, AInv, Decided
<1>3. SettledOk(o) <=> r.ok
  <2>1. \A q \in settled : q.saga = r.saga => q = r
    BY <1>2 DEF FullInv, AInv, OneVerdict
  <2>2. r \in Reply
    BY <1>2 DEF FullInv, IInv, TypeOK
  <2>3. r.ok \in BOOLEAN
    BY <2>2 DEF Reply
  <2>4. CASE r.ok
    BY <1>2, <2>4 DEF SettledOk
  <2>5. CASE ~r.ok
    BY <1>2, <2>1, <2>5 DEF SettledOk
  <2> QED  BY <2>4, <2>5
<1>4. Effective(o) = t
  BY <1>3 DEF Effective
<1> HIDE DEF t
<1>5. \A w : SameView(w)
  BY <1>1, <1>2, <1>4, WrittenRow DEF FreeRow, SameView
<1>6. UNCHANGED stock
  BY <1>1 DEF Writes
<1>7. AInv'
  BY <1>1, <1>2, <1>5, <1>6, WriteKeepsSagas, StockStays DEF AInv, FreeRow
<1> QED  BY <1>5, <1>6, <1>7, Stutters DEF Refines

-----------------------------------------------------------------------------
(* The step of MS3 *)

\* An operation performed on what a status holds leaves what the next holds.
LEMMA OperationFits ==
  ASSUME NEW s, NEW t, <<s, t>> \in SagaMoves, NEW i \in SUBSET Products
  PROVE  Applied(Atomic!HeldAt(s, i), InferOperation(s, t), i) = Atomic!HeldAt(t, i)
<1>1. /\ i \ i = {} /\ {} \cup i = i /\ i \subseteq i
  OBVIOUS
<1>2. CASE <<s, t>> = <<"DIAGNOSING", "PENDING_AUTHORIZATION">>
  BY <1>1, <1>2 DEF Applied, InferOperation, Atomic!HeldAt
<1>3. CASE <<s, t>> = <<"IN_PROGRESS", "COMPLETED">>
  BY <1>1, <1>3 DEF Applied, InferOperation, Atomic!HeldAt
<1>4. CASE <<s, t>> = <<"PENDING_AUTHORIZATION", "AUTHORIZATION_DENIED">>
  BY <1>1, <1>4 DEF Applied, InferOperation, Atomic!HeldAt
<1>5. CASE s \in {"PENDING_AUTHORIZATION", "AUTHORIZED", "IN_PROGRESS"} /\ t = "CANCELED"
  BY <1>1, <1>5 DEF Applied, InferOperation, Atomic!HeldAt
<1>6. CASE s \in {"COMPLETED", "PAID"} /\ t = "CANCELED"
  BY <1>1, <1>6 DEF Applied, InferOperation, Atomic!HeldAt
<1> QED  BY <1>2, <1>3, <1>4, <1>5, <1>6 DEF SagaMoves

\* A request MS3 decides is the one its order waits for, and nothing has been
\* decided for that order since it started to wait.
LEMMA DecidedRow ==
  ASSUME FullInv, NEW m \in requests, Decides(m)
  PROVE  LET o == m.order
         IN /\ o \in Orders /\ o \in Awaiting /\ Exists(o)
            /\ orders[o].sagaId = m.saga
            /\ m.op = InferOperation(orders[o].status, orders[o].target)
            /\ m.items = orders[o].items /\ m.items \in SUBSET Products
            /\ <<orders[o].status, orders[o].target>> \in SagaMoves
            /\ Effective(o) = orders[o].status
<1> DEFINE o == m.order
<1>1. m.saga \in SagaIds /\ m = sagas[m.saga] /\ ~Decided(m.saga)
  BY DEF FullInv, DInv, Faithful, Decides, Decided
<1>2. PICK w \in Awaiting : orders[w].sagaId = m.saga
  BY <1>1 DEF FullInv, AInv, NoneLost, InFlight
<1>3. w = o
  BY <1>1, <1>2 DEF FullInv, SagasCorrelated
<1>4. WaitsWell(w)
  BY <1>2 DEF FullInv, DInv
<1>5. Republished(w) = m
  BY <1>1, <1>2, <1>4 DEF WaitsWell, Faithful, Republished
<1>6. /\ m.op = InferOperation(orders[w].status, orders[w].target)
      /\ m.items = orders[w].items
  BY <1>5 DEF Republished
<1>7. ~SettledOk(w)
  BY <1>1, <1>2 DEF SettledOk, Decided
<1>8. m \in Request
  BY DEF FullInv, IInv, TypeOK
<1>9. o \in Orders /\ m.items \in SUBSET Products
  BY <1>8 DEF Request
<1>10. Effective(w) = orders[w].status /\ Exists(w)
  BY <1>2, <1>7 DEF Effective, Exists, Awaiting
<1> QED  BY <1>2, <1>3, <1>4, <1>6, <1>9, <1>10 DEF WaitsWell

\* The verdict is the only change of the outcomes recorded.
LEMMA VerdictRecorded ==
  ASSUME FullInv, NEW m \in requests, Decides(m), NEW ok \in BOOLEAN,
         settled' = settled \cup {ReplyTo(m, ok)}, replies' = replies \cup {ReplyTo(m, ok)}
  PROVE  /\ OneVerdict' /\ NoneLost' /\ replies' \subseteq settled'
         /\ \A w : w # m.order => SameView(w)
         /\ Exists(m.order)' /\ orders' = orders
         /\ SettledOk(m.order)' <=> ok
<1> DEFINE v == ReplyTo(m, ok)
           o == m.order
<1>1. v.saga = m.saga /\ v.ok = ok
  BY DEF ReplyTo
<1>2. \A r \in settled : r.saga # m.saga
  BY DEF Decides
<1>3. orders' = orders /\ sagas' = sagas /\ settled' = settled \cup {v}
  BY DEF Decides
<1>4. o \in Awaiting /\ Exists(o) /\ orders[o].sagaId = m.saga
  BY DecidedRow
<1> HIDE DEF v
<1>5. OneVerdict' /\ replies' \subseteq settled'
  BY <1>1, <1>2, <1>3 DEF FullInv, AInv, OneVerdict, v
<1>6. NoneLost'
  BY <1>3 DEF FullInv, AInv, NoneLost, Decided, InFlight, SagaIds, Awaiting
<1>7. Awaiting' = Awaiting
  BY <1>3 DEF Awaiting
<1>8. ASSUME NEW w, w # o PROVE SameView(w)
  <2>1. w \in Awaiting => orders[w].sagaId # m.saga
    BY <1>4, <1>8 DEF FullInv, SagasCorrelated
  <2>2. SettledOk(w)' <=> SettledOk(w)
    BY <1>1, <1>3, <1>7, <2>1 DEF SettledOk
  <2> QED  BY <1>3, <2>2 DEF SameView, Exists, Effective
<1>9. SettledOk(o)' <=> ok
  BY <1>1, <1>2, <1>3, <1>4, <1>7 DEF SettledOk
<1> QED  BY <1>3, <1>4, <1>5, <1>6, <1>8, <1>9 DEF Exists

LEMMA DecidesRefines ==
  ASSUME FullInv, NEW m \in requests, Decides(m)
  PROVE  Refines
<1> DEFINE o == m.order
           s == orders[o].status
           t == orders[o].target
<1>1. /\ o \in Orders /\ Exists(o) /\ Effective(o) = s
      /\ m.op = InferOperation(s, t) /\ <<s, t>> \in SagaMoves
      /\ m.items = orders[o].items /\ m.items \in SUBSET Products
  BY DecidedRow
<1>2. CASE Perform(m)
  <2>1. /\ settled' = settled \cup {ReplyTo(m, TRUE)}
        /\ replies' = replies \cup {ReplyTo(m, TRUE)}
        /\ stock' = [stock EXCEPT ![o] = Applied(@, m.op, m.items)]
    BY <1>2 DEF Perform
  <2>2. /\ OneVerdict' /\ NoneLost' /\ replies' \subseteq settled'
        /\ \A w : w # o => SameView(w)
        /\ Exists(o)' /\ orders' = orders /\ SettledOk(o)'
    BY <2>1, VerdictRecorded
  <2>3. stock[o] = Atomic!HeldAt(s, m.items)
    BY <1>1 DEF FullInv, AInv, StockFollows, Held
  <2>4. Applied(stock[o], m.op, m.items) = Atomic!HeldAt(t, m.items)
    BY <1>1, <2>3, OperationFits
  <2>5. stock' = [stock EXCEPT ![o] = Atomic!HeldAt(t, m.items)]
    BY <2>1, <2>4
  <2>6. Effective(o)' = t
    BY <2>2 DEF Effective
  <2>7. stock'[o] = Atomic!HeldAt(t, m.items) /\ \A w \in Orders \ {o} : stock'[w] = stock[w]
    BY <1>1, <2>5, StockIsFunction
  <2>8. AInv'
    BY <1>1, <2>2, <2>6, <2>7, StockStaysRight DEF AInv
  <2>9. t \in Status /\ CanTransitionTo(s, t)
    BY <1>1, SagaMovesAllowed DEF SagaMoves, Status
  <2> QED  BY <1>1, <2>2, <2>5, <2>6, <2>8, <2>9, MapsToMove DEF Refines
<1>3. CASE Refuse(m)
  <2>1. /\ settled' = settled \cup {ReplyTo(m, FALSE)}
        /\ replies' = replies \cup {ReplyTo(m, FALSE)}
        /\ UNCHANGED stock
    BY <1>3 DEF Refuse
  <2>2. /\ OneVerdict' /\ NoneLost' /\ replies' \subseteq settled'
        /\ \A w : w # o => SameView(w)
        /\ Exists(o)' /\ orders' = orders /\ ~SettledOk(o)'
    BY <2>1, VerdictRecorded
  <2>3. SameView(o)
    BY <1>1, <2>2 DEF SameView, Effective
  <2>4. \A w : SameView(w)
    BY <2>2, <2>3
  <2> QED  BY <2>1, <2>2, <2>4, StockStays, Stutters DEF Refines, AInv
<1> QED  BY <1>2, <1>3 DEF Decides

-----------------------------------------------------------------------------
(* The refinement *)

LEMMA StepRefines ==
  ASSUME FullInv, [DisciplinedNext]_vars
  PROVE  Refines
<1>1. StepKind
  BY StepKinds DEF FullInv
<1>2. ASSUME NEW o \in Orders, WritesTable(o) PROVE Refines
  BY <1>2, OpensRefines, EditsRefines, MovesRefines, LaunchesRefines, EndsRefines
     DEF WritesTable
<1> QED  BY <1>1, <1>2, QuietRefines, DecidesRefines DEF StepKind

LEMMA FullInvariant == DisciplinedSpec => []FullInv
<1>1. Init => FullInv
  <2>1. Init => IInv
    BY InitIInv
  <2>2. Init => DInv /\ SagasCorrelated
    BY DEF Init, InventoryInit, DInv, SagasCorrelated, Awaiting, Recovering
  <2>3. Init => AInv
    BY DEF Init, InventoryInit, AInv, StockFollows, Held, Exists, OneVerdict, NoneLost, SagaIds
  <2> QED  BY <2>1, <2>2, <2>3 DEF FullInv
<1>2. FullInv /\ [DisciplinedNext]_vars => FullInv'
  <2> SUFFICES ASSUME FullInv, [DisciplinedNext]_vars PROVE FullInv'
    OBVIOUS
  <2>1. [Next]_vars
    BY DisciplinedIsNext
  <2>2. IInv' /\ SagasCorrelated' /\ DInv'
    BY <2>1, NextIInv, NextCorrelated, NextDInv DEF FullInv
  <2>3. AInv'
    BY StepRefines DEF Refines
  <2> QED  BY <2>2, <2>3 DEF FullInv
<1> QED  BY <1>1, <1>2, PTL DEF DisciplinedSpec

\* The saga is an atomic change of the order and its stock, for any number of
\* orders, sagas and replicas, whatever crashes, is refused or comes twice.
THEOREM SagasAreAtomic == DisciplinedSpec => SagaIsAtomic
<1>1. Init => Atomic!AtomicInit
  <2> SUFFICES ASSUME Init PROVE Atomic!AtomicInit
    OBVIOUS
  <2>1. DOMAIN EffectiveStatus = {} /\ DOMAIN ItemsOf = {}
    BY DEF Init, EffectiveStatus, ItemsOf
  <2>2. stock = [o \in Orders |-> Atomic!HeldAt("RECEIVED", {})]
    BY DEF Init, InventoryInit, NothingHeld, Atomic!HeldAt
  <2> QED  BY <2>1, <2>2 DEF Atomic!AtomicInit
<1>2. FullInv /\ [DisciplinedNext]_vars => [Atomic!AtomicNext]_Mapped
  BY StepRefines DEF Refines
<1> QED  BY <1>1, <1>2, FullInvariant, PTL
         DEF DisciplinedSpec, SagaIsAtomic, Atomic!AtomicSpec, Atomic!atomicVars, Mapped

-----------------------------------------------------------------------------
(* The deletion of a customer *)

Handled(o) == ~OpenOrder(o) \/ BeingCanceled(o) \/ CancelRefused(o) \/ o \in skipped

BatchStillGood ==
  \A o \in DOMAIN batch :
    /\ o \in DOMAIN orders
    /\ batch[o].status \notin OpenForDeletion => ~OpenOrder(o)

PassInv ==
  message = "received" =>
    /\ BatchStillGood
    /\ \A o \in DOMAIN orders \ DOMAIN batch : Handled(o)

DeletedInv == message = "deleted" => \A o \in DOMAIN orders : Handled(o)

DelInv == replies \subseteq settled /\ PassInv /\ DeletedInv

-----------------------------------------------------------------------------
(* The composed system is an OrderSaga *)

LEMMA DeletionSteps ==
  ASSUME IInv, [DeletionNext]_cdVars
  PROVE  [Next]_vars
<1>1. CASE Others
  BY <1>1 DEF Others
<1>2. CASE CustomerDeleted \/ Receive \/ DeleteMessage
  BY <1>2 DEF CustomerDeleted, Receive, DeleteMessage
<1>3. ASSUME NEW o \in DOMAIN batch, PassOver(o) \/ DeleteOne(o) \/ DeleteRefused(o)
      PROVE  [Next]_vars
  <2>1. CASE PassOver(o) \/ DeleteRefused(o)
    BY <2>1 DEF PassOver, DeleteRefused
  <2>2. CASE DeleteOne(o)
    <3>1. Delete(o) /\ Exists(o)
      BY <2>2 DEF DeleteOne, Delete, DeleteUnpaid, DeletePaid
    <3>2. o \in Orders
      BY <3>1 DEF IInv, TypeOK, Exists
    <3> QED  BY <3>1, <3>2 DEF HttpCall, Next
  <2> QED  BY <1>3, <2>1, <2>2
<1>4. CASE UNCHANGED cdVars
  BY <1>4 DEF cdVars
<1> QED  BY <1>1, <1>2, <1>3, <1>4 DEF DeletionNext, Consumer

LEMMA DeletionInvariant == DeletionSpec => []IInv
<1>1. DeletionInit => IInv
  BY InitIInv DEF DeletionInit
<1>2. IInv /\ [DeletionNext]_cdVars => IInv'
  BY DeletionSteps, NextIInv
<1> QED  BY <1>1, <1>2, PTL DEF DeletionSpec

\* The consumer of customer-deleted does nothing to the orders that a caller
\* of the service could not do: composed with it, the service still is an
\* OrderSaga, and every theorem about OrderSaga holds of the composition.
THEOREM DeletionIsASaga == DeletionSpec => Spec
<1>1. DeletionInit => Init
  BY DEF DeletionInit
<1>2. IInv /\ [DeletionNext]_cdVars => [Next]_vars
  BY DeletionSteps
<1> QED  BY <1>1, <1>2, DeletionInvariant, PTL DEF DeletionSpec, Spec

\* Going over the orders again, after a failure or beside any other handler,
\* never puts a new saga on a row that waits for one.
THEOREM StartedOnce == DeletionSpec => CancellationStartedOnce
<1>1. ASSUME IInv, [Next]_vars, NEW o \in Awaiting
      PROVE  orders'[o].sagaId \in {orders[o].sagaId, NoId}
  <2>1. TableStep /\ o \in DOMAIN orders
    BY <1>1, StepWrites DEF Awaiting
  <2>2. ASSUME NEW w \in Orders, NEW x \in ServiceOrder, NextRow(w, x), Save(w, x)
        PROVE  orders'[o].sagaId \in {orders[o].sagaId, NoId}
    <3>1. CASE o # w
      BY <2>1, <2>2, <3>1 DEF Save
    <3>2. CASE o = w
      BY <1>1, <2>1, <2>2, <3>2 DEF Save, NextRow, WaitEnds
    <3> QED  BY <3>1, <3>2
  <2> QED  BY <2>1, <2>2 DEF TableStep, WritesRow
<1>2. IInv /\ [DeletionNext]_cdVars
        => [\A o \in Awaiting : orders'[o].sagaId \in {orders[o].sagaId, NoId}]_cdVars
  BY <1>1, DeletionSteps
<1> QED  BY <1>2, DeletionInvariant, PTL DEF DeletionSpec, CancellationStartedOnce

-----------------------------------------------------------------------------
(* What is dealt with stays so *)

LEMMA AnswersRecorded ==
  ASSUME replies \subseteq settled, [Next]_vars
  PROVE  settled \subseteq settled' /\ replies' \subseteq settled'
<1> USE DEF inventoryVars
<1>0. UNCHANGED settled /\ replies' \subseteq replies
        => settled \subseteq settled' /\ replies' \subseteq settled'
  OBVIOUS
<1>1. ASSUME NEW o \in Orders, HttpCall(o)
      PROVE  UNCHANGED settled /\ UNCHANGED replies
  <2>1. ASSUME NEW op, NEW t, StartSaga(o, op, t) \/ TransitionLocal(o, t)
        PROVE  UNCHANGED settled /\ UNCHANGED replies
    BY <2>1 DEF StartSaga, LaunchSaga, TransitionLocal
  <2>2. CASE \E items \in SUBSET Products : Create(o, items) \/ UpdateItems(o, items)
    BY <2>2 DEF Create, UpdateItems
  <2>3. CASE Advance(o)
    BY <2>1, <2>3 DEF Advance, AdvanceBySaga, AdvanceToPayment, AdvanceDirectly, StartPayment
  <2>4. CASE Approve(o) \/ Deny(o)
    BY <2>1, <2>4 DEF Approve, Deny, Respond
  <2>5. CASE Delete(o)
    BY <2>1, <2>5 DEF Delete, DeleteUnpaid, DeletePaid, CancelOrder
  <2>6. CASE RetryPayment(o)
    BY <2>6 DEF RetryPayment, StartPayment
  <2> QED  BY <1>1, <2>2, <2>3, <2>4, <2>5, <2>6 DEF HttpCall
<1>2. CASE \E p \in DOMAIN payments : Webhook(p)
  BY <1>0, <1>2 DEF Webhook, MarkApproved, MarkRejected, MarkRefunded
<1>3. CASE \E r \in replies : Consume(r) \/ DeadLetter(r)
  BY <1>0, <1>3 DEF Consume, HandleSucceeded, HandleFailed, DeadLetter, Acknowledge
<1>4. CASE \E m \in requests : Stock(m)
  BY <1>4 DEF Stock, HandleRequest, Perform, Refuse, AnswerAgain
<1>5. CASE Payer \/ Crash \/ UNCHANGED vars
  BY <1>0, <1>5 DEF Payer, Crash, vars
<1>6. CASE \E k \in Replicas : Recover(k)
  BY <1>0, <1>6 DEF Recover, Start, Ready, StartFails, Republish
<1> QED  BY <1>0, <1>1, <1>2, <1>3, <1>4, <1>5, <1>6 DEF Next

\* No transition of the status machine opens an order again.
LEMMA NeverReopens ==
  ASSUME NEW s, s \notin OpenForDeletion, NEW t, t = s \/ CanTransitionTo(s, t)
  PROVE  t \notin OpenForDeletion
BY DEF OpenForDeletion, CanTransitionTo, NormalFlow, Final

LEMMA ClosedStays ==
  ASSUME IInv, [Next]_vars, NEW o \in DOMAIN orders, ~OpenOrder(o)
  PROVE  o \in DOMAIN orders' /\ ~OpenOrder(o)'
<1>1. TableStep
  BY StepWrites
<1>2. ASSUME NEW w \in Orders, NEW x \in ServiceOrder, NextRow(w, x), Save(w, x)
      PROVE  o \in DOMAIN orders' /\ orders'[o].status \notin OpenForDeletion
  <2>1. CASE o # w
    BY <1>2, <2>1 DEF Save, OpenOrder
  <2>2. CASE o = w
    BY <1>2, <2>2, NeverReopens DEF Save, OpenOrder, NextRow, Exists
  <2> QED  BY <2>1, <2>2
<1> QED  BY <1>1, <1>2 DEF TableStep, WritesRow, OpenOrder

LEMMA CancelingStays ==
  ASSUME IInv, replies \subseteq settled, [Next]_vars,
         NEW o \in DOMAIN orders, BeingCanceled(o)
  PROVE  ~OpenOrder(o)' \/ BeingCanceled(o)' \/ CancelRefused(o)'
<1>1. TableStep /\ settled \subseteq settled'
  BY StepWrites, AnswersRecorded
<1>2. /\ o \in Awaiting /\ orders[o].target \in {"CANCELED", "AUTHORIZATION_DENIED"}
      /\ orders[o].sagaId # NoId
  BY DEF BeingCanceled, Awaiting, IInv, RowsGood, GoodRow, Columns
<1>3. ASSUME NEW w \in Orders, NEW x \in ServiceOrder, NextRow(w, x), Save(w, x)
      PROVE  ~OpenOrder(o)' \/ BeingCanceled(o)' \/ CancelRefused(o)'
  <2>1. o \in DOMAIN orders' /\ orders'[o] = IF o = w THEN x ELSE orders[o]
    BY <1>3 DEF Save
  <2>2. CASE o # w
    BY <1>2, <2>1, <2>2 DEF BeingCanceled, Awaiting
  <2>3. CASE o = w /\ x.sagaId = orders[o].sagaId /\ x.target = orders[o].target
    <3>1. AwaitingInventory(x)
      BY <1>2, <1>3, <2>3 DEF NextRow, GoodRow, Columns
    <3> QED  BY <1>2, <2>1, <2>3, <3>1 DEF BeingCanceled, Awaiting
  <2>4. CASE /\ o = w
             /\ x.status \in {orders[o].target, "AWAITING_PAYMENT", "PAID", "PAYMENT_REJECTED"}
    BY <1>2, <2>1, <2>4 DEF OpenOrder, OpenForDeletion
  <2>5. CASE o = w /\ \E r \in replies : r.order = o /\ ~r.ok
    BY <1>1, <2>5 DEF CancelRefused
  <2> QED  BY <1>2, <1>3, <2>2, <2>3, <2>4, <2>5 DEF NextRow, WaitEnds
<1>4. CASE UNCHANGED orders
  BY <1>2, <1>4 DEF BeingCanceled, Awaiting
<1> QED  BY <1>1, <1>3, <1>4 DEF TableStep, WritesRow

LEMMA HandledStays ==
  ASSUME IInv, replies \subseteq settled, [Next]_vars, UNCHANGED skipped,
         NEW o \in DOMAIN orders, Handled(o)
  PROVE  Handled(o)'
<1>1. settled \subseteq settled'
  BY AnswersRecorded
<1>2. CASE CancelRefused(o)
  BY <1>1, <1>2 DEF Handled, CancelRefused
<1> QED  BY <1>2, ClosedStays, CancelingStays DEF Handled

\* The delete use case, when it succeeds, leaves the order canceled or with
\* its cancellation under way.
LEMMA DeleteHandles ==
  ASSUME IInv, NEW o \in Orders, Delete(o), orders' # orders
  PROVE  o \in DOMAIN orders' /\ (~OpenOrder(o)' \/ BeingCanceled(o)')
<1>1. CancelOrder(o) /\ Exists(o) /\ GoodRow(orders[o])
  BY DEF Delete, DeleteUnpaid, DeletePaid, IInv, RowsGood, Exists
<1>2. CASE TransitionLocal(o, "CANCELED")
  <2>1. CanSettle(orders[o], "CANCELED") /\ Save(o, Settle(orders[o], "CANCELED"))
    BY <1>2 DEF TransitionLocal
  <2>2. Settle(orders[o], "CANCELED").status = "CANCELED"
    BY <1>1, <2>1, SettledRow
  <2>3. o \in DOMAIN orders' /\ orders'[o].status = "CANCELED"
    BY <2>1, <2>2 DEF Save
  <2> QED  BY <2>3 DEF OpenOrder, OpenForDeletion
<1>3. ASSUME NEW op, LaunchSaga(o, op, "CANCELED")
      PROVE  o \in DOMAIN orders' /\ BeingCanceled(o)'
  <2> DEFINE x == MarkSagaStarted(orders[o], Len(sagas) + 1, "CANCELED")
  <2>1. Save(o, x)
    BY <1>3 DEF LaunchSaga, NewSagaId
  <2>2. x.sagaStatus = "AWAITING_INVENTORY" /\ x.target = "CANCELED"
    BY <1>1 DEF MarkSagaStarted, GoodRow, ServiceOrder
  <2> HIDE DEF x
  <2>3. o \in DOMAIN orders' /\ orders'[o] = x
    BY <2>1 DEF Save
  <2> QED  BY <2>2, <2>3 DEF BeingCanceled, Awaiting, AwaitingInventory
<1> QED  BY <1>1, <1>2, <1>3 DEF CancelOrder, StartSaga

-----------------------------------------------------------------------------
(* No order is forgotten *)

\* The other handlers, while the deletion variables stay as they are.
LEMMA PassStays ==
  ASSUME IInv, DelInv, [Next]_vars, UNCHANGED deletionVars,
         message # "none" => DOMAIN orders' = DOMAIN orders
  PROVE  DelInv'
<1>1. replies' \subseteq settled' /\ replies \subseteq settled
  BY AnswersRecorded DEF DelInv
<1>2. UNCHANGED message /\ UNCHANGED batch /\ UNCHANGED skipped
  BY DEF deletionVars
<1>3. \A o \in DOMAIN orders : Handled(o) => Handled(o)'
  BY <1>1, <1>2, HandledStays
<1>4. ASSUME message = "received"
      PROVE  BatchStillGood' /\ \A o \in DOMAIN orders' \ DOMAIN batch' : Handled(o)'
  <2>1. /\ BatchStillGood
        /\ \A o \in DOMAIN orders \ DOMAIN batch : Handled(o)
        /\ DOMAIN orders' = DOMAIN orders
    BY <1>4 DEF DelInv, PassInv
  <2>2. BatchStillGood'
    BY <1>2, <2>1, ClosedStays DEF BatchStillGood
  <2> QED  BY <1>2, <1>3, <2>1, <2>2
<1>5. ASSUME message = "deleted" PROVE \A o \in DOMAIN orders' : Handled(o)'
  BY <1>3, <1>5 DEF DelInv, DeletedInv
<1> QED  BY <1>1, <1>2, <1>4, <1>5 DEF DelInv, PassInv, DeletedInv

LEMMA GiveBackDelInv ==
  ASSUME GiveBack, replies' \subseteq settled'
  PROVE  DelInv'
BY DEF GiveBack, DelInv, PassInv, DeletedInv

LEMMA DeleteOneDelInv ==
  ASSUME IInv, DelInv, NEW o \in DOMAIN batch, DeleteOne(o)
  PROVE  DelInv'
<1>1. message = "received" /\ Delete(o) /\ BatchStillGood
  BY DEF DeleteOne, Chosen, DelInv, PassInv
<1>2. o \in DOMAIN orders /\ o \in Orders
  BY <1>1 DEF BatchStillGood, IInv, TypeOK
<1>3. Next
  BY <1>1, <1>2 DEF HttpCall, Next
<1>4. replies' \subseteq settled' /\ replies \subseteq settled
  BY <1>3, AnswersRecorded DEF DelInv
<1>5. CASE Succeeds
  <2>1. Drop(o) /\ UNCHANGED <<message, receives, skipped>>
    BY <1>5 DEF DeleteOne
  <2>2. DOMAIN batch' = DOMAIN batch \ {o} /\ \A y \in DOMAIN batch' : batch'[y] = batch[y]
    BY <2>1 DEF Drop
  <2>3. o \in DOMAIN orders' /\ Handled(o)'
    BY <1>1, <1>2, <1>5, DeleteHandles DEF Succeeds, Handled
  <2>4. DOMAIN orders' = DOMAIN orders
    <3>1. CancelOrder(o)
      BY <1>1, <1>5 DEF Delete, DeleteUnpaid, DeletePaid, Succeeds
    <3>2. \E x : Save(o, x)
      BY <3>1 DEF CancelOrder, StartSaga, TransitionLocal, LaunchSaga
    <3> QED  BY <1>2, <3>2 DEF Save
  <2>5. BatchStillGood'
    <3>1. ASSUME NEW y \in DOMAIN batch'
          PROVE  y \in DOMAIN orders' /\ (batch'[y].status \notin OpenForDeletion => ~OpenOrder(y)')
      BY <1>1, <1>3, <2>2, <2>4, <3>1, ClosedStays DEF BatchStillGood
    <3> QED  BY <3>1 DEF BatchStillGood
  <2>6. \A y \in DOMAIN orders : Handled(y) => Handled(y)'
    BY <1>3, <1>4, <2>1, HandledStays
  <2>7. \A y \in DOMAIN orders' \ DOMAIN batch' : Handled(y)'
    BY <1>1, <2>2, <2>3, <2>4, <2>6 DEF DelInv, PassInv
  <2> QED  BY <1>1, <1>4, <2>1, <2>5, <2>7 DEF DelInv, PassInv, DeletedInv
<1>6. CASE ~Succeeds
  BY <1>4, <1>6, GiveBackDelInv DEF DeleteOne
<1> QED  BY <1>5, <1>6

LEMMA PassOverDelInv ==
  ASSUME DelInv, NEW o \in DOMAIN batch, PassOver(o)
  PROVE  DelInv'
<1>1. /\ message = "received" /\ message' = message /\ UNCHANGED vars
      /\ BatchStillGood /\ \A y \in DOMAIN orders \ DOMAIN batch : Handled(y)
  BY DEF PassOver, DelInv, PassInv
<1>2. /\ DOMAIN batch' = DOMAIN batch \ {o}
      /\ \A y \in DOMAIN batch' : batch'[y] = batch[y]
      /\ skipped \subseteq skipped'
  BY DEF PassOver, Drop
<1>3. UNCHANGED orders /\ UNCHANGED settled /\ UNCHANGED replies
  BY <1>1 DEF vars, inventoryVars
<1>4. \A y \in DOMAIN orders : Handled(y) => Handled(y)'
  BY <1>2, <1>3 DEF Handled, OpenOrder, BeingCanceled, Awaiting, CancelRefused
<1>5. Handled(o)'
  <2>1. CASE AwaitingInventory(batch[o])
    BY <2>1 DEF PassOver, Handled
  <2>2. CASE batch[o].status \notin OpenForDeletion
    BY <1>1, <1>3, <2>2 DEF BatchStillGood, Handled, OpenOrder
  <2> QED  BY <2>1, <2>2 DEF PassOver
<1>6. BatchStillGood'
  BY <1>1, <1>2, <1>3 DEF BatchStillGood, OpenOrder
<1> QED  BY <1>1, <1>2, <1>3, <1>4, <1>5, <1>6 DEF DelInv, PassInv, DeletedInv

LEMMA NextDelInv == IInv /\ DelInv /\ [DeletionNext]_cdVars => DelInv'
<1> SUFFICES ASSUME IInv, DelInv, [DeletionNext]_cdVars PROVE DelInv'
  OBVIOUS
<1>1. [Next]_vars
  BY DeletionSteps
<1>2. replies' \subseteq settled'
  BY <1>1, AnswersRecorded DEF DelInv
<1>3. CASE Others
  <2>1. CASE GiveBack
    BY <1>2, <2>1, GiveBackDelInv
  <2>2. CASE UNCHANGED deletionVars
    BY <1>1, <1>3, <2>2, PassStays DEF Others
  <2> QED  BY <1>3, <2>1, <2>2 DEF Others
<1>4. CASE CustomerDeleted
  BY <1>2, <1>4 DEF CustomerDeleted, DelInv, PassInv, DeletedInv
<1>5. CASE Receive
  <2>1. UNCHANGED orders /\ batch' = orders /\ message' = "received"
    BY <1>5 DEF Receive, vars
  <2>2. BatchStillGood'
    BY <2>1 DEF BatchStillGood, OpenOrder
  <2> QED  BY <1>2, <2>1, <2>2 DEF DelInv, PassInv, DeletedInv
<1>6. CASE DeleteMessage
  <2>1. CASE GiveBack
    BY <1>2, <2>1, GiveBackDelInv
  <2>2. CASE message' = "deleted" /\ UNCHANGED <<receives, batch, skipped>>
    <3>1. DOMAIN batch = {}
      BY <1>6 DEF DeleteMessage, Nothing
    <3>2. \A o \in DOMAIN orders : Handled(o)
      BY <1>6, <3>1 DEF DeleteMessage, DelInv, PassInv
    <3>3. UNCHANGED orders /\ UNCHANGED settled
      BY <1>6 DEF DeleteMessage, vars, inventoryVars
    <3>4. \A o \in DOMAIN orders' : Handled(o)'
      BY <2>2, <3>2, <3>3 DEF Handled, OpenOrder, BeingCanceled, Awaiting, CancelRefused
    <3> QED  BY <1>2, <2>2, <3>4 DEF DelInv, PassInv, DeletedInv
  <2> QED  BY <1>6, <2>1, <2>2 DEF DeleteMessage
<1>7. ASSUME NEW o \in DOMAIN batch, PassOver(o) \/ DeleteOne(o) \/ DeleteRefused(o)
      PROVE  DelInv'
  <2>1. CASE DeleteRefused(o)
    BY <1>2, <2>1, GiveBackDelInv DEF DeleteRefused
  <2> QED  BY <1>7, <2>1, PassOverDelInv, DeleteOneDelInv
<1>8. CASE UNCHANGED cdVars
  <2>1. UNCHANGED deletionVars /\ UNCHANGED orders
    BY <1>8 DEF cdVars, vars
  <2> QED  BY <1>1, <2>1, PassStays
<1> QED  BY <1>3, <1>4, <1>5, <1>6, <1>7, <1>8 DEF DeletionNext, Consumer

\* When the message is gone from the queue for good, no order of the customer
\* has been forgotten: not by a pass that failed half way, not by a process
\* that died in it, not by one that worked from rows others changed meanwhile.
THEOREM NoneForgotten == DeletionSpec => []NoOrderForgotten
<1>1. DeletionInit => DelInv
  BY DEF DeletionInit, Init, InventoryInit, DelInv, PassInv, DeletedInv
<1>2. DelInv => NoOrderForgotten
  BY DEF DelInv, DeletedInv, Handled, NoOrderForgotten
<1> QED  BY <1>1, <1>2, NextDelInv, DeletionInvariant, PTL DEF DeletionSpec
=============================================================================
