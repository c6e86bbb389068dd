---------------------------- MODULE ServiceOrder ----------------------------
(***************************************************************************)
(* The ServiceOrder aggregate: the row of an order and the methods that    *)
(* change it, each a function from a row to a row.  A method that can      *)
(* return an error is used under the guard that rules the error out.       *)
(*                                                                         *)
(* items is the set of products among the order's items that are not       *)
(* deleted (what GetProductItems returns); services, quantities and prices *)
(* never steer the saga.  closed stands for closedAt # nil.  sagaNotes,    *)
(* which is written and cleared with sagaId and only read for the history, *)
(* the customer, the vehicle, the description and the timestamps are left  *)
(* out.                                                                    *)
(***************************************************************************)
EXTENDS OrderStatus, Naturals

CONSTANT Products     \* the product ids an order's items may refer to

NoId     == 0         \* a nil id; ids count from 1
NoStatus == "NIL"     \* a nil sagaTargetStatus

SagaStatus == {"IDLE", "AWAITING_INVENTORY", "AWAITING_PAYMENT", "FAILED"}

ServiceOrder == [status     : Status,
                 sagaStatus : SagaStatus,
                 sagaId     : Nat,                  \* currentSagaID
                 target     : Status \cup {NoStatus},
                 items      : SUBSET Products,
                 mpOrder    : Nat,                  \* mpPreferenceID
                 mpPayment  : Nat,                  \* mpPaymentID
                 closed     : BOOLEAN]

NewServiceOrder(items) ==
  [status |-> "RECEIVED", sagaStatus |-> "IDLE", sagaId |-> NoId,
   target |-> NoStatus, items |-> items, mpOrder |-> NoId,
   mpPayment |-> NoId, closed |-> FALSE]

\* Under CanTransitionTo(x.status, s).
UpdateStatus(x, s) ==
  [x EXCEPT !.status = s, !.closed = @ \/ s \in Closing]

\* Mutant: the target status outlives the saga.
ClearSagaKeepTarget(x, sagaStatus) ==
  [x EXCEPT !.sagaStatus = sagaStatus, !.sagaId = NoId]

\* The assignments shared by every method that ends a saga.
ClearSaga(x, sagaStatus) ==
  [x EXCEPT !.sagaStatus = sagaStatus, !.sagaId = NoId, !.target = NoStatus]

MarkSagaStarted(x, id, target) ==
  [x EXCEPT !.sagaStatus = "AWAITING_INVENTORY", !.sagaId = id, !.target = target]

CompleteSaga(x) == ClearSaga(x, "IDLE")

FailSaga(x) == ClearSaga(x, "FAILED")

AwaitPayment(x, mpOrder) ==
  ClearSaga([UpdateStatus(x, "AWAITING_PAYMENT") EXCEPT !.mpOrder = mpOrder],
            "AWAITING_PAYMENT")

ConfirmPayment(x, payment) ==
  ClearSaga([UpdateStatus(x, "PAID") EXCEPT !.mpPayment = payment], "IDLE")

RejectPayment(x) == ClearSaga(UpdateStatus(x, "PAYMENT_REJECTED"), "IDLE")

\* The saga columns are left as they are.
CancelAfterRefund(x) == UpdateStatus(x, "CANCELED")

AwaitingInventory(x) == x.sagaStatus = "AWAITING_INVENTORY"

CanProcessSaga(x, id) ==
  /\ AwaitingInventory(x)
  /\ x.sagaId # NoId
  /\ x.sagaId = id

\* Mutant: until the repair begins.
CanModifyUntilStarted(x) ==
  x.status \in {"RECEIVED", "DIAGNOSING", "PENDING_AUTHORIZATION", "AUTHORIZED"}

CanModifyItems(x) == x.status \in {"RECEIVED", "DIAGNOSING"}

\* Mutant: a reply sets the status without asking CanTransitionTo.
CanSettleAlways(x, target) == TRUE

\* "if oldStatus != targetStatus { UpdateStatus }", then CompleteSaga.
CanSettle(x, target) == x.status = target \/ CanTransitionTo(x.status, target)

Settle(x, target) ==
  CompleteSaga(IF x.status = target THEN x ELSE UpdateStatus(x, target))
=============================================================================
