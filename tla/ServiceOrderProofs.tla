------------------------- MODULE ServiceOrderProofs -------------------------
(***************************************************************************)
(* Lemmas about one row, for every set of products.  A row is good when    *)
(* its saga columns agree and closedAt is stamped as its status asks;      *)
(* every method of the aggregate makes a good row of a good row.  The      *)
(* proofs about OrderSaga and about OrderSessions rest on them.            *)
(***************************************************************************)
EXTENDS ServiceOrder, TLAPS

Columns(x) ==
  IF AwaitingInventory(x)
    THEN x.sagaId # NoId /\ x.target \in InferableTarget
    ELSE x.sagaId = NoId /\ x.target = NoStatus

Stamped(x) == x.closed <=> x.status \notin BeforeCompletion

GoodRow(x) == x \in ServiceOrder /\ Columns(x) /\ Stamped(x)

-----------------------------------------------------------------------------
(* The methods of the aggregate *)

LEMMA NewRow ==
  ASSUME NEW i \in SUBSET Products
  PROVE  /\ GoodRow(NewServiceOrder(i))
         /\ NewServiceOrder(i).status = "RECEIVED"
         /\ NewServiceOrder(i).sagaId = NoId
         /\ NewServiceOrder(i).mpPayment = NoId
BY DEF GoodRow, ServiceOrder, NewServiceOrder, Columns, Stamped, AwaitingInventory,
       Status, SagaStatus, NoId, NoStatus, BeforeCompletion, InferableTarget

LEMMA UpdatedRow ==
  ASSUME NEW x, GoodRow(x), NEW t, CanTransitionTo(x.status, t)
  PROVE  /\ GoodRow(UpdateStatus(x, t))
         /\ UpdateStatus(x, t).status = t
         /\ UpdateStatus(x, t).sagaId = x.sagaId
         /\ UpdateStatus(x, t).target = x.target
         /\ UpdateStatus(x, t).mpPayment = x.mpPayment
<1> DEFINE y == UpdateStatus(x, t)
<1>1. x \in ServiceOrder
  BY DEF GoodRow
<1>2. t \in Status
  BY DEF CanTransitionTo, NormalFlow, Status
<1>3. /\ y.status = t
      /\ y.closed = (x.closed \/ t \in Closing)
      /\ y.sagaStatus = x.sagaStatus /\ y.sagaId = x.sagaId
      /\ y.target = x.target /\ y.mpPayment = x.mpPayment
  BY <1>1 DEF ServiceOrder, UpdateStatus
<1>4. y \in ServiceOrder
  BY <1>1, <1>2 DEF ServiceOrder, UpdateStatus
<1> HIDE DEF y
<1>5. Columns(y)
  BY <1>3 DEF GoodRow, Columns, AwaitingInventory
<1>6. Stamped(y)
  <2>1. (t \in Closing \/ x.status \notin BeforeCompletion) <=> t \notin BeforeCompletion
    BY DEF CanTransitionTo, NormalFlow, Final, Closing, BeforeCompletion
  <2> QED  BY <1>3, <2>1 DEF GoodRow, Stamped
<1> QED  BY <1>3, <1>4, <1>5, <1>6 DEF GoodRow, y

LEMMA ClearedRow ==
  ASSUME NEW x, GoodRow(x), NEW s \in SagaStatus \ {"AWAITING_INVENTORY"}
  PROVE  /\ GoodRow(ClearSaga(x, s))
         /\ ClearSaga(x, s).status = x.status
         /\ ClearSaga(x, s).sagaId = NoId
         /\ ClearSaga(x, s).mpPayment = x.mpPayment
<1> DEFINE y == ClearSaga(x, s)
<1>1. x \in ServiceOrder /\ NoId \in Nat
  BY DEF GoodRow, NoId
<1>2. /\ y.status = x.status /\ y.closed = x.closed /\ y.mpPayment = x.mpPayment
      /\ y.sagaStatus = s /\ y.sagaId = NoId /\ y.target = NoStatus
  BY <1>1 DEF ServiceOrder, ClearSaga
<1>3. y \in ServiceOrder
  BY <1>1 DEF ServiceOrder, ClearSaga
<1> HIDE DEF y
<1>4. Columns(y)
  BY <1>2 DEF Columns, AwaitingInventory
<1>5. Stamped(y)
  BY <1>2 DEF GoodRow, Stamped
<1> QED  BY <1>2, <1>3, <1>4, <1>5 DEF GoodRow, y

LEMMA StartedRow ==
  ASSUME NEW x, GoodRow(x), NEW id \in Nat, id # NoId, NEW t \in InferableTarget
  PROVE  /\ GoodRow(MarkSagaStarted(x, id, t))
         /\ MarkSagaStarted(x, id, t).status = x.status
         /\ MarkSagaStarted(x, id, t).sagaId = id
         /\ MarkSagaStarted(x, id, t).mpPayment = x.mpPayment
<1> DEFINE y == MarkSagaStarted(x, id, t)
<1>1. x \in ServiceOrder /\ t \in Status /\ "AWAITING_INVENTORY" \in SagaStatus
  BY DEF GoodRow, InferableTarget, Status, SagaStatus
<1>2. /\ y.status = x.status /\ y.closed = x.closed /\ y.mpPayment = x.mpPayment
      /\ y.sagaStatus = "AWAITING_INVENTORY" /\ y.sagaId = id /\ y.target = t
  BY <1>1 DEF ServiceOrder, MarkSagaStarted
<1>3. y \in ServiceOrder
  BY <1>1 DEF ServiceOrder, MarkSagaStarted
<1> HIDE DEF y
<1>4. Columns(y)
  BY <1>2 DEF Columns, AwaitingInventory
<1>5. Stamped(y)
  BY <1>2 DEF GoodRow, Stamped
<1> QED  BY <1>2, <1>3, <1>4, <1>5 DEF GoodRow, y

LEMMA EditedRow ==
  ASSUME NEW x, GoodRow(x), NEW i \in SUBSET Products
  PROVE  /\ GoodRow([x EXCEPT !.items = i])
         /\ [x EXCEPT !.items = i].status = x.status
         /\ [x EXCEPT !.items = i].sagaId = x.sagaId
         /\ [x EXCEPT !.items = i].target = x.target
         /\ [x EXCEPT !.items = i].mpPayment = x.mpPayment
<1> DEFINE y == [x EXCEPT !.items = i]
<1>1. x \in ServiceOrder
  BY DEF GoodRow
<1>2. /\ y.status = x.status /\ y.closed = x.closed /\ y.mpPayment = x.mpPayment
      /\ y.sagaStatus = x.sagaStatus /\ y.sagaId = x.sagaId /\ y.target = x.target
  BY <1>1 DEF ServiceOrder
<1>3. y \in ServiceOrder
  BY <1>1 DEF ServiceOrder
<1> HIDE DEF y
<1>4. Columns(y) /\ Stamped(y)
  BY <1>2 DEF GoodRow, Columns, Stamped, AwaitingInventory
<1> QED  BY <1>2, <1>3, <1>4 DEF GoodRow, y

LEMMA PaymentColumns ==
  ASSUME NEW x, GoodRow(x), NEW n \in Nat
  PROVE  /\ GoodRow([x EXCEPT !.mpOrder = n])
         /\ [x EXCEPT !.mpOrder = n].status = x.status
         /\ [x EXCEPT !.mpOrder = n].mpPayment = x.mpPayment
         /\ GoodRow([x EXCEPT !.mpPayment = n])
         /\ [x EXCEPT !.mpPayment = n].status = x.status
         /\ [x EXCEPT !.mpPayment = n].mpPayment = n
<1> DEFINE y == [x EXCEPT !.mpOrder = n]
           z == [x EXCEPT !.mpPayment = n]
<1>1. x \in ServiceOrder
  BY DEF GoodRow
<1>2. /\ y.status = x.status /\ y.closed = x.closed /\ y.mpPayment = x.mpPayment
      /\ y.sagaStatus = x.sagaStatus /\ y.sagaId = x.sagaId /\ y.target = x.target
  BY <1>1 DEF ServiceOrder
<1>3. /\ z.status = x.status /\ z.closed = x.closed /\ z.mpPayment = n
      /\ z.sagaStatus = x.sagaStatus /\ z.sagaId = x.sagaId /\ z.target = x.target
  BY <1>1 DEF ServiceOrder
<1>4. y \in ServiceOrder /\ z \in ServiceOrder
  BY <1>1 DEF ServiceOrder
<1> HIDE DEF y, z
<1>5. Columns(y) /\ Stamped(y)
  BY <1>2 DEF GoodRow, Columns, Stamped, AwaitingInventory
<1>6. Columns(z) /\ Stamped(z)
  BY <1>3 DEF GoodRow, Columns, Stamped, AwaitingInventory
<1> QED  BY <1>2, <1>3, <1>4, <1>5, <1>6 DEF GoodRow, y, z

LEMMA SettledRow ==
  ASSUME NEW x, GoodRow(x), NEW t, CanSettle(x, t)
  PROVE  /\ GoodRow(Settle(x, t))
         /\ Settle(x, t).status = t
         /\ Settle(x, t).sagaId = NoId
         /\ Settle(x, t).mpPayment = x.mpPayment
<1>1. CASE x.status = t
  BY <1>1, ClearedRow DEF Settle, CompleteSaga, SagaStatus
<1>2. CASE x.status # t
  <2>1. CanTransitionTo(x.status, t)
    BY <1>2 DEF CanSettle
  <2>2. /\ GoodRow(UpdateStatus(x, t))
        /\ UpdateStatus(x, t).status = t
        /\ UpdateStatus(x, t).mpPayment = x.mpPayment
    BY <2>1, UpdatedRow
  <2> QED  BY <1>2, <2>2, ClearedRow DEF Settle, CompleteSaga, SagaStatus
<1> QED  BY <1>1, <1>2

Row(x, status, payment) ==
  GoodRow(x) /\ x.status = status /\ x.sagaId = NoId /\ x.mpPayment = payment

LEMMA PaymentRow ==
  ASSUME NEW x, GoodRow(x), NEW n \in Nat
  PROVE  /\ CanTransitionTo(x.status, "AWAITING_PAYMENT")
              => Row(AwaitPayment(x, n), "AWAITING_PAYMENT", x.mpPayment)
         /\ CanTransitionTo(x.status, "PAID")
              => Row(ConfirmPayment(x, n), "PAID", n)
         /\ CanTransitionTo(x.status, "PAYMENT_REJECTED")
              => Row(RejectPayment(x), "PAYMENT_REJECTED", x.mpPayment)
<1>1. ASSUME NEW y, GoodRow(y)
      PROVE  /\ Row(ClearSaga(y, "IDLE"), y.status, y.mpPayment)
             /\ Row(ClearSaga(y, "AWAITING_PAYMENT"), y.status, y.mpPayment)
  <2>1. "IDLE" \in SagaStatus \ {"AWAITING_INVENTORY"}
    BY DEF SagaStatus
  <2>2. "AWAITING_PAYMENT" \in SagaStatus \ {"AWAITING_INVENTORY"}
    BY DEF SagaStatus
  <2> QED  BY <1>1, <2>1, <2>2, ClearedRow DEF Row
<1>2. ASSUME CanTransitionTo(x.status, "AWAITING_PAYMENT")
      PROVE  Row(AwaitPayment(x, n), "AWAITING_PAYMENT", x.mpPayment)
  <2> DEFINE moved == UpdateStatus(x, "AWAITING_PAYMENT")
             y == [moved EXCEPT !.mpOrder = n]
  <2>1. AwaitPayment(x, n) = ClearSaga(y, "AWAITING_PAYMENT")
    BY DEF AwaitPayment
  <2>2. /\ GoodRow(moved)
        /\ moved.status = "AWAITING_PAYMENT"
        /\ moved.mpPayment = x.mpPayment
    BY <1>2, UpdatedRow
  <2> HIDE DEF moved
  <2>3. GoodRow(y) /\ y.status = "AWAITING_PAYMENT" /\ y.mpPayment = x.mpPayment
    BY <2>2, PaymentColumns
  <2> HIDE DEF y
  <2> QED  BY <1>1, <2>1, <2>3
<1>3. ASSUME CanTransitionTo(x.status, "PAID")
      PROVE  Row(ConfirmPayment(x, n), "PAID", n)
  <2> DEFINE moved == UpdateStatus(x, "PAID")
             y == [moved EXCEPT !.mpPayment = n]
  <2>1. ConfirmPayment(x, n) = ClearSaga(y, "IDLE")
    BY DEF ConfirmPayment
  <2>2. /\ GoodRow(moved)
        /\ moved.status = "PAID"
        /\ moved.mpPayment = x.mpPayment
    BY <1>3, UpdatedRow
  <2> HIDE DEF moved
  <2>3. GoodRow(y) /\ y.status = "PAID" /\ y.mpPayment = n
    BY <2>2, PaymentColumns
  <2> HIDE DEF y
  <2> QED  BY <1>1, <2>1, <2>3
<1>4. ASSUME CanTransitionTo(x.status, "PAYMENT_REJECTED")
      PROVE  Row(RejectPayment(x), "PAYMENT_REJECTED", x.mpPayment)
  BY <1>1, <1>4, UpdatedRow DEF RejectPayment
<1> QED  BY <1>2, <1>3, <1>4
=============================================================================
