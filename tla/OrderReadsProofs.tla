-------------------------- MODULE OrderReadsProofs --------------------------
(***************************************************************************)
(* The answers of the reads, for every number of orders, products and      *)
(* charges: items of a decided order are shown as its row has them, and a  *)
(* list sorted by status follows the workflow.                             *)
(*                                                                         *)
(* A row past its diagnosis stays past it and keeps its items, whatever a  *)
(* handler does; an answer in the making remembers that a row was past it  *)
(* when it was read, and in which order the rows were read.                *)
(***************************************************************************)
EXTENDS OrderReads, FiniteSetTheorems, TLAPS

Past(status) == status \notin {"RECEIVED", "DIAGNOSING"}

\* What an answer shows of a row, and the reader itself.
Shown == [order : DOMAIN orders, status : Status, sagaStatus : SagaStatus,
          items : SUBSET Products]

Reads == [next : {"rows", "items", "answer"}, sorted : BOOLEAN, shown : Seq(Shown)]

OrdersInv == orders \in Seq(ServiceOrder)

ReadInv == read \in Reads

\* A row read past its diagnosis is past it still, and with its items read
\* they are those of the row.
PastInv ==
  \A n \in DOMAIN read.shown :
    Past(read.shown[n].status) =>
      /\ Past(orders[read.shown[n].order].status)
      /\ read.next = "answer" =>
           read.shown[n].items = orders[read.shown[n].order].items

SortedInv ==
  read.sorted =>
    \A m, n \in DOMAIN read.shown :
      m < n =>
        \/ Rank(read.shown[m].status) < Rank(read.shown[n].status)
        \/ /\ Rank(read.shown[m].status) = Rank(read.shown[n].status)
           /\ read.shown[m].order < read.shown[n].order

IInv == OrdersInv /\ ReadInv /\ PastInv /\ SortedInv

\* Nothing a handler makes of the row x undecides it.
Keeps(x, y) ==
  /\ y \in ServiceOrder
  /\ Past(x.status) => Past(y.status) /\ y.items = x.items

-----------------------------------------------------------------------------
(* The row *)

LEMMA RankIsANumber ==
  \A s \in Status : Rank(s) \in Nat
BY DEF Status, Rank

LEMMA RankFollowsWorkflow ==
  \A s \in Status : HasNextStatus(s) => Rank(NextStatus(s)) > Rank(s)
BY DEF Status, HasNextStatus, Final, NextStatus, Rank

LEMMA KeptByUpdate ==
  ASSUME NEW x \in ServiceOrder, NEW t, CanTransitionTo(x.status, t)
  PROVE  Keeps(x, UpdateStatus(x, t))
<1>1. t \in Status /\ (Past(x.status) => Past(t))
  BY DEF CanTransitionTo, NormalFlow, Status, Past
<1> QED  BY <1>1 DEF ServiceOrder, UpdateStatus, Keeps

LEMMA KeptByClear ==
  ASSUME NEW x \in ServiceOrder, NEW s \in SagaStatus
  PROVE  /\ Keeps(x, ClearSaga(x, s))
         /\ \A n \in Nat : /\ Keeps(x, ClearSaga([x EXCEPT !.mpOrder = n], s))
                           /\ Keeps(x, ClearSaga([x EXCEPT !.mpPayment = n], s))
BY DEF ServiceOrder, ClearSaga, Keeps, NoId, NoStatus

LEMMA KeepsTwice ==
  ASSUME NEW x, NEW y, NEW z, Keeps(x, y), Keeps(y, z)
  PROVE  Keeps(x, z)
BY DEF Keeps

LEMMA KeptByEdit ==
  ASSUME NEW x \in ServiceOrder, NEW y \in Edited(x)
  PROVE  Keeps(x, y)
BY DEF Edited, CanModifyItems, ServiceOrder, Keeps, Past

LEMMA KeptByAdvance ==
  ASSUME NEW x \in ServiceOrder, NEW y \in Advanced(x)
  PROVE  Keeps(x, y)
<1>1. /\ HasNextStatus(x.status)
      /\ y = UpdateStatus(x, NextStatus(x.status))
  BY DEF Advanced
<1>2. CanTransitionTo(x.status, NextStatus(x.status))
  BY <1>1 DEF ServiceOrder, Status, HasNextStatus, NextStatus, CanTransitionTo,
              NormalFlow, Final
<1> QED  BY <1>1, <1>2, KeptByUpdate

LEMMA KeptByCharge ==
  ASSUME NEW x \in ServiceOrder, NEW y \in Charged(x)
  PROVE  Keeps(x, y)
<1>1. CASE x.status \in {"COMPLETED", "PAYMENT_REJECTED"} /\ y = AwaitPayment(x, x.mpOrder + 1)
  <2>1. Keeps(x, UpdateStatus(x, "AWAITING_PAYMENT"))
    BY <1>1, KeptByUpdate DEF CanTransitionTo, NormalFlow, Final
  <2> DEFINE u == UpdateStatus(x, "AWAITING_PAYMENT")
  <2> HIDE DEF u
  <2>2. x.mpOrder + 1 \in Nat
    BY DEF ServiceOrder
  <2>3. u \in ServiceOrder
    BY <2>1 DEF Keeps, u
  <2>4. Keeps(u, ClearSaga([u EXCEPT !.mpOrder = x.mpOrder + 1], "AWAITING_PAYMENT"))
    BY <2>2, <2>3, KeptByClear DEF SagaStatus
  <2> QED  BY <1>1, <2>1, <2>4, KeepsTwice DEF AwaitPayment, u
<1>2. CASE x.status = "AWAITING_PAYMENT" /\ y = ConfirmPayment(x, x.mpOrder)
  <2>1. Keeps(x, UpdateStatus(x, "PAID"))
    BY <1>2, KeptByUpdate DEF CanTransitionTo, NormalFlow, Final
  <2> DEFINE u == UpdateStatus(x, "PAID")
  <2> HIDE DEF u
  <2>2. u \in ServiceOrder /\ x.mpOrder \in Nat
    BY <2>1 DEF Keeps, u, ServiceOrder
  <2>3. Keeps(u, ClearSaga([u EXCEPT !.mpPayment = x.mpOrder], "IDLE"))
    BY <2>2, KeptByClear DEF SagaStatus
  <2> QED  BY <1>2, <2>1, <2>3, KeepsTwice DEF ConfirmPayment, u
<1>3. CASE x.status = "AWAITING_PAYMENT" /\ y = RejectPayment(x)
  <2>1. Keeps(x, UpdateStatus(x, "PAYMENT_REJECTED"))
    BY <1>3, KeptByUpdate DEF CanTransitionTo, NormalFlow, Final
  <2> DEFINE u == UpdateStatus(x, "PAYMENT_REJECTED")
  <2> HIDE DEF u
  <2>2. Keeps(u, ClearSaga(u, "IDLE"))
    BY <2>1, KeptByClear DEF Keeps, SagaStatus, u
  <2> QED  BY <1>3, <2>1, <2>2, KeepsTwice DEF RejectPayment, u
<1>4. CASE x.status = "PAID" /\ y = CancelAfterRefund(x)
  BY <1>4, KeptByUpdate DEF CancelAfterRefund, CanTransitionTo, Final
<1> QED  BY <1>1, <1>2, <1>3, <1>4 DEF Charged

LEMMA KeptBySettle ==
  ASSUME NEW x \in ServiceOrder, NEW t, CanSettle(x, t)
  PROVE  Keeps(x, Settle(x, t))
<1> DEFINE u == IF x.status = t THEN x ELSE UpdateStatus(x, t)
<1>1. Keeps(x, u)
  BY KeptByUpdate DEF CanSettle, Keeps
<1> HIDE DEF u
<1>2. Keeps(u, ClearSaga(u, "IDLE"))
  BY <1>1, KeptByClear DEF Keeps, SagaStatus
<1> QED  BY <1>1, <1>2, KeepsTwice DEF Settle, CompleteSaga, u

LEMMA TargetsAreTransitions ==
  ASSUME NEW x \in ServiceOrder, NEW t \in Targets(x)
  PROVE  CanTransitionTo(x.status, t)
BY DEF Targets, ServiceOrder, Status, HasNextStatus, NextStatus, CanTransitionTo,
       NormalFlow, Final

LEMMA KeptBySaga ==
  ASSUME NEW x \in ServiceOrder, NEW y \in Settled(x)
  PROVE  Keeps(x, y)
<1>1. CASE y = FailSaga(x)
  BY <1>1, KeptByClear DEF FailSaga, SagaStatus
<1>2. CASE CanSettle(x, x.target) /\ y = Settle(x, x.target)
  BY <1>2, KeptBySettle
<1>3. ASSUME NEW t \in Targets(x), y \in {Settle(x, t), MarkSagaStarted(x, 1, t)}
      PROVE  Keeps(x, y)
  <2>1. CanTransitionTo(x.status, t)
    BY TargetsAreTransitions
  <2>2. t \in Status
    BY <2>1 DEF CanTransitionTo, NormalFlow, Status
  <2>3. Keeps(x, MarkSagaStarted(x, 1, t))
    BY <2>2 DEF MarkSagaStarted, ServiceOrder, SagaStatus, Keeps
  <2>4. Keeps(x, Settle(x, t))
    BY <2>1, KeptBySettle DEF CanSettle
  <2> QED  BY <1>3, <2>3, <2>4
<1>4. CASE x.status \in {"RECEIVED", "DIAGNOSING"} /\ y = Settle(x, "CANCELED")
  BY <1>4, KeptBySettle DEF CanSettle, CanTransitionTo, Final
<1> QED  BY <1>1, <1>2, <1>3, <1>4 DEF Settled

LEMMA NewRowTyped ==
  ASSUME NEW items \in SUBSET Products
  PROVE  NewServiceOrder(items) \in ServiceOrder
BY DEF NewServiceOrder, ServiceOrder, Status, SagaStatus, NoId, NoStatus

-----------------------------------------------------------------------------
(* The steps of a handler *)

LEMMA InitInv == Init => IInv
BY DEF Init, IInv, OrdersInv, ReadInv, Reads, PastInv, SortedInv, Nothing

LEMMA ShownTyped ==
  ASSUME IInv, NEW n \in DOMAIN read.shown
  PROVE  /\ read.shown[n] \in Shown
         /\ read.shown[n].order \in DOMAIN orders
         /\ read.shown[n].status \in Status
<1>1. read.shown \in Seq(Shown)
  BY DEF IInv, ReadInv, Reads
<1>2. read.shown[n] \in Shown
  BY <1>1
<1> QED  BY <1>2 DEF Shown

\* A table that only grew, or only changed decided rows as Keeps allows, is
\* one the answer in the making still agrees with.
LEMMA TableMayChange ==
  ASSUME IInv, orders' \in Seq(ServiceOrder), UNCHANGED read,
         DOMAIN orders \subseteq DOMAIN orders',
         \A o \in DOMAIN orders :
           Past(orders[o].status) =>
             Past(orders'[o].status) /\ orders'[o].items = orders[o].items
  PROVE  IInv'
<1>1. Shown \subseteq Shown'
  BY DEF Shown
<1>2. Seq(Shown) \subseteq Seq(Shown')
  BY <1>1
<1>3. ReadInv'
  BY <1>2 DEF IInv, ReadInv, Reads
<1>4. \A n \in DOMAIN read.shown : read.shown[n].order \in DOMAIN orders
  BY ShownTyped
<1>5. PastInv'
  BY <1>4 DEF IInv, PastInv
<1>6. SortedInv'
  BY DEF IInv, SortedInv
<1> QED  BY <1>3, <1>5, <1>6 DEF IInv, OrdersInv

LEMMA CreateStep ==
  ASSUME IInv, NEW items \in SUBSET Products, Create(items)
  PROVE  IInv'
<1>1. orders \in Seq(ServiceOrder) /\ NewServiceOrder(items) \in ServiceOrder
  BY NewRowTyped DEF IInv, OrdersInv
<1>2. /\ orders' \in Seq(ServiceOrder)
      /\ DOMAIN orders \subseteq DOMAIN orders'
      /\ \A o \in DOMAIN orders : orders'[o] = orders[o]
  BY <1>1 DEF Create
<1> QED  BY <1>2, TableMayChange DEF Create

LEMMA HandleStep ==
  ASSUME IInv, NEW o \in DOMAIN orders, Handle(o)
  PROVE  IInv'
<1>1. orders \in Seq(ServiceOrder) /\ orders[o] \in ServiceOrder
  BY DEF IInv, OrdersInv
<1>2. PICK x : Keeps(orders[o], x) /\ orders' = [orders EXCEPT ![o] = x]
  BY <1>1, KeptByEdit, KeptByAdvance, KeptByCharge, KeptBySaga DEF Handle
<1>3. /\ orders' \in Seq(ServiceOrder)
      /\ DOMAIN orders' = DOMAIN orders
  BY <1>1, <1>2 DEF Keeps
<1>4. \A p \in DOMAIN orders :
        Past(orders[p].status) =>
          Past(orders'[p].status) /\ orders'[p].items = orders[p].items
  BY <1>1, <1>2 DEF Keeps
<1> QED  BY <1>3, <1>4, TableMayChange DEF Handle

-----------------------------------------------------------------------------
(* The steps of a read *)

LEMMA SummaryTyped ==
  ASSUME IInv, NEW o \in DOMAIN orders
  PROVE  Summary(o) \in Shown
<1>1. orders[o] \in ServiceOrder
  BY DEF IInv, OrdersInv
<1> QED  BY <1>1 DEF Summary, Shown, ServiceOrder

LEMMA LoadRowStep ==
  ASSUME IInv, NEW o \in DOMAIN orders, LoadRow(o)
  PROVE  IInv'
<1>1. read' = [next |-> "items", sorted |-> FALSE, shown |-> <<Summary(o)>>]
  BY DEF LoadRow, Nothing
<1>2. Summary(o) \in Shown
  BY SummaryTyped
<1>3. UNCHANGED orders /\ Shown' = Shown
  BY DEF LoadRow, Shown
<1>4. ReadInv'
  BY <1>1, <1>2, <1>3 DEF ReadInv, Reads
<1>5. PastInv'
  BY <1>1, <1>3 DEF PastInv, Summary
<1>6. SortedInv'
  BY <1>1 DEF SortedInv
<1> QED  BY <1>3, <1>4, <1>5, <1>6 DEF IInv, OrdersInv

LEMMA LoadRowsStep ==
  ASSUME IInv, NEW q, NEW sorted \in BOOLEAN, LoadRows(q, sorted)
  PROVE  IInv'
<1> DEFINE found == {o \in DOMAIN orders : orders[o].status \in Wanted(q)}
<1>1. PICK rows \in SetToSeqs(found) :
        /\ Sorted(sorted, rows)
        /\ read' = [next |-> "items", sorted |-> sorted,
                    shown |-> [n \in DOMAIN rows |-> Summary(rows[n])]]
  BY DEF LoadRows
<1>2. UNCHANGED orders /\ Shown' = Shown
  BY DEF LoadRows, Shown
<1>3. PICK k \in Nat : rows \in [1..k -> found]
  <2>1. IsFiniteSet(1..Len(orders)) /\ found \subseteq 1..Len(orders)
    BY FS_Interval DEF IInv, OrdersInv
  <2>2. Cardinality(found) \in Nat
    BY <2>1, FS_Subset, FS_CardinalityType
  <2> QED  BY <1>1, <2>2 DEF SetToSeqs
<1>4. \A n \in DOMAIN rows : rows[n] \in DOMAIN orders
  BY <1>3
<1>5. \A n \in DOMAIN rows : Summary(rows[n]) \in Shown
  BY <1>4, SummaryTyped
<1>6. [n \in DOMAIN rows |-> Summary(rows[n])] \in Seq(Shown)
  BY <1>3, <1>5
<1>7. ReadInv'
  BY <1>1, <1>2, <1>6 DEF ReadInv, Reads
<1>8. PastInv'
  BY <1>1, <1>2 DEF PastInv, Summary
<1>9. SortedInv'
  BY <1>1 DEF SortedInv, Sorted, Before, Summary
<1> QED  BY <1>2, <1>7, <1>8, <1>9 DEF IInv, OrdersInv

LEMMA PreloadStep ==
  ASSUME IInv, Preload
  PROVE  IInv'
<1> DEFINE filled == [n \in DOMAIN read.shown |-> WithItems(read.shown[n])]
<1>1. read' = [next |-> "answer", sorted |-> read.sorted, shown |-> filled]
  BY DEF Preload, IInv, ReadInv, Reads
<1>2. UNCHANGED orders /\ Shown' = Shown
  BY DEF Preload, Shown
<1>3. /\ read.next = "items" /\ read.sorted \in BOOLEAN
      /\ read.shown \in Seq(Shown) /\ orders \in Seq(ServiceOrder)
  BY DEF Preload, IInv, ReadInv, Reads, OrdersInv
<1>4. ASSUME NEW n \in DOMAIN read.shown
      PROVE  /\ WithItems(read.shown[n]) \in Shown
             /\ WithItems(read.shown[n]).order = read.shown[n].order
             /\ WithItems(read.shown[n]).status = read.shown[n].status
             /\ WithItems(read.shown[n]).items = orders[read.shown[n].order].items
  <2>1. read.shown[n] \in Shown
    BY <1>3
  <2>2. orders[read.shown[n].order].items \in SUBSET Products
    <3>1. read.shown[n].order \in DOMAIN orders
      BY <2>1 DEF Shown
    <3>2. orders[read.shown[n].order] \in ServiceOrder
      BY <1>3, <3>1
    <3> QED  BY <3>2 DEF ServiceOrder
  <2> QED  BY <2>1, <2>2 DEF WithItems, Shown
<1>5. filled \in Seq(Shown) /\ DOMAIN filled = DOMAIN read.shown
  BY <1>3, <1>4
<1>6. \A n \in DOMAIN filled :
        /\ filled[n].order = read.shown[n].order
        /\ filled[n].status = read.shown[n].status
        /\ filled[n].items = orders[filled[n].order].items
  BY <1>4
<1> HIDE DEF filled
<1>7. ReadInv'
  BY <1>1, <1>2, <1>3, <1>5 DEF ReadInv, Reads
<1>8. PastInv'
  BY <1>1, <1>2, <1>5, <1>6 DEF PastInv, IInv
<1>9. SortedInv'
  BY <1>1, <1>5, <1>6 DEF SortedInv, IInv
<1> QED  BY <1>2, <1>3, <1>7, <1>8, <1>9 DEF IInv, OrdersInv

LEMMA RespondStep ==
  ASSUME IInv, Respond
  PROVE  IInv'
BY DEF Respond, Nothing, IInv, OrdersInv, ReadInv, Reads, PastInv, SortedInv

LEMMA NextInv ==
  ASSUME IInv, [Next]_vars
  PROVE  IInv'
<1>1. ASSUME NEW items \in SUBSET Products, Create(items) PROVE IInv'
  BY <1>1, CreateStep
<1>2. ASSUME NEW o \in DOMAIN orders, Handle(o) \/ LoadRow(o) PROVE IInv'
  BY <1>2, HandleStep, LoadRowStep
<1>3. ASSUME NEW q \in Asked, NEW sorted \in BOOLEAN, LoadRows(q, sorted) PROVE IInv'
  BY <1>3, LoadRowsStep
<1>4. CASE Preload \/ Respond
  BY <1>4, PreloadStep, RespondStep
<1>5. CASE UNCHANGED vars
  BY <1>5 DEF vars, IInv, OrdersInv, ReadInv, Reads, Shown, PastInv, SortedInv
<1> QED  BY <1>1, <1>2, <1>3, <1>4, <1>5 DEF Next

LEMMA ReadsInvariant == Spec => []IInv
<1>1. Init => IInv
  BY InitInv
<1>2. IInv /\ [Next]_vars => IInv'
  BY NextInv
<1> QED  BY <1>1, <1>2, PTL DEF Spec

-----------------------------------------------------------------------------
(***************************************************************************)
(* An order shown past its diagnosis is shown with the items its row has,  *)
(* although the two are read one after the other, without a transaction,   *)
(* and any handler may write in between.                                   *)
(***************************************************************************)
THEOREM ItemsShownAreTheRows == Spec => []FrozenItemsShown
<1>1. IInv => FrozenItemsShown
  BY DEF IInv, PastInv, Past, FrozenItemsShown, Answered
<1> QED  BY <1>1, ReadsInvariant, PTL

(***************************************************************************)
(* A list sorted by status shows no order after one that its own advance   *)
(* would bring it level with, and orders of one status by age, for every   *)
(* table and every filter.                                                 *)
(***************************************************************************)
THEOREM ListsAreSorted == Spec => []ListFollowsWorkflow
<1>1. ASSUME IInv PROVE ListFollowsWorkflow
  <2> SUFFICES ASSUME read.sorted,
                      NEW m \in DOMAIN read.shown, NEW n \in DOMAIN read.shown, m < n
               PROVE  /\ read.shown[m].status = read.shown[n].status
                           => read.shown[m].order < read.shown[n].order
                      /\ HasNextStatus(read.shown[n].status)
                           => read.shown[m].status # NextStatus(read.shown[n].status)
    BY DEF ListFollowsWorkflow
  <2>1. read.shown[m].status \in Status /\ read.shown[n].status \in Status
    BY <1>1, ShownTyped
  <2>2. /\ Rank(read.shown[m].status) \in Nat
        /\ Rank(read.shown[n].status) \in Nat
        /\ HasNextStatus(read.shown[n].status) =>
             Rank(NextStatus(read.shown[n].status)) > Rank(read.shown[n].status)
    BY <2>1, RankIsANumber, RankFollowsWorkflow
  <2>3. \/ Rank(read.shown[m].status) < Rank(read.shown[n].status)
        \/ /\ Rank(read.shown[m].status) = Rank(read.shown[n].status)
           /\ read.shown[m].order < read.shown[n].order
    BY <1>1 DEF IInv, SortedInv
  <2>4. HasNextStatus(read.shown[n].status) /\ read.shown[m].status = NextStatus(read.shown[n].status)
          => Rank(read.shown[m].status) > Rank(read.shown[n].status)
    BY <2>2
  <2> QED  BY <2>2, <2>3, <2>4
<1> QED  BY <1>1, ReadsInvariant, PTL
=============================================================================
