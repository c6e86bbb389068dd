----------------------------- MODULE OrderReads -----------------------------
(***************************************************************************)
(* What the reads of the service show while handlers write.  A read takes  *)
(* two queries, without a transaction: the rows of the orders, filtered    *)
(* and sorted by the database, then their items.  Handlers are whole and   *)
(* serial here, each saves row and items in one transaction; what they do  *)
(* to a row is that of OrderSaga, for any caller.                          *)
(*                                                                         *)
(* Orders are numbered by creation.  The filter by customer and the        *)
(* customer and vehicle shown, which a failing lookup leaves out, are not  *)
(* modelled.                                                               *)
(***************************************************************************)
EXTENDS ServiceOrder, Sequences, SequencesExt

CONSTANTS
  MaxOrders,      \* bound: orders created
  MaxCharges      \* bound: MP orders of an order

ASSUME ReadsAssumption == MaxOrders \in Nat /\ MaxCharges \in Nat

VARIABLES
  orders,     \* the table: a sequence of rows
  read        \* a reader: the query that comes next, what it has so far

vars == <<orders, read>>

-----------------------------------------------------------------------------
(* The rows a handler may turn x into *)

Edited(x) == IF CanModifyItems(x) THEN {[x EXCEPT !.items = i] : i \in SUBSET Products} ELSE {}

Advanced(x) ==
  IF HasNextStatus(x.status) /\ x.status # "COMPLETED"
       /\ DetermineInventoryOperation(x.status, NextStatus(x.status)) = "NONE"
    THEN {UpdateStatus(x, NextStatus(x.status))}
    ELSE {}

\* A payment begun, or what a notification makes of it.
Charged(x) ==
  CASE x.status \in {"COMPLETED", "PAYMENT_REJECTED"} /\ x.mpOrder < MaxCharges
         -> {AwaitPayment(x, x.mpOrder + 1)}
    [] x.status = "AWAITING_PAYMENT" -> {ConfirmPayment(x, x.mpOrder), RejectPayment(x)}
    [] x.status = "PAID"             -> {CancelAfterRefund(x)}
    [] OTHER                         -> {}

\* What a saga may be started for.
Targets(x) ==
  {t \in {"PENDING_AUTHORIZATION", "COMPLETED"} :
     HasNextStatus(x.status) /\ NextStatus(x.status) = t}
  \cup {t \in {"AUTHORIZATION_DENIED"} : x.status = "PENDING_AUTHORIZATION"}
  \cup {t \in {"CANCELED"} : x.status \notin Final \cup {"RECEIVED", "DIAGNOSING"}}

\* A saga begun, the one saga id standing for all, or the reply to it; an
\* order without items, or not reserved yet, changes at once.
Settled(x) ==
  IF AwaitingInventory(x)
    THEN {FailSaga(x)} \cup (IF CanSettle(x, x.target) THEN {Settle(x, x.target)} ELSE {})
    ELSE (IF x.items = {} THEN {Settle(x, t) : t \in Targets(x)}
                          ELSE {MarkSagaStarted(x, 1, t) : t \in Targets(x)})
         \cup (IF x.status \in {"RECEIVED", "DIAGNOSING"} THEN {Settle(x, "CANCELED")} ELSE {})

Create(items) ==
  /\ Len(orders) < MaxOrders
  /\ orders' = Append(orders, NewServiceOrder(items))
  /\ UNCHANGED read

Handle(o) ==
  /\ \E x \in Edited(orders[o]) \cup Advanced(orders[o])
              \cup Charged(orders[o]) \cup Settled(orders[o]) :
       orders' = [orders EXCEPT ![o] = x]
  /\ UNCHANGED read

-----------------------------------------------------------------------------
(* The reads *)

Hidden == {"COMPLETED", "AWAITING_PAYMENT", "PAID", "DELIVERED", "AUTHORIZATION_DENIED"}

\* A request asks for one status or for any, and may leave out those above.
Asked == [only : Status \cup {NoStatus}, hide : BOOLEAN]

Wanted(q) == (IF q.only = NoStatus THEN Status ELSE {q.only}) \ (IF q.hide THEN Hidden ELSE {})

\* Mutant: a status the query does not name, which sorts last.
RankWithoutPaid(s) ==
  CASE s = "RECEIVED"              -> 1
    [] s = "DIAGNOSING"            -> 2
    [] s = "PENDING_AUTHORIZATION" -> 3
    [] s = "AUTHORIZED"            -> 4
    [] s = "IN_PROGRESS"           -> 5
    [] s = "COMPLETED"             -> 6
    [] s = "AWAITING_PAYMENT"      -> 7
    [] s = "DELIVERED"             -> 9
    [] OTHER                       -> 12

Rank(s) ==
  CASE s = "RECEIVED"              -> 1
    [] s = "DIAGNOSING"            -> 2
    [] s = "PENDING_AUTHORIZATION" -> 3
    [] s = "AUTHORIZED"            -> 4
    [] s = "IN_PROGRESS"           -> 5
    [] s = "COMPLETED"             -> 6
    [] s = "AWAITING_PAYMENT"      -> 7
    [] s = "PAID"                  -> 8
    [] s = "DELIVERED"             -> 9
    [] s = "CANCELED"              -> 10
    [] s = "AUTHORIZATION_DENIED"  -> 11
    [] OTHER                       -> 12

\* By the workflow and then the oldest first, or else the newest first.
Before(sorted, o, p) ==
  IF ~sorted THEN o > p
  ELSE LET r == Rank(orders[o].status) q == Rank(orders[p].status)
       IN r < q \/ (r = q /\ o < p)

Sorted(sorted, rows) ==
  \A m, n \in DOMAIN rows : m < n => Before(sorted, rows[m], rows[n])

Nothing == [next |-> "rows", sorted |-> FALSE, shown |-> <<>>]

\* An answer as the rows alone tell it; the items are still to come.
Summary(o) ==
  [order |-> o, status |-> orders[o].status, sagaStatus |-> orders[o].sagaStatus,
   items |-> {}]

LoadRows(q, sorted) ==
  LET found == {o \in DOMAIN orders : orders[o].status \in Wanted(q)}
  IN /\ read.next = "rows"
     /\ \E rows \in SetToSeqs(found) :
          /\ Sorted(sorted, rows)
          /\ read' = [next |-> "items", sorted |-> sorted,
                      shown |-> [n \in DOMAIN rows |-> Summary(rows[n])]]
     /\ UNCHANGED orders

LoadRow(o) ==
  /\ read.next = "rows"
  /\ read' = [Nothing EXCEPT !.next = "items", !.shown = <<Summary(o)>>]
  /\ UNCHANGED orders

WithItems(x) == [x EXCEPT !.items = orders[x.order].items]

Preload ==
  /\ read.next = "items"
  /\ read' = [read EXCEPT !.next = "answer",
                         !.shown = [n \in DOMAIN read.shown |-> WithItems(read.shown[n])]]
  /\ UNCHANGED orders

Respond ==
  /\ read.next = "answer"
  /\ read' = Nothing
  /\ UNCHANGED orders

\* The link of a row, or none.
GetPaymentStatus(x) ==
  IF /\ x.status = "AWAITING_PAYMENT"
     /\ x.sagaStatus = "AWAITING_PAYMENT"
     /\ x.mpOrder # NoId
    THEN {x.mpOrder}
    ELSE {}

-----------------------------------------------------------------------------
Init == orders = <<>> /\ read = Nothing

Next ==
  \/ \E items \in SUBSET Products : Create(items)
  \/ \E o \in DOMAIN orders : Handle(o) \/ LoadRow(o)
  \/ \E q \in Asked, sorted \in BOOLEAN : LoadRows(q, sorted)
  \/ Preload \/ Respond

Spec == Init /\ [][Next]_vars

-----------------------------------------------------------------------------
Answered == read.next = "answer"

(***************************************************************************)
(* An order shown past its diagnosis is shown with the items it was        *)
(* decided on, those it still has, although row and items are read one     *)
(* after the other.  It holds because the row is read first: from the      *)
(* moment a row shows such a status its items no longer change.            *)
(***************************************************************************)
FrozenItemsShown ==
  Answered =>
    \A n \in DOMAIN read.shown :
      read.shown[n].status \notin {"RECEIVED", "DIAGNOSING"}
        => read.shown[n].items = orders[read.shown[n].order].items

(***************************************************************************)
(* In a list sorted by status no order comes after one its own advance     *)
(* would bring it level with, and orders of one status come by age: the    *)
(* CASE of the query agrees with the transitions of the status machine.    *)
(***************************************************************************)
ListFollowsWorkflow ==
  Answered /\ read.sorted =>
    \A m, n \in DOMAIN read.shown :
      m < n =>
        /\ read.shown[m].status = read.shown[n].status
             => read.shown[m].order < read.shown[n].order
        /\ HasNextStatus(read.shown[n].status)
             => read.shown[m].status # NextStatus(read.shown[n].status)

-----------------------------------------------------------------------------
(* What the documents say of the reads and the code does not do *)

(***************************************************************************)
(* service_order_handler.go:257, of hide_completed: "Hide completed orders *)
(* (COMPLETED, PAID, DELIVERED, AUTHORIZATION_DENIED)".  An order that is  *)
(* hidden should be one of those.                                          *)
(***************************************************************************)
HidesCompletedOnly ==
  \A o \in DOMAIN orders :
    orders[o].status \notin Wanted([only |-> NoStatus, hide |-> TRUE])
      => orders[o].status \in {"COMPLETED", "PAID", "DELIVERED", "AUTHORIZATION_DENIED"}

(***************************************************************************)
(* README.md:255, of an order that came to AWAITING_PAYMENT: "O cliente    *)
(* acessa o link via GET /service-orders/{id}/payment".  While the order   *)
(* waits for its payment and no saga is in flight, the link is there.      *)
(***************************************************************************)
LinkWhilePayable ==
  \A o \in DOMAIN orders :
    orders[o].status = "AWAITING_PAYMENT" /\ ~AwaitingInventory(orders[o])
      => GetPaymentStatus(orders[o]) # {}
=============================================================================
