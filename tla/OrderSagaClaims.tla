--------------------------- MODULE OrderSagaClaims ---------------------------
(***************************************************************************)
(* What the repository's documents and integration features say of the     *)
(* service and the code does not keep: each is refuted by a run of its     *)
(* own over the specification with free callers.                           *)
(***************************************************************************)
EXTENDS OrderSaga

PaymentsOf(o) == {p \in DOMAIN payments : mpOrders[payments[p].mpOrder] = o}

\* Recovery "republishes pending operations": the operation of a republished
\* request is the one its saga was started for (README, RecoverAwaitingSagas).
RecoveryRepublishesTheOperation == \A m \in requests : m.op = sagas[m.saga].op

\* HandleSucceeded moves the order to the target of its saga: a success of
\* the saga in flight can be applied (README, saga flow step 5).
SucceededSagaCanBeApplied ==
  \A o \in Awaiting : CanSettle(orders[o], orders[o].target)

\* AWAITING_PAYMENT becomes PAID on an approved payment only (business rules,
\* table of transitions).
PaidByApprovedPayment ==
  [][\A o \in DOMAIN orders :
       orders[o].status = "AWAITING_PAYMENT" /\ orders'[o].status = "PAID"
         => \E p \in PaymentsOf(o) : payments[p].status = "approved"]_vars

\* Retrying a payment cancels the previous MP order, so that nobody is
\* charged for it later: an order is never paid twice (business rules, retry).
NeverChargedTwice ==
  \A o \in DOMAIN orders :
    \A p, q \in PaymentsOf(o) :
      payments[p].status = "approved" /\ payments[q].status = "approved" => p = q

\* The stock of an order paid through a notification stays taken: once the
\* cancellation of an order in AWAITING_PAYMENT has given it back, the order
\* goes on to CANCELED (features, cancellation in AWAITING_PAYMENT).
PaidOrderKeepsItsStock ==
  \A o \in DOMAIN orders \ Awaiting :
    orders[o].status \in {"PAID", "DELIVERED"} /\ orders[o].mpPayment # NoId
      => orders[o].items \subseteq stock[o].taken

\* PAID to CANCELED comes with CANCEL_CONFIRMED: an order canceled after its
\* payment holds no taken stock (README, stock operation of each transition).
CanceledOrderReturnsItsStock ==
  \A o \in DOMAIN orders \ Awaiting :
    orders[o].status = "CANCELED" /\ orders[o].mpPayment # NoId => stock[o].taken = {}

\* Mercado Pago notifies every payment until it is answered.
NotifyingSpec ==
  /\ Spec
  /\ \A k \in Replicas : WF_vars(Recover(k))
  /\ \A p \in 1..MaxPayments : WF_vars(MarkApproved(p))

Approved(p) == p \in DOMAIN payments /\ payments[p].status = "approved"

Recorded(p) ==
  p \in DOMAIN payments /\ orders[mpOrders[payments[p].mpOrder]].mpPayment = p

\* An approved payment makes its order PAID (README, payment flow step 8),
\* unless it is refunded or the order is no longer to be paid.
ApprovedPaymentPaysTheOrder ==
  \A p \in 1..MaxPayments :
    Approved(p) ~> \/ Recorded(p) \/ ~Approved(p)
                   \/ orders[mpOrders[payments[p].mpOrder]].status \in Closing
=============================================================================
