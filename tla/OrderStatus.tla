---------------------------- MODULE OrderStatus ----------------------------
(***************************************************************************)
(* The status machine of a service order and the stock operation each     *)
(* transition needs: the pure decisions every handler of the service      *)
(* takes before it touches the database or a queue.                       *)
(***************************************************************************)

Status == {"RECEIVED", "DIAGNOSING", "PENDING_AUTHORIZATION", "AUTHORIZED",
           "IN_PROGRESS", "COMPLETED", "AWAITING_PAYMENT", "PAYMENT_REJECTED",
           "PAID", "DELIVERED", "CANCELED", "AUTHORIZATION_DENIED"}

Final == {"DELIVERED", "CANCELED", "AUTHORIZATION_DENIED"}

\* Mutant: closedAt is stamped at the ends only.
ClosingAtEnd == Final

\* The statuses that stamp closedAt, and those before any of them.
Closing == {"COMPLETED", "PAID", "DELIVERED", "CANCELED", "AUTHORIZATION_DENIED"}
BeforeCompletion == {"RECEIVED", "DIAGNOSING", "PENDING_AUTHORIZATION",
                     "AUTHORIZED", "IN_PROGRESS"}

\* The map validTransitions of the normal flow.
NormalFlow == {<<"RECEIVED", "DIAGNOSING">>,
               <<"DIAGNOSING", "PENDING_AUTHORIZATION">>,
               <<"PENDING_AUTHORIZATION", "AUTHORIZED">>,
               <<"AUTHORIZED", "IN_PROGRESS">>,
               <<"IN_PROGRESS", "COMPLETED">>,
               <<"COMPLETED", "AWAITING_PAYMENT">>,
               <<"AWAITING_PAYMENT", "PAID">>,
               <<"AWAITING_PAYMENT", "PAYMENT_REJECTED">>,
               <<"PAYMENT_REJECTED", "AWAITING_PAYMENT">>,
               <<"PAID", "DELIVERED">>}

\* Mutant: a paid order can no longer be canceled.
CanTransitionToPaidStays(s, t) ==
  /\ s \notin Final
  /\ \/ t = "CANCELED" /\ s # "PAID"
     \/ t = "AUTHORIZATION_DENIED" /\ s = "PENDING_AUTHORIZATION"
     \/ <<s, t>> \in NormalFlow

CanTransitionTo(s, t) ==
  /\ s \notin Final
  /\ \/ t = "CANCELED"
     \/ t = "AUTHORIZATION_DENIED" /\ s = "PENDING_AUTHORIZATION"
     \/ <<s, t>> \in NormalFlow

\* NextStatus answers ErrNoNextStatus outside HasNextStatus.
HasNextStatus(s) == s \notin Final \cup {"PAYMENT_REJECTED"}

NextStatus(s) ==
  CASE s = "RECEIVED"              -> "DIAGNOSING"
    [] s = "DIAGNOSING"            -> "PENDING_AUTHORIZATION"
    [] s = "PENDING_AUTHORIZATION" -> "AUTHORIZED"
    [] s = "AUTHORIZED"            -> "IN_PROGRESS"
    [] s = "IN_PROGRESS"           -> "COMPLETED"
    [] s = "COMPLETED"             -> "AWAITING_PAYMENT"
    [] s = "AWAITING_PAYMENT"      -> "PAID"
    [] s = "PAID"                  -> "DELIVERED"

Operation == {"RESERVE", "RESERVED_DECREASE", "CANCEL_RESERVED", "CANCEL_CONFIRMED"}

\* Mutant: a refused budget releases nothing.
DetermineWithoutRelease(old, new) ==
  CASE new = "PENDING_AUTHORIZATION" -> "RESERVE"
    [] new = "COMPLETED"             -> "RESERVED_DECREASE"
    [] OTHER                         -> "NONE"

\* The stock operation of a transition; "NONE" is InventoryOpNone.
DetermineInventoryOperation(old, new) ==
  CASE new = "PENDING_AUTHORIZATION" -> "RESERVE"
    [] new = "COMPLETED"             -> "RESERVED_DECREASE"
    [] new = "AUTHORIZATION_DENIED"  -> "CANCEL_RESERVED"
    [] new = "CANCELED" /\ old \in BeforeCompletion -> "CANCEL_RESERVED"
    [] new = "CANCELED" /\ old \in {"COMPLETED", "AWAITING_PAYMENT", "PAID"}
                                     -> "CANCEL_CONFIRMED"
    [] OTHER                         -> "NONE"

(***************************************************************************)
(* What restart recovery republishes for an order found with a target      *)
(* status: it has only the order's row, not the operation first sent.  No   *)
(* operation ("NONE") is an error.                                         *)
(***************************************************************************)
InferableTarget == {"PENDING_AUTHORIZATION", "COMPLETED", "AUTHORIZATION_DENIED", "CANCELED"}

\* Mutant: recovery takes every cancellation for one of a reservation.
InferReservedOnly(status, target) ==
  CASE target = "PENDING_AUTHORIZATION" -> "RESERVE"
    [] target = "COMPLETED"             -> "RESERVED_DECREASE"
    [] OTHER                            -> "CANCEL_RESERVED"

\* Mutant: recovery does not know refused budgets.
InferWithoutDenied(status, target) ==
  CASE target = "PENDING_AUTHORIZATION" -> "RESERVE"
    [] target = "COMPLETED"             -> "RESERVED_DECREASE"
    [] target = "CANCELED" -> IF status \in {"COMPLETED", "PAID"}
                                THEN "CANCEL_CONFIRMED" ELSE "CANCEL_RESERVED"
    [] OTHER                            -> "NONE"

\* Mutant: recovery knows the forward operations only.
InferForwardOnly(status, target) ==
  IF target = "PENDING_AUTHORIZATION" THEN "RESERVE"
  ELSE IF target = "COMPLETED" THEN "RESERVED_DECREASE" ELSE "NONE"

InferOperation(status, target) ==
  CASE target = "PENDING_AUTHORIZATION" -> "RESERVE"
    [] target = "COMPLETED"             -> "RESERVED_DECREASE"
    [] target = "AUTHORIZATION_DENIED"  -> "CANCEL_RESERVED"
    [] target = "CANCELED" -> IF status \in {"COMPLETED", "PAID"}
                                THEN "CANCEL_CONFIRMED" ELSE "CANCEL_RESERVED"
    [] OTHER                            -> "NONE"
=============================================================================
