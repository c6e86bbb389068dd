--------------------------- MODULE CustomerDeletion ---------------------------
(***************************************************************************)
(* The consumer of customer-deleted, composed with the order service: the  *)
(* customer service announces once that the customer of Orders is gone,    *)
(* and the consumer cancels that customer's open orders.  It reads all of  *)
(* them in one query and then works from what it read, one order after the *)
(* other, each through the delete use case, while every other handler goes *)
(* on.  An error leaves the message in the queue, until it has been        *)
(* received three times and is moved to the dead-letter queue.             *)
(***************************************************************************)
EXTENDS OrderSaga

VARIABLES
  message,    \* "none", "queued", "received", "deleted", "dead"
  receives,   \* times the message was received
  batch,      \* rows the running pass has read and not gone through
  skipped     \* orders a pass went by because their saga was in flight

deletionVars == <<message, receives, batch, skipped>>

cdVars == <<vars, deletionVars>>

MaxReceives == 3

OpenForDeletion == {"RECEIVED", "DIAGNOSING", "PENDING_AUTHORIZATION",
                    "AUTHORIZED", "IN_PROGRESS"}

Nothing == [o \in {} |-> NewServiceOrder({})]

DeletionInit ==
  /\ Init
  /\ message = "none"
  /\ receives = 0
  /\ batch = Nothing
  /\ skipped = {}

\* The customer service's outbox.
CustomerDeleted ==
  /\ message = "none"
  /\ message' = "queued"
  /\ UNCHANGED <<vars, receives, batch, skipped>>

Receive ==
  /\ Consuming
  /\ message = "queued"
  /\ message' = "received"
  /\ receives' = receives + 1
  /\ batch' = orders
  /\ skipped' = {}
  /\ UNCHANGED vars

Drop(o) == batch' = [x \in DOMAIN batch \ {o} |-> batch[x]]

\* Back to the queue when it is visible again, or to the dead-letter queue.
GiveBack ==
  /\ message' = IF receives < MaxReceives THEN "queued" ELSE "dead"
  /\ batch' = Nothing
  /\ UNCHANGED <<receives, skipped>>

\* Both tests look at the row as it was read.
PassOver(o) ==
  /\ message = "received"
  /\ o \in DOMAIN batch
  /\ AwaitingInventory(batch[o]) \/ batch[o].status \notin OpenForDeletion
  /\ Drop(o)
  /\ skipped' = IF AwaitingInventory(batch[o]) THEN skipped \cup {o} ELSE skipped
  /\ UNCHANGED <<vars, message, receives>>

Chosen(o) ==
  /\ message = "received"
  /\ o \in DOMAIN batch
  /\ ~AwaitingInventory(batch[o])
  /\ batch[o].status \in OpenForDeletion

\* The row was saved and, if a saga was started, its request published.
Succeeds == orders' # orders /\ (sagas' # sagas => requests' # requests)

\* The delete use case reads the row again.
DeleteOne(o) ==
  /\ Chosen(o)
  /\ Delete(o)
  /\ IF Succeeds
       THEN Drop(o) /\ UNCHANGED <<message, receives, skipped>>
       ELSE GiveBack

\* The errors of the delete use case: a saga in flight, an order at an end, a
\* payment that is refunded already, a store or Mercado Pago that fails.
Refused(o) ==
  \/ AwaitingInventory(orders[o])
  \/ orders[o].status \in Final
  \/ MustRefund(o) /\ payments[orders[o].mpPayment].status # "approved"
  \/ CallsMayFail

\* Mutant: an order that can not be canceled is left behind.
ErrorIgnored(o) ==
  /\ Chosen(o)
  /\ Refused(o)
  /\ Drop(o)
  /\ UNCHANGED <<vars, message, receives, skipped>>

DeleteRefused(o) ==
  /\ Chosen(o)
  /\ Refused(o)
  /\ GiveBack
  /\ UNCHANGED vars

\* The pass is over; the delete may fail, or the visibility timeout be past
\* and the receipt handle stale, and then the queue keeps the message.
DeleteMessage ==
  /\ message = "received"
  /\ batch = Nothing
  /\ \/ message' = "deleted" /\ UNCHANGED <<receives, batch, skipped>>
     \/ GiveBack
  /\ UNCHANGED vars

Consumer ==
  \/ Receive \/ DeleteMessage
  \/ \E o \in DOMAIN batch : PassOver(o) \/ DeleteOne(o) \/ DeleteRefused(o)

\* Every other handler, unless its customer is gone; a death takes the pass with it.
Others ==
  /\ Next
  /\ message = "none" \/ DOMAIN orders' = DOMAIN orders
  /\ IF message = "received" /\ crashes' # crashes THEN GiveBack ELSE UNCHANGED deletionVars

DeletionNext == Others \/ CustomerDeleted \/ Consumer

DeletionSpec == DeletionInit /\ [][DeletionNext]_cdVars

-----------------------------------------------------------------------------
OpenOrder(o) == orders[o].status \in OpenForDeletion

BeingCanceled(o) == o \in Awaiting /\ orders[o].target \in {"CANCELED", "AUTHORIZATION_DENIED"}

CancelRefused(o) == \E r \in settled : r.order = o /\ ~r.ok

(***************************************************************************)
(* No error is swallowed: when the message is gone from the queue for      *)
(* good, every order of the customer is at an end, past completion, being  *)
(* canceled, refused its cancellation by the stock service, or was passed  *)
(* over because its saga was in flight when the pass read it.  A failure   *)
(* or a death in the middle of the batch makes another pass go over all of *)
(* it, with those already canceled.                                        *)
(***************************************************************************)
NoOrderForgotten ==
  message = "deleted" =>
    \A o \in DOMAIN orders :
      ~OpenOrder(o) \/ BeingCanceled(o) \/ CancelRefused(o) \/ o \in skipped

\* Going over the orders again never starts another cancellation of an order
\* while one is in flight.
CancellationStartedOnce ==
  [][\A o \in Awaiting : orders'[o].sagaId \in {orders[o].sagaId, NoId}]_cdVars

-----------------------------------------------------------------------------
(***************************************************************************)
(* "Cancela todas as OS ativas do customer_id" (README.md): with the       *)
(* message deleted and no saga left to answer, no order of the customer is *)
(* open unless the stock service refused.                                  *)
(***************************************************************************)
AllActiveOrdersCanceled ==
  message = "deleted" /\ requests = {} /\ replies = {} =>
    \A o \in DOMAIN orders : OpenOrder(o) => o \in Awaiting \/ CancelRefused(o)
=============================================================================
