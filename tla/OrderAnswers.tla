----------------------------- MODULE OrderAnswers -----------------------------
(***************************************************************************)
(* What the callers of OrderSessions are told.  A call ends in a status    *)
(* code: 200 with the change made, 202 with a saga or a payment under way, *)
(* 4xx or 500 by the error of the use case, or in no answer at all when    *)
(* the process dies.  Kept beside it is what the call had done by then, in *)
(* this service and at Mercado Pago.                                       *)
(*                                                                         *)
(* Errors of stores, queues and other services are 500 (their texts, by    *)
(* which MapDomainError may mistake them, are in OrderRequests).           *)
(*                                                                         *)
(* Some of what a call may rely on holds only while no other call of the   *)
(* order has been under way beside it; "alone" remembers whether one was.  *)
(* It is a history variable: no step reads it.                             *)
(***************************************************************************)
EXTENDS OrderSessions

ASSUME FiniteSessions == IsFiniteSet(Sessions)

VARIABLES
  call,       \* what each session was asked for
  answer,     \* its status code; 0 before it, without one, or for a message
  done,       \* what it did
  refunded,   \* whether the order's payment was given back
  alone       \* whether no two sessions were ever under way at once

answersVars == <<call, answer, done, refunded>>

allVars == <<vars, answersVars, alone>>

Operations == {"none", "advance", "authorize", "retry", "update", "delete", "notified"}

Effects == {"refund", "charge", "history", "decision", "saga", "request"}

AnswersInit ==
  /\ Init
  /\ call = [s \in Sessions |-> "none"]
  /\ answer = [s \in Sessions |-> 0]
  /\ done = [s \in Sessions |-> {}]
  /\ refunded = FALSE
  /\ alone = TRUE

Begins(s, op) ==
  /\ call' = [call EXCEPT ![s] = op]
  /\ answer' = [answer EXCEPT ![s] = 0]
  /\ done' = [done EXCEPT ![s] = IF charges' # charges THEN {"charge"} ELSE {}]

Does(s, effect) == done' = [done EXCEPT ![s] = @ \cup {effect}]

Answers(s, code) == answer' = [answer EXCEPT ![s] = IF call[s] = "none" THEN 0 ELSE code]

\* The use case returns an error before anything else.
Refused(s, op, code) ==
  /\ Refuse(s)
  /\ call' = [call EXCEPT ![s] = op]
  /\ answer' = [answer EXCEPT ![s] = code]
  /\ done' = [done EXCEPT ![s] = {}]
  /\ UNCHANGED refunded

-----------------------------------------------------------------------------
(* The handlers, up to the first load *)

AdvanceServiceOrderStatus(s) ==
  /\ AdvanceDirectly(s) \/ AdvanceBySaga(s) \/ (row.status = "COMPLETED" /\ StartPayment(s))
  /\ Begins(s, "advance")
  /\ UNCHANGED refunded

AuthorizeServiceOrder(s) ==
  /\ Approve(s) \/ Deny(s)
  /\ Begins(s, "authorize")
  /\ UNCHANGED refunded

RetryPayment(s) ==
  /\ row.status = "PAYMENT_REJECTED" /\ StartPayment(s)
  /\ Begins(s, "retry")
  /\ UNCHANGED refunded

UpdateServiceOrder(s) ==
  /\ EditItems(s)
  /\ Begins(s, "update")
  /\ UNCHANGED refunded

MustRefund == row.status = "PAID" /\ row.mpPayment # NoId

\* Mutant: any order with a payment is refunded.
DeleteRefundsAnyPayment(s) ==
  /\ Delete(s)
  /\ call' = [call EXCEPT ![s] = "delete"]
  /\ answer' = [answer EXCEPT ![s] = 0]
  /\ done' = [done EXCEPT ![s] = IF row.mpPayment # NoId THEN {"refund"} ELSE {}]
  /\ refunded' = (refunded \/ row.mpPayment # NoId)

\* A payment is refunded once; asked again, Mercado Pago answers an error.
DeleteServiceOrder(s) ==
  /\ Delete(s)
  /\ ~(MustRefund /\ refunded)
  /\ call' = [call EXCEPT ![s] = "delete"]
  /\ answer' = [answer EXCEPT ![s] = 0]
  /\ done' = [done EXCEPT ![s] = IF MustRefund THEN {"refund"} ELSE {}]
  /\ refunded' = (refunded \/ MustRefund)

\* A notification; a message is not answered.
Told(s) ==
  /\ \/ HandleWebhook(s) /\ Begins(s, "notified")
     \/ \E r \in replies : Receive(s, r) /\ Begins(s, "none")
  /\ UNCHANGED refunded

\* ErrNoNextStatus, ErrInvalidStatusTransition, ErrCannotModifyItemsAfterPending.
Conflict(s) ==
  \/ ~HasNextStatus(row.status) /\ Refused(s, "advance", 409)
  \/ row.status # "PENDING_AUTHORIZATION" /\ Refused(s, "authorize", 409)
  \/ row.status # "PAYMENT_REJECTED" /\ Refused(s, "retry", 409)
  \/ ~CanModifyItems(row) /\ Refused(s, "update", 409)

\* The store, or Mercado Pago, fails; a failed refund ends a deletion.
Fails(s) ==
  \E op \in Operations \ {"none"} : Refused(s, op, 500)

-----------------------------------------------------------------------------
(* The orchestrator and the writes *)

\* ErrSagaAlreadyInProgress is not among the texts the mapper knows.
Cancels(s) ==
  /\ CancelOrder(s)
  /\ IF session'[s].pc # "idle" THEN UNCHANGED answer
     ELSE Answers(s, IF AwaitingInventory(row) THEN 500 ELSE 409)
  /\ UNCHANGED <<call, done, refunded>>

Starts(s) ==
  /\ StartSaga(s)
  /\ IF session'[s].pc # "idle" THEN UNCHANGED answer
     ELSE Answers(s, IF AwaitingInventory(row) THEN 500 ELSE 409)
  /\ UNCHANGED <<call, done, refunded>>

Settles(s) == HandleReply(s) /\ UNCHANGED answersVars

Records(s) ==
  /\ SaveHistory(s)
  /\ Does(s, "history")
  /\ UNCHANGED <<call, answer, refunded>>

\* Mutant: the e-mail's error fails the call.
SavesAndNotifies(s) ==
  /\ SaveRow(s)
  /\ IF At(s, "launch") THEN Does(s, "saga") /\ UNCHANGED answer
     ELSE Does(s, "decision") /\ \E code \in {200, 500} : Answers(s, code)
  /\ UNCHANGED <<call, refunded>>

\* The e-mail that follows is sent or not.  202 with the payment's URL, 200
\* with the order.
Saves(s) ==
  /\ SaveRow(s)
  /\ IF At(s, "launch") THEN Does(s, "saga") /\ UNCHANGED answer
     ELSE /\ Does(s, "decision")
          /\ Answers(s, IF call[s] \in {"advance", "retry"}
                            /\ session[s].next.status = "AWAITING_PAYMENT" THEN 202 ELSE 200)
  /\ UNCHANGED <<call, refunded>>

\* Mutant: answered without waiting for the queue, which may refuse it.
PublishesLater(s) ==
  /\ At(s, "publish")
  /\ Publish(s) \/ (Ends(s) /\ UNCHANGED <<row, history, sagas, externals>>)
  /\ Answers(s, 202)
  /\ IF requests' = requests THEN UNCHANGED done ELSE Does(s, "request")
  /\ UNCHANGED <<call, refunded>>

Publishes(s) ==
  /\ Publish(s)
  /\ Does(s, "request")
  /\ Answers(s, 202)
  /\ UNCHANGED <<call, refunded>>

\* The process dies, or a call it makes fails.
Stops(s) ==
  /\ Abandon(s)
  /\ \E code \in {0, 500} : Answers(s, code)
  /\ UNCHANGED <<call, done, refunded>>

Call(s) ==
  \/ AdvanceServiceOrderStatus(s) \/ AuthorizeServiceOrder(s) \/ RetryPayment(s)
  \/ UpdateServiceOrder(s) \/ DeleteServiceOrder(s) \/ Told(s)
  \/ Conflict(s) \/ Fails(s)

Step(s) ==
  \/ Cancels(s) \/ Starts(s) \/ Settles(s)
  \/ Records(s) \/ Saves(s) \/ Publishes(s) \/ Stops(s)

Underway == {s \in Sessions : ~At(s, "idle")}

AnswersNext ==
  /\ \/ \E s \in Sessions : Call(s) \/ Step(s)
     \/ (\E saga \in requests : Answer(saga)) /\ UNCHANGED answersVars
  /\ alone' = (alone /\ Cardinality(Underway') <= 1)

AnswersSpec == AnswersInit /\ [][AnswersNext]_allVars

-----------------------------------------------------------------------------
(***************************************************************************)
(* A handler with the order to itself overwrites exactly the row it        *)
(* decided on, wherever it or those before it stopped: it is then that     *)
(* OrderSaga may take a handler for one step.  (With another beside it, it *)
(* may not: see OrderSessionsClaims.)                                      *)
(***************************************************************************)
DecidesOnTheRow ==
  alone => \A s \in Sessions :
             session[s].pc \in {"record", "save", "launch"} => session[s].loaded = row

(***************************************************************************)
(* And every change of status it makes is a transition of the table, with  *)
(* an entry of its own in the history.                                     *)
(***************************************************************************)
ChangesAreRecorded ==
  [][alone /\ row'.status # row.status =>
       /\ CanTransitionTo(row.status, row'.status)
       /\ [old |-> row.status, new |-> row'.status] \in history]_allVars

(***************************************************************************)
(* A caller who is told of a conflict may believe that nothing happened:   *)
(* no refund, no MP order, no entry, no change of the row.  Alone: the     *)
(* state is checked before the first effect, which in a deletion is        *)
(* outside this service.  With another call beside it, a deletion may      *)
(* refund and then find the order canceled.                                *)
(***************************************************************************)
RefusalChangesNothing ==
  alone => \A s \in Sessions : answer[s] = 409 => done[s] = {}

(***************************************************************************)
(* A success is never announced before it is durable, whatever else goes   *)
(* on: 200 comes after the entry and the row, 202 after the request is on  *)
(* the queue, or the MP order exists and the row names it.                 *)
(***************************************************************************)
SuccessIsDurable ==
  \A s \in Sessions :
    /\ answer[s] = 200 => {"history", "decision"} \subseteq done[s]
    /\ answer[s] = 202 => \/ {"saga", "request"} \subseteq done[s]
                          \/ {"charge", "history", "decision"} \subseteq done[s]

(***************************************************************************)
(* A caller who is told of an error may repeat the call: an error never    *)
(* comes after the row took the decision, so that a second advance does    *)
(* not go a status too far.  (After no answer at all it may.)              *)
(***************************************************************************)
ErrorLeavesStatus == \A s \in Sessions : answer[s] >= 400 => "decision" \notin done[s]

-----------------------------------------------------------------------------
\* "PAID | RefundOrder (estorno total) | CANCEL_CONFIRMED" (business rules): a
\* refunded order is canceled, so it is never delivered.
RefundedIsNotDelivered == ~(refunded /\ row.status = "DELIVERED")

\* The success and failure codes listed above the handler of DELETE.
DeleteAnswersAreDocumented ==
  \A s \in Sessions : call[s] = "delete" => answer[s] \in {0, 200, 400, 401, 404, 500}
=============================================================================
