---------------------------- MODULE OrderSessions ----------------------------
(***************************************************************************)
(* The handlers of one order, seen inside: OrderSaga takes a handler for   *)
(* one step, here each of its reads and writes is a step of its own.  A    *)
(* session is one execution of a handler, an HTTP call, a webhook or a     *)
(* message.  It loads the row, decides on what it loaded, saves the        *)
(* history in DynamoDB and then the row in Postgres, whole, without a      *)
(* version and without a transaction over the two; the start of a saga     *)
(* loads the row again, saves it and publishes.  A session may end between *)
(* any two of its steps: a store or a queue fails or the process dies.     *)
(*                                                                         *)
(* Mercado Pago and the stock service are reduced to what they may say of  *)
(* this order; a reply stays deliverable, as the delete of a message may   *)
(* fail.  The order is taken up at rest at any status of the normal flow,  *)
(* so that a few handlers reach every pair that may meet.                  *)
(***************************************************************************)
EXTENDS ServiceOrder, FiniteSets

CONSTANTS
  Sessions,
  MaxCalls,       \* bound: sessions begun
  MaxSagas,       \* bound: sagas started
  MaxCharges      \* bound: MP orders created

ASSUME SessionsAssumption == MaxCalls \in Nat /\ MaxSagas \in Nat /\ MaxCharges \in Nat \ {0}

VARIABLES
  row,        \* the order's row
  history,    \* its entries in the history table
  session,    \* where each session is, and what it has in memory
  calls,      \* sessions begun
  sagas,      \* saga ids issued
  charges,    \* MP orders created
  requests,   \* sagas published, by id
  replies     \* their outcome: id and verdict

vars == <<row, history, session, calls, sagas, charges, requests, replies>>

externals == <<calls, charges, requests, replies>>

Entry == [old : Status, new : Status]

\* At "cancel" and "start" the orchestrator is about to load the row, at
\* "settle" a consumer is.  "record", "save", "launch" and "publish" name the
\* write that comes next.
PC == {"idle", "cancel", "start", "settle", "record", "save", "launch", "publish"}

Idle(x) == [pc |-> "idle", loaded |-> x, next |-> x, target |-> NoStatus,
            saga |-> NoId, ok |-> FALSE]

Flow == <<"RECEIVED", "DIAGNOSING", "PENDING_AUTHORIZATION", "AUTHORIZED",
          "IN_PROGRESS", "COMPLETED", "AWAITING_PAYMENT", "PAID">>

\* An order that came as far as the n-th status and rests there.
RowAt(n, items) ==
  [NewServiceOrder(items) EXCEPT
     !.status = Flow[n],
     !.sagaStatus = IF n = 7 THEN "AWAITING_PAYMENT" ELSE "IDLE",
     !.mpOrder = IF n >= 7 THEN 1 ELSE NoId,
     !.mpPayment = IF n = 8 THEN 1 ELSE NoId,
     !.closed = n >= 6]

Init ==
  \E n \in 1..8, items \in SUBSET Products :
    /\ row = RowAt(n, items)
    /\ history = {[old |-> Flow[i - 1], new |-> Flow[i]] : i \in 2..n}
    /\ charges = IF n >= 7 THEN 1 ELSE 0
    /\ session = [s \in Sessions |-> Idle(NewServiceOrder({}))]
    /\ calls = 0 /\ sagas = 0
    /\ requests = {} /\ replies = {}

At(s, pc) == session[s].pc = pc

\* A finished session forgets what it had in memory.
Ends(s) == session' = [session EXCEPT ![s] = Idle(NewServiceOrder({}))]

Goes(s, pc) == session' = [session EXCEPT ![s].pc = pc]

\* The row just loaded and the row to be written, the history first.
Decides(s, x) ==
  session' = [session EXCEPT ![s].pc = "record", ![s].loaded = row, ![s].next = x]

TransitionLocal(s, target) ==
  IF CanSettle(row, target) THEN Decides(s, Settle(row, target)) ELSE Ends(s)

-----------------------------------------------------------------------------
(* The use cases: their first load *)

Handles(s) ==
  /\ At(s, "idle")
  /\ calls < MaxCalls /\ calls' = calls + 1
  /\ UNCHANGED <<row, history, sagas, requests, replies>>

AdvanceDirectly(s) ==
  LET next == NextStatus(row.status)
  IN /\ Handles(s)
     /\ HasNextStatus(row.status)
     /\ row.status # "COMPLETED"
     /\ DetermineInventoryOperation(row.status, next) = "NONE"
     /\ CanTransitionTo(row.status, next)
     /\ Decides(s, UpdateStatus(row, next))
     /\ UNCHANGED charges

AdvanceBySaga(s) ==
  LET next == NextStatus(row.status)
  IN /\ Handles(s)
     /\ HasNextStatus(row.status)
     /\ DetermineInventoryOperation(row.status, next) # "NONE"
     /\ session' = [session EXCEPT ![s].pc = "start", ![s].target = next]
     /\ UNCHANGED charges

\* Of a completed order, or of a rejected payment: the MP order is created
\* after the load and before the row is decided.
StartPayment(s) ==
  /\ Handles(s)
  /\ row.status \in {"COMPLETED", "PAYMENT_REJECTED"}
  /\ charges < MaxCharges
  /\ charges' = charges + 1
  /\ Decides(s, AwaitPayment(row, charges'))

Approve(s) ==
  /\ Handles(s)
  /\ row.status = "PENDING_AUTHORIZATION"
  /\ Decides(s, UpdateStatus(row, "AUTHORIZED"))
  /\ UNCHANGED charges

Deny(s) ==
  /\ Handles(s)
  /\ row.status = "PENDING_AUTHORIZATION"
  /\ session' = [session EXCEPT ![s].pc = "start", ![s].target = "AUTHORIZATION_DENIED"]
  /\ UNCHANGED charges

\* The payment is given up or refunded at this point; the row stays.
Delete(s) ==
  /\ Handles(s)
  /\ Goes(s, "cancel")
  /\ UNCHANGED charges

EditItems(s) ==
  /\ Handles(s)
  /\ CanModifyItems(row)
  /\ \E items \in SUBSET Products : Decides(s, [row EXCEPT !.items = items])
  /\ UNCHANGED charges

\* A notification of some payment on an MP order of this order.
HandleWebhook(s) ==
  /\ Handles(s)
  /\ charges > 0
  /\ \/ /\ row.status = "AWAITING_PAYMENT"
        /\ \/ \E p \in 1..charges : Decides(s, ConfirmPayment(row, p))
           \/ Decides(s, RejectPayment(row))
     \/ row.status = "PAID" /\ Decides(s, CancelAfterRefund(row))
  /\ UNCHANGED charges

\* The consumer's first load, IsCurrentSaga.
Receive(s, r) ==
  /\ Handles(s)
  /\ r \in replies
  /\ CanProcessSaga(row, r.saga)
  /\ session' = [session EXCEPT ![s].pc = "settle", ![s].saga = r.saga, ![s].ok = r.ok]
  /\ UNCHANGED charges

\* The use case answers an error before its first effect, or a store fails.
Refuse(s) ==
  /\ Handles(s)
  /\ UNCHANGED <<session, charges>>

-----------------------------------------------------------------------------
(* The orchestrator: the second load, and the third of a cancellation *)

CancelOrder(s) ==
  /\ At(s, "cancel")
  /\ IF AwaitingInventory(row) \/ row.status \in Final
       THEN Ends(s)
       ELSE IF row.status \in {"RECEIVED", "DIAGNOSING"}
              THEN TransitionLocal(s, "CANCELED")
              ELSE session' = [session EXCEPT ![s].pc = "start", ![s].target = "CANCELED"]
  /\ UNCHANGED <<row, history, sagas, externals>>

\* Mutant: the target is forgotten.
StartSagaWithoutTarget(s) ==
  /\ At(s, "start") /\ ~AwaitingInventory(row) /\ row.items # {}
  /\ sagas < MaxSagas /\ sagas' = sagas + 1
  /\ session' = [session EXCEPT ![s].pc = "launch", ![s].loaded = row, ![s].saga = sagas',
                                ![s].next = MarkSagaStarted(row, sagas', NoStatus)]
  /\ UNCHANGED <<row, history, externals>>

\* The target decided on the first load is not compared with the row again.
StartSaga(s) ==
  /\ At(s, "start")
  /\ IF AwaitingInventory(row)
       THEN Ends(s) /\ UNCHANGED sagas
       ELSE IF row.items = {}
         THEN TransitionLocal(s, session[s].target) /\ UNCHANGED sagas
         ELSE /\ sagas < MaxSagas
              /\ sagas' = sagas + 1
              /\ session' = [session EXCEPT
                   ![s].pc = "launch", ![s].loaded = row, ![s].saga = sagas',
                   ![s].next = MarkSagaStarted(row, sagas', session[s].target)]
  /\ UNCHANGED <<row, history, externals>>

\* HandleSucceeded and HandleFailed.
HandleReply(s) ==
  /\ At(s, "settle")
  /\ IF ~CanProcessSaga(row, session[s].saga) THEN Ends(s)
     ELSE IF session[s].ok THEN TransitionLocal(s, row.target)
     ELSE Decides(s, FailSaga(row))
  /\ UNCHANGED <<row, history, sagas, externals>>

-----------------------------------------------------------------------------
(* The writes *)

\* Mutant: the row first, the history after it.
SaveRowFirst(s) ==
  /\ At(s, "record")
  /\ row' = session[s].next
  /\ Goes(s, "save")
  /\ UNCHANGED <<history, sagas, externals>>

SaveHistory(s) ==
  /\ At(s, "record")
  /\ history' = history \cup {[old |-> session[s].loaded.status,
                               new |-> session[s].next.status]}
  /\ Goes(s, "save")
  /\ UNCHANGED <<row, sagas, externals>>

\* Of a decision whose history is saved, or of the start of a saga.
SaveRow(s) ==
  /\ At(s, "save") \/ At(s, "launch")
  /\ row' = session[s].next
  /\ IF At(s, "launch") THEN Goes(s, "publish") ELSE Ends(s)
  /\ UNCHANGED <<history, sagas, externals>>

\* Mutant: the saga of the row as it is by now.
PublishRowsSaga(s) ==
  /\ At(s, "publish")
  /\ requests' = requests \cup {row.sagaId}
  /\ Ends(s)
  /\ UNCHANGED <<row, history, calls, sagas, charges, replies>>

Publish(s) ==
  /\ At(s, "publish")
  /\ requests' = requests \cup {session[s].saga}
  /\ Ends(s)
  /\ UNCHANGED <<row, history, calls, sagas, charges, replies>>

Abandon(s) ==
  /\ ~At(s, "idle")
  /\ Ends(s)
  /\ UNCHANGED <<row, history, sagas, externals>>

\* MS3 settles a saga once, whatever it is asked again.
Answer(saga) ==
  /\ saga \in requests
  /\ \A r \in replies : r.saga # saga
  /\ \E ok \in BOOLEAN : replies' = replies \cup {[saga |-> saga, ok |-> ok]}
  /\ UNCHANGED <<row, history, session, calls, sagas, charges, requests>>

-----------------------------------------------------------------------------
Calls(s) ==
  \/ AdvanceDirectly(s) \/ AdvanceBySaga(s) \/ StartPayment(s)
  \/ Approve(s) \/ Deny(s) \/ Delete(s) \/ EditItems(s) \/ HandleWebhook(s)
  \/ \E r \in replies : Receive(s, r)
  \/ Refuse(s)

Steps(s) ==
  \/ CancelOrder(s) \/ StartSaga(s) \/ HandleReply(s)
  \/ SaveHistory(s) \/ SaveRow(s) \/ Publish(s) \/ Abandon(s)

Next ==
  \/ \E s \in Sessions : Calls(s) \/ Steps(s)
  \/ \E saga \in requests : Answer(saga)

Spec == Init /\ [][Next]_vars

-----------------------------------------------------------------------------
SessionRecord == [pc : PC, loaded : ServiceOrder, next : ServiceOrder,
                  target : Status \cup {NoStatus}, saga : Nat, ok : BOOLEAN]

TypeOK ==
  /\ row \in ServiceOrder
  /\ history \subseteq Entry
  /\ session \in [Sessions -> SessionRecord]
  /\ calls \in Nat /\ sagas \in Nat /\ charges \in Nat
  /\ requests \subseteq 1..sagas
  /\ replies \subseteq [saga : 1..sagas, ok : BOOLEAN]

(***************************************************************************)
(* However the sessions interleave and wherever they stop, the row is      *)
(* always one that restart recovery and the consumers can take up: saga    *)
(* status, saga id and target belong together and closedAt is stamped with *)
(* the status.  It holds because a save writes the row whole; a save of    *)
(* single columns would mix the decisions of two sessions.                 *)
(***************************************************************************)
RowIsWhole ==
  /\ IF AwaitingInventory(row)
       THEN row.sagaId \in 1..sagas /\ row.target \in InferableTarget
       ELSE row.sagaId = NoId /\ row.target = NoStatus
  /\ row.closed <=> row.status \notin BeforeCompletion

(***************************************************************************)
(* A status the row shows is always in the history already: "Save history  *)
(* first".  No crash and no failing store leaves a change without an entry *)
(* (an entry without its change is what they may leave).                   *)
(***************************************************************************)
RecordedFirst == row.status = "RECEIVED" \/ \E e \in history : e.new = row.status
=============================================================================
