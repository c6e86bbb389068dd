-------------------------- MODULE InventoryService --------------------------
(***************************************************************************)
(* The stock service (MS3) and the queues between it and the order         *)
(* service, as the order service uses them: external code.  Its contract   *)
(* here is the one the orchestrator and the integration features rely on:  *)
(* requests are idempotent by saga_id, a request seen before is answered   *)
(* with the outcome already decided.                                       *)
(*                                                                         *)
(* The queues are SQS standard queues: sets of messages, delivered in any  *)
(* order and any number of times until the consumer deletes them.          *)
(***************************************************************************)
EXTENDS ServiceOrder

CONSTANTS
  Orders,         \* ids of service orders
  FailableOps     \* operations MS3 may refuse for reasons of its own

VARIABLES
  requests,       \* queue order-inventory-op-requested
  replies,        \* queues order-inventory-op-succeeded and -failed
  settled,        \* outcome MS3 recorded for each saga id it has processed
  stock           \* what MS3 holds for each order

inventoryVars == <<requests, replies, settled, stock>>

Request == [saga : Nat, order : Orders, op : Operation, items : SUBSET Products]

Reply == [saga : Nat, order : Orders, op : Operation, ok : BOOLEAN]

Holding == [reserved : SUBSET Products, taken : SUBSET Products]

NothingHeld == [reserved |-> {}, taken |-> {}]

InventoryInit ==
  /\ requests = {}
  /\ replies = {}
  /\ settled = {}
  /\ stock = [o \in Orders |-> NothingHeld]

\* An operation applies when the order holds what it decreases or releases.
Applicable(h, op, items) ==
  CASE op = "RESERVE"           -> TRUE
    [] op = "RESERVED_DECREASE" -> items \subseteq h.reserved
    [] op = "CANCEL_RESERVED"   -> items \subseteq h.reserved
    [] op = "CANCEL_CONFIRMED"  -> items \subseteq h.taken

Applied(h, op, items) ==
  CASE op = "RESERVE"           -> [h EXCEPT !.reserved = @ \cup items]
    [] op = "RESERVED_DECREASE" -> [reserved |-> h.reserved \ items,
                                    taken    |-> h.taken \cup items]
    [] op = "CANCEL_RESERVED"   -> [h EXCEPT !.reserved = @ \ items]
    [] op = "CANCEL_CONFIRMED"  -> [h EXCEPT !.taken = @ \ items]

ReplyTo(m, ok) == [saga |-> m.saga, order |-> m.order, op |-> m.op, ok |-> ok]

\* The consumer may die after its work and before the delete: then the
\* message is delivered again.
Acknowledge(queue, m) == {queue, queue \ {m}}

Perform(m) ==
  /\ Applicable(stock[m.order], m.op, m.items)
  /\ stock' = [stock EXCEPT ![m.order] = Applied(@, m.op, m.items)]
  /\ settled' = settled \cup {ReplyTo(m, TRUE)}
  /\ replies' = replies \cup {ReplyTo(m, TRUE)}

Refuse(m) ==
  /\ m.op \in FailableOps \/ ~Applicable(stock[m.order], m.op, m.items)
  /\ settled' = settled \cup {ReplyTo(m, FALSE)}
  /\ replies' = replies \cup {ReplyTo(m, FALSE)}
  /\ UNCHANGED stock

AnswerAgain(m) ==
  /\ \E r \in settled : r.saga = m.saga /\ replies' = replies \cup {r}
  /\ UNCHANGED <<settled, stock>>

HandleRequest(m) ==
  /\ m \in requests
  /\ IF \E r \in settled : r.saga = m.saga
       THEN AnswerAgain(m)
       ELSE Perform(m) \/ Refuse(m)
  /\ requests' \in Acknowledge(requests, m)
=============================================================================
