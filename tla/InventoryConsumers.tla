------------------------- MODULE InventoryConsumers -------------------------
(***************************************************************************)
(* One queue of the stock service's replies with its consumers, one        *)
(* goroutine in each replica: the loop that receives up to ten messages,   *)
(* handles them one by one, deletes those whose handler succeeded and      *)
(* leaves the others to the queue's visibility timeout and redrive policy. *)
(* An error of ReceiveMessage ends the loop; the process goes on without   *)
(* it until it is restarted.  The two reply consumers and the one of       *)
(* customer-deleted run the same loop.                                     *)
(***************************************************************************)
EXTENDS Naturals, FiniteSets

CONSTANTS
  Messages,
  Malformed,          \* those whose body no decoder accepts
  Replicas,
  BatchSize,          \* MaxNumberOfMessages
  HandlersMayFail,    \* whether the stores fail under a handler or a delete
  ReceiveMayFail,     \* whether ReceiveMessage may answer an error
  MaxDeaths           \* bound: deaths of a process

ASSUME ConsumersAssumption ==
  /\ Malformed \subseteq Messages
  /\ IsFiniteSet(Replicas)
  /\ BatchSize \in Nat \ {0}
  /\ HandlersMayFail \in BOOLEAN /\ ReceiveMayFail \in BOOLEAN
  /\ MaxDeaths \in Nat

VARIABLES
  queue,      \* where each message is
  receives,   \* how often it was received (ApproximateReceiveCount)
  attempts,   \* how often its handler was called
  handled,    \* messages whose handler succeeded at least once
  worker,     \* the goroutine of each replica
  batch,      \* messages its last receive returned and not gone through
  current,    \* the message it is about to delete
  deaths

vars == <<queue, receives, attempts, handled, worker, batch, current, deaths>>

\* createQueueWithDLQ's redrive policy.
MaxReceives == 3

Place == {"unsent", "visible", "hidden", "deleted", "dead"}

Working(k) == worker[k] = "working"

Init ==
  /\ queue = [m \in Messages |-> "unsent"]
  /\ receives = [m \in Messages |-> 0]
  /\ attempts = [m \in Messages |-> 0]
  /\ handled = {}
  /\ worker = [k \in Replicas |-> "down"]
  /\ batch = [k \in Replicas |-> {}]
  /\ current = [k \in Replicas |-> {}]
  /\ deaths = 0

-----------------------------------------------------------------------------
(* The queue *)

Send(m) ==
  /\ queue[m] = "unsent"
  /\ queue' = [queue EXCEPT ![m] = "visible"]
  /\ UNCHANGED <<receives, attempts, handled, worker, batch, current, deaths>>

\* Thirty seconds after a receive, whatever the consumer is doing.
VisibilityTimeout(m) ==
  /\ queue[m] = "hidden"
  /\ queue' = [queue EXCEPT ![m] = "visible"]
  /\ UNCHANGED <<receives, attempts, handled, worker, batch, current, deaths>>

\* Mutant: a queue without a redrive policy.
NoRedrive(m) == FALSE /\ UNCHANGED vars

Redrive(m) ==
  /\ queue[m] = "visible"
  /\ receives[m] = MaxReceives
  /\ queue' = [queue EXCEPT ![m] = "dead"]
  /\ UNCHANGED <<receives, attempts, handled, worker, batch, current, deaths>>

-----------------------------------------------------------------------------
(* The loop *)

\* Mutant: a receive that finds the limit reached.
DeliverableAlways == {m \in Messages : queue[m] = "visible" /\ receives[m] <= MaxReceives}

Deliverable == {m \in Messages : queue[m] = "visible" /\ receives[m] < MaxReceives}

\* The call waits up to twenty seconds; an empty answer is asked again.
ReceiveMessage(k) ==
  /\ worker[k] = "polling"
  /\ \E got \in SUBSET Deliverable \ {{}} :
       /\ Cardinality(got) <= BatchSize
       /\ queue' = [m \in Messages |-> IF m \in got THEN "hidden" ELSE queue[m]]
       /\ receives' = [m \in Messages |-> IF m \in got THEN receives[m] + 1 ELSE receives[m]]
       /\ batch' = [batch EXCEPT ![k] = got]
  /\ worker' = [worker EXCEPT ![k] = "working"]
  /\ UNCHANGED <<attempts, handled, current, deaths>>

ReceiveFails(k) ==
  /\ ReceiveMayFail
  /\ worker[k] = "polling"
  /\ worker' = [worker EXCEPT ![k] = "ended"]
  /\ UNCHANGED <<queue, receives, attempts, handled, batch, current, deaths>>

Attempts(m) == attempts' = [attempts EXCEPT ![m] = @ + 1]

HandleSucceeds(k, m) ==
  /\ Working(k) /\ current[k] = {} /\ m \in batch[k] \ Malformed
  /\ Attempts(m)
  /\ handled' = handled \cup {m}
  /\ batch' = [batch EXCEPT ![k] = @ \ {m}]
  /\ current' = [current EXCEPT ![k] = {m}]
  /\ UNCHANGED <<queue, receives, worker, deaths>>

\* Mutant: a failure is tried again in place.
FailureKept(k, m) ==
  /\ Working(k) /\ current[k] = {} /\ m \in batch[k]
  /\ m \in Malformed \/ HandlersMayFail
  /\ attempts[m] <= MaxReceives
  /\ Attempts(m)
  /\ UNCHANGED <<queue, receives, handled, worker, batch, current, deaths>>

\* Mutant: the message is deleted whatever its handler answered.
FailureDeleted(k, m) ==
  /\ Working(k) /\ current[k] = {} /\ m \in batch[k]
  /\ m \in Malformed \/ HandlersMayFail
  /\ Attempts(m)
  /\ batch' = [batch EXCEPT ![k] = @ \ {m}]
  /\ current' = [current EXCEPT ![k] = {m}]
  /\ UNCHANGED <<queue, receives, handled, worker, deaths>>

\* The error is logged and the loop goes on with the next message.
HandleFails(k, m) ==
  /\ Working(k) /\ current[k] = {} /\ m \in batch[k]
  /\ m \in Malformed \/ HandlersMayFail
  /\ Attempts(m)
  /\ batch' = [batch EXCEPT ![k] = @ \ {m}]
  /\ UNCHANGED <<queue, receives, handled, worker, current, deaths>>

\* The call may fail, or the receipt handle be stale by now: the queue may
\* keep the message.
DeleteMessage(k, m) ==
  /\ Working(k) /\ m \in current[k]
  /\ \/ queue[m] # "dead" /\ queue' = [queue EXCEPT ![m] = "deleted"]
     \/ UNCHANGED queue
  /\ current' = [current EXCEPT ![k] = {}]
  /\ UNCHANGED <<receives, attempts, handled, worker, batch, deaths>>

PollAgain(k) ==
  /\ Working(k) /\ batch[k] = {} /\ current[k] = {}
  /\ worker' = [worker EXCEPT ![k] = "polling"]
  /\ UNCHANGED <<queue, receives, attempts, handled, batch, current, deaths>>

-----------------------------------------------------------------------------
(* The process *)

\* SIGTERM cancels the workers' context and ends the process as well.
Die(k) ==
  /\ deaths < MaxDeaths /\ worker[k] # "down"
  /\ deaths' = deaths + 1
  /\ worker' = [worker EXCEPT ![k] = "down"]
  /\ batch' = [batch EXCEPT ![k] = {}]
  /\ current' = [current EXCEPT ![k] = {}]
  /\ UNCHANGED <<queue, receives, attempts, handled>>

StartWorkers(k) ==
  /\ worker[k] = "down"
  /\ worker' = [worker EXCEPT ![k] = "polling"]
  /\ UNCHANGED <<queue, receives, attempts, handled, batch, current, deaths>>

Loop(k) ==
  \/ ReceiveMessage(k) \/ PollAgain(k)
  \/ \E m \in Messages : HandleSucceeds(k, m) \/ HandleFails(k, m) \/ DeleteMessage(k, m)

Next ==
  \/ \E k \in Replicas : Loop(k) \/ ReceiveFails(k) \/ Die(k) \/ StartWorkers(k)
  \/ \E m \in Messages : Send(m) \/ VisibilityTimeout(m) \/ Redrive(m)

Spec == Init /\ [][Next]_vars

\* The goroutines run, Kubernetes restarts a dead process, SQS keeps its clock.
Fairness ==
  /\ \A k \in Replicas : WF_vars(Loop(k)) /\ WF_vars(StartWorkers(k))
  /\ \A m \in Messages : WF_vars(VisibilityTimeout(m)) /\ WF_vars(Redrive(m))

FairSpec == Spec /\ Fairness

-----------------------------------------------------------------------------
TypeOK ==
  /\ queue \in [Messages -> Place]
  /\ receives \in [Messages -> 0..MaxReceives]
  /\ attempts \in [Messages -> Nat]
  /\ handled \subseteq Messages
  /\ worker \in [Replicas -> {"down", "polling", "working", "ended"}]
  /\ batch \in [Replicas -> SUBSET Messages]
  /\ current \in [Replicas -> SUBSET Messages]
  /\ deaths \in Nat

(***************************************************************************)
(* At least once: a message leaves the queue for good only when a handler  *)
(* succeeded with it, or dead after three receives; duplicates in two      *)
(* replicas, stale receipts and deaths between handler and delete included *)
(***************************************************************************)
NeverLost ==
  \A m \in Messages : /\ queue[m] = "deleted" => m \in handled
                      /\ queue[m] = "dead" => receives[m] = MaxReceives

(***************************************************************************)
(* The number of handler calls of a message is bounded by its receives: a  *)
(* batch is gone through once, so a message a consumer keeps failing on    *)
(* neither blocks the queue nor is retried without the queue counting it.  *)
(***************************************************************************)
AttemptsCounted == \A m \in Messages : attempts[m] <= receives[m]

(***************************************************************************)
(* Every message sent is dealt with in the end, malformed ones in the DLQ, *)
(* as long as one replica's loop goes on: an error of ReceiveMessage ends  *)
(* a loop for good, and once that has happened in every replica messages   *)
(* wait although each process serves calls and looks healthy.              *)
(***************************************************************************)
EveryMessageEnds ==
  \A m \in Messages :
    (queue[m] # "unsent") ~>
       \/ queue[m] \in {"deleted", "dead"}
       \/ \A k \in Replicas : worker[k] = "ended"

(***************************************************************************)
(* "Mensagens invalidas ou que excedam tres tentativas devem seguir para   *)
(* DLQ" (docs/adr/0001-mensageria.md): a valid message in the DLQ was      *)
(* tried three times.                                                      *)
(***************************************************************************)
DeadAfterThreeAttempts ==
  \A m \in Messages \ Malformed : queue[m] = "dead" => attempts[m] = MaxReceives
=============================================================================
